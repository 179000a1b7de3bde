\* Requests that race, by name and by alias, at the edges of the 31 bits.
CONSTANTS
  Req = {r1, r2}
  Tenant = {1, 2, 601}
  Half = 600
  Code <- MCCode
  Chain <- MCChain
  Name <- MCName
  CoinType <- MCCoinType
  Derivable <- MCDerivable
  Seeded <- MCSeeded
  Request <- MCRequest
  MaxConn = 3
  MaxId = 3
  Idle = Idle
SPECIFICATION Spec
SYMMETRY MCSymmetry
INVARIANTS AnswersAgree PathLeadsToAddress AnswersAreStored OnlyFoundStaysOpen
CHECK_DEADLOCK FALSE
