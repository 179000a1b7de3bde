\* One request at a time; a connection is never given back.
CONSTANTS
  Req = {r1}
  Tenant = {1, 2, 601}
  Half = 600
  Code <- MCCode
  Chain <- MCChain
  Name <- MCName
  CoinType <- MCCoinType
  Derivable <- MCDerivable
  Seeded <- MCSeeded
  Request <- MCOneRequest
  MaxConn = 2
  MaxId = 2
  Idle = Idle
SPECIFICATION Spec
INVARIANTS NoneLeftOpen
CHECK_DEADLOCK FALSE
