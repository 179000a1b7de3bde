\* Two requests on two chains: chunks, Multicall, shared flights, failures.
CONSTANTS
  Req = {r1, r2}
  Query <- MCQuery
  Evm = {"ETH"}
  Number <- MCNumber
  Hex <- MCHex
  Prefix <- MCPrefix
  MaxBatch = 2
  MaxHeight = 2
  None = None
\* All requests may have been answered.
CHECK_DEADLOCK FALSE
SPECIFICATION FairSpec
INVARIANTS TypeOK NotBeforeAnchor AnswersTheQuestion AloneIsSnapshot
PROPERTIES OnePool Settles
