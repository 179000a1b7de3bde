\* Two TRON requests for the same address and other tokens.
CONSTANTS
  Req = {r1, r2}
  Query <- MCQueryTron
  Evm = {}
  Number <- MCNumber
  Hex <- MCHex
  Prefix <- MCPrefix
  MaxBatch = 2
  MaxHeight = 2
  None = None
\* All requests may have been answered.
CHECK_DEADLOCK FALSE
SPECIFICATION Spec
INVARIANTS TronAnswersTheQuestion
