\* Two requests in flight, every interleaving of their database calls.
CONSTANTS
  Req = {r1, r2}
  PayrollId = {p1}
  Month = {jan, feb}
  Item = {good, bad}
  HexItem = {good}
  Body <- MCOneMonth
  TxHash = {h1, h2}
  Chain = {arb, other}
  SupportedChain = {arb}
  NoRow = NoRow
  NoId = NoId
  NoPayment = NoPayment
  Idle = Idle
  jan = jan
  feb = feb
  good = good
  bad = bad
  h1 = h1
  h2 = h2
  arb = arb
  other = other
SPECIFICATION Spec
SYMMETRY MCSymmetry
INVARIANTS TypeOK PaidConfirmed PaymentRecorded ApprovedByAudit SlipsOneBatch
CHECK_DEADLOCK FALSE
