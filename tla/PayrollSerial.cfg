\* One request at a time: the handlers together implement the workflow.
CONSTANTS
  Req = {r1}
  PayrollId = {p1, p2}
  Month = {jan, feb}
  Item = {good, bad}
  HexItem = {good}
  Body <- MCTwoMonths
  TxHash = {h1}
  Chain = {arb}
  SupportedChain = {arb}
  NoRow = NoRow
  NoId = NoId
  NoPayment = NoPayment
  Idle = Idle
  jan = jan
  feb = feb
  good = good
  bad = bad
  h1 = h1
  h2 = h2
  arb = arb
  other = other
SPECIFICATION FairSpec
INVARIANTS SlipsOfRow SubmittedSlipsValid
PROPERTIES ImplementsWorkflow FreshMonth ConfirmedIsSettled
CHECK_DEADLOCK FALSE
