\* Three calls over two days, with numbers 0, 1 and 2, the last of which is never drawn.
CONSTANTS
  Req = {r1, r2, r3}
  Key <- MCKey
  Capacity = 3
  NoRow = NoRow
  Nobody = Nobody
  Secret <- MCSecret
  Random <- MCRandom
SPECIFICATION FairSpec
INVARIANTS NumbersInOrder PrintedApart
PROPERTIES ImplementsDispenser CallsReturn
