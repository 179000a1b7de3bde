\* Three requests of tenants and of the portal, beside one tenant there is.
CONSTANTS
  Req = {r1, r2, r3}
  Request <- MCRequest
  Unique = {"a", "b"}
  FirstUnique = "a"
  MaxId = 5
  None = None
\* All requests may have been answered.
CHECK_DEADLOCK FALSE
SPECIFICATION Spec
SYMMETRY MCSymmetry
INVARIANTS TypeOK ChannelsPaired OneKeyPerChannel SameUniqueIdNeedsRace OnlyKeysLeak
PROPERTIES OnlyRacesUndo
