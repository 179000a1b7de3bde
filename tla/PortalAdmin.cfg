\* Three requests of administrators and of a user whose rights change.
CONSTANTS
  Req = {r1, r2, r3}
  Request <- MCRequest
  User = {root, u1, u2, u3}
  Role = {x1, x2}
  Dept = {d1, d2, d3}
  Func = {f1, f2}
  Super = {root}
  Needs <- MCNeeds
  PermCode <- MCPermCode
  InitRows = {root, u1, u2, x1, d1, d2}
  InitUserRole <- MCUserRole
  InitRoleFunc <- MCRoleFunc
  None = None
  root = root
  u1 = u1
  u2 = u2
  u3 = u3
  x1 = x1
  x2 = x2
  d1 = d1
  d2 = d2
  d3 = d3
  f1 = f1
  f2 = f2
\* All requests may have been answered.
CHECK_DEADLOCK FALSE
SPECIFICATION Spec
SYMMETRY MCSymmetry
INVARIANTS TypeOK AdmittedOnEvidence LinksOfOneRequest SecondWalletNeedsRace
PROPERTIES RefusedOnEvidence OnlyRacesUndo
