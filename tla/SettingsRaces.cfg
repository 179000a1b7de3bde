\* Two saves race, and may lose their delete or their insert.
CONSTANTS
  Req = {r1, r2}
  User = {u1, u2}
  Save <- MCSave
  Value = {a, b}
  Empty = Empty
  DeleteFails = TRUE
  MaxId = 12
  Idle = Idle
  a = a
  b = b
SPECIFICATION Spec
SYMMETRY MCSymmetry
INVARIANTS NoMixture
