SPECIFICATION Spec
CONSTANTS
  a1 = a1
  a2 = a2
  v1 = v1
  v2 = v2
  None = None
  Kind = "RayService"
  Agent = {a1, a2}
  Version = {v1, v2}
  Unreliable = TRUE
  MaxUid = 1
SYMMETRY Symmetry
INVARIANTS ClosedYieldsNoFingerprint
PROPERTIES CascadeIsConfirmed
CHECK_DEADLOCK FALSE
