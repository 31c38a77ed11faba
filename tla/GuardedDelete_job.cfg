SPECIFICATION PersistentSpec
CONSTANTS
  a1 = a1
  a2 = a2
  v1 = v1
  v2 = v2
  None = None
  Kind = "RayJob"
  Agent = {a1}
  Version = {v1, v2}
  Unreliable = FALSE
  MaxUid = 2
PROPERTIES ConfirmConverges
CHECK_DEADLOCK FALSE
