SPECIFICATION Spec
CONSTANTS
  c1 = c1
  c2 = c2
  g1 = g1
  i1 = i1
  i2 = i2
  On = On
  Off = Off
  True = True
  A = A
  B = B
  Absent = Absent
  Call = {c1, c2}
  GroupName = {g1}
  Image = {i1, i2}
  Scalar <- MCScalar
  TypedField <- KnownField
  AllowDestructive = FALSE
  Request <- TwoUpdates
  UserEdit <- NoEdits
  UserObject <- Unlabelled
  MaxRevision = 0
PROPERTY UnforcedKeepsUnnamed
CHECK_DEADLOCK FALSE
