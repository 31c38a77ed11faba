SPECIFICATION Spec
CONSTANTS
  c1 = c1
  c2 = c2
  i1 = i1
  i2 = i2
  A = A
  B = B
  Absent = Absent
  NoSwap = NoSwap
  NewCluster = NewCluster
  Call = {c1}
  Image = {i1, i2}
  Scalar <- MCScalar
  TypedField <- KnownField
  SwapsByDefault = TRUE
  Request <- FirstGroup
  UserEdit <- NoEdits
  UserObject <- HeadOnly
  MaxRevision = 0
PROPERTY AppendIsInPlace
CHECK_DEADLOCK FALSE
