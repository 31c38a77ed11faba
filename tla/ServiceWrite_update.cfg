SPECIFICATION Spec
CONSTANTS
  c1 = c1
  c2 = c2
  i1 = i1
  i2 = i2
  A = A
  B = B
  Absent = Absent
  NoSwap = NoSwap
  NewCluster = NewCluster
  Call = {c1, c2}
  Image = {i1, i2}
  Scalar <- MCScalar
  TypedField <- KnownField
  SwapsByDefault = TRUE
  Request <- UpdateRequests
  UserEdit <- UserEdits
  UserObject <- Serving
  MaxRevision = 2
INVARIANTS PredictionHolds
PROPERTIES NothingIsTaken ImplementsAtomicWrite
CHECK_DEADLOCK FALSE
