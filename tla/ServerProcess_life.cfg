SPECIFICATION Spec
CONSTANTS
  c1 = c1
  c2 = c2
  A = A
  B = B
  InCluster = InCluster
  None = None
  Caller = {c1, c2}
  Context = {A, B, InCluster}
  Kubeconfig <- MCKubeconfig
  Flag = {None, A}
  MaxEdits = 2
INVARIANTS ReportedContextIsUsed FailureIsForgotten ExitTellsTheTruth
PROPERTIES ImplementsOneBinding DrainIsBounded CallsReturn
CHECK_DEADLOCK FALSE
