SPECIFICATION Spec
CONSTANTS
  c1 = c1
  c2 = c2
  e1 = e1
  t1 = t1
  Absent = Absent
  Yes = Yes
  No = No
  Call = {c1, c2}
  Cluster = {e1}
  Template = {t1}
  Request <- MCRequest
  UserJob <- MCUserJob
  UserEdit <- MCUserEdit
  MaxWrites = 2
INVARIANTS OneTarget AnswerTellsReuse OneRecord
PROPERTIES SubmitIsExact KeptForDebugging NoSilentCascade SubmittedRuns
CHECK_DEADLOCK FALSE
