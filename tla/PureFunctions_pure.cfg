SPECIFICATION Spec
CONSTANTS
  Id <- MCId
  Base <- MCBase
  RawSpec <- MCRawSpec
  Depth <- MCDepth
  Limit <- MCLimit
  MaxLog = 8
  DefaultTailLines = 2
  DefaultMaxBytes = 4
  DefaultEventLimit = 2
  EventListCap = 3
  Target <- MCTarget
  Happening <- MCHappening
  MaxEvents = 4
  Setting <- MCSetting
  Unset = Unset
  All = All
INVARIANTS MergeIsExact DiffIsExact CollapseKeepsCount TailIsLongest
INVARIANTS WarningsSurvive AcceptedIsServed OneNamespaceUnlessTold
CHECK_DEADLOCK FALSE
