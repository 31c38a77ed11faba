SPECIFICATION PersistentSpec
CONSTANTS
  MaxWait = 4
  Poll = 2
  Waits <- MCWaits
  None = None
  MaxId = 2
INVARIANTS SleepsWithinBound
PROPERTIES ReachedIsReal StoppedIsReported
