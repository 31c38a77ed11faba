SPECIFICATION Spec
CONSTANTS
  c1 = c1
  c2 = c2
  k1 = k1
  k2 = k2
  p1 = p1
  p2 = p2
  None = None
  Nobody = Nobody
  Caller = {c1, c2}
  Key = {k1, k2}
  MaxDials = 2
  Port = {p1, p2}
  Idle = 1
  MaxTime = 1
INVARIANTS NothingLeaks NoStrayRequests
PROPERTIES ReaperSparesRequests ImplementsCache CallsReturn IdleIsReaped
