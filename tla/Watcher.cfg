SPECIFICATION WatcherSpec
CONSTANTS
  Reviews = {r1, r2, r3}
  Owners = {w1, o1}
  OWNER = w1
  Armed = {r1, r2, r3}
  NoOwner = NoOwner
  Absent = Absent
  TTL = 1
  MaxClock = 6
  MaxConcurrent = 2
  MaxLaunches = 2
  MaxAttempts = 1
  Window = 1
  MaxChildren = 3
INVARIANTS EdgesSpentOnce TrackedWithinCaps LatestWithinCap SignalSparesNewChild
SYMMETRY ReviewSymmetry
VIEW View
CHECK_DEADLOCK FALSE
