SPECIFICATION LongPollSpec
CONSTANTS
  Reviews = {r1, r2}
  Owners = {o1}
  NoOwner = NoOwner
  Absent = Absent
  Waiters = {w1}
  TTL = 1
  MaxClock = 4
INVARIANTS NoSleepThroughFlip NoFlipMissed RowsAreNews
PROPERTY EveryWaitEnds
CHECK_DEADLOCK FALSE
