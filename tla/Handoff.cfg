SPECIFICATION HandoffSpec
CONSTANTS
  Reviews = {r1}
  Owners = {o1, o2}
  NoOwner = NoOwner
  Absent = Absent
  TTL = 2
  MaxClock = 7
INVARIANTS LeaseExclusive NoLeftoverStatus FreshHolderRenews
PROPERTY ImplementsBaton
CHECK_DEADLOCK FALSE
