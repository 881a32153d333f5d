SPECIFICATION FairSpec
CONSTANTS
    Rid = {r1}
    Thread = {t1, t2}
    None = None
    MaxPuts = 1
    MaxRestarts = 1
    MaxFaults = 1
INVARIANTS QueuedOnce NamesItsPdf CurrentAtRest DeletedStaysGone
PROPERTIES EveryRevisionAttempted
CHECK_DEADLOCK FALSE
