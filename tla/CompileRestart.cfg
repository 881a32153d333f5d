SPECIFICATION FairSpec
CONSTANTS
    Rid = {r1}
    Thread = {t1, t2}
    None = None
    MaxPuts = 1
    MaxRestarts = 1
    MaxFaults = 0
PROPERTY LostJobsHeal
CHECK_DEADLOCK FALSE
