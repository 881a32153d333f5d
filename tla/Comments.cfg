SPECIFICATION FairSpec
CONSTANTS
    Page = {p1}
    Agent = {a1}
    Draft = {d1}
    None = None
    MaxWrites = 2
    MaxPuts = 1
    MaxChains = 2
    MaxFaults = 1
INVARIANTS ThreadsCurrent TextKeptAlone
CHECK_DEADLOCK FALSE
PROPERTIES ThreadsReachPage
