SPECIFICATION Spec
CONSTANTS
    Page = {p1}
    Agent = {a1}
    Draft = {d1, d2}
    None = None
    MaxWrites = 2
    MaxPuts = 0
    MaxChains = 2
    MaxFaults = 1
INVARIANT TextKept
CHECK_DEADLOCK FALSE
