SPECIFICATION FairSpec
CONSTANTS
    Script <- AllScripts
    MaxFaults = 2
INVARIANTS
    NoFalseAlarm
    ZeroMeansPassed
PROPERTIES
    EveryRunEnds
CHECK_DEADLOCK FALSE
