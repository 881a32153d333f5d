SPECIFICATION Spec
CONSTANTS
    Line = {"x", "y"}
    MaxLines = 5
    Context = 1
    MinGap = 2
    Reveal = 1
INVARIANTS ShortestDiff FoldsHideNoChange
CHECK_DEADLOCK FALSE
