\* Who can wait for a child of a replaced program.
SPECIFICATION Spec
CONSTANTS
    StaticPids <- MCStatic
    LoadedPid = 3
    TablePids <- MCTable1
    MaxOpenFiles = 2
    MaxPipes = 1
    RefMax = 6
INVARIANT OnlyRealParentReaps
CHECK_DEADLOCK FALSE
