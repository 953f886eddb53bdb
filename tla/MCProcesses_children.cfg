\* A loaded program and two child slots, two descriptors, one pipe.
SPECIFICATION Spec
CONSTANTS
    StaticPids <- NoStatic
    LoadedPid = 3
    TablePids <- MCTable2
    MaxOpenFiles = 2
    MaxPipes = 1
    RefMax = 6
INVARIANTS
    TableNeverRan
    ParentsOutliveChildren
CHECK_DEADLOCK FALSE
