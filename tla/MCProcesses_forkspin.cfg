\* fork under runelf, which holds the frame allocator.
SPECIFICATION Spec
CONSTANTS
    StaticPids <- MCStatic
    LoadedPid = 3
    TablePids <- MCTable1
    MaxOpenFiles = 2
    MaxPipes = 1
    RefMax = 6
INVARIANT ForkReturns
CHECK_DEADLOCK FALSE
