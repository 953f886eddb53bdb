\* A pipe slot still in use after its last descriptor was closed.
SPECIFICATION Spec
CONSTANTS
    StaticPids <- MCStatic
    LoadedPid = 3
    TablePids <- MCTable1
    MaxOpenFiles = 2
    MaxPipes = 1
    RefMax = 6
PROPERTY ClosedPipeIsFreed
CHECK_DEADLOCK FALSE
