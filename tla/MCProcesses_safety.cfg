\* A boot-time process, a loaded one and one child slot, two descriptors, one pipe.
SPECIFICATION Spec
CONSTANTS
    StaticPids <- MCStatic
    LoadedPid = 3
    TablePids <- MCTable1
    MaxOpenFiles = 2
    MaxPipes = 1
    RefMax = 6
INVARIANTS
    TypeOK
    RefsCoverHolders
    ContextAgrees
    WaitFrameIntact
PROPERTIES
    OthersFdsUntouched
    ImplementsPipeLifetime
CHECK_DEADLOCK FALSE
