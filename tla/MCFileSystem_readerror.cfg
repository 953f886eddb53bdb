SPECIFICATION Spec
CONSTANTS
    Name <- MCName
    NameLen = 1
    Data <- MCData
    MaxEntries = 2
    SectorSize = 2
    MaxFileSectors = 2
    PoolSize = 4
    MaxDepth = 2
    PathDepth = 1
    ReadErrors = TRUE
INVARIANTS
    SectorsBelongToOne
