SPECIFICATION Spec
CONSTANTS
    Name <- MCName
    NameLen = 1
    Data <- MCData
    MaxEntries = 2
    SectorSize = 2
    MaxFileSectors = 2
    PoolSize = 3
    MaxDepth = 2
    PathDepth = 1
    ReadErrors = FALSE
INVARIANTS
    TypeOK
    SectorsBelongToOne
PROPERTY
    ImplementsTree
