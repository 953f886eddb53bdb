\* Three cells, two byte values, requests of up to four bytes.
SPECIFICATION Spec
CONSTANTS
    Byte <- MCByte
    Zero = 0
    Capacity = 3
    Chunk <- MCChunk
    Count <- MCCount
INVARIANTS
    TypeOK
    PositionsAgree
PROPERTIES
    ImplementsQueue
