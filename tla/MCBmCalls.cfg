CONSTANTS
    BitsPerVector = 3
    MinBit = 2
    MaxBit = 8
SPECIFICATION Spec
INVARIANTS
    TypeOK
    BehindCursorIsFull
PROPERTIES
    PoolSpec
    FindRepeats
    TakesAscend
