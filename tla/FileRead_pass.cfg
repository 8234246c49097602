CONSTANTS
    SectorSize = 3
    AddrSmall = 3
    WordValues = 32
    MaxRequest = 8
    IntValues = 96
    Sizes = {0, 1, 3, 4, 5, 6, 7, 8, 10, 12, 13, 16, 17}
    Seconds = {8, 12}
    Files <- MCFiles
    Offsets <- NearAndFar
SPECIFICATION Spec
INVARIANTS
    TypeOK
    OffsetOnBoundary
    ReadIsContent
    BlockReadable
PROPERTIES
    FsReadComplete
    FsReadEnds
