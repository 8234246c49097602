CONSTANTS
    SectorSize = 4
    AddrSmall = 3
    WordValues = 256
    InodesPerSector = 2
    s_isize = 2
    EntryWords = 2
    HashedSectors = 2
    StackDepth = 3
    ListCommands <- MCCommands
    Images <- TwoFiles
SPECIFICATION Spec
INVARIANTS
    InodeListsAll
