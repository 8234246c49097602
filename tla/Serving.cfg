CONSTANTS
    BitsPerVector = 4
    SectorSize = 3
    AddrSmall = 3
    WordValues = 32
    InodesPerSector = 8
    s_isize = 2
    s_block_start = 5
    s_fsize = 10
    Names = {"a", "b", "c", "d", "e", "z", "full", "stale", "text"}
    LongNames = {"x"}
    FullNames = {"full"}
    MaxCrashes = 0
    MaxFaults = 0
    NoJob = NoJob
    SectorsPerPage = 2
    Commands <- ServedCommands
    Requests <- MCRequests
    FirstImages <- Wide
    Garbage <- MCGarbage
SPECIFICATION SSpec
INVARIANTS
    SInv
    ServerTypeOK
    ServedIsStored
    NoHalfState
    NoNameIsMissed
PROPERTIES
    RequestEnds
