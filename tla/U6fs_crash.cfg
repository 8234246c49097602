CONSTANTS
    BitsPerVector = 4
    SectorSize = 3
    AddrSmall = 3
    WordValues = 32
    InodesPerSector = 3
    s_isize = 3
    s_block_start = 5
    s_fsize = 12
    Names = {"a", "b", "c", "d", "e", "z", "full", "stale", "text"}
    LongNames = {"x"}
    FullNames = {"full"}
    MaxCrashes = 2
    MaxFaults = 0
    NoJob = NoJob
    Commands <- RetryCommands
    FirstImages <- Used
    Garbage <- MCGarbage
SPECIFICATION Spec
INVARIANTS
    NoDanglingEntry
    SectorsApart
    AckedIsDurable
    OrphansAreAccounted
PROPERTIES
    NamespaceSpec
