CONSTANTS
    BitsPerVector = 4
    SectorSize = 2
    AddrSmall = 3
    WordValues = 32
    InodesPerSector = 4
    s_isize = 3
    s_block_start = 5
    s_fsize = 7
    Names = {"a", "b", "c", "d", "e", "z", "full", "stale", "text"}
    LongNames = {"x"}
    FullNames = {"full"}
    MaxCrashes = 0
    MaxFaults = 0
    NoJob = NoJob
    Commands <- FillCommands
    FirstImages <- FreshOrOversized
    Garbage <- MCGarbage
SPECIFICATION Spec
INVARIANTS
    TypeOK
    TreeShaped
    RefusalsAreTrue
PROPERTIES
    AppendOnly
    VolumeFillsFirst
    NamespaceSpec
