CONSTANTS
    Sectors <- MCSectors
    SectorsPerPage = 2
    Contents = {"old", "new"}
    Absent = "absent"
    MaxFaults = 2
SPECIFICATION Spec
INVARIANTS
    TypeOK
    LostIsReported
PROPERTIES
    LazySpec
