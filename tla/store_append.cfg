SPECIFICATION Spec
CONSTANTS
    n1 = n1
    n2 = n2
    f1 = f1
    f2 = f2
    Names = {n1, n2}
    Absent = Absent
    Deleted = Deleted
    Bad = Bad
    Unknown = Unknown
    Files <- TwoFiles
    Blocks <- TwoBlocks
    FullBlocks <- OneFull
    Sectors <- SixSectors
    MaxGen = 0
    FlushSupport = {TRUE, FALSE}
    FailedWriteLands = {TRUE, FALSE}
    SuperReadFaults = FALSE
    MaxFaults = 1
    Commands = {"put", "stream", "del", "compact"}
SYMMETRY NameSymmetry
INVARIANTS TypeOK AlwaysReadable AckedSurvives HeaderAfterData
