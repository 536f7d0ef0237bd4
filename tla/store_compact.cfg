SPECIFICATION Spec
CONSTANTS
    n1 = n1
    n2 = n2
    f1 = f1
    f2 = f2
    Names = {n1, n2}
    Absent = Absent
    Deleted = Deleted
    Bad = Bad
    Unknown = Unknown
    Files <- OneFile
    Blocks <- TwoBlocks
    FullBlocks <- OneFull
    Sectors <- FiveSectors
    MaxGen = 2
    FlushSupport = {TRUE}
    FailedWriteLands = {TRUE, FALSE}
    SuperReadFaults = FALSE
    MaxFaults = 1
    Commands = {"put", "del", "list", "compact"}
SYMMETRY NameSymmetry
INVARIANTS CatalogFresh GenerationsDiffer
PROPERTIES CompactPreservesView CompactReclaims ImplementsVolume
