SPECIFICATION Spec
CONSTANTS
    n1 = n1
    n2 = n2
    a = a
    b = b
    s = s
    Names = {n1, n2}
    RootNames = {n1}
    Files <- TwoFiles
    Bundled <- OneBundled
    LegacyRoots <- Roots
    Absent = Absent
    Deleted = Deleted
    Unknown = Unknown
    MaxRecords = 2
    Budgets <- SavesOrUploads
    MaxFaults = 1
    ShortChunks = {s}
    Noise = {b}
INVARIANTS ReadsLatest ListAgrees UploadExact
PROPERTY UploadEnds
