SPECIFICATION Spec
CONSTANTS
    n1 = n1
    n2 = n2
    n3 = n3
    f1 = f1
    f2 = f2
    Names = {n1, n2, n3}
    Files = {f1, f2}
    Blocks <- OneAndTwo
    Slots = 2
    Sects = 7
    ProbeSector = 15
    Catalog <- CatalogN1
    CatalogFile <- AllBuiltIn
    Legacy <- LegacyN2
    Extra = {n3}
    Commands = {"put", "del", "rename", "fmt", "seed", "prepare"}
    Interruptible = {"put", "rename"}
    FailedWriteLands = {FALSE}
    MaxFaults = 1
    Absent = Absent
    Torn = Torn
INVARIANTS  ClustersAccounted
PROPERTIES  JobEnds
