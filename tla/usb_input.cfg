SPECIFICATION Spec
CONSTANTS
    Devs = 3
    Slots = 3
    Ports = 2
    Sites = {1, 2, 11}
    Fits <- Mixed
    Starts <- MixedStarts
    VirtIO = TRUE
    Budgets <- MixedBudgets
INVARIANTS MemoryExclusive OneInputPath
PROPERTY InputFollows
