SPECIFICATION Spec
CONSTANTS
    Sectors = 5
    BufferSectors = 2
    Images <- AllImages
    Targets <- AllTargets
    MaxFaults = 2
INVARIANT MessagesTrue
CHECK_DEADLOCK FALSE
