SPECIFICATION Spec
CONSTANTS
    AppTasks = 3
    JobsMax = 2
    DepthMax = 2
    Guests <- TreesAndJobs
CHECK_DEADLOCK FALSE
INVARIANTS TreeIntact  InputOrdered
PROPERTIES CallbacksRun TeardownEnds InFlightKept FilterKeepsInput
