SPECIFICATION Spec
CONSTANTS
    AppTasks = 2
    JobsMax = 2
    DepthMax = 2
    Guests <- NestedWaits
PROPERTY DeathWaitParks
CHECK_DEADLOCK FALSE
