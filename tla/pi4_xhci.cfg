SPECIFICATION Spec
CONSTANTS
    BotCommands = 32
    LiveChecks = 272
    ClusterSectors = {1, 8}
INVARIANTS TranslationMatches RestoredOrReported GoodHardwareEnumerates
PROPERTIES ClaimedQuietly ProbeEnds
CHECK_DEADLOCK FALSE
