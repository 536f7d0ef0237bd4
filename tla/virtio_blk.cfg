SPECIFICATION Spec
CONSTANTS
    FullCapacities = {3}
    RsSects = 2
    ImageSects = {3}
    RsLbaBase = 1
    GptSects = 1
    ProbeSector = 0
    Window = 1
    QSize = 2
    IndexSpace = 6
    RsValues = {r1}
    AbsValues = {a1}
    FlushOffered = TRUE
    LateFetch = {TRUE, FALSE}
    MaxCalls = 3
    Blank = Blank
    Probe = Probe
INVARIANTS SuccessMeansDone WindowAddresses
PROPERTIES CallReturns
