SPECIFICATION Spec
CONSTANTS
    MaxDepth = 16
    MaxLabels = 128
    MaxLocals = 4
    MaxPatches = 256
    MemWords = 64
    JitCap = 1000
    MaxNames = 24
    MaxGlobs = 64
    MaxFns = 16
    MaxLoops = 8
    MaxClasses = 8
    MaxMembers = 16
    MaxEnums = 24
    MaxCases = 32
    BcCap = 1000
    MemBase = 131072
    CodeBase = 262144
    FsBase = 131840
    HeapWords = 32
    MsgMax = 16
    MenuMax = 12
    DepthMax = 64
    BlkBytes = 16
    BlkCount = 2
    FbWidth = 128
    FbHeight = 128
    RandValues = {5, 9}
    Dirtying = 1
    MaxMacros = 24
    MaxPasses = 8
    MaxInclude = 4
    SrcCap = 500
    LineEnd <- MCLineEnd
    Files <- MCFiles
    IntLit <- MCIntLit
    RealLit <- MCRealLit
    StrLit <- MCStrLit
    Inputs <- MCInputs
    Programs <- MCPrograms
    Units <- MCUnits
INVARIANTS  StackBalanced NothingLeft
PROPERTY Terminates
