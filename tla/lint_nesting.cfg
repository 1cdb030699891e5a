SPECIFICATION Spec
CONSTANTS
    SmallNamespace = 2
    NormalTrigger = 1
    TestTrigger = 2
    VerboseLevel = 0
    Files <- MCFiles
INVARIANTS
    TypeOK
    FirstBranchOnly
    BracesMatched
    ClassEndKnown
    BlocksReported
    FunctionSizeReported
CHECK_DEADLOCK FALSE
