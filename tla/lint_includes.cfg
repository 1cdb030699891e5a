SPECIFICATION Spec
CONSTANTS
    Root <- MCRoot
    HeaderExtensions <- MCHeaderExtensions
    NonHeaderExtensions <- MCNonHeaderExtensions
    CppHeaders <- MCCppHeaders
    CHeaders <- MCCHeaders
    Lowered <- MCLowered
    Sorted <- MCSorted
    IncludingFiles <- MCFiles
INVARIANTS
    DuplicatesReported
    OrderFollowsSections
    UnsortedReported
    OwnHeaderAsked
    UsesIncluded
CHECK_DEADLOCK FALSE
