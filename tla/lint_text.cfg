SPECIFICATION BlockSpec
CONSTANT
    Texts <- MCTexts
INVARIANTS
    TypeOK
    ElidedIsCode
    SpansReported
    BracketsMatched
    EmptyBodiesReported
CHECK_DEADLOCK FALSE
