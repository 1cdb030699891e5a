\* Two objects over texts with a NUL inside.
SPECIFICATION Spec
CONSTANTS
    Strings = {s1, s2}
    Temp = Temp
    Blocks = {b1, b2}
    Callers = {"short", "inner", "padded"}
    CallerText <- NulTexts
    Chars = {"x", "_", "c", "0"}
    Nul = "0"
    White = {"_"}
    Low = {"_", "c", "0"}
    LocalCapacity = 3
    Null = Null
    CopyReset = FALSE
SYMMETRY Symmetry
INVARIANTS
    TypeOK
    SoleUser
    LostOnlyByMove
    Terminated
PROPERTIES
    OnlyKnownFaults
    EachAsPromised
