\* Two objects over texts without a NUL.
SPECIFICATION Spec
CONSTANTS
    Strings = {s1, s2}
    Temp = Temp
    Blocks = {b1, b2}
    Callers = {"blank", "mixed"}
    CallerText <- MixedTexts
    Chars = {"x", "_", "c", "0"}
    Nul = "0"
    White = {"_"}
    Low = {"_", "c", "0"}
    LocalCapacity = 3
    Null = Null
    CopyReset = FALSE
SYMMETRY Symmetry
PROPERTIES
    ValueSpec
    EachAsPromised
