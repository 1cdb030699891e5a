--------------------------- MODULE FunctionState ---------------------------
(***************************************************************************)
(* class _FunctionState of tools/cpplint/cpplint.py and                    *)
(* CheckForFunctionLengths, the one that drives it: a function begins at   *)
(* an unindented name and parenthesis, ends at an unindented brace alone   *)
(* on its line, and the lines between are counted.                         *)
(***************************************************************************)
EXTENDS NestingState, FiniteSetsExt

CONSTANTS
    NormalTrigger,  \* _NORMAL_TRIGGER
    TestTrigger,    \* _TEST_TRIGGER
    VerboseLevel    \* _VerboseLevel()

ASSUME FunctionAssumption ==
    /\ NormalTrigger \in Nat \ {0}
    /\ TestTrigger \in Nat \ {0}
    /\ VerboseLevel \in 0 .. 5

FunctionStates == [inside : BOOLEAN, lines : Nat, test : BOOLEAN]

NoFunction == [inside |-> FALSE, lines |-> 0, test |-> FALSE]

-----------------------------------------------------------------------------
Begin(test) == [inside |-> TRUE, lines |-> 0, test |-> test]

CountLine(func) == [func EXCEPT !.lines = IF func.inside THEN @ + 1 ELSE @]

End(func) == [func EXCEPT !.inside = FALSE]

Trigger(func) == IF func.test THEN TestTrigger ELSE NormalTrigger

(* The whole logarithm of how often the trigger goes into the lines.       *)
ErrorLevel(lines, trigger) ==
    Max({k \in 0 .. 5 : k = 0 \/ trigger * 2 ^ k <= lines})

(* Check.                                                                  *)
Check_FaultyTrigger(func, n) ==
    IF func.inside /\ func.lines >= Trigger(func) * 2 ^ VerboseLevel
    THEN {<<n, "readability/fn_size", ErrorLevel(func.lines, Trigger(func))>>}
    ELSE {}

Check(func, n) ==
    IF func.inside /\ func.lines > Trigger(func) * 2 ^ VerboseLevel
    THEN {<<n, "readability/fn_size", ErrorLevel(func.lines, Trigger(func))>>}
    ELSE {}

-----------------------------------------------------------------------------
(* A name in capitals is a macro, unless it is TEST.                       *)
StartsFunction(line) ==
    /\ line.indent = 0
    /\ \E i \in 2 .. Len(line.toks) :
           /\ line.toks[i] = "("
           /\ \A j \in 1 .. i - 1 : line.toks[j] \in {"f", "asm", "TEST", "MACRO"}
           /\ line.toks[i - 1] # "MACRO"

Has(line, t) == Count(line.toks, t) > 0

(* The first line, from n on, that has a semicolon, a closing brace or an  *)
(* opening brace tells what was declared.                                  *)
Telling(file, n) ==
    {m \in n .. Len(file) : \E t \in {";", "}", "{"} : Has(file[m], t)}

HasBody(file, n) ==
    LET m == Min(Telling(file, n))
    IN  ~Has(file[m], ";") /\ ~Has(file[m], "}")

IsTest(line) ==
    \E i \in 2 .. Len(line.toks) : line.toks[i] = "(" /\ line.toks[i - 1] = "TEST"

(* CheckForFunctionLengths: the function state after line n and the errors *)
(* it reports.                                                             *)
FunctionLengths(func, file, n) ==
    LET line == file[n]
    IN  IF StartsFunction(line)
        THEN CASE Telling(file, n) = {} ->
                    [func |-> func, errors |-> {<<n, "readability/fn_size", 5>>}]
               [] Telling(file, n) # {} /\ HasBody(file, n) ->
                    [func |-> Begin(IsTest(line)), errors |-> {}]
               [] OTHER -> [func |-> func, errors |-> {}]
        ELSE IF line.indent = 0 /\ line.toks = <<"}">>
        THEN [func |-> End(func), errors |-> Check(func, n)]
        ELSE [func   |-> IF line.toks = <<>> THEN func ELSE CountLine(func),
              errors |-> {}]
=============================================================================
