---------------------------- MODULE ProcessLine ----------------------------
(***************************************************************************)
(* The loop of ProcessFileData in tools/cpplint/cpplint.py over the lines  *)
(* of one file, as far as it keeps a state from line to line: ProcessLine  *)
(* updates the nesting state, checks the namespace indentation, leaves     *)
(* lines of inline assembly alone and updates the function state.  After   *)
(* the last line, CheckCompletedBlocks.  The file is chosen at the start.  *)
(***************************************************************************)
EXTENDS FunctionState

CONSTANT
    Files  \* the files to lint, sequences of lines

ASSUME FilesAssumption == Files \subseteq Seq(Lines)

VARIABLES
    file,       \* clean_lines
    linenum,    \* the last line processed
    nest,       \* nesting_state
    func,       \* function_state
    errors,     \* <<line, category, confidence>> or <<line, category>>
    completed   \* CheckCompletedBlocks has run

vars == <<file, linenum, nest, func, errors, completed>>

TypeOK ==
    /\ file \in Files
    /\ linenum \in 0 .. Len(file)
    /\ \A i \in 1 .. Len(nest.stack) :
          /\ nest.stack[i] \in Blocks
          /\ nest.stack[i].start \in 1 .. linenum
          /\ nest.stack[i].last \in 0 .. Len(file)
    /\ \A i \in 1 .. Len(nest.pp) : nest.pp[i].seen_else \in BOOLEAN
    /\ func \in FunctionStates
    /\ completed \in BOOLEAN

Init ==
    /\ file \in Files
    /\ linenum = 0
    /\ nest = [stack |-> <<>>, pp |-> <<>>, previous |-> <<>>, errors |-> {}]
    /\ func = NoFunction
    /\ errors = {}
    /\ completed = FALSE

(* Update and CheckForNamespaceIndentation, on every line.                 *)
NestingErrors(after, n) ==
    after.errors
      \cup IF NamespaceIndented(after, file[n], n)
           THEN {<<n, "runtime/indentation_namespace">>} ELSE {}

ProcessAsmLine ==
    LET n     == linenum + 1
        after == Updated(nest, file, n)
    IN  /\ n <= Len(file)
        /\ InAsmBlock(after.stack)
        /\ linenum' = n
        /\ nest' = after
        /\ errors' = errors \cup NestingErrors(after, n)
        /\ UNCHANGED <<file, func, completed>>

ProcessCodeLine ==
    LET n     == linenum + 1
        after == Updated(nest, file, n)
        inFunction == FunctionLengths(func, file, n)
    IN  /\ n <= Len(file)
        /\ ~InAsmBlock(after.stack)
        /\ linenum' = n
        /\ nest' = after
        /\ func' = inFunction.func
        /\ errors' = errors \cup NestingErrors(after, n) \cup inFunction.errors
        /\ UNCHANGED <<file, completed>>

CheckCompletedBlocks ==
    /\ linenum = Len(file)
    /\ ~completed
    /\ completed' = TRUE
    /\ errors' = errors \cup Uncompleted(nest.stack)
    /\ UNCHANGED <<file, linenum, nest, func>>

Next == ProcessAsmLine \/ ProcessCodeLine \/ CheckCompletedBlocks

Spec == Init /\ [][Next]_vars
=============================================================================
