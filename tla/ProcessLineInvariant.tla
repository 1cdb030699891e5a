------------------------ MODULE ProcessLineInvariant ------------------------
(***************************************************************************)
(* The invariant of the loop over the lines of a file from which           *)
(* ProcessLineProofs proves TypeOK and FirstBranchOnly of ProcessLine.     *)
(* What is on the stack of a branch that is compiled is, while another     *)
(* branch is read, in before_else of the conditional whose #else was the   *)
(* first to hide anything: no later #else touches it, and its #endif puts  *)
(* it back.                                                                *)
(***************************************************************************)
EXTENDS ProcessLineProperties

-----------------------------------------------------------------------------
(* Types: blocks begin at a line that was read.                            *)
BlocksUpTo(n, m) == {b \in Blocks : b.start \in 1 .. n /\ b.last \in 0 .. m}

Stacks(n, m) == Seq(BlocksUpTo(n, m))

Saved(n, m) ==
    [before_if : Stacks(n, m), before_else : Stacks(n, m), seen_else : BOOLEAN]

TypeInv ==
    /\ file \in Files
    /\ linenum \in 0 .. Len(file)
    /\ nest = [stack |-> nest.stack, pp |-> nest.pp, previous |-> nest.previous,
               errors |-> nest.errors]
    /\ nest.stack \in Stacks(linenum, Len(file))
    /\ nest.pp \in Seq(Saved(linenum, Len(file)))
    /\ func \in FunctionStates
    /\ completed \in BOOLEAN

-----------------------------------------------------------------------------
(* pp_stack has the conditionals that are open.                            *)
ConditionalsKept(pp, open) ==
    /\ Len(pp) = Len(open)
    /\ \A i \in 1 .. Len(pp) : pp[i].seen_else = open[i]

(* The first #else that hides the line.                                    *)
IsFirstElse(open, j) == open[j] /\ \A i \in 1 .. j - 1 : ~open[i]

(* The stack of the branches that are compiled is the stack, or the one    *)
(* saved at the first #else.                                               *)
StackKept(state, open, stack) ==
    /\ (\A j \in 1 .. Len(open) : ~open[j]) => state.stack = stack
    /\ \A j \in 1 .. Len(open) :
          IsFirstElse(open, j) => state.pp[j].before_else = stack

BranchesInv ==
    HasDirectives =>
        /\ ConditionalsKept(nest.pp, ElseOpen[linenum])
        /\ StackKept(nest, ElseOpen[linenum], FirstStacks[linenum])

LinesInv == TypeInv /\ BranchesInv
=============================================================================
