-------------------------- MODULE CloseExpression --------------------------
(***************************************************************************)
(* CloseExpression and ReverseCloseExpression of tools/cpplint/cpplint.py: *)
(* the bracket that closes or opens an expression, where "<" and ">" may   *)
(* be brackets of a template or operators.  One step per token; a step has *)
(* the new stack and what is known after it: "on", "found" or "lost".      *)
(***************************************************************************)
EXTENDS CleansedLines

Opening == {"(", "[", "{"}
Closing == {")", "]", "}"}
Closed == [t \in Opening |-> CASE t = "(" -> ")" [] t = "[" -> "]" [] t = "{" -> "}"]
Opened == [t \in Closing |-> CHOOSE o \in Opening : Closed[o] = t]

Step(outcome, stack) == [outcome |-> outcome, stack |-> stack]
On(stack) == Step("on", stack)

Top(stack, t) == stack # <<>> /\ Last(stack) = t

Pop(stack, emptied) ==
    Step(IF Len(stack) = 1 THEN emptied ELSE "on", Front(stack))

(* Without the operators on top.                                           *)
Stripped_FaultyKeeps(stack, t) == stack

Stripped(stack, t) ==
    LET others == {i \in 1 .. Len(stack) : stack[i] # t}
    IN  IF others = {} THEN <<>> ELSE SubSeq(stack, 1, Max(others))

(* The text up to a place ends in the word operator.                       *)
OperatorBefore(line, i) ==
    LET others == {k \in 1 .. i : line[k] # " "}
    IN  /\ others # {}
        /\ line[Max(others)] = "operator"
        /\ Max(others) = 1 \/ line[Max(others) - 1] \notin Words

Previous(line, i, t) == i > 1 /\ line[i - 1] = t

(* CloseExpression looks at brackets only, and at a "<" that is not part   *)
(* of another operator.                                                    *)
IsExpression(line, i) ==
    \/ line[i] \in Opening
    \/ line[i] = "<" /\ ~(i < Len(line) /\ line[i + 1] \in {"<", "="})

Bracket(stack, operator, wanted) ==
    LET s == Stripped(stack, operator)
    IN  IF Top(s, wanted) THEN Pop(s, "found") ELSE Step("lost", <<>>)

Statement(stack, operator) ==
    LET s == Stripped(stack, operator)
    IN  IF s = <<>> THEN Step("lost", <<>>) ELSE On(s)

(* A ">" that CloseExpression takes for an operator: the last character    *)
(* before it is not looked at for the word operator.                       *)
IsArrow(line, i) ==
    \/ Previous(line, i, "-")
    \/ OperatorBefore(line, i - 2) /\ ~Previous(line, i, "operator")

FindEnd(line, i, stack) ==
    LET t == line[i]
    IN  CASE t \in Opening -> On(Append(stack, t))
          [] t = "<" /\ Previous(line, i, "<") ->
               IF Top(stack, "<") THEN Pop(stack, "lost") ELSE On(stack)
          [] t = "<" /\ ~Previous(line, i, "<") ->
               IF OperatorBefore(line, i - 1) THEN On(stack) ELSE On(Append(stack, "<"))
          [] t \in Closing -> Bracket(stack, "<", Opened[t])
          [] t = ">" ->
               IF Top(stack, "<") /\ ~IsArrow(line, i)
               THEN Pop(stack, "found") ELSE On(stack)
          [] t = ";" -> Statement(stack, "<")
          [] OTHER -> On(stack)

(* A ">" that ReverseCloseExpression takes for an operator.                *)
IsOperator(line, i) ==
    \/ Previous(line, i, "-")
    \/ OperatorBefore(line, i - 1)
    \/ /\ Previous(line, i, " ")
       /\ i + 2 <= Len(line) /\ line[i + 1] = "=" /\ line[i + 2] = " "

(* The second "<" of a shift is met first; both are passed over.           *)
IsShift(line, i) == line[i] = "<" /\ Previous(line, i, "<")

FindStart(line, i, stack) ==
    LET t == line[i]
    IN  CASE t \in Closing -> On(Append(stack, t))
          [] t = ">" -> IF IsOperator(line, i) THEN On(stack) ELSE On(Append(stack, ">"))
          [] t = "<" -> IF Top(stack, ">") /\ ~IsShift(line, i)
                        THEN Pop(stack, "found") ELSE On(stack)
          [] t \in Opening -> Bracket(stack, ">", Closed[t])
          [] t = ";" -> Statement(stack, ">")
          [] OTHER -> On(stack)
=============================================================================
