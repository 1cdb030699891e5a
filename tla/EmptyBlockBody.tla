--------------------------- MODULE EmptyBlockBody ---------------------------
(***************************************************************************)
(* CheckEmptyBlockBody of tools/cpplint/cpplint.py, for any line of a file *)
(* whose text LintText has cleansed: the condition behind an "if", "for" *)
(* or "while" is closed by CloseExpression, then the block behind it; a body  *)
(* of a semicolon, and a block without anything in it, are reported.       *)
(***************************************************************************)
EXTENDS LintText

VARIABLES
    checked,    \* the line that is checked, 0 if none is
    condition,  \* the <<line, place>> of the end of its condition, or <<>>
    bodies      \* the errors, <<line, "conditional">>, "loop" or "if"

block == <<checked, condition, bodies>>

BlockInit ==
    /\ Init
    /\ checked = 0
    /\ condition = <<>>
    /\ bodies = {}

(* Where the bracket behind the keyword is that a line begins with.        *)
ConditionOf(line) ==
    LET tokens == NotSpace(line)
        others == tokens \ {Min(tokens)}
    IN  IF /\ tokens # {} /\ line[Min(tokens)] \in {"if", "for", "while"}
           /\ others # {} /\ line[Min(others)] = "("
        THEN {Min(others)} ELSE {}

Keyword == elided[checked][Min(NotSpace(elided[checked]))]

(* The first token after a place that is not white space.                  *)
NextTokens(at) ==
    LET behind == {i \in NotSpace(elided[at[1]]) : i > at[2]}
        below  == {n \in at[1] + 1 .. Len(elided) : NotSpace(elided[n]) # {}}
    IN  CASE behind # {} -> {<<at[1], Min(behind)>>}
          [] behind = {} /\ below # {} -> {<<Min(below), Min(NotSpace(elided[Min(below)]))>>}
          [] OTHER -> {}

Follows(at, token) == \E p \in NextTokens(at) : elided[p[1]][p[2]] = token

(* CloseExpression from a bracket of the elided lines.                     *)
CloseFrom(at) ==
    /\ start' = at
    /\ linenum' = at[1]
    /\ pos' = at[2]
    /\ phase' = "close"
    /\ closed' = <<>>
    /\ UNCHANGED <<text, stack, reopened>>

CheckEmptyBlockBody ==
    /\ phase = "checked"
    /\ \E n \in 1 .. Len(elided) : \E i \in ConditionOf(elided[n]) :
          /\ CloseFrom(<<n, i>>)
          /\ checked' = n
    /\ UNCHANGED <<condition, bodies>>

ConditionEnds ==
    /\ phase = "closed" /\ checked # 0 /\ condition = <<>>
    /\ condition' = closed
    /\ LET line == elided[closed[1]]
       IN  bodies' = IF closed[2] < Len(line) /\ line[closed[2] + 1] = ";"
                     THEN {<<closed[1], IF Keyword = "if" THEN "conditional" ELSE "loop">>}
                     ELSE {}
    /\ IF Keyword = "if" /\ Follows(closed, "{")
       THEN \E at \in NextTokens(closed) : CloseFrom(at)
       ELSE phase' = "done" /\ UNCHANGED <<text, search, linenum>>
    /\ UNCHANGED checked

IsBlank(line) == NotSpace(line) = {}

(* The body from the opening to the closing brace, without the comments of *)
(* the line of the closing one; a comment anywhere on the line of the      *)
(* opening one makes it a body.                                            *)
IsEmpty_FaultyElided(open, close) ==
    \A n \in open[1] .. close[1] :
        \A i \in NotSpace(elided[n]) :
            (n = open[1] /\ i <= open[2]) \/ (n = close[1] /\ i >= close[2])

IsEmpty(open, close) ==
    /\ raw_lines[open[1]] = CleanseComments(raw_lines[open[1]])
    /\ IF close[1] = open[1]
       THEN IsBlank(SubSeq(elided[open[1]], open[2] + 1, close[2] - 1))
       ELSE /\ IsBlank(After(elided[open[1]], open[2]))
            /\ \A n \in open[1] + 1 .. close[1] - 1 : IsBlank(raw_lines[n])
            /\ IsBlank(Before(elided[close[1]], close[2]))

BodyEnds ==
    /\ phase = "closed" /\ checked # 0 /\ condition # <<>>
    /\ bodies' = IF IsEmpty(start, closed) /\ ~Follows(closed, "else")
                 THEN bodies \cup {<<condition[1], "if">>} ELSE bodies
    /\ phase' = "done"
    /\ UNCHANGED <<text, search, linenum, checked, condition>>

BlockNext ==
    \/ Next /\ (phase = "closed" => checked = 0) /\ UNCHANGED block
    \/ CheckEmptyBlockBody \/ ConditionEnds \/ BodyEnds

BlockSpec == BlockInit /\ [][BlockNext]_<<vars, block>>
=============================================================================
