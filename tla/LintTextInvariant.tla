------------------------- MODULE LintTextInvariant -------------------------
(***************************************************************************)
(* The invariant from which LintTextProofs proves the types of the text    *)
(* and of the search: what is searched are places of the elided lines, and *)
(* what is found from a bracket is the bracket that closes its kind.       *)
(***************************************************************************)
EXTENDS LintTextProperties

Searching == {"checked", "close", "closed", "reopen", "done"}

IsToken(at) == \E n \in 1 .. Len(elided) : at \in {<<n, i>> : i \in 1 .. Len(elided[n])}

Token(at) == elided[at[1]][at[2]]

-----------------------------------------------------------------------------
(* Types, and which line is the next one.                                  *)
TextKept ==
    /\ raw \in Texts
    /\ lines \in Seq(Seq(Tokens)) /\ Len(lines) = Len(raw)
    /\ elided \in Seq(Seq(Tokens))
    /\ collapsed \in Seq(Tokens)
    /\ delimiter \in Seq(Tokens)
    /\ delimiter # <<>> => delimiter[1] = ")" /\ Last(delimiter) = "q"
    /\ phase \in {"comments", "raw", "elide"} \cup Searching
    /\ linenum \in 1 .. Len(raw) + 1
    /\ phase \in {"comments", "raw"} => elided = <<>>
    /\ phase = "elide" => Len(elided) = linenum - 1
    /\ phase \in Searching => Len(elided) = Len(raw)

(* A place on the line, its ends included.                                 *)
IsAt(from, to) == linenum \in 1 .. Len(elided) /\ pos \in from .. Len(elided[linenum]) + to

SearchKept ==
    /\ phase = "close" => IsAt(1, 1) /\ IsToken(start) /\ stack \in Seq(Opening \cup {"<"})
    /\ phase = "reopen" => IsAt(0, 0) /\ stack \in Seq(Closing \cup {">"})
    /\ phase \in {"closed", "reopen"} =>
          IsToken(start) /\ IsToken(closed) /\ (phase = "closed" => closed = <<linenum, pos>>)
    /\ phase \notin {"close", "reopen", "done"} => stack = <<>>
    /\ phase \notin {"closed", "reopen", "done"} => closed = <<>>
    /\ stack \in Seq(Opening \cup Closing \cup {"<", ">"})

(* From a bracket, it is at the bottom of the stack, so that nothing but   *)
(* its partner is found.                                                   *)
BottomKept ==
    /\ phase = "close" /\ Token(start) \in Opening =>
          IF stack = <<>> THEN start = <<linenum, pos>> ELSE stack[1] = Token(start)
    /\ phase = "closed" /\ Token(start) \in Opening => Token(closed) = Closed[Token(start)]

BodyKept ==
    /\ checked \in 0 .. Len(raw)
    /\ checked # 0 => phase \in {"close", "closed", "done"}
    /\ checked # 0 /\ phase # "done" /\ condition = <<>> => Token(start) = "("
    /\ condition # <<>> => checked # 0 /\ Token(condition) = ")"

TypeInv == TextKept /\ SearchKept /\ BottomKept /\ BodyKept

=============================================================================
