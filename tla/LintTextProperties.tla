------------------------- MODULE LintTextProperties -------------------------
(***************************************************************************)
(* What the elided lines and the brackets found in them should be.  The    *)
(* reference for the elided lines reads the file once, token by token, as  *)
(* a compiler does: a comment, a literal or a raw string runs from where   *)
(* it begins to where it ends, whatever is inside.  The reference for the  *)
(* brackets counts them.                                                   *)
(***************************************************************************)
EXTENDS EmptyBlockBody

TypeOK ==
    /\ phase \in {"comments", "raw", "elide", "checked", "close", "closed", "reopen", "done"}
    /\ Len(lines) = Len(raw)
    /\ linenum \in 1 .. Len(raw) + 1
    /\ delimiter # <<>> => delimiter[1] = ")" /\ Last(delimiter) = "q"
    /\ Len(elided) \in {0, Len(raw)} \/ phase = "elide"
    /\ \A i \in 1 .. Len(stack) : stack[i] \in Opening \cup Closing \cup {"<", ">"}
    /\ checked \in 0 .. Len(raw)
    /\ condition # <<>> => elided[condition[1]][condition[2]] = ")"
    /\ phase \in {"close", "reopen"} => pos \in -1 .. Len(elided[linenum]) + 1

-----------------------------------------------------------------------------
(* The first lines of a file in one sequence, and all of them.             *)
Joined(file) ==
    LET joined[n \in 0 .. Len(file)] ==
            IF n = 0 THEN <<>>
            ELSE LET was == joined[n - 1] IN was \o file[n] \o <<"nl">>
    IN  joined

OneText(file) == Joined(file)[Len(file)]

(* Where in that sequence a <<line, place>> is, and the line of a place.   *)
PlaceOf(file, at) == Len(Joined(file)[at[1] - 1]) + at[2]

LineAt(whole, i) == 1 + Cardinality(Places(Before(whole, i), {"nl"}))

(* A quote after the word that begins at k, a number, and before another   *)
(* letter or digit separates digits.                                       *)
IsSeparator(t, i) ==
    /\ i < Len(t) /\ t[i + 1] \in Words
    /\ \E k \in 1 .. i - 1 :
          /\ t[k] = "1"
          /\ k = 1 \/ t[k - 1] \notin Words \cup {"s"}
          /\ \A j \in k .. i - 1 : t[j] \in Words \cup {"s"}

OpensRaw(t, i) ==
    /\ i > 1 /\ t[i - 1] = "R"
    /\ i = 2 \/ t[i - 2] \notin Words

(* The quote at i closes the raw string whose quote is at from.            *)
ClosesRaw(t, from, i) ==
    LET open == Min({k \in from .. i : t[k] = "("})
        end  == <<")">> \o SubSeq(t, from + 1, open - 1) \o <<"q">>
    IN  /\ i - Len(end) >= open
        /\ SubSeq(t, i - Len(end) + 1, i) = end

(* What the text is in after each token: code, a comment, a literal or,    *)
(* with the place of the quote, a raw string.                              *)
Modes(t) ==
    LET after[i \in 0 .. Len(t)] ==
            IF i = 0 THEN <<"code">>
            ELSE LET was  == after[i - 1]
                     mode == was[1]
                 IN  CASE mode = "code" ->
                            CASE t[i] = "//" -> <<"line">>
                              [] t[i] = "/+" -> <<"block">>
                              [] t[i] = "q"  -> IF OpensRaw(t, i) THEN <<"head", i>>
                                                ELSE <<"double">>
                              [] t[i] = "s"  -> IF IsSeparator(t, i) THEN was ELSE <<"single">>
                              [] OTHER       -> was
                       [] mode = "line"   -> IF t[i] = "nl" THEN <<"code">> ELSE was
                       [] mode = "block"  -> IF t[i] = "+/" THEN <<"code">> ELSE was
                       [] mode = "double" -> IF t[i] \in {"q", "nl"} THEN <<"code">> ELSE was
                       [] mode = "single" -> IF t[i] \in {"s", "nl"} THEN <<"code">> ELSE was
                       [] mode = "head"   -> IF t[i] = "(" THEN <<"raw", was[2]>> ELSE was
                       [] mode = "raw"    -> IF t[i] = "q" /\ ClosesRaw(t, was[2], i)
                                             THEN <<"code">> ELSE was
    IN  after

NoCode == {" ", "nl", "q", "s", "R"}

CodeOf(t, modes, n) ==
    LET code == SelectSeq([i \in 1 .. Len(t) |-> i],
                          LAMBDA i : /\ modes[i - 1] = <<"code">> /\ modes[i] = <<"code">>
                                     /\ t[i] \notin NoCode
                                     /\ LineAt(t, i) = n)
    IN  [k \in 1 .. Len(code) |-> t[code[k]]]

(* The restrictions under which the line by line approach is right.        *)
LiteralsEnd(t, modes) ==
    \A i \in 1 .. Len(t) :
        t[i] = "nl" => modes[i - 1][1] \notin {"double", "single", "head"}

CommentsSimple(t, modes) ==
    \A i \in 1 .. Len(t) :
        modes[i - 1][1] = "block" => t[i] \notin {"q", "s", "//"} \cup Escapes

(* A comment of several lines begins one of them and ends another.         *)
CommentsAlone(t, modes) ==
    \A i \in 1 .. Len(t) :
        modes[i - 1][1] = "block" /\ t[i] = "nl" =>
            LET begin == Max({k \in 1 .. i : modes[k - 1][1] = "code" /\ t[k] = "/+"})
                ends  == {k \in i .. Len(t) : modes[k - 1][1] = "block" /\ t[k] = "+/"}
                Blank(a, b) == \A k \in a .. b : t[k] \in {" ", "nl"}
            IN  /\ \E a \in 0 .. begin - 1 : (a = 0 \/ t[a] = "nl") /\ Blank(a + 1, begin - 1)
                /\ ends # {}
                /\ \E b \in Min(ends) + 1 .. Len(t) : t[b] = "nl" /\ Blank(Min(ends) + 1, b)

(* No escape and then "//" stand on a line before a raw string: in a       *)
(* literal the pattern of InComment may take the quote behind the escape,  *)
(* or behind its backslash, for another one and find a comment.            *)
RawSimple(t, modes) ==
    \A i \in 1 .. Len(t) :
        /\ (t[i] = "R" /\ modes[i - 1][1] = "code") =>
              \A j, k \in 1 .. i - 1 :
                  (j < k /\ t[j] \in Escapes /\ t[k] = "//") => \E n \in j .. i : t[n] = "nl"
        /\ modes[i - 1][1] = "raw" => t[i] # "/+"
        /\ modes[i - 1][1] = "head" => t[i] \in Words \cup {"("}
        /\ t[i] = "R" => modes[i - 1][1] \in {"code", "line", "raw"}

CodeSimple(t, modes) ==
    \A i \in 1 .. Len(t) :
        modes[i - 1][1] = "code" =>
            /\ t[i] \notin Escapes \cup {"+/"}
            /\ t[i] = "s" /\ i > 1 /\ t[i - 1] \in Words => modes[i][1] = "code"

Plain(t, modes) ==
    /\ LiteralsEnd(t, modes)
    /\ CommentsSimple(t, modes)
    /\ CommentsAlone(t, modes)
    /\ RawSimple(t, modes)
    /\ CodeSimple(t, modes)

(* In such a file the elided lines have exactly the code of the file, each *)
(* token on its line, and no error is reported (RemoveMultiLineComments,   *)
(* CleanseRawStrings, _CollapseStrings and CleanseComments one after the   *)
(* other, each without knowing what the later ones take for a comment or a *)
(* literal).                                                               *)
ElidedIsCode ==
    phase = "checked" =>
        LET t     == OneText(raw)
            modes == Modes(t)
        IN  Plain(t, modes) =>
                /\ errors = {}
                /\ \A n \in 1 .. Len(raw) :
                      SelectSeq(elided[n], LAMBDA x : x \notin NoCode) = CodeOf(t, modes, n)

(* A literal or a comment that leaves its line where the approach fails is *)
(* reported on that line, if nothing before it is unusual: a string that   *)
(* does not end, a comment that begins behind code, and one that begins a  *)
(* line when no line from there on ends with the end of a comment, on the  *)
(* line after (CheckForMultilineCommentsAndStrings).                       *)
SpansReported ==
    phase = "checked" =>
        LET t     == OneText(raw)
            modes == Modes(t)
            Ends  == {i \in 1 .. Len(t) :
                         /\ t[i] = "nl"
                         /\ \/ modes[i - 1][1] = "double"
                            \/ modes[i - 1][1] = "block" /\ ~CommentsAlone(t, modes)}
        IN  Ends # {} =>
                LET i == Min(Ends)
                    n == LineAt(t, i)
                    before == Before(t, i)
                IN  (/\ LiteralsEnd(before, modes)
                     /\ CommentsSimple(before, modes)
                     /\ RawSimple(before, modes)
                     /\ CodeSimple(before, modes)
                     /\ \A k \in 1 .. i - 1 : t[k] = "nl" => modes[k][1] = "code")
                    => CASE modes[i - 1][1] = "double" -> <<n, "string">> \in errors
                         [] modes[i - 1][1] # "double" /\ StartsComment(raw[n]) ->
                              (\A m \in n .. Len(raw) : ~EndsComment(raw[m]))
                                => <<n + 1, "unended">> \in errors
                         [] OTHER -> <<n, "comment">> \in errors

-----------------------------------------------------------------------------
(* Of the brackets of the given pairs from a to b, how many more open than *)
(* close.                                                                  *)
Depth(t, pairs, a, b) ==
    Cardinality({k \in a .. b : t[k] \in DOMAIN pairs})
      - Cardinality({k \in a .. b : t[k] \in Range(pairs)})

(* Where as many are closed as were opened from a on.                      *)
Ends(t, pairs, a) ==
    {b \in a + 1 .. Len(t) : t[b] \in Range(pairs) /\ Depth(t, pairs, a, b) = 0}

(* The bracket at a is closed by one of its kind.                          *)
Paired(t, pairs, a) ==
    Ends(t, pairs, a) # {} /\ t[Min(Ends(t, pairs, a))] = pairs[t[a]]

(* The bracket that closes the one at i, the first of its ends, or none if *)
(* one in between is closed by one of another kind.                        *)
Match(t, i, pairs) ==
    {b \in Ends(t, pairs, i) :
        /\ b = Min(Ends(t, pairs, i))
        /\ \A a \in i .. b : t[a] \in DOMAIN pairs => Paired(t, pairs, a)}

(* Nothing but brackets, names and shifts up to a place.                   *)
OnlyShifts(t, b) ==
    /\ t[b + 1] # "="
    /\ \A k \in 1 .. b : t[k] \notin {"-", "=", ";", "operator"}
    /\ \A k \in 3 .. b : SubSeq(t, k - 2, k) # <<"<", "<", "<">>

NoOperators(t, b) ==
    /\ OnlyShifts(t, b)
    /\ \A k \in 2 .. b : t[k] = "<" => t[k - 1] # "<"

WithAngles == Closed @@ ("<" :> ">")

(* From a parenthesis, bracket or brace CloseExpression finds what closes  *)
(* it, over the lines and whatever "<" and ">" are in between, and nothing *)
(* if that is of another kind or missing.  From a "<" it finds the ">" if  *)
(* the text between has brackets in pairs and no operators.                *)
IsClosed ==
    phase = "done" /\ condition = <<>> =>
        LET t == OneText(elided)
            i == PlaceOf(elided, start)
            Is(match) == IF match = {} THEN closed = <<>>
                         ELSE closed # <<>> /\ PlaceOf(elided, closed) \in match
        IN  IF t[i] # "<" THEN Is(Match(t, i, Closed))
            ELSE \A b \in Match(t, i, WithAngles) :
                     NoOperators(t, b) => Is({b})

(* ReverseCloseExpression finds the way back, from a ">" if there are no   *)
(* operators but shifts in between, of which one of them drops a "<" again *)
(* and the other passes over both, and none begins at the start.           *)
IsReopened ==
    phase = "done" /\ checked = 0 /\ closed # <<>> =>
        LET t == OneText(elided)
            i == PlaceOf(elided, start)
        IN  t[i] # "<" \/ (OnlyShifts(t, PlaceOf(elided, closed)) /\ ~Previous(t, i, "<"))
            => reopened = start

(* Every bracket is matched, forward and back again.                       *)
BracketsMatched == IsClosed /\ IsReopened

-----------------------------------------------------------------------------
(* The code of a file as a compiler reads it, each token with its place.   *)
CodeTokens(t, modes) ==
    SelectSeq([i \in 1 .. Len(t) |-> i],
              LAMBDA i : /\ modes[i - 1] = <<"code">> /\ modes[i] = <<"code">>
                         /\ t[i] \notin {" ", "nl"})

Comments(t, modes) ==
    {i \in 1 .. Len(t) : {modes[i - 1][1], modes[i][1]} \cap {"line", "block"} # {}}

(* Of a line that begins with a keyword and a parenthesis, exactly         *)
(* two things are reported, at the line where the condition ends: that a   *)
(* semicolon follows it directly, and that between the braces behind an    *)
(* "if" there is not even a comment, and no "else" behind them             *)
(* (CheckEmptyBlockBody, which reads the body from three forms of the      *)
(* lines).  Nothing is said of an "if" with a comment on the line of its   *)
(* opening brace that is not between the braces, or between them on the    *)
(* line of its closing brace: the code takes the one for a body and the    *)
(* other for none (Misplaced; cpplint.py 4637, 4646).                      *)
EmptyBodiesReported ==
    phase = "done" /\ checked # 0 =>
        LET t     == OneText(raw)
            modes == Modes(t)
            at    == CodeTokens(t, modes)
            code  == [k \in 1 .. Len(at) |-> t[at[k]]]
            LineOf(k) == LineAt(t, at[k])
            if    == Min({k \in 1 .. Len(at) : LineOf(k) = checked})
            Directly(a, b) ==
                \A k \in at[a] + 1 .. at[b] - 1 : t[k] # "nl" /\ {modes[k - 1], modes[k]} # {<<"code">>}
            Semicolon(e) == e < Len(code) /\ code[e + 1] = ";" /\ Directly(e, e + 1)
            Misplaced(open, end) ==
                \E k \in Comments(t, modes) :
                    IF LineAt(t, k) = LineOf(open) THEN k \notin at[open] .. at[end]
                    ELSE LineAt(t, k) = LineOf(end) /\ k < at[end]
            Nothing(open, end) ==
                \A k \in at[open] + 1 .. at[end] - 1 : t[k] \in {" ", "nl"}
            NoBody(open) ==
                /\ open <= Len(code) /\ code[open] = "{"
                /\ \E end \in Match(code, open, Closed) :
                      Nothing(open, end) /\ ~(end < Len(code) /\ code[end + 1] = "else")
            OddComment ==
                \E e \in Match(code, if + 1, Closed) :
                    /\ e < Len(code) /\ code[e + 1] = "{"
                    /\ \E end \in Match(code, e + 1, Closed) : Misplaced(e + 1, end)
        IN  (Plain(t, modes) /\ ~OddComment) =>
                bodies = UNION {
                    (IF ~Semicolon(e) THEN {}
                     ELSE {<<LineOf(e), IF code[if] = "if" THEN "conditional" ELSE "loop">>})
                      \cup IF code[if] = "if" /\ NoBody(e + 1) THEN {<<LineOf(e), "if">>} ELSE {} :
                    e \in Match(code, if + 1, Closed)}
=============================================================================
