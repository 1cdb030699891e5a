--------------------------- MODULE CleansedLines ---------------------------
(***************************************************************************)
(* How tools/cpplint/cpplint.py takes comments, strings and raw strings    *)
(* out of the lines of a file before it looks at them.                     *)
(*                                                                         *)
(* A line is a sequence of tokens: "x" a letter, "1" a digit, "R" the      *)
(* prefix of a raw string, " ", the quotes "q" and "s" (double and single) *)
(* and, with the backslash before them, "eq", "es" and "eb", the last one  *)
(* an escaped backslash; "//" and, for the two ends of a C comment, "/+"   *)
(* and "+/"; other punctuation, the keywords and "operator" stand for      *)
(* themselves.  Tokens that would make others where they meet do not meet. *)
(* Whether a space is left where a comment was is not kept.                *)
(***************************************************************************)
EXTENDS Integers, SequencesExt, FiniteSetsExt

Keywords == {"if", "for", "while", "else"}
Words == {"x", "1", "R", "operator"} \cup Keywords
Escapes == {"eq", "es", "eb"}
Punctuation ==
    {"q", "s", "//", "/+", "+/", "(", ")", "[", "]", "{", "}", "<", ">", ";", "=", "-"}
Tokens == {" "} \cup Words \cup Escapes \cup Punctuation

Places(line, tokens) == {i \in 1 .. Len(line) : line[i] \in tokens}
Before(line, i) == SubSeq(line, 1, i - 1)
After(line, i) == SubSeq(line, i + 1, Len(line))

(* The tokens at some of the places.                                       *)
Kept(line, places) ==
    LET kept[i \in 0 .. Len(line)] ==
            IF i = 0 THEN <<>>
            ELSE LET was == kept[i - 1]
                 IN  IF i \in places THEN Append(was, line[i]) ELSE was
    IN  kept[Len(line)]

-----------------------------------------------------------------------------
(* Comments over several lines.                                            *)
NotSpace(line) == Places(line, {t \in Range(line) : t # " "})

StartsComment(line) ==
    /\ NotSpace(line) # {}
    /\ line[Min(NotSpace(line))] = "/+"
    /\ Places(line, {"+/"}) = {}

EndsComment(line) ==
    NotSpace(line) # {} /\ line[Max(NotSpace(line))] = "+/"

FindNextMultiLineCommentStart(lines, from) ==
    {n \in from .. Len(lines) : StartsComment(lines[n])}

FindNextMultiLineCommentEnd(lines, from) ==
    {n \in from .. Len(lines) : EndsComment(lines[n])}

RemoveMultiLineCommentsFromRange_FaultyDeletes(lines, begin, end) ==
    SubSeq(lines, 1, begin - 1) \o SubSeq(lines, end + 1, Len(lines))

RemoveMultiLineCommentsFromRange(lines, begin, end) ==
    [n \in 1 .. Len(lines) |-> IF n \in begin .. end THEN <<"/+", "+/">> ELSE lines[n]]

-----------------------------------------------------------------------------
(* CleanseRawStrings.                                                      *)
Occurrences(line, text) ==
    {i \in 1 .. Len(line) - Len(text) + 1 : SubSeq(line, i, i + Len(text) - 1) = text}

(* Where a raw string may begin: the place of the R and of the "(".        *)
RawStarts(line) ==
    {p \in Places(line, {"R"}) \X Places(line, {"("}) :
        /\ p[1] = 1 \/ line[p[1] - 1] \notin Words
        /\ p[2] > p[1] + 1
        /\ line[p[1] + 1] = "q"
        /\ \A k \in p[1] + 2 .. p[2] - 1 : line[k] \notin Escapes \cup {" ", "(", ")"}}

(* The pattern for the text before a raw string that makes it part of a    *)
(* comment.  In a literal a backslash may be taken for itself or, with     *)
(* whatever comes next, for an escape; the pattern tries both.             *)
Spelled(token) ==
    CASE token = "eq" -> <<"backslash", "q">>
      [] token = "es" -> <<"backslash", "s">>
      [] token = "eb" -> <<"backslash", "backslash">>
      [] OTHER        -> <<token>>

PatternStep(mode, t) ==
    LET In(quote, inside, escape) ==
            CASE t = quote       -> {"code"}
              [] t = "backslash" -> {inside, escape}
              [] OTHER           -> {inside}
    IN  CASE mode = "double"         -> In("q", "double", "double escape")
          [] mode = "single"         -> In("s", "single", "single escape")
          [] mode = "double escape"  -> {"double"}
          [] mode = "single escape"  -> {"single"}
          [] mode = "code" /\ t = "q" -> {"double"}
          [] mode = "code" /\ t = "s" -> {"single"}
          [] OTHER                   -> {"code"}

InComment_FaultyNever(line) == FALSE

InComment(line) ==
    LET spelled == FlattenSeq([i \in 1 .. Len(line) |-> Spelled(line[i])])
        modes[i \in 0 .. Len(spelled)] ==
            IF i = 0 THEN {"code"}
            ELSE UNION {PatternStep(mode, spelled[i]) : mode \in modes[i - 1]}
    IN  \E i \in Places(spelled, {"//"}) : "code" \in modes[i - 1]

EmptyString == <<"q", "q">>

-----------------------------------------------------------------------------
(* _CollapseStrings.                                                       *)
WithoutEscapes(line) == Kept(line, {i \in 1 .. Len(line) : line[i] \notin Escapes})

Quotes(line) == Places(line, {"q", "s"})

(* The text ends in a number, letters being no hexadecimal digits here.    *)
EndsInNumber(line) ==
    /\ line # <<>>
    /\ Last(line) = "1"
    /\ LET others == {i \in 1 .. Len(line) : line[i] # "1"}
       IN  IF others = {} THEN TRUE ELSE line[Max(others)] \notin Words

(* The length of the digits, letters and separators a line begins with.    *)
LiteralLength(line) ==
    LET Stops == {i \in 1 .. Len(line) :
                     /\ line[i] \notin Words
                     /\ ~(line[i] = "s" /\ i < Len(line) /\ line[i + 1] \in Words)}
    IN  IF Stops = {} THEN Len(line) ELSE Min(Stops) - 1

-----------------------------------------------------------------------------
(* CleanseComments.                                                        *)
IsCppString(line) ==
    LET quoted == {i \in Places(line, {"q"}) :
                      /\ i > 1 /\ line[i - 1] = "s"
                      /\ i < Len(line) /\ line[i + 1] = "s"}
    IN  Cardinality(Places(line, {"q"}) \ quoted) % 2 = 1

WithoutLineComment(line) ==
    LET comments == Places(line, {"//"})
    IN  IF comments # {} /\ ~IsCppString(Before(line, Min(comments)))
        THEN Before(line, Min(comments)) ELSE line

WithoutComments(line) ==
    LET outside[i \in 0 .. Len(line)] ==
            IF i = 0 THEN TRUE
            ELSE LET was == outside[i - 1]
                 IN  IF was THEN line[i] # "/+" \/ \A j \in i .. Len(line) : line[j] # "+/"
                            ELSE line[i] = "+/"
    IN  Kept(line, {i \in 1 .. Len(line) :
                       outside[i] /\ (outside[i - 1] \/ line[i] # "+/")})

CleanseComments(line) == WithoutComments(WithoutLineComment(line))

-----------------------------------------------------------------------------
(* CheckForMultilineCommentsAndStrings.                                    *)
Multiline_FaultyString(elided, n) ==
    IF Cardinality(Places(elided, {"/+"})) > Cardinality(Places(elided, {"+/"}))
    THEN {<<n, "comment">>} ELSE {}

Multiline(elided, n) ==
    (IF Cardinality(Places(elided, {"/+"})) > Cardinality(Places(elided, {"+/"}))
     THEN {<<n, "comment">>} ELSE {})
      \cup IF Cardinality(Places(elided, {"q"})) % 2 = 1 THEN {<<n, "string">>} ELSE {}
=============================================================================
