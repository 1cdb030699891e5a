--------------------------- MODULE LintTextProofs ---------------------------
(***************************************************************************)
(* Proofs that the text of a file keeps its lines while it is cleansed and *)
(* the search stays among its tokens (LintText, EmptyBlockBody), whatever  *)
(* the file, from TypeInv.                                                 *)
(***************************************************************************)
EXTENDS LintTextInvariant, NaturalLemmas, SequenceTheorems, FiniteSetTheorems

-----------------------------------------------------------------------------
(* Kept: what its function has up to each place of the line.               *)
IsKept(k, line, P) ==
    /\ k[0] = <<>>
    /\ \A i \in 1 .. Len(line) :
          k[i] = IF i \in P THEN Append(k[i - 1], line[i]) ELSE k[i - 1]

LEMMA KeptDefined ==
    ASSUME NEW S, NEW line \in Seq(S), NEW P
    PROVE  \E k \in [0 .. Len(line) -> Seq(S)] :
              IsKept(k, line, P) /\ Kept(line, P) = k[Len(line)]
<1> DEFINE N == Len(line)
           One(s, n) == IF n \in P THEN Append(s, line[n]) ELSE s
           step == [n \in 1 .. N |-> [s \in Seq(S) |-> One(s, n)]]
           Body(g) == [n \in 0 .. N |-> IF n = 0 THEN <<>> ELSE One(g[n - 1], n)]
<1>1. N \in Nat
    OBVIOUS
<1>2. ASSUME NEW n \in 1 .. N, NEW s \in Seq(S) PROVE One(s, n) \in Seq(S)
    <2>1. line[n] \in S
        BY ElementOfSeq
    <2> QED BY <2>1, AppendProperties
<1>3. <<>> \in Seq(S)
    OBVIOUS
<1> HIDE DEF N, One
<1>4. step \in [1 .. N -> [Seq(S) -> Seq(S)]]
    BY <1>2
<1> HIDE DEF step
<1>5. PICK h \in [0 .. N -> Seq(S)] :
          h[0] = <<>> /\ \A n \in 1 .. N : h[n] = step[n][h[n - 1]]
    <2>1. \E g : IsRecursion(g, Seq(S), <<>>, N, step)
        BY ONLY <1>1, <1>3, <1>4, Recursion
    <2> QED BY <2>1 DEF IsRecursion
<1>6. ASSUME NEW n \in 1 .. N PROVE h[n] = One(h[n - 1], n)
    <2>1. n - 1 \in 0 .. N /\ h[n - 1] \in Seq(S)
        BY <1>1
    <2> QED BY <1>5, <2>1 DEF step
<1>7. h = Body(h)
    BY <1>1, <1>5, <1>6
<1> DEFINE k == CHOOSE g : g = Body(g)
<1>8. k = Body(k)
    BY <1>7
<1>9. Kept(line, P) = k[N]
    BY DEF Kept, N, One
<1> HIDE DEF k
<1>10. k[0] = <<>> /\ \A n \in 1 .. N : k[n] = One(k[n - 1], n)
    BY <1>1, <1>8
<1> DEFINE Q == {n \in Nat : n <= N => k[n] \in Seq(S)}
<1>11. 0 \in Q
    BY <1>3, <1>10
<1>12. ASSUME NEW n \in Nat, n \in Q PROVE n + 1 \in Q
    <2> SUFFICES ASSUME n + 1 <= N PROVE k[n + 1] \in Seq(S)
        OBVIOUS
    <2>1. PICK m : m = n + 1
        OBVIOUS
    <2>2. m \in 1 .. N /\ m - 1 = n /\ k[n] \in Seq(S)
        BY <1>1, <1>12, <2>1
    <2> QED BY <1>2, <1>10, <2>1, <2>2
<1> HIDE DEF Q
<1>13. Nat \subseteq Q
    BY <1>11, <1>12, Induction
<1>14. \A n \in 0 .. N : k[n] \in Seq(S)
    BY <1>1, <1>13 DEF Q
<1>15. k \in [0 .. N -> Seq(S)]
    BY <1>8, <1>14
<1>16. IsKept(k, line, P)
    BY <1>10 DEF IsKept, N, One
<1> QED BY <1>9, <1>15, <1>16 DEF N

LEMMA KeptType ==
    ASSUME NEW S, NEW line \in Seq(S), NEW P
    PROVE  Kept(line, P) \in Seq(S)
<1>1. Len(line) \in 0 .. Len(line)
    OBVIOUS
<1> QED BY <1>1, KeptDefined

-----------------------------------------------------------------------------
(* The passes over the text.                                               *)
LEMMA PlacesOf ==
    ASSUME NEW line \in Seq(Tokens), NEW T
    PROVE  /\ Places(line, T) \subseteq Nat
           /\ Places(line, T) \subseteq 1 .. Len(line)
           /\ Places(line, T) # {} =>
                 Min(Places(line, T)) \in 1 .. Len(line) /\ line[Min(Places(line, T))] \in T
<1>1. Places(line, T) \subseteq 1 .. Len(line) /\ Places(line, T) \subseteq Nat
    BY DEF Places
<1>2. ASSUME Places(line, T) # {} PROVE Min(Places(line, T)) \in Places(line, T)
    BY <1>1, <1>2, SmallestOf
<1> QED BY <1>1, <1>2 DEF Places

LEMMA NotSpaceOf ==
    ASSUME NEW line \in Seq(Tokens)
    PROVE  /\ NotSpace(line) \subseteq Nat
           /\ NotSpace(line) = {i \in 1 .. Len(line) : line[i] # " "}
           /\ NotSpace(line) # {} => Min(NotSpace(line)) \in NotSpace(line)
<1>1. Range(line) = {line[i] : i \in 1 .. Len(line)}
    BY DEF Range
<1>2. NotSpace(line) = {i \in 1 .. Len(line) : line[i] # " "}
    BY <1>1 DEF NotSpace, Places
<1>3. NotSpace(line) \subseteq Nat
    <2>1. Len(line) \in Nat
        OBVIOUS
    <2>2. \A i \in 1 .. Len(line) : i \in Nat
        BY <2>1
    <2> QED BY <1>2, <2>2, Zenon
<1> HIDE DEF NotSpace
<1>4. NotSpace(line) # {} => Min(NotSpace(line)) \in NotSpace(line)
    BY <1>3, SmallestOf
<1> QED BY <1>2, <1>3, <1>4

LEMMA BeforeAfter ==
    ASSUME NEW line \in Seq(Tokens)
    PROVE  /\ \A i \in 1 .. Len(line) + 1 : Before(line, i) \in Seq(Tokens)
           /\ \A i \in 0 .. Len(line) : After(line, i) \in Seq(Tokens)
<1>1. ASSUME NEW i \in 1 .. Len(line) + 1 PROVE Before(line, i) \in Seq(Tokens)
    <2>1. 1 \in 1 .. Len(line) + 1 /\ i - 1 \in 1 - 1 .. Len(line)
        OBVIOUS
    <2> QED BY <2>1, SubSeqProperties DEF Before
<1>2. ASSUME NEW i \in 0 .. Len(line) PROVE After(line, i) \in Seq(Tokens)
    <2>1. i + 1 \in 1 .. Len(line) + 1 /\ Len(line) \in (i + 1) - 1 .. Len(line)
        OBVIOUS
    <2> QED BY <2>1, SubSeqProperties DEF After
<1> QED BY <1>1, <1>2

LEMMA ConcatIn ==
    ASSUME NEW s \in Seq(Tokens), NEW u \in Seq(Tokens)
    PROVE  s \o u \in Seq(Tokens)
OBVIOUS

LEMMA OneOrTwo ==
    ASSUME NEW S
    PROVE  \A a, b \in S : /\ <<a>> \in Seq(S) /\ Len(<<a>>) = 1 /\ <<a>>[1] = a
                           /\ <<a, b>> \in Seq(S)
OBVIOUS

LEMMA TokensOf == {"q", "s", ")"} \subseteq Tokens
BY DEF Tokens, Punctuation

LEMMA EmptyStringType == EmptyString \in Seq(Tokens) /\ <<"s", "s">> \in Seq(Tokens)
<1>1. \A a, b \in Tokens : <<a, b>> \in Seq(Tokens)
    BY OneOrTwo
<1>2. "q" \in Tokens /\ "s" \in Tokens
    BY TokensOf
<1> QED BY <1>1, <1>2 DEF EmptyString

(* Where a text occurs, it begins and ends on the line.                    *)
LEMMA OccurrencesOf ==
    ASSUME NEW line \in Seq(Tokens), NEW end \in Seq(Tokens), end # <<>>,
           Occurrences(line, end) # {}
    PROVE  LET i == Min(Occurrences(line, end))
           IN  /\ i \in 1 .. Len(line)
               /\ i + Len(end) - 1 \in 1 .. Len(line)
               /\ line[i] = end[1]
<1> DEFINE i == Min(Occurrences(line, end))
<1>1. Len(end) \in Nat /\ Len(end) # 0 /\ Len(line) \in Nat
    BY EmptySeq
<1>2. i \in Occurrences(line, end)
    <2>1. Occurrences(line, end) \subseteq Nat
        BY DEF Occurrences
    <2> QED BY <2>1, SmallestOf
<1> HIDE DEF i
<1>3. i \in 1 .. Len(line) - Len(end) + 1 /\ SubSeq(line, i, i + Len(end) - 1) = end
    BY <1>2 DEF Occurrences
<1>4. PICK j : j = i + Len(end) - 1
    OBVIOUS
<1>5. i \in 1 .. Len(line) + 1 /\ j \in i - 1 .. Len(line) /\ i <= j /\ i \in 1 .. Len(line)
      /\ j \in 1 .. Len(line)
    BY <1>1, <1>3, <1>4
<1>6. SubSeq(line, i, j)[1] = line[i + 1 - 1]
    <2>1. 1 \in 1 .. j - i + 1
        BY <1>5
    <2> QED BY <1>5, <2>1, SubSeqProperties
<1>7. line[i] = end[1]
    BY <1>3, <1>4, <1>5, <1>6
<1> QED BY <1>4, <1>5, <1>7 DEF i

LEMMA CleanseCommentsType ==
    ASSUME NEW line \in Seq(Tokens)
    PROVE  CleanseComments(line) \in Seq(Tokens)
<1>1. WithoutLineComment(line) \in Seq(Tokens)
    <2> DEFINE p == Min(Places(line, {"//"}))
    <2>1. Places(line, {"//"}) # {} => p \in 1 .. Len(line) + 1
        BY PlacesOf
    <2> QED BY <2>1, BeforeAfter DEF WithoutLineComment
<1>2. ASSUME NEW s \in Seq(Tokens) PROVE WithoutComments(s) \in Seq(Tokens)
    BY KeptType DEF WithoutComments
<1> QED BY <1>1, <1>2 DEF CleanseComments

LEMMA WithoutEscapesType ==
    ASSUME NEW line \in Seq(Tokens)
    PROVE  WithoutEscapes(line) \in Seq(Tokens)
BY KeptType DEF WithoutEscapes

LEMMA LiteralLengthType ==
    ASSUME NEW line \in Seq(Tokens)
    PROVE  LiteralLength(line) \in 0 .. Len(line)
<1> DEFINE Stops == {i \in 1 .. Len(line) :
                        /\ line[i] \notin Words
                        /\ ~(line[i] = "s" /\ i < Len(line) /\ line[i + 1] \in Words)}
<1>1. Len(line) \in Nat /\ Stops \subseteq 1 .. Len(line) /\ Stops \subseteq Nat
    OBVIOUS
<1>2. Stops # {} => Min(Stops) \in 1 .. Len(line)
    <2> HIDE DEF Stops
    <2> QED BY <1>1, SmallestOf
<1>3. LiteralLength(line) = IF Stops = {} THEN Len(line) ELSE Min(Stops) - 1
    BY DEF LiteralLength
<1> HIDE DEF Stops
<1> QED BY <1>1, <1>2, <1>3

(* The raw string that begins first is between two places.                 *)
LEMMA FirstRawOf ==
    ASSUME NEW line \in Seq(Tokens), RawStarts(line) # {}
    PROVE  LET p == CHOOSE p \in RawStarts(line) : \A q \in RawStarts(line) : p[1] <= q[1]
           IN  p[1] \in 1 .. Len(line) /\ p[2] \in 1 .. Len(line) /\ p[2] > p[1] + 1
<1> DEFINE R == RawStarts(line)
           firsts == {q[1] : q \in R}
<1>1. \A q \in R : /\ q[1] \in 1 .. Len(line) /\ q[2] \in 1 .. Len(line)
                   /\ q[2] > q[1] + 1
    BY PlacesOf DEF RawStarts
<1>2. firsts \subseteq Nat /\ firsts # {}
    BY <1>1
<1> HIDE DEF R
<1>3. PICK x \in firsts : \A y \in firsts : x <= y
    BY <1>2, LeastElement
<1>4. \E p \in R : \A q \in R : p[1] <= q[1]
    BY <1>3
<1> DEFINE p == CHOOSE p \in R : \A q \in R : p[1] <= q[1]
<1>5. p \in R
    BY <1>4
<1> QED BY <1>1, <1>5 DEF R

LEMMA MiddleOf ==
    ASSUME NEW line \in Seq(Tokens), NEW a \in 1 .. Len(line), NEW b \in 1 .. Len(line),
           b > a + 1
    PROVE  SubSeq(line, a + 2, b - 1) \in Seq(Tokens)
<1>1. a + 2 \in 1 .. Len(line) + 1 /\ b - 1 \in (a + 2) - 1 .. Len(line)
    OBVIOUS
<1> QED BY <1>1, SubSeqProperties

(* What ends a raw string has its parenthesis first and its quote last.    *)
LEMMA DelimiterOf ==
    ASSUME NEW s \in Seq(Tokens)
    PROVE  LET end == <<")">> \o s \o <<"q">>
           IN  end \in Seq(Tokens) /\ end # <<>> /\ end[1] = ")" /\ Last(end) = "q"
<1> DEFINE end == <<")">> \o s \o <<"q">>
<1>1. \A a \in Tokens : <<a>> \in Seq(Tokens) /\ Len(<<a>>) = 1 /\ <<a>>[1] = a
    BY OneOrTwo
<1>2. PICK x \in Seq(Tokens) : x = <<")">> /\ Len(x) = 1 /\ x[1] = ")"
    BY <1>1, TokensOf
<1>3. PICK y \in Seq(Tokens) : y = <<"q">> /\ Len(y) = 1 /\ y[1] = "q"
    BY <1>1, TokensOf
<1>4. PICK z \in Seq(Tokens) : z = x \o s /\ Len(z) = 1 + Len(s) /\ z[1] = ")"
    <2>1. x \o s \in Seq(Tokens) /\ Len(x \o s) = 1 + Len(s)
        BY <1>2, ConcatProperties
    <2>2. 1 \in 1 .. Len(x) + Len(s) /\ 1 <= Len(x)
        BY <1>2, LenProperties
    <2>3. (x \o s)[1] = x[1]
        BY <2>2, ConcatProperties
    <2> QED BY <1>2, <2>1, <2>3
<1>5. /\ z \o y \in Seq(Tokens) /\ Len(z \o y) = Len(z) + 1
      /\ (z \o y)[1] = ")" /\ (z \o y)[Len(z) + 1] = "q"
    BY <1>3, <1>4, ConcatProperties
<1>6. end = z \o y
    BY <1>2, <1>3, <1>4
<1> QED BY <1>4, <1>5, <1>6, EmptySeq DEF Last

-----------------------------------------------------------------------------
(* TextKept is preserved by the passes over the text.                      *)
LEMMA TextInit ==
    ASSUME BlockInit
    PROVE  TypeInv
<1>1. raw \in Seq(Seq(Tokens)) /\ Len(raw) \in Nat
    BY TextsAssumption DEF BlockInit, Init
<1>2. <<>> \in Seq(Tokens) /\ <<>> \in Seq(Seq(Tokens))
      /\ <<>> \in Seq(Opening \cup Closing \cup {"<", ">"})
    OBVIOUS
<1>3. TextKept
    BY <1>1, <1>2 DEF TextKept, Searching, BlockInit, Init
<1>4. SearchKept
    BY <1>2 DEF SearchKept, BlockInit, Init
<1>5. BottomKept /\ BodyKept
    BY <1>1 DEF BottomKept, BodyKept, BlockInit, Init
<1> QED BY <1>3, <1>4, <1>5 DEF TypeInv

(* Before the lines are searched nothing of the search is there.           *)
LEMMA BeforeSearch ==
    ASSUME TypeInv, UNCHANGED <<search, block>>,
           phase \in {"comments", "raw", "elide"},
           phase' \in {"comments", "raw", "elide", "checked"}, raw' = raw
    PROVE  SearchKept' /\ BottomKept' /\ BodyKept'
<1>1. stack = <<>> /\ closed = <<>> /\ checked = 0 /\ condition = <<>>
    BY DEF TypeInv, SearchKept, BodyKept
<1>2. stack' = <<>> /\ closed' = <<>> /\ checked' = 0 /\ condition' = <<>>
    BY <1>1 DEF search, block
<1>3. <<>> \in Seq(Opening \cup Closing \cup {"<", ">"})
    OBVIOUS
<1>4. SearchKept'
    BY <1>2, <1>3 DEF SearchKept
<1>5. BottomKept'
    BY DEF BottomKept
<1>6. BodyKept'
    BY <1>2 DEF TypeInv, BodyKept
<1> QED BY <1>4, <1>5, <1>6

LEMMA RewrittenType ==
    ASSUME TextKept, NEW line \in Seq(Tokens), NEW inside \in Seq(Tokens), NEW n,
           inside # <<>> => inside[1] = ")" /\ Last(inside) = "q",
           InRaw, n \in {linenum, linenum + 1}, Rewritten(line, inside, n)
    PROVE  TextKept'
<1>1. /\ lines \in Seq(Seq(Tokens)) /\ Len(lines) = Len(raw) /\ Len(raw) \in Nat
      /\ linenum \in 1 .. Len(raw) /\ phase = "raw"
    BY TextsAssumption DEF TextKept, InRaw
<1>2. lines' \in Seq(Seq(Tokens)) /\ Len(lines') = Len(lines)
    BY <1>1 DEF Rewritten
<1>3. UNCHANGED <<raw, collapsed, elided, phase>> /\ delimiter' = inside /\ linenum' = n
    BY DEF Rewritten
<1>4. n \in 1 .. Len(raw) + 1
    BY <1>1
<1> QED BY <1>1, <1>2, <1>3, <1>4 DEF TextKept, Searching

LEMMA RawTextType ==
    ASSUME TextKept, RawStringEnds \/ RawStringGoesOn \/ RawStringBegins \/ NoRawString
    PROVE  TextKept' /\ UNCHANGED <<search, raw>> /\ phase = "raw" /\ phase' = "raw"
<1>1. InRaw /\ UNCHANGED <<search, raw>> /\ phase = "raw" /\ phase' = "raw"
    BY DEF RawStringEnds, RawStringGoesOn, RawStringBegins, NoRawString, Rewritten, InRaw
<1>2. Line \in Seq(Tokens) /\ Len(Line) \in Nat
    BY <1>1 DEF TextKept, InRaw, Line
<1>3. delimiter \in Seq(Tokens)
      /\ (delimiter # <<>> => delimiter[1] = ")" /\ Last(delimiter) = "q")
    BY DEF TextKept
<1>4. <<>> \in Seq(Tokens)
    OBVIOUS
<1>5. CASE RawStringEnds
    <2> DEFINE ends == Occurrences(Line, delimiter)
               line == Before(Line, Min(NotSpace(Line))) \o EmptyString
                          \o After(Line, Min(ends) + Len(delimiter) - 1)
    <2>1. delimiter # <<>> /\ ends # {} /\ Rewritten(line, <<>>, linenum)
        BY <1>5 DEF RawStringEnds
    <2>2. /\ Min(ends) \in 1 .. Len(Line) /\ Line[Min(ends)] = ")"
          /\ Min(ends) + Len(delimiter) - 1 \in 1 .. Len(Line)
        BY <1>2, <1>3, <2>1, OccurrencesOf
    <2>3. NotSpace(Line) # {}
        BY <1>2, <2>2, NotSpaceOf
    <2>4. Min(NotSpace(Line)) \in 1 .. Len(Line) + 1
        <3>1. Min(NotSpace(Line)) \in NotSpace(Line)
            BY <1>2, <2>3, NotSpaceOf
        <3>2. \A i \in NotSpace(Line) : i \in 1 .. Len(Line)
            BY <1>2, NotSpaceOf
        <3> QED BY <1>2, <3>1, <3>2
    <2>5. Min(ends) + Len(delimiter) - 1 \in 0 .. Len(Line)
        BY <2>2
    <2>6. line \in Seq(Tokens)
        BY <1>2, <2>4, <2>5, BeforeAfter, EmptyStringType, ConcatIn
    <2> HIDE DEF line
    <2> QED BY <1>1, <1>4, <2>1, <2>6, RewrittenType
<1>6. CASE RawStringGoesOn
    BY <1>1, <1>3, <1>6, EmptyStringType, RewrittenType DEF RawStringGoesOn
<1>7. CASE RawStringBegins
    <2> DEFINE p == FirstRaw
               head == Before(Line, p[1])
               tail == After(Line, p[2])
               mid == SubSeq(Line, p[1] + 2, p[2] - 1)
               end == <<")">> \o mid \o <<"q">>
               ends == Occurrences(tail, end)
               done == head \o EmptyString \o After(tail, Min(ends) + Len(end) - 1)
    <2>1. IsRaw /\ IF ends # {} THEN Rewritten(done, <<>>, linenum)
                   ELSE Rewritten(head \o EmptyString, end, linenum + 1)
        BY <1>7 DEF RawStringBegins
    <2>2. p[1] \in 1 .. Len(Line) /\ p[2] \in 1 .. Len(Line) /\ p[2] > p[1] + 1
        BY <1>2, <2>1, FirstRawOf DEF IsRaw, FirstRaw
    <2> HIDE DEF p
    <2>3. p[1] \in 1 .. Len(Line) + 1 /\ p[2] \in 0 .. Len(Line)
        BY <2>2
    <2>4. head \in Seq(Tokens) /\ tail \in Seq(Tokens)
        BY <1>2, <2>3, BeforeAfter
    <2>5. mid \in Seq(Tokens)
        BY <1>2, <2>2, MiddleOf
    <2> HIDE DEF head, tail, mid
    <2>6. end \in Seq(Tokens) /\ end # <<>> /\ end[1] = ")" /\ Last(end) = "q"
        BY <2>5, DelimiterOf
    <2> HIDE DEF end
    <2>7. head \o EmptyString \in Seq(Tokens)
        BY <2>4, EmptyStringType, ConcatIn
    <2>8. CASE ends # {}
        <3>1. Min(ends) + Len(end) - 1 \in 1 .. Len(tail)
            BY <2>4, <2>6, <2>8, OccurrencesOf
        <3>2. After(tail, Min(ends) + Len(end) - 1) \in Seq(Tokens)
            BY <2>4, <3>1, BeforeAfter
        <3>3. done \in Seq(Tokens)
            BY <2>7, <3>2, ConcatIn
        <3> HIDE DEF done, ends
        <3> QED BY <1>1, <1>4, <2>1, <2>8, <3>3, RewrittenType
    <2>9. CASE ends = {}
        <3> HIDE DEF done, ends
        <3> QED BY <1>1, <2>1, <2>6, <2>7, <2>9, RewrittenType
    <2> QED BY <2>8, <2>9
<1>8. CASE NoRawString
    BY <1>1, <1>2, <1>4, <1>8, RewrittenType DEF NoRawString
<1> QED BY <1>1, <1>5, <1>6, <1>7, <1>8

LEMMA CommentTextType ==
    ASSUME TextKept, CommentRemoved \/ CommentsDone \/ RawStringsDone
    PROVE  /\ TextKept' /\ UNCHANGED <<search, raw>>
           /\ phase \in {"comments", "raw"} /\ phase' \in {"comments", "raw", "elide"}
<1>1. /\ lines \in Seq(Seq(Tokens)) /\ Len(lines) = Len(raw) /\ Len(raw) \in Nat
      /\ linenum \in 1 .. Len(raw) + 1 /\ raw \in Texts
    BY TextsAssumption DEF TextKept
<1>2. CASE CommentRemoved
    <2> DEFINE b == Min(CommentBegins)
               e == Min(CommentEnds)
    <2>1. /\ phase = "comments" /\ CommentBegins # {} /\ CommentEnds # {}
          /\ lines' = RemoveMultiLineCommentsFromRange(lines, b, e)
          /\ linenum' = e + 1
          /\ UNCHANGED <<raw, delimiter, collapsed, elided, search, phase>>
        BY <1>2 DEF CommentRemoved
    <2>2. CommentBegins \subseteq 1 .. Len(lines) /\ CommentBegins \subseteq Nat
        BY <1>1 DEF CommentBegins, FindNextMultiLineCommentStart
    <2>3. b \in CommentBegins
        BY <2>1, <2>2, SmallestOf
    <2> HIDE DEF b
    <2>4. \A n \in CommentEnds : n \in 1 .. Len(lines) /\ n \in Nat
        <3>1. b \in 1 .. Len(lines) /\ Len(lines) \in Nat
            BY <1>1, <2>2, <2>3
        <3>2. \A n \in CommentEnds : n \in b .. Len(lines)
            BY DEF CommentEnds, FindNextMultiLineCommentEnd, b
        <3> QED BY <3>1, <3>2
    <2>5. e \in 1 .. Len(lines)
        <3>1. CommentEnds \subseteq Nat
            BY <2>4
        <3> QED BY <2>1, <2>4, <3>1, SmallestOf
    <2> HIDE DEF e
    <2>6. lines' \in Seq(Seq(Tokens)) /\ Len(lines') = Len(lines)
        <3>1. "/+" \in Tokens /\ "+/" \in Tokens
            BY DEF Tokens, Punctuation
        <3>2. <<"/+", "+/">> \in Seq(Tokens)
            BY <3>1, OneOrTwo
        <3>3. \A n \in 1 .. Len(lines) : lines[n] \in Seq(Tokens)
            BY <1>1
        <3>4. lines' = [n \in 1 .. Len(lines) |->
                          IF n \in b .. e THEN <<"/+", "+/">> ELSE lines[n]]
            BY <2>1 DEF RemoveMultiLineCommentsFromRange
        <3>5. \A n \in 1 .. Len(lines) : lines'[n] \in Seq(Tokens)
            BY <3>2, <3>3, <3>4
        <3> QED BY <1>1, <3>4, <3>5
    <2>7. linenum' \in 1 .. Len(raw) + 1
        BY <1>1, <2>1, <2>5
    <2> QED BY <1>1, <2>1, <2>6, <2>7 DEF TextKept, Searching
<1>3. CASE CommentsDone
    <2>1. /\ phase = "comments" /\ phase' = "raw" /\ linenum' = 1
          /\ UNCHANGED <<raw, lines, delimiter, collapsed, elided, search>>
        BY <1>3 DEF CommentsDone
    <2> QED BY <1>1, <2>1 DEF TextKept, Searching
<1>4. CASE RawStringsDone
    <2>1. /\ phase = "raw" /\ phase' = "elide" /\ linenum' = 1
          /\ UNCHANGED <<raw, lines, delimiter, collapsed, elided, search>>
        BY <1>4 DEF RawStringsDone, text
    <2>2. elided = <<>> /\ Len(elided) = 0
        BY <2>1 DEF TextKept
    <2> QED BY <1>1, <2>1, <2>2 DEF TextKept, Searching
<1> QED BY <1>2, <1>3, <1>4

(* One quote, or the rest of a line, is taken from the line and put to     *)
(* what is done.                                                           *)
LEMMA CollapsedType ==
    ASSUME TextKept, NEW done \in Seq(Tokens), NEW rest \in Seq(Tokens),
           phase = "elide", linenum <= Len(lines), Collapsed(done, rest)
    PROVE  TextKept' /\ UNCHANGED <<search, raw>> /\ phase' = phase
<1>1. /\ lines \in Seq(Seq(Tokens)) /\ Len(lines) = Len(raw) /\ Len(raw) \in Nat
      /\ linenum \in 1 .. Len(raw) /\ collapsed \in Seq(Tokens)
    BY TextsAssumption DEF TextKept
<1>2. lines' \in Seq(Seq(Tokens)) /\ Len(lines') = Len(lines)
    BY <1>1 DEF Collapsed
<1>3. collapsed' \in Seq(Tokens)
    BY <1>1, ConcatIn DEF Collapsed
<1>4. UNCHANGED <<raw, delimiter, elided, phase, linenum, search>>
    BY DEF Collapsed
<1> QED BY <1>1, <1>2, <1>3, <1>4 DEF TextKept, Searching

LEMMA RestType ==
    ASSUME TextKept, linenum <= Len(lines)
    PROVE  /\ Rest \in Seq(Tokens)
           /\ Quotes(Rest) # {} =>
                 First \in 1 .. Len(Rest) /\ Head_ \in Seq(Tokens) /\ Tail_ \in Seq(Tokens)
<1>1. Line \in Seq(Tokens)
    BY TextsAssumption DEF TextKept, Line
<1>2. Rest \in Seq(Tokens)
    BY <1>1, WithoutEscapesType DEF Rest
<1>3. Quotes(Rest) # {} => First \in 1 .. Len(Rest)
    BY <1>2, PlacesOf DEF First, Quotes
<1>4. Quotes(Rest) # {} => First \in 1 .. Len(Rest) + 1 /\ First \in 0 .. Len(Rest)
    BY <1>2, <1>3
<1>5. Quotes(Rest) # {} => Head_ \in Seq(Tokens) /\ Tail_ \in Seq(Tokens)
    BY <1>2, <1>4, BeforeAfter DEF Head_, Tail_
<1> QED BY <1>2, <1>3, <1>5

LEMMA AfterPlace ==
    ASSUME NEW line \in Seq(Tokens), NEW T, Places(line, T) # {}
    PROVE  After(line, Min(Places(line, T))) \in Seq(Tokens)
<1>1. Min(Places(line, T)) \in 0 .. Len(line)
    BY PlacesOf
<1> QED BY <1>1, BeforeAfter

LEMMA ElideTextType ==
    ASSUME TextKept, CollapseString \/ CollapseNumber \/ CollapseChar
    PROVE  TextKept' /\ UNCHANGED <<search, raw>> /\ phase = "elide" /\ phase' = "elide"
<1>1. phase = "elide" /\ linenum <= Len(lines) /\ Quotes(Rest) # {}
    BY DEF CollapseString, CollapseNumber, CollapseChar, AtQuote
<1>2. Head_ \in Seq(Tokens) /\ Tail_ \in Seq(Tokens)
    BY <1>1, RestType
<1>3. CASE CollapseString
    <2> DEFINE after == After(Tail_, Min(Places(Tail_, {"q"})))
    <2>1. Places(Tail_, {"q"}) # {} /\ Collapsed(Head_ \o EmptyString, after)
        BY <1>3 DEF CollapseString
    <2>2. after \in Seq(Tokens)
        BY <1>2, <2>1, AfterPlace
    <2>3. Head_ \o EmptyString \in Seq(Tokens)
        BY <1>2, EmptyStringType, ConcatIn
    <2> HIDE DEF after
    <2> QED BY <1>1, <2>1, <2>2, <2>3, CollapsedType
<1>4. CASE CollapseNumber
    <2> DEFINE all == <<"s">> \o Tail_
               length == LiteralLength(all)
               number == Kept(all, 1 .. length \ Places(all, {"s"}))
    <2>1. Collapsed(Head_ \o number, After(all, length))
        BY <1>4 DEF CollapseNumber
    <2>2. all \in Seq(Tokens)
        BY <1>2, OneOrTwo, TokensOf, ConcatIn
    <2> HIDE DEF all
    <2>3. number \in Seq(Tokens) /\ After(all, length) \in Seq(Tokens)
        BY <2>2, KeptType, LiteralLengthType, BeforeAfter
    <2> HIDE DEF number, length
    <2>4. Head_ \o number \in Seq(Tokens)
        BY <1>2, <2>3, ConcatIn
    <2> QED BY <1>1, <2>1, <2>3, <2>4, CollapsedType
<1>5. CASE CollapseChar
    <2> DEFINE after == After(Tail_, Min(Places(Tail_, {"s"})))
    <2>1. Places(Tail_, {"s"}) # {} /\ Collapsed(Head_ \o <<"s", "s">>, after)
        BY <1>5 DEF CollapseChar
    <2>2. after \in Seq(Tokens)
        BY <1>2, <2>1, AfterPlace
    <2>3. Head_ \o <<"s", "s">> \in Seq(Tokens)
        BY <1>2, EmptyStringType, ConcatIn
    <2> HIDE DEF after
    <2> QED BY <1>1, <2>1, <2>2, <2>3, CollapsedType
<1> QED BY <1>1, <1>3, <1>4, <1>5

LEMMA ElidedType ==
    ASSUME TextKept, ElideLine \/ CheckForMultilineCommentsAndStrings
    PROVE  /\ TextKept' /\ UNCHANGED <<search, raw>>
           /\ phase = "elide" /\ phase' \in {"elide", "checked"}
<1>1. /\ lines \in Seq(Seq(Tokens)) /\ Len(lines) = Len(raw) /\ Len(raw) \in Nat
      /\ linenum \in 1 .. Len(raw) + 1 /\ collapsed \in Seq(Tokens)
      /\ elided \in Seq(Seq(Tokens))
    BY TextsAssumption DEF TextKept
<1>2. CASE ElideLine
    <2>1. /\ phase = "elide" /\ linenum <= Len(lines)
          /\ elided' = Append(elided, CleanseComments(collapsed \o Rest))
          /\ collapsed' = <<>> /\ linenum' = linenum + 1
          /\ UNCHANGED <<raw, lines, delimiter, search, phase>>
        BY <1>2 DEF ElideLine
    <2>2. CleanseComments(collapsed \o Rest) \in Seq(Tokens)
        <3>1. collapsed \o Rest \in Seq(Tokens)
            BY <1>1, <2>1, RestType, ConcatIn
        <3> QED BY <3>1, CleanseCommentsType
    <2>3. elided' \in Seq(Seq(Tokens)) /\ Len(elided') = Len(elided) + 1
        BY <1>1, <2>1, <2>2, AppendProperties
    <2>4. <<>> \in Seq(Tokens)
        OBVIOUS
    <2> QED BY <1>1, <2>1, <2>3, <2>4 DEF TextKept, Searching
<1>3. CASE CheckForMultilineCommentsAndStrings
    <2>1. /\ phase = "elide" /\ linenum > Len(lines) /\ phase' = "checked"
          /\ UNCHANGED <<raw, lines, delimiter, collapsed, elided, search, linenum>>
        BY <1>3 DEF CheckForMultilineCommentsAndStrings
    <2>2. Len(elided) = Len(raw)
        BY <1>1, <2>1 DEF TextKept
    <2> QED BY <1>1, <2>1, <2>2 DEF TextKept, Searching
<1> QED BY <1>2, <1>3

-----------------------------------------------------------------------------
(* Stacks, and what a token does to one.                                   *)
LEMMA FrontOf ==
    ASSUME NEW S, NEW s \in Seq(S), s # <<>>
    PROVE  /\ Front(s) \in Seq(S) /\ Len(Front(s)) = Len(s) - 1 /\ Len(s) \in Nat \ {0}
           /\ \A j \in 1 .. Len(s) - 1 : Front(s)[j] = s[j]
           /\ Last(s) = s[Len(s)] /\ Last(s) \in S
<1> DEFINE N == Len(s)
           f == SubSeq(s, 1, N - 1)
<1>1. N \in Nat /\ N # 0
    BY LenProperties, EmptySeq
<1>2. 1 \in Int /\ N - 1 \in Int
    BY <1>1
<1>3. \A i \in 1 .. N : s[i] \in S
    BY <1>1, ElementOfSeq
<1> HIDE DEF N
<1>4. \A i \in 1 .. N - 1 : s[i] \in S
    BY <1>1, <1>3
<1>5. /\ f \in Seq(S)
      /\ Len(f) = IF 1 <= N - 1 THEN (N - 1) - 1 + 1 ELSE 0
      /\ \A i \in 1 .. (N - 1) - 1 + 1 : f[i] = s[1 + i - 1]
    BY ONLY <1>2, <1>4, SubSeqProperties
<1> HIDE DEF f
<1>6. Len(f) = N - 1
    BY <1>1, <1>5
<1>7. \A i \in 1 .. N - 1 : f[i] = s[i]
    BY <1>1, <1>5
<1>8. s[N] \in S
    BY <1>1, <1>3
<1> QED BY <1>1, <1>5, <1>6, <1>7, <1>8 DEF Front, Last, f, N

LEMMA PushOn ==
    ASSUME NEW S, NEW s \in Seq(S), NEW x \in S
    PROVE  /\ Append(s, x) \in Seq(S) /\ Len(Append(s, x)) = Len(s) + 1
           /\ \A j \in 1 .. Len(s) : Append(s, x)[j] = s[j]
           /\ Append(s, x)[Len(s) + 1] = x /\ Append(s, x) # <<>>
<1>1. Len(s) \in Nat
    OBVIOUS
<1> QED BY <1>1, AppendProperties

LEMMA StrippedOf ==
    ASSUME NEW S, NEW s \in Seq(S), NEW x
    PROVE  LET u == Stripped(s, x)
           IN  /\ u \in Seq(S) /\ Len(u) \in 0 .. Len(s)
               /\ \A j \in 1 .. Len(u) : u[j] = s[j]
               /\ u # <<>> => Last(u) # x
               /\ \A j \in Len(u) + 1 .. Len(s) : s[j] = x
<1> DEFINE others == {i \in 1 .. Len(s) : s[i] # x}
           u == Stripped(s, x)
<1>1. Len(s) \in Nat /\ others \subseteq 0 .. Len(s)
    OBVIOUS
<1>2. u = IF others = {} THEN <<>> ELSE SubSeq(s, 1, Max(others))
    BY DEF Stripped
<1>3. CASE others = {}
    <2>1. u = <<>> /\ Len(u) = 0 /\ u \in Seq(S)
        BY <1>2, <1>3
    <2> QED BY <1>1, <1>3, <2>1
<1>4. CASE others # {}
    <2> DEFINE m == Max(others)
    <2> HIDE DEF others
    <2>1. m \in others /\ \A j \in others : j <= m
        BY <1>1, <1>4, LargestOf
    <2> HIDE DEF m
    <2>2. m \in 1 .. Len(s) /\ s[m] # x
        BY <2>1 DEF others
    <2>3. 1 \in 1 .. Len(s) + 1 /\ m \in 1 - 1 .. Len(s)
        BY <1>1, <2>2
    <2>4. u = SubSeq(s, 1, m)
        BY <1>2, <1>4 DEF m
    <2>5. /\ u \in Seq(S) /\ Len(u) = m - 1 + 1 /\ \A j \in 1 .. m - 1 + 1 : u[j] = s[1 + j - 1]
        BY <2>3, <2>4, SubSeqProperties
    <2>6. Len(u) = m /\ \A j \in 1 .. m : u[j] = s[j]
        BY <1>1, <2>2, <2>5
    <2>7. Last(u) = s[m]
        BY <1>1, <2>2, <2>6 DEF Last
    <2>8. \A j \in m + 1 .. Len(s) : s[j] = x
        BY <1>1, <2>1, <2>2 DEF others
    <2> HIDE DEF u
    <2>9. Len(u) \in 0 .. Len(s) /\ \A j \in 1 .. Len(u) : u[j] = s[j]
        BY <1>1, <2>2, <2>6
    <2>10. u # <<>> => Last(u) # x
        BY <2>2, <2>7
    <2>11. \A j \in Len(u) + 1 .. Len(s) : s[j] = x
        BY <2>6, <2>8
    <2> QED BY <2>5, <2>9, <2>10, <2>11 DEF u
<1> QED BY <1>3, <1>4

LEMMA Pairs ==
    /\ \A o \in Opening : Closed[o] \in Closing /\ Opened[Closed[o]] = o
    /\ \A c \in Closing : Opened[c] \in Opening /\ Closed[Opened[c]] = c
    /\ DOMAIN Closed = Opening /\ DOMAIN Opened = Closing
<1>1. DOMAIN Closed = Opening /\ DOMAIN Opened = Closing
    BY DEF Closed, Opened
<1>2. Closed["("] = ")" /\ Closed["["] = "]" /\ Closed["{"] = "}"
    BY Zenon DEF Closed, Opening
<1>3. \A o \in Opening : o = "(" \/ o = "[" \/ o = "{"
    BY DEF Opening
<1>4. \A c \in Closing : c = ")" \/ c = "]" \/ c = "}"
    BY DEF Closing
<1>5. \A o \in Opening : Closed[o] \in Closing
    BY <1>2, <1>3 DEF Closing
<1>6. \A c \in Closing : \E o \in Opening : Closed[o] = c
    BY <1>2, <1>4 DEF Opening
<1>7. \A c \in Closing : Opened[c] \in Opening /\ Closed[Opened[c]] = c
    BY <1>6 DEF Opened
<1>8. \A o, p \in Opening : Closed[o] = Closed[p] => o = p
    BY <1>2, <1>3
<1> QED BY <1>1, <1>5, <1>7, <1>8

LEMMA PopStep ==
    ASSUME NEW S, NEW s \in Seq(S), s # <<>>, NEW e
    PROVE  /\ Pop(s, e).outcome = IF Len(s) = 1 THEN e ELSE "on"
           /\ Pop(s, e).stack = Front(s) /\ Front(s) \in Seq(S)
           /\ Len(s) # 1 => Front(s) # <<>> /\ Front(s)[1] = s[1]
<1>1. Pop(s, e).outcome = (IF Len(s) = 1 THEN e ELSE "on") /\ Pop(s, e).stack = Front(s)
    BY DEF Pop, Step
<1>2. /\ Front(s) \in Seq(S) /\ Len(Front(s)) = Len(s) - 1 /\ Len(s) \in Nat \ {0}
      /\ \A j \in 1 .. Len(s) - 1 : Front(s)[j] = s[j]
    BY FrontOf
<1>3. Len(s) # 1 => 1 \in 1 .. Len(s) - 1 /\ Len(Front(s)) # 0
    BY <1>2
<1> QED BY <1>1, <1>2, <1>3

(* A bracket with the operators x on top, and a semicolon.                 *)
LEMMA BracketStep ==
    ASSUME NEW S, NEW s \in Seq(S), NEW x, NEW w
    PROVE  LET step == Bracket(s, x, w)
           IN  /\ step.outcome \in {"on", "found", "lost"}
               /\ step.outcome = "on" => step.stack \in Seq(S)
               /\ s # <<>> /\ s[1] # x /\ step.outcome = "on" =>
                     step.stack # <<>> /\ step.stack[1] = s[1]
               /\ s # <<>> /\ s[1] # x /\ step.outcome = "found" => s[1] = w
<1> DEFINE u == Stripped(s, x)
           step == Bracket(s, x, w)
<1>1. /\ u \in Seq(S) /\ Len(u) \in 0 .. Len(s) /\ Len(s) \in Nat
      /\ \A j \in 1 .. Len(u) : u[j] = s[j]
      /\ \A j \in Len(u) + 1 .. Len(s) : s[j] = x
    BY StrippedOf
<1>2. step = IF Top(u, w) THEN Pop(u, "found") ELSE Step("lost", <<>>)
    BY DEF Bracket
<1> HIDE DEF u, step
<1>3. CASE ~Top(u, w)
    BY <1>2, <1>3 DEF Step, step
<1>4. CASE Top(u, w)
    <2>1. u # <<>> /\ Last(u) = w /\ step = Pop(u, "found")
        BY <1>2, <1>4 DEF Top
    <2>2. /\ step.outcome = IF Len(u) = 1 THEN "found" ELSE "on"
          /\ step.stack = Front(u) /\ Front(u) \in Seq(S)
          /\ Len(u) # 1 => Front(u) # <<>> /\ Front(u)[1] = u[1]
        BY <1>1, <2>1, PopStep
    <2>3. Len(u) \in Nat \ {0}
        BY <1>1, <2>1, EmptySeq
    <2>4. u[1] = s[1]
        BY <1>1, <2>3
    <2>5. Len(u) = 1 => u[1] = w
        BY <2>1 DEF Last
    <2> QED BY <2>2, <2>4, <2>5 DEF step
<1> QED BY <1>3, <1>4

LEMMA StatementStep ==
    ASSUME NEW S, NEW s \in Seq(S), NEW x
    PROVE  LET step == Statement(s, x)
           IN  /\ step.outcome \in {"on", "lost"}
               /\ step.outcome = "on" => step.stack = Stripped(s, x) /\ step.stack \in Seq(S)
               /\ s # <<>> /\ s[1] # x =>
                     step.outcome = "on" /\ step.stack # <<>> /\ step.stack[1] = s[1]
<1> DEFINE u == Stripped(s, x)
           step == Statement(s, x)
<1>1. /\ u \in Seq(S) /\ Len(u) \in 0 .. Len(s) /\ Len(s) \in Nat
      /\ \A j \in 1 .. Len(u) : u[j] = s[j]
      /\ \A j \in Len(u) + 1 .. Len(s) : s[j] = x
    BY StrippedOf
<1>2. step = IF u = <<>> THEN Step("lost", <<>>) ELSE On(u)
    BY DEF Statement
<1> HIDE DEF u, step
<1>3. /\ u = <<>> => step.outcome = "lost"
      /\ u # <<>> => step.outcome = "on" /\ step.stack = u
    BY <1>2 DEF Step, On
<1>4. ASSUME s # <<>>, s[1] # x PROVE u # <<>> /\ u[1] = s[1]
    <2>1. Len(s) # 0 /\ 1 \in 1 .. Len(s)
        BY <1>1, <1>4, EmptySeq
    <2>2. Len(u) # 0
        BY <1>1, <1>4, <2>1
    <2> QED BY <1>1, <2>2, EmptySeq
<1> QED BY <1>1, <1>3, <1>4 DEF u, step

LEMMA EndStep ==
    ASSUME NEW line, NEW i, NEW s \in Seq(Opening \cup {"<"})
    PROVE  LET t == line[i]  step == FindEnd(line, i, s)
           IN  /\ step.outcome \in {"on", "found", "lost"}
               /\ step.outcome = "on" => step.stack \in Seq(Opening \cup {"<"})
               /\ s # <<>> /\ s[1] \in Opening /\ step.outcome = "on" =>
                     step.stack # <<>> /\ step.stack[1] = s[1]
               /\ s # <<>> /\ s[1] \in Opening /\ step.outcome = "found" => t = Closed[s[1]]
<1> DEFINE t == line[i]
           step == FindEnd(line, i, s)
           S == Opening \cup {"<"}
           Goal == /\ step.outcome \in {"on", "found", "lost"}
                   /\ step.outcome = "on" => step.stack \in Seq(S)
                   /\ s # <<>> /\ s[1] \in Opening /\ step.outcome = "on" =>
                         step.stack # <<>> /\ step.stack[1] = s[1]
                   /\ s # <<>> /\ s[1] \in Opening /\ step.outcome = "found" =>
                         t = Closed[s[1]]
<1>0. /\ t \in Opening => step = On(Append(s, t))
      /\ t = "<" /\ Previous(line, i, "<") =>
            step = IF Top(s, "<") THEN Pop(s, "lost") ELSE On(s)
      /\ t = "<" /\ ~Previous(line, i, "<") =>
            step = IF OperatorBefore(line, i - 1) THEN On(s) ELSE On(Append(s, "<"))
      /\ t \in Closing => step = Bracket(s, "<", Opened[t])
      /\ t = ">" =>
            step = IF Top(s, "<") /\ ~IsArrow(line, i) THEN Pop(s, "found") ELSE On(s)
      /\ t = ";" => step = Statement(s, "<")
      /\ t \notin Opening \cup Closing \cup {"<", ">", ";"} => step = On(s)
    BY Zenon DEF FindEnd, Opening, Closing
<1> SUFFICES Goal OBVIOUS
<1> HIDE DEF t, step
<1>1. "<" \notin Opening /\ "<" \in S
    BY DEF Opening
<1>2. s # <<>> => Len(s) \in Nat \ {0} /\ Last(s) = s[Len(s)]
    BY FrontOf
<1>3. ASSUME NEW v \in Seq(S), step = On(v), s # <<>> => v # <<>> /\ v[1] = s[1]
      PROVE  Goal
    BY <1>3 DEF On, Step
<1>4. ASSUME NEW x \in S, step = On(Append(s, x)) PROVE Goal
    <2>1. Append(s, x) \in Seq(S) /\ Append(s, x) # <<>>
        BY PushOn
    <2>2. s # <<>> => Append(s, x)[1] = s[1]
        BY <1>2, PushOn
    <2> HIDE DEF Goal
    <2> QED BY <1>3, <1>4, <2>1, <2>2
<1>5. ASSUME NEW e \in {"found", "lost"}, Top(s, "<"), step = Pop(s, e) PROVE Goal
    <2>1. s # <<>> /\ Last(s) = "<"
        BY <1>5 DEF Top
    <2>2. /\ step.outcome = IF Len(s) = 1 THEN e ELSE "on"
          /\ step.stack = Front(s) /\ Front(s) \in Seq(S)
          /\ Len(s) # 1 => Front(s) # <<>> /\ Front(s)[1] = s[1]
        BY <1>5, <2>1, PopStep
    <2>3. s[1] \in Opening => Len(s) # 1
        BY <1>1, <1>2, <2>1
    <2> QED BY <1>5, <2>2, <2>3
<1>6. CASE t \in Opening
    <2>1. step = On(Append(s, t)) /\ t \in S
        BY <1>6, <1>0
    <2> HIDE DEF Goal
    <2> QED BY <1>4, <2>1
<1>7. CASE t = "<"
    <2>1. \/ step = On(s) \/ step = On(Append(s, "<"))
          \/ Top(s, "<") /\ step = Pop(s, "lost")
        BY <1>7, <1>0
    <2> HIDE DEF Goal
    <2> QED BY <1>1, <1>3, <1>4, <1>5, <2>1
<1>8. CASE t \in Closing
    <2>1. step = Bracket(s, "<", Opened[t])
        BY <1>8, <1>0
    <2>2. Closed[Opened[t]] = t
        BY <1>8, Pairs
    <2> QED BY <1>1, <2>1, <2>2, BracketStep
<1>9. CASE t = ">"
    <2>1. step = On(s) \/ (Top(s, "<") /\ step = Pop(s, "found"))
        BY <1>9, <1>0
    <2> HIDE DEF Goal
    <2> QED BY <1>3, <1>5, <2>1
<1>10. CASE t = ";"
    <2>1. step = Statement(s, "<")
        BY <1>10, <1>0
    <2> QED BY <1>1, <2>1, StatementStep
<1>11. CASE t \notin Opening \cup Closing \cup {"<", ">", ";"}
    <2>1. step = On(s)
        BY <1>11, <1>0
    <2> HIDE DEF Goal
    <2> QED BY <1>3, <2>1
<1> QED BY <1>6, <1>7, <1>8, <1>9, <1>10, <1>11

LEMMA StartStep ==
    ASSUME NEW line, NEW i, NEW s \in Seq(Closing \cup {">"})
    PROVE  LET t == line[i]  step == FindStart(line, i, s)
           IN  /\ step.outcome \in {"on", "found", "lost"}
               /\ step.outcome = "on" => step.stack \in Seq(Closing \cup {">"})
<1> DEFINE t == line[i]
           step == FindStart(line, i, s)
           S == Closing \cup {">"}
           Goal == /\ step.outcome \in {"on", "found", "lost"}
                   /\ step.outcome = "on" => step.stack \in Seq(S)
<1>0. /\ t \in Closing => step = On(Append(s, t))
      /\ t = ">" =>
            step = IF IsOperator(line, i) THEN On(s) ELSE On(Append(s, ">"))
      /\ t = "<" =>
            step = IF Top(s, ">") /\ ~IsShift(line, i) THEN Pop(s, "found") ELSE On(s)
      /\ t \in Opening => step = Bracket(s, ">", Closed[t])
      /\ t = ";" => step = Statement(s, ">")
      /\ t \notin Opening \cup Closing \cup {"<", ">", ";"} => step = On(s)
    BY Zenon DEF FindStart, Opening, Closing
<1> SUFFICES Goal OBVIOUS
<1> HIDE DEF t, step
<1>1. ASSUME NEW v \in Seq(S), step = On(v) PROVE Goal
    BY <1>1 DEF On, Step
<1>2. ASSUME NEW x \in S, step = On(Append(s, x)) PROVE Goal
    <2>1. Append(s, x) \in Seq(S)
        BY PushOn
    <2> HIDE DEF Goal
    <2> QED BY <1>1, <1>2, <2>1
<1>3. CASE t \in Closing
    <2>1. step = On(Append(s, t)) /\ t \in S
        BY <1>3, <1>0
    <2> HIDE DEF Goal
    <2> QED BY <1>2, <2>1
<1>4. CASE t = ">"
    <2>1. (step = On(s) \/ step = On(Append(s, ">"))) /\ ">" \in S
        BY <1>4, <1>0
    <2> HIDE DEF Goal
    <2> QED BY <1>1, <1>2, <2>1
<1>5. CASE t = "<"
    <2>1. step = On(s) \/ (Top(s, ">") /\ step = Pop(s, "found"))
        BY <1>5, <1>0
    <2>2. ASSUME Top(s, ">"), step = Pop(s, "found") PROVE Goal
        <3>1. s # <<>>
            BY <2>2 DEF Top
        <3>2. /\ step.outcome = IF Len(s) = 1 THEN "found" ELSE "on"
              /\ step.stack = Front(s) /\ Front(s) \in Seq(S)
            BY <2>2, <3>1, PopStep
        <3> QED BY <3>2
    <2> HIDE DEF Goal
    <2> QED BY <1>1, <2>1, <2>2
<1>6. CASE t \in Opening
    <2>1. step = Bracket(s, ">", Closed[t])
        BY <1>6, <1>0
    <2> QED BY <2>1, BracketStep
<1>7. CASE t = ";"
    <2>1. step = Statement(s, ">")
        BY <1>7, <1>0
    <2> QED BY <2>1, StatementStep
<1>8. CASE t \notin Opening \cup Closing \cup {"<", ">", ";"}
    <2>1. step = On(s)
        BY <1>8, <1>0
    <2> HIDE DEF Goal
    <2> QED BY <1>1, <2>1
<1> QED BY <1>3, <1>4, <1>5, <1>6, <1>7, <1>8
LEMMA FirstStep ==
    ASSUME NEW line, NEW i, line[i] \in Opening
    PROVE  FindEnd(line, i, <<>>) = On(<<line[i]>>)
<1>1. FindEnd(line, i, <<>>) = On(Append(<<>>, line[i]))
    BY Zenon DEF FindEnd, Opening, Closing
<1>2. Append(<<>>, line[i]) = <<line[i]>>
    OBVIOUS
<1> QED BY <1>1, <1>2

-----------------------------------------------------------------------------
(* TypeInv is preserved by the search for brackets.                        *)
LEMMA ElidedLines ==
    ASSUME TypeInv, phase \in Searching
    PROVE  /\ Len(raw) \in Nat /\ Len(elided) = Len(raw)
           /\ \A n \in 1 .. Len(elided) : elided[n] \in Seq(Tokens) /\ Len(elided[n]) \in Nat
<1>1. /\ Len(raw) \in Nat /\ Len(elided) = Len(raw) /\ elided \in Seq(Seq(Tokens))
    BY TextsAssumption DEF TypeInv, TextKept
<1> QED BY <1>1

LEMMA TextStays ==
    ASSUME TextKept, UNCHANGED text, phase \in Searching, phase' \in Searching,
           linenum' \in 1 .. Len(raw) + 1
    PROVE  TextKept'
<1>1. UNCHANGED <<raw, lines, delimiter, collapsed, elided>>
    BY DEF text
<1> QED BY <1>1 DEF TextKept, Searching

(* CloseExpression begins at a place.                                      *)
LEMMA BeginType ==
    ASSUME TypeInv, phase \in {"checked", "closed"}, UNCHANGED <<text, stack>>,
           NEW n \in 1 .. Len(elided), NEW i \in 1 .. Len(elided[n]),
           start' = <<n, i>>, linenum' = n, pos' = i, phase' = "close", closed' = <<>>
    PROVE  TextKept' /\ SearchKept' /\ BottomKept'
<1>1. /\ Len(raw) \in Nat /\ Len(elided) = Len(raw) /\ Len(elided[n]) \in Nat
      /\ UNCHANGED <<raw, elided>>
    BY ElidedLines DEF Searching, text
<1>2. stack' = <<>> /\ <<>> \in Seq(Opening \cup {"<"})
      /\ <<>> \in Seq(Opening \cup Closing \cup {"<", ">"})
    BY DEF TypeInv, SearchKept
<1>3. TextKept'
    BY <1>1, TextStays DEF TypeInv, Searching
<1>4. IsToken(start)'
    BY <1>1 DEF IsToken
<1>5. IsAt(1, 1)'
    BY <1>1 DEF IsAt
<1>6. SearchKept'
    BY <1>2, <1>4, <1>5 DEF SearchKept
<1>7. BottomKept'
    BY <1>2 DEF BottomKept
<1> QED BY <1>3, <1>6, <1>7

LEMMA ScanForwardType ==
    ASSUME TypeInv, ScanForward
    PROVE  /\ TextKept' /\ SearchKept' /\ BottomKept'
           /\ phase' \in {"close", "closed", "done"} /\ UNCHANGED <<text, start>>
<1> DEFINE step == FindEnd(elided[linenum], pos, stack)
<1>1. /\ phase = "close" /\ pos <= Len(elided[linenum]) /\ UNCHANGED <<text, start, linenum>>
      /\ stack' = IF step.outcome = "on" THEN step.stack ELSE <<>>
      /\ closed' = IF step.outcome = "found" THEN <<linenum, pos>> ELSE <<>>
      /\ pos' = IF step.outcome = "found" THEN pos ELSE pos + 1
    BY DEF ScanForward
<1>2. /\ step.outcome = "on" => phase' = "close"
      /\ step.outcome = "found" => phase' = "closed"
      /\ step.outcome = "lost" => phase' = "done"
    BY Zenon DEF ScanForward
<1>3. /\ UNCHANGED <<raw, elided>> /\ Len(raw) \in Nat /\ Len(elided) = Len(raw)
      /\ linenum \in 1 .. Len(elided) /\ Len(elided[linenum]) \in Nat
      /\ pos \in 1 .. Len(elided[linenum]) /\ IsToken(start)
      /\ stack \in Seq(Opening \cup {"<"})
    BY <1>1, ElidedLines DEF text, Searching, TypeInv, SearchKept, IsAt
<1>4. /\ step.outcome \in {"on", "found", "lost"}
      /\ step.outcome = "on" => step.stack \in Seq(Opening \cup {"<"})
      /\ stack # <<>> /\ stack[1] \in Opening /\ step.outcome = "on" =>
            step.stack # <<>> /\ step.stack[1] = stack[1]
      /\ stack # <<>> /\ stack[1] \in Opening /\ step.outcome = "found" =>
            elided[linenum][pos] = Closed[stack[1]]
    BY <1>3, EndStep
<1>5. Token(start) \in Opening /\ stack = <<>> =>
          step.outcome = "on" /\ step.stack = <<Token(start)>>
    <2> SUFFICES ASSUME Token(start) \in Opening, stack = <<>>
                 PROVE  step = On(<<Token(start)>>)
        BY DEF On, Step
    <2>1. start = <<linenum, pos>> /\ Token(start) = elided[linenum][pos]
        BY <1>1 DEF TypeInv, BottomKept, Token
    <2> QED BY <2>1, FirstStep
<1> HIDE DEF step
<1>6. phase' \in {"close", "closed", "done"}
    BY <1>2, <1>4
<1>7. TextKept'
    BY <1>1, <1>3, <1>6, TextStays DEF TypeInv, Searching
<1>8. IsToken(start)' /\ Token(start)' = Token(start) /\ IsToken(<<linenum, pos>>)
    BY <1>1, <1>3 DEF IsToken, Token
<1>9. SearchKept'
    <2>1. CASE step.outcome = "on"
        <3>1. phase' = "close" /\ pos' = pos + 1 /\ closed' = <<>> /\ linenum' = linenum
              /\ stack' \in Seq(Opening \cup {"<"})
            BY <1>1, <1>2, <1>4, <2>1
        <3>2. IsAt(1, 1)'
            BY <1>3, <3>1 DEF IsAt
        <3>3. stack' \in Seq(Opening \cup Closing \cup {"<", ">"})
            BY <3>1
        <3> QED BY <1>8, <3>1, <3>2, <3>3 DEF SearchKept
    <2>2. CASE step.outcome # "on"
        <3>1. stack' = <<>> /\ <<>> \in Seq(Opening \cup Closing \cup {"<", ">"})
            BY <1>1, <2>2
        <3>2. CASE step.outcome = "found"
            <4>1. phase' = "closed" /\ closed' = <<linenum', pos'>>
                BY <1>1, <1>2, <3>2
            <4>2. IsToken(closed)'
                BY <1>1, <1>3, <1>8, <3>2 DEF IsToken
            <4> QED BY <1>8, <3>1, <4>1, <4>2 DEF SearchKept
        <3>3. CASE step.outcome = "lost"
            <4>1. phase' = "done"
                BY <1>2, <3>3
            <4> QED BY <3>1, <4>1 DEF SearchKept
        <3> QED BY <1>4, <2>2, <3>2, <3>3
    <2> QED BY <2>1, <2>2
<1>10. BottomKept'
    <2> SUFFICES ASSUME Token(start) \in Opening, phase' \in {"close", "closed"}
                 PROVE  IF phase' = "close" THEN stack' # <<>> /\ stack'[1] = Token(start)
                        ELSE Token(closed)' = Closed[Token(start)]
        BY <1>8 DEF BottomKept
    <2>1. stack # <<>> => stack[1] = Token(start)
        BY <1>1 DEF TypeInv, BottomKept
    <2>2. CASE step.outcome = "on"
        <3>1. stack' = step.stack /\ phase' = "close"
            BY <1>1, <1>2, <2>2
        <3>2. CASE stack = <<>>
            <4>1. stack' = <<Token(start)>>
                BY <1>5, <3>1, <3>2
            <4>2. stack' # <<>> /\ stack'[1] = Token(start)
                BY <4>1
            <4> QED BY <3>1, <4>2
        <3>3. CASE stack # <<>>
            BY <1>4, <2>1, <2>2, <3>1, <3>3
        <3> QED BY <3>2, <3>3
    <2>3. CASE step.outcome = "found"
        <3>1. phase' = "closed" /\ closed' = <<linenum, pos>>
            BY <1>1, <1>2, <2>3
        <3>2. Token(closed)' = elided[linenum][pos]
            BY <1>3, <3>1 DEF Token
        <3>3. stack # <<>>
            BY <1>5, <2>3
        <3> QED BY <1>4, <2>1, <2>3, <3>1, <3>2, <3>3
    <2>4. step.outcome # "lost"
        BY <1>2
    <2> QED BY <1>4, <2>2, <2>3, <2>4
<1> QED BY <1>1, <1>6, <1>7, <1>9, <1>10

LEMMA NextLineType ==
    ASSUME TypeInv, NextLine
    PROVE  /\ TextKept' /\ SearchKept' /\ BottomKept'
           /\ phase' \in {"close", "done"} /\ UNCHANGED <<text, start>>
<1>1. /\ phase = "close" /\ UNCHANGED <<text, stack, start, closed>>
      /\ \/ /\ stack # <<>> /\ linenum < Len(elided) /\ linenum' = linenum + 1
            /\ pos' = 1 /\ phase' = phase
         \/ phase' = "done" /\ UNCHANGED <<linenum, pos>>
    BY DEF NextLine
<1>2. /\ UNCHANGED <<raw, elided>> /\ Len(raw) \in Nat /\ Len(elided) = Len(raw)
      /\ linenum \in 1 .. Len(elided) /\ IsToken(start)
      /\ stack \in Seq(Opening \cup {"<"}) /\ closed = <<>>
      /\ stack \in Seq(Opening \cup Closing \cup {"<", ">"})
      /\ \A n \in 1 .. Len(elided) : Len(elided[n]) \in Nat
    BY <1>1, ElidedLines DEF text, Searching, TypeInv, SearchKept, IsAt
<1>3. linenum' \in 1 .. Len(raw) /\ phase' \in {"close", "done"}
    BY <1>1, <1>2
<1>4. TextKept'
    BY <1>1, <1>2, <1>3, TextStays DEF TypeInv, Searching
<1>5. IsToken(start)' /\ Token(start)' = Token(start)
    BY <1>1, <1>2 DEF IsToken, Token
<1>6. CASE phase' = "close"
    <2>1. stack # <<>> /\ linenum' \in 1 .. Len(elided) /\ pos' = 1
        BY <1>1, <1>2, <1>6
    <2>2. IsAt(1, 1)'
        BY <1>2, <2>1 DEF IsAt
    <2>3. SearchKept'
        BY <1>1, <1>2, <1>5, <1>6, <2>2 DEF SearchKept
    <2>4. Token(start) \in Opening => stack[1] = Token(start)
        BY <1>1, <2>1 DEF TypeInv, BottomKept
    <2>5. BottomKept'
        BY <1>1, <1>5, <1>6, <2>1, <2>4 DEF BottomKept
    <2> QED BY <1>1, <1>3, <1>4, <2>3, <2>5
<1>7. CASE phase' = "done"
    BY <1>1, <1>2, <1>3, <1>4, <1>7 DEF SearchKept, BottomKept
<1> QED BY <1>3, <1>6, <1>7

LEMMA ReverseType ==
    ASSUME TypeInv, ReverseCloseExpression
    PROVE  /\ TextKept' /\ SearchKept' /\ BottomKept'
           /\ phase = "closed" /\ phase' = "reopen" /\ UNCHANGED <<text, start>>
<1>1. phase = "closed" /\ phase' = "reopen"
      /\ UNCHANGED <<text, pos, stack, start, closed, linenum>>
    BY DEF ReverseCloseExpression, search
<1>2. /\ UNCHANGED <<raw, elided>> /\ Len(raw) \in Nat /\ Len(elided) = Len(raw)
      /\ stack = <<>> /\ IsToken(start) /\ IsToken(closed) /\ closed = <<linenum, pos>>
      /\ \A n \in 1 .. Len(elided) : Len(elided[n]) \in Nat
      /\ linenum \in 1 .. Len(raw) + 1
    BY <1>1, ElidedLines DEF text, Searching, TypeInv, TextKept, SearchKept
<1>3. TextKept'
    BY <1>1, <1>2, TextStays DEF TypeInv, Searching
<1>4. linenum \in 1 .. Len(elided) /\ pos \in 1 .. Len(elided[linenum])
    BY <1>2 DEF IsToken
<1>5. IsAt(0, 0)'
    BY <1>1, <1>2, <1>4 DEF IsAt
<1>6. IsToken(start)' /\ IsToken(closed)'
    BY <1>1, <1>2 DEF IsToken
<1>7. <<>> \in Seq(Closing \cup {">"}) /\ <<>> \in Seq(Opening \cup Closing \cup {"<", ">"})
    OBVIOUS
<1>8. SearchKept'
    BY <1>1, <1>2, <1>5, <1>6, <1>7 DEF SearchKept
<1> QED BY <1>1, <1>3, <1>8 DEF BottomKept
LEMMA ScanBackwardType ==
    ASSUME TypeInv, ScanBackward
    PROVE  /\ TextKept' /\ SearchKept' /\ BottomKept'
           /\ phase = "reopen" /\ phase' \in {"reopen", "done"} /\ UNCHANGED <<text, start>>
<1> DEFINE step == FindStart(elided[linenum], pos, stack)
<1>1. /\ phase = "reopen" /\ pos >= 1 /\ UNCHANGED <<text, start, closed, linenum>>
      /\ stack' = IF step.outcome = "on" THEN step.stack ELSE <<>>
      /\ phase' = IF step.outcome = "on" THEN "reopen" ELSE "done"
      /\ pos' = IF IsShift(elided[linenum], pos) THEN pos - 2 ELSE pos - 1
    BY DEF ScanBackward
<1>2. /\ UNCHANGED <<raw, elided>> /\ Len(raw) \in Nat /\ Len(elided) = Len(raw)
      /\ linenum \in 1 .. Len(elided) /\ Len(elided[linenum]) \in Nat
      /\ pos \in 1 .. Len(elided[linenum]) /\ IsToken(start) /\ IsToken(closed)
      /\ stack \in Seq(Closing \cup {">"})
    BY <1>1, ElidedLines DEF text, Searching, TypeInv, SearchKept, IsAt
<1>3. step.outcome = "on" => step.stack \in Seq(Closing \cup {">"})
    BY <1>2, StartStep
<1> HIDE DEF step
<1>4. TextKept'
    BY <1>1, <1>2, TextStays DEF TypeInv, Searching
<1>5. IsToken(start)' /\ IsToken(closed)'
    BY <1>1, <1>2 DEF IsToken
<1>6. pos' \in 0 .. Len(elided[linenum])
    <2>1. IsShift(elided[linenum], pos) => pos > 1
        BY DEF IsShift, Previous
    <2> QED BY <1>1, <1>2, <2>1
<1>7. CASE step.outcome = "on"
    <2>1. phase' = "reopen" /\ stack' \in Seq(Closing \cup {">"})
        BY <1>1, <1>3, <1>7
    <2>2. stack' \in Seq(Opening \cup Closing \cup {"<", ">"})
        BY <2>1
    <2>3. IsAt(0, 0)'
        BY <1>1, <1>2, <1>6 DEF IsAt
    <2>4. SearchKept'
        BY <1>5, <2>1, <2>2, <2>3 DEF SearchKept
    <2> QED BY <1>1, <1>4, <2>1, <2>4 DEF BottomKept
<1>8. CASE step.outcome # "on"
    <2>1. phase' = "done" /\ stack' = <<>>
        BY <1>1, <1>8
    <2>2. <<>> \in Seq(Opening \cup Closing \cup {"<", ">"})
        OBVIOUS
    <2>3. SearchKept'
        BY <2>1, <2>2 DEF SearchKept
    <2> QED BY <1>1, <1>4, <2>1, <2>3 DEF BottomKept
<1> QED BY <1>7, <1>8

LEMMA PreviousLineType ==
    ASSUME TypeInv, PreviousLine
    PROVE  /\ TextKept' /\ SearchKept' /\ BottomKept'
           /\ phase = "reopen" /\ phase' \in {"reopen", "done"} /\ UNCHANGED <<text, start>>
<1>1. /\ phase = "reopen" /\ UNCHANGED <<text, stack, start, closed>>
      /\ \/ /\ linenum > 1 /\ linenum' = linenum - 1
            /\ pos' = Len(elided[linenum - 1]) /\ phase' = phase
         \/ phase' = "done" /\ UNCHANGED <<linenum, pos>>
    BY DEF PreviousLine
<1>2. /\ UNCHANGED <<raw, elided>> /\ Len(raw) \in Nat /\ Len(elided) = Len(raw)
      /\ linenum \in 1 .. Len(elided) /\ IsToken(start) /\ IsToken(closed)
      /\ stack \in Seq(Closing \cup {">"})
      /\ stack \in Seq(Opening \cup Closing \cup {"<", ">"})
      /\ \A n \in 1 .. Len(elided) : Len(elided[n]) \in Nat
    BY <1>1, ElidedLines DEF text, Searching, TypeInv, SearchKept, IsAt
<1>3. linenum' \in 1 .. Len(raw) /\ phase' \in {"reopen", "done"}
    BY <1>1, <1>2
<1>4. TextKept'
    BY <1>1, <1>2, <1>3, TextStays DEF TypeInv, Searching
<1>5. CASE phase' = "reopen"
    <2>1. linenum' \in 1 .. Len(elided) /\ pos' = Len(elided[linenum'])
        BY <1>1, <1>2, <1>5
    <2>2. IsAt(0, 0)'
        BY <1>2, <2>1 DEF IsAt
    <2>3. IsToken(start)' /\ IsToken(closed)'
        BY <1>1, <1>2 DEF IsToken
    <2>4. SearchKept'
        BY <1>1, <1>2, <1>5, <2>2, <2>3 DEF SearchKept
    <2> QED BY <1>1, <1>3, <1>4, <1>5, <2>4 DEF BottomKept
<1>6. CASE phase' = "done"
    BY <1>1, <1>2, <1>3, <1>4, <1>6 DEF SearchKept, BottomKept
<1> QED BY <1>3, <1>5, <1>6

(* The actions of Next leave the checks alone.                             *)
LEMMA BodyStays ==
    ASSUME TypeInv, phase = "closed" => checked = 0, UNCHANGED <<text, start, block>>,
           phase \in {"close", "closed", "reopen"},
           phase = "close" => phase' \in {"close", "closed", "done"}
    PROVE  BodyKept'
<1>1. UNCHANGED <<raw, elided, checked, condition, start>>
    BY DEF text, block
<1>2. checked # 0 => phase = "close" /\ phase' \in {"close", "closed", "done"}
    BY DEF TypeInv, BodyKept
<1> QED BY <1>1, <1>2 DEF TypeInv, BodyKept, Token

-----------------------------------------------------------------------------
(* The places CheckEmptyBlockBody looks at.                                *)
LEMMA ConditionPlace ==
    ASSUME NEW line \in Seq(Tokens), NEW i \in ConditionOf(line)
    PROVE  i \in 1 .. Len(line) /\ line[i] = "("
<1> DEFINE tokens == NotSpace(line)
           others == tokens \ {Min(tokens)}
<1>1. others # {} /\ i = Min(others) /\ line[i] = "("
    BY DEF ConditionOf
<1>2. tokens \subseteq Nat /\ tokens = {j \in 1 .. Len(line) : line[j] # " "}
    BY NotSpaceOf
<1>3. others \subseteq Nat /\ others \subseteq tokens
    BY <1>2
<1> HIDE DEF others
<1>4. i \in others
    BY <1>1, <1>3, SmallestOf
<1> QED BY <1>1, <1>2, <1>3, <1>4

LEMMA NextPlaces ==
    ASSUME TypeInv, phase \in Searching, NEW at, IsToken(at), NEW p \in NextTokens(at)
    PROVE  \E n \in 1 .. Len(elided) : \E i \in 1 .. Len(elided[n]) : p = <<n, i>>
<1> DEFINE behind == {i \in NotSpace(elided[at[1]]) : i > at[2]}
           below == {n \in at[1] + 1 .. Len(elided) : NotSpace(elided[n]) # {}}
<1>1. at[1] \in 1 .. Len(elided) /\ Len(elided) \in Nat
      /\ \A n \in 1 .. Len(elided) : elided[n] \in Seq(Tokens)
    BY ElidedLines DEF IsToken
<1>2. \A n \in 1 .. Len(elided) :
         /\ NotSpace(elided[n]) \subseteq Nat /\ NotSpace(elided[n]) \subseteq 1 .. Len(elided[n])
         /\ NotSpace(elided[n]) # {} => Min(NotSpace(elided[n])) \in NotSpace(elided[n])
    BY <1>1, NotSpaceOf
<1>3. /\ behind # {} => p = <<at[1], Min(behind)>>
      /\ behind = {} => below # {} /\ p = <<Min(below), Min(NotSpace(elided[Min(below)]))>>
    BY Zenon DEF NextTokens
<1>4. behind \subseteq NotSpace(elided[at[1]]) /\ below \subseteq at[1] + 1 .. Len(elided)
      /\ \A n \in below : NotSpace(elided[n]) # {}
    OBVIOUS
<1> HIDE DEF behind, below
<1>5. CASE behind # {}
    <2>1. behind \subseteq Nat /\ behind \subseteq 1 .. Len(elided[at[1]])
        BY <1>1, <1>2, <1>4
    <2>2. Min(behind) \in behind
        BY <1>5, <2>1, SmallestOf
    <2> QED BY <1>1, <1>3, <1>5, <2>1, <2>2
<1>6. CASE behind = {}
    <2> DEFINE n == Min(below)
    <2>1. below \subseteq Nat /\ below \subseteq 1 .. Len(elided)
        BY <1>1, <1>4
    <2>2. n \in below
        BY <1>3, <1>6, <2>1, SmallestOf
    <2> HIDE DEF n
    <2>3. n \in 1 .. Len(elided) /\ NotSpace(elided[n]) # {}
        BY <1>4, <2>1, <2>2
    <2>4. Min(NotSpace(elided[n])) \in 1 .. Len(elided[n])
        BY <1>2, <2>3
    <2> QED BY <1>3, <1>6, <2>3, <2>4 DEF n
<1> QED BY <1>5, <1>6

-----------------------------------------------------------------------------
LEMMA SearchStep ==
    ASSUME TypeInv, phase = "closed" => checked = 0, UNCHANGED block,
           \/ CloseExpression \/ ScanForward \/ NextLine
           \/ ReverseCloseExpression \/ ScanBackward \/ PreviousLine
    PROVE  TypeInv'
<1>1. CASE CloseExpression
    <2>1. PICK n \in 1 .. Len(elided) : \E i \in 1 .. Len(elided[n]) :
              start' = <<n, i>> /\ linenum' = n /\ pos' = i
        BY <1>1 DEF CloseExpression
    <2>2. PICK i \in 1 .. Len(elided[n]) : start' = <<n, i>> /\ linenum' = n /\ pos' = i
        BY <2>1
    <2>3. phase = "checked" /\ phase' = "close" /\ UNCHANGED <<text, stack, closed>>
        BY <1>1 DEF CloseExpression
    <2>4. closed = <<>> /\ checked = 0 /\ condition = <<>>
        BY <2>3 DEF TypeInv, SearchKept, BodyKept
    <2>5. TextKept' /\ SearchKept' /\ BottomKept'
        BY <2>2, <2>3, <2>4, BeginType
    <2>6. BodyKept'
        BY <2>3, <2>4 DEF TypeInv, BodyKept, block, text
    <2> QED BY <2>5, <2>6 DEF TypeInv
<1>2. CASE ScanForward
    <2>1. phase = "close"
        BY <1>2 DEF ScanForward
    <2> QED BY <1>2, <2>1, ScanForwardType, BodyStays DEF TypeInv, Searching
<1>3. CASE NextLine
    <2>1. phase = "close"
        BY <1>3 DEF NextLine
    <2> QED BY <1>3, <2>1, NextLineType, BodyStays DEF TypeInv, Searching
<1>4. CASE ReverseCloseExpression
    BY <1>4, ReverseType, BodyStays DEF TypeInv, Searching
<1>5. CASE ScanBackward
    BY <1>5, ScanBackwardType, BodyStays DEF TypeInv, Searching
<1>6. CASE PreviousLine
    BY <1>6, PreviousLineType, BodyStays DEF TypeInv, Searching
<1> QED BY <1>1, <1>2, <1>3, <1>4, <1>5, <1>6

LEMMA CleanseStep ==
    ASSUME TypeInv, UNCHANGED block,
           \/ CommentRemoved \/ CommentsDone \/ RawStringsDone
           \/ RawStringEnds \/ RawStringGoesOn \/ RawStringBegins \/ NoRawString
           \/ CollapseString \/ CollapseNumber \/ CollapseChar
           \/ ElideLine \/ CheckForMultilineCommentsAndStrings
    PROVE  TypeInv'
<1>1. TextKept
    BY DEF TypeInv
<1>2. CASE CommentRemoved \/ CommentsDone \/ RawStringsDone
    BY <1>1, <1>2, CommentTextType, BeforeSearch DEF TypeInv
<1>3. CASE RawStringEnds \/ RawStringGoesOn \/ RawStringBegins \/ NoRawString
    BY <1>1, <1>3, RawTextType, BeforeSearch DEF TypeInv
<1>4. CASE CollapseString \/ CollapseNumber \/ CollapseChar
    BY <1>1, <1>4, ElideTextType, BeforeSearch DEF TypeInv
<1>5. CASE ElideLine \/ CheckForMultilineCommentsAndStrings
    BY <1>1, <1>5, ElidedType, BeforeSearch DEF TypeInv
<1> QED BY <1>2, <1>3, <1>4, <1>5

LEMMA BlockStep ==
    ASSUME TypeInv, CheckEmptyBlockBody \/ ConditionEnds \/ BodyEnds
    PROVE  TypeInv'
<1>1. CASE CheckEmptyBlockBody
    <2>1. PICK n \in 1 .. Len(elided) :
              \E i \in ConditionOf(elided[n]) : CloseFrom(<<n, i>>) /\ checked' = n
        BY <1>1 DEF CheckEmptyBlockBody
    <2>2. PICK i \in ConditionOf(elided[n]) : CloseFrom(<<n, i>>) /\ checked' = n
        BY <2>1
    <2>3. /\ start' = <<n, i>> /\ linenum' = n /\ pos' = i /\ phase' = "close" /\ closed' = <<>>
          /\ UNCHANGED <<text, stack>>
        BY <2>2 DEF CloseFrom
    <2>4. phase = "checked" /\ UNCHANGED condition
        BY <1>1 DEF CheckEmptyBlockBody
    <2>5. Len(raw) \in Nat /\ Len(elided) = Len(raw) /\ elided[n] \in Seq(Tokens)
        BY <2>4, ElidedLines DEF Searching
    <2>6. i \in 1 .. Len(elided[n]) /\ elided[n][i] = "("
        BY <2>5, ConditionPlace
    <2>7. TextKept' /\ SearchKept' /\ BottomKept'
        BY <2>3, <2>4, <2>6, BeginType
    <2>8. condition' = <<>> /\ UNCHANGED <<raw, elided>> /\ Token(start)' = "("
        BY <2>3, <2>4, <2>6 DEF TypeInv, BodyKept, text, Token
    <2>9. BodyKept'
        BY <2>2, <2>3, <2>5, <2>8 DEF BodyKept
    <2> QED BY <2>7, <2>9 DEF TypeInv
<1>2. CASE ConditionEnds
    <2>1. /\ phase = "closed" /\ checked # 0 /\ condition = <<>>
          /\ condition' = closed /\ UNCHANGED checked
          /\ \/ \E at \in NextTokens(closed) : CloseFrom(at)
             \/ phase' = "done" /\ UNCHANGED <<text, search, linenum>>
        BY <1>2 DEF ConditionEnds
    <2>2. /\ Len(raw) \in Nat /\ Len(elided) = Len(raw) /\ checked \in 0 .. Len(raw)
          /\ linenum \in 1 .. Len(raw) + 1
        BY <2>1, ElidedLines DEF Searching, TypeInv, TextKept, BodyKept
    <2>3. IsToken(closed) /\ Token(closed) = ")"
        <3>1. Token(start) = "("
            BY <2>1 DEF TypeInv, BodyKept
        <3>2. "(" \in Opening /\ Closed["("] = ")"
            BY Zenon DEF Opening, Closed
        <3> QED BY <2>1, <3>1, <3>2 DEF TypeInv, SearchKept, BottomKept
    <2>4. ASSUME phase' \in {"close", "done"}, UNCHANGED text PROVE BodyKept'
        <3>1. UNCHANGED <<raw, elided>>
            BY <2>4 DEF text
        <3>2. condition' # <<>>
            <4>1. PICK n \in 1 .. Len(elided) : closed \in {<<n, i>> : i \in 1 .. Len(elided[n])}
                BY <2>3 DEF IsToken
            <4>2. PICK i \in 1 .. Len(elided[n]) : closed = <<n, i>>
                BY <4>1
            <4> QED BY <2>1, <4>2
        <3>3. Token(condition)' = ")"
            BY <2>1, <2>3, <3>1 DEF Token
        <3> QED BY <2>1, <2>2, <2>4, <3>1, <3>2, <3>3 DEF BodyKept
    <2>5. CASE \E at \in NextTokens(closed) : CloseFrom(at)
        <3>1. PICK at \in NextTokens(closed) : CloseFrom(at)
            BY <2>5
        <3>2. PICK n \in 1 .. Len(elided) : \E i \in 1 .. Len(elided[n]) : at = <<n, i>>
            BY <2>1, <2>3, NextPlaces DEF Searching
        <3>3. PICK i \in 1 .. Len(elided[n]) : at = <<n, i>>
            BY <3>2
        <3>4. /\ start' = <<n, i>> /\ linenum' = n /\ pos' = i /\ phase' = "close"
              /\ closed' = <<>> /\ UNCHANGED <<text, stack>>
            BY <3>1, <3>3 DEF CloseFrom
        <3>5. TextKept' /\ SearchKept' /\ BottomKept'
            BY <2>1, <3>4, BeginType
        <3> QED BY <2>4, <3>4, <3>5 DEF TypeInv
    <2>6. CASE phase' = "done" /\ UNCHANGED <<text, search, linenum>>
        <3>1. TextKept'
            BY <2>1, <2>2, <2>6, TextStays DEF TypeInv, Searching
        <3>2. SearchKept' /\ BottomKept'
            BY <2>6 DEF TypeInv, SearchKept, BottomKept, search
        <3> QED BY <2>4, <2>6, <3>1, <3>2 DEF TypeInv
    <2> QED BY <2>1, <2>5, <2>6
<1>3. CASE BodyEnds
    <2>1. /\ phase = "closed" /\ phase' = "done"
          /\ UNCHANGED <<text, search, linenum, checked, condition>>
        BY <1>3 DEF BodyEnds
    <2>2. linenum \in 1 .. Len(raw) + 1 /\ UNCHANGED <<raw, elided>>
        BY <2>1 DEF TypeInv, TextKept, text
    <2>3. TextKept'
        BY <2>1, <2>2, TextStays DEF TypeInv, Searching
    <2>4. SearchKept' /\ BottomKept'
        BY <2>1 DEF TypeInv, SearchKept, BottomKept, search
    <2>5. BodyKept'
        BY <2>1, <2>2 DEF TypeInv, BodyKept, Token
    <2> QED BY <2>3, <2>4, <2>5 DEF TypeInv
<1> QED BY <1>1, <1>2, <1>3

LEMMA TypeStep ==
    ASSUME TypeInv, [BlockNext]_<<vars, block>>
    PROVE  TypeInv'
<1>1. CASE Next /\ (phase = "closed" => checked = 0) /\ UNCHANGED block
    BY <1>1, CleanseStep, SearchStep DEF Next
<1>2. CASE CheckEmptyBlockBody \/ ConditionEnds \/ BodyEnds
    BY <1>2, BlockStep
<1>3. CASE UNCHANGED <<vars, block>>
    BY <1>3 DEF vars, text, search, block, TypeInv, TextKept, SearchKept, IsAt, IsToken,
                BottomKept, BodyKept, Token
<1> QED BY <1>1, <1>2, <1>3 DEF BlockNext

(* Whatever the file, the text keeps its lines while it is rewritten, the  *)
(* stack has brackets only, a condition ends in its parenthesis and the    *)
(* search stays on its line (TypeOK).                                      *)
THEOREM TextTypesCorrect == BlockSpec => []TypeOK
<1>1. ASSUME TypeInv PROVE TypeOK
    <2>1. /\ Len(lines) = Len(raw) /\ Len(raw) \in Nat /\ linenum \in 1 .. Len(raw) + 1
          /\ phase \in {"comments", "raw", "elide", "checked", "close", "closed", "reopen", "done"}
          /\ delimiter # <<>> => delimiter[1] = ")" /\ Last(delimiter) = "q"
        BY <1>1, TextsAssumption DEF TypeInv, TextKept, Searching
    <2>2. Len(elided) \in {0, Len(raw)} \/ phase = "elide"
        BY <1>1 DEF TypeInv, TextKept, Searching
    <2>3. \A i \in 1 .. Len(stack) : stack[i] \in Opening \cup Closing \cup {"<", ">"}
        BY <1>1 DEF TypeInv, SearchKept
    <2>4. checked \in 0 .. Len(raw)
          /\ (condition # <<>> => elided[condition[1]][condition[2]] = ")")
        BY <1>1 DEF TypeInv, BodyKept, Token
    <2>5. phase \in {"close", "reopen"} => pos \in -1 .. Len(elided[linenum]) + 1
        <3>1. ASSUME phase \in {"close", "reopen"}
              PROVE  pos \in -1 .. Len(elided[linenum]) + 1
            <4>1. linenum \in 1 .. Len(elided)
                  /\ (pos \in 1 .. Len(elided[linenum]) + 1 \/ pos \in 0 .. Len(elided[linenum]) + 0)
                BY <1>1, <3>1 DEF TypeInv, SearchKept, IsAt
            <4>2. Len(elided[linenum]) \in Nat
                BY <1>1, <3>1, <4>1, ElidedLines DEF Searching
            <4> QED BY <4>1, <4>2
        <3> QED BY <3>1
    <2> QED BY <2>1, <2>2, <2>3, <2>4, <2>5 DEF TypeOK
<1> QED BY <1>1, TextInit, TypeStep, PTL DEF BlockSpec
=============================================================================
