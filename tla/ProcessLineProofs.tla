------------------------- MODULE ProcessLineProofs -------------------------
(***************************************************************************)
(* Proofs that cpplint.py keeps, whatever the file, its stack of blocks    *)
(* well formed and as if the branches of #else were not there              *)
(* (ProcessLine), from LinesInv.                                           *)
(***************************************************************************)
EXTENDS ProcessLineInvariant, NaturalLemmas, SequenceTheorems, FiniteSetTheorems

(* A sequence without its last element, and with one more.                 *)
LEMMA FrontOf ==
    ASSUME NEW S, NEW s \in Seq(S), s # <<>>
    PROVE  /\ Front(s) \in Seq(S)
           /\ Len(Front(s)) = Len(s) - 1
           /\ \A i \in 1 .. Len(s) - 1 : Front(s)[i] = s[i]
           /\ Last(s) = s[Len(s)] /\ Last(s) \in S
           /\ Len(s) \in Nat \ {0}
<1> DEFINE N == Len(s)
           f == SubSeq(s, 1, N - 1)
<1>1. N \in Nat /\ N # 0
    BY LenProperties, EmptySeq
<1>2. 1 \in Int /\ N - 1 \in Int
    BY <1>1
<1>3. \A i \in 1 .. N : s[i] \in S
    BY <1>1, ElementOfSeq
<1> HIDE DEF N
<1>4. \A i \in 1 .. N - 1 : s[i] \in S
    BY <1>1, <1>3
<1>5. /\ f \in Seq(S)
      /\ Len(f) = IF 1 <= N - 1 THEN (N - 1) - 1 + 1 ELSE 0
      /\ \A i \in 1 .. (N - 1) - 1 + 1 : f[i] = s[1 + i - 1]
    BY ONLY <1>2, <1>4, SubSeqProperties
<1> HIDE DEF f
<1>6. Len(f) = N - 1
    BY <1>1, <1>5
<1>7. \A i \in 1 .. N - 1 : f[i] = s[i]
    BY <1>1, <1>5
<1>8. s[N] \in S
    BY <1>1, <1>3
<1> QED BY <1>1, <1>5, <1>6, <1>7, <1>8 DEF Front, Last, f, N

LEMMA PushOn ==
    ASSUME NEW S, NEW s \in Seq(S), NEW e \in S
    PROVE  /\ Append(s, e) \in Seq(S)
           /\ Len(Append(s, e)) = Len(s) + 1
           /\ \A i \in 1 .. Len(s) : Append(s, e)[i] = s[i]
           /\ Append(s, e)[Len(s) + 1] = e
           /\ Len(s) \in Nat
BY AppendProperties, LenProperties

-----------------------------------------------------------------------------
(* The branches of the preprocessor.                                       *)

(* The functions that read the file as a whole are what they say.          *)
LEMMA ElseOpenDefined ==
    ASSUME Len(file) \in Nat
    PROVE  /\ \A n \in 0 .. Len(file) : ElseOpen[n] \in Seq(BOOLEAN)
           /\ ElseOpen[0] = <<>>
           /\ \A n \in 1 .. Len(file) :
                 ElseOpen[n] = Turned(ElseOpen[n - 1], file[n].toks)
<1> DEFINE N == Len(file)
           One(s, n) == Turned(s, file[n].toks)
           step == [n \in 1 .. N |-> [s \in Seq(BOOLEAN) |-> One(s, n)]]
           Body(g) == [n \in 0 .. N |-> IF n = 0 THEN <<>> ELSE One(g[n - 1], n)]
<1>1. N \in Nat
    OBVIOUS
<1>2. ASSUME NEW n \in 1 .. N, NEW s \in Seq(BOOLEAN) PROVE One(s, n) \in Seq(BOOLEAN)
    <2>1. Append(s, FALSE) \in Seq(BOOLEAN)
        BY AppendProperties
    <2>2. s # <<>> => /\ Front(s) \in Seq(BOOLEAN)
                      /\ Append(Front(s), TRUE) \in Seq(BOOLEAN)
        BY FrontOf, AppendProperties
    <2> QED BY <2>1, <2>2 DEF Turned
<1>3. <<>> \in Seq(BOOLEAN)
    OBVIOUS
<1> HIDE DEF N, One
<1>4. step \in [1 .. N -> [Seq(BOOLEAN) -> Seq(BOOLEAN)]]
    BY <1>2
<1> HIDE DEF step
<1>5. PICK h \in [0 .. N -> Seq(BOOLEAN)] :
          h[0] = <<>> /\ \A n \in 1 .. N : h[n] = step[n][h[n - 1]]
    <2>1. \E g : IsRecursion(g, Seq(BOOLEAN), <<>>, N, step)
        BY ONLY <1>1, <1>3, <1>4, Recursion
    <2> QED BY <2>1 DEF IsRecursion
<1>6. ASSUME NEW n \in 1 .. N PROVE h[n] = One(h[n - 1], n)
    <2>1. n - 1 \in 0 .. N /\ h[n - 1] \in Seq(BOOLEAN)
        BY <1>1
    <2> QED BY <1>5, <2>1 DEF step
<1>7. h = Body(h)
    BY <1>1, <1>5, <1>6
<1> DEFINE k == CHOOSE g : g = Body(g)
<1>8. k = Body(k)
    BY <1>7
<1>9. ElseOpen = k
    BY DEF ElseOpen, N, One
<1> HIDE DEF k
<1>10. k[0] = <<>> /\ \A n \in 1 .. N : k[n] = One(k[n - 1], n)
    BY <1>1, <1>8
<1> DEFINE P == {n \in Nat : n <= N => k[n] \in Seq(BOOLEAN)}
<1>11. 0 \in P
    BY <1>3, <1>10
<1>12. ASSUME NEW n \in Nat, n \in P PROVE n + 1 \in P
    <2> SUFFICES ASSUME n + 1 <= N PROVE k[n + 1] \in Seq(BOOLEAN)
        OBVIOUS
    <2>1. PICK m : m = n + 1
        OBVIOUS
    <2>2. m \in 1 .. N /\ m - 1 = n /\ k[n] \in Seq(BOOLEAN)
        BY <1>1, <1>12, <2>1
    <2> QED BY <1>2, <1>10, <2>1, <2>2
<1> HIDE DEF P
<1>13. Nat \subseteq P
    BY <1>11, <1>12, Induction
<1>14. \A n \in 0 .. N : k[n] \in Seq(BOOLEAN)
    BY <1>1, <1>13 DEF P
<1> QED BY <1>9, <1>10, <1>14 DEF N, One

LEMMA FirstStacksDefined ==
    ASSUME Len(file) \in Nat
    PROVE  /\ FirstStacks[0] = <<>>
           /\ \A n \in 1 .. Len(file) :
                 FirstStacks[n] = IF n \in InElse THEN FirstStacks[n - 1]
                                  ELSE LineRead(FirstStacks[n - 1], file, n).stack
<1> DEFINE N == Len(file)
           One(s, n) == IF n \in InElse THEN s ELSE LineRead(s, file, n).stack
           Value(g, n) == IF n = 0 THEN <<>> ELSE One(g[n - 1], n)
           Body(g) == [n \in 0 .. N |-> Value(g, n)]
           P == {m \in Nat : \E g : \A n \in 0 .. m : g[n] = Value(g, n)}
<1>1. N \in Nat
    OBVIOUS
<1> HIDE DEF N, One
<1>2. 0 \in P
    <2>1. \A n \in 0 .. 0 : [i \in 0 .. 0 |-> <<>>][n] = Value([i \in 0 .. 0 |-> <<>>], n)
        OBVIOUS
    <2> QED BY <2>1
<1>3. ASSUME NEW m \in Nat, m \in P PROVE m + 1 \in P
    <2>1. PICK g : \A n \in 0 .. m : g[n] = Value(g, n)
        BY <1>3
    <2> DEFINE h == [n \in 0 .. m + 1 |-> IF n <= m THEN g[n] ELSE One(g[m], m + 1)]
    <2>2. \A n \in 0 .. m : h[n] = g[n]
        OBVIOUS
    <2>3. h[m + 1] = One(h[m], m + 1)
        OBVIOUS
    <2> HIDE DEF h
    <2>4. ASSUME NEW n \in 0 .. m + 1 PROVE h[n] = Value(h, n)
        <3>1. CASE n = 0
            BY <3>1, <2>1, <2>2
        <3>2. CASE n = m + 1
            <4>1. n # 0 /\ n - 1 = m
                BY <3>2
            <4> QED BY <2>3, <3>2, <4>1
        <3>3. CASE n # 0 /\ n # m + 1
            <4>1. n \in 0 .. m /\ n - 1 \in 0 .. m
                BY <3>3
            <4> QED BY <2>1, <2>2, <3>3, <4>1
        <3> QED BY <3>1, <3>2, <3>3
    <2> QED BY <2>4
<1> HIDE DEF P
<1>4. Nat \subseteq P
    BY <1>2, <1>3, Induction
<1>5. PICK g : \A n \in 0 .. N : g[n] = Value(g, n)
    BY <1>1, <1>4 DEF P
<1> DEFINE h == [n \in 0 .. N |-> g[n]]
<1>6. h = Body(h)
    <2>1. ASSUME NEW n \in 0 .. N PROVE h[n] = Value(h, n)
        <3>1. CASE n = 0
            BY <3>1, <1>5
        <3>2. CASE n # 0
            <4>1. n - 1 \in 0 .. N
                BY <1>1, <3>2
            <4> QED BY <1>5, <4>1
        <3> QED BY <3>1, <3>2
    <2> HIDE DEF Value
    <2> QED BY <2>1
<1> HIDE DEF h
<1> DEFINE k == CHOOSE f : f = Body(f)
<1>7. k = Body(k)
    BY <1>6
<1>8. FirstStacks = k
    BY DEF FirstStacks, N, One
<1> HIDE DEF k
<1>9. k[0] = <<>> /\ \A n \in 1 .. N : k[n] = One(k[n - 1], n)
    BY <1>1, <1>7
<1> QED BY <1>8, <1>9 DEF N, One

(* A state is the record Update makes.                                     *)
IsState(s) ==
    s = [stack |-> s.stack, pp |-> s.pp, previous |-> s.previous, errors |-> s.errors]

(* UpdatePreprocessor keeps pp_stack and the stack of the branches that    *)
(* are compiled, whichever directive the line has.                         *)
LEMMA IfKeeps ==
    ASSUME NEW T, NEW s, IsState(s), s.stack \in T, <<>> \in T,
           s.pp \in Seq([before_if : T, before_else : T, seen_else : BOOLEAN]),
           NEW open \in Seq(BOOLEAN), NEW toks, NEW stack,
           ConditionalsKept(s.pp, open), StackKept(s, open, stack),
           Starts(toks, "#if")
    PROVE  LET t == PreprocessorUpdated(s, toks)
           IN  /\ ConditionalsKept(t.pp, Turned(open, toks))
               /\ StackKept(t, Turned(open, toks), stack)
<1> DEFINE R == [before_if : T, before_else : T, seen_else : BOOLEAN]
           e == [before_if |-> s.stack, before_else |-> <<>>, seen_else |-> FALSE]
<1>1. PICK t : t = PreprocessorUpdated(s, toks)
    OBVIOUS
<1>2. t = [s EXCEPT !.pp = Append(@, e)]
    <2>1. ~Starts(toks, "#else") /\ ~Starts(toks, "#endif")
        BY DEF Starts
    <2> QED BY <1>1, <2>1, Zenon DEF PreprocessorUpdated
<1>3. t.pp = Append(s.pp, e) /\ t.stack = s.stack
    BY <1>2 DEF IsState
<1>4. PICK next : next = Append(open, FALSE)
    OBVIOUS
<1>5. Turned(open, toks) = next
    <2>1. ~Starts(toks, "#else") /\ ~Starts(toks, "#endif")
        BY DEF Starts
    <2> QED BY <1>4, <2>1, Zenon DEF Turned
<1>6. e \in R
    BY FALSE \in BOOLEAN, Zenon
<1> HIDE DEF e
<1>7. PICK N : N = Len(open)
    OBVIOUS
<1>8. N \in Nat /\ Len(s.pp) = N
    BY <1>7, LenProperties DEF ConditionalsKept
<1>9. /\ Len(t.pp) = N + 1
      /\ \A i \in 1 .. N : t.pp[i] = s.pp[i]
      /\ t.pp[N + 1] = e
    BY <1>3, <1>6, <1>8, PushOn
<1>10. /\ Len(next) = N + 1
       /\ \A i \in 1 .. N : next[i] = open[i]
       /\ next[N + 1] = FALSE
    BY <1>4, <1>7, PushOn
<1>11. e.seen_else = FALSE
    BY DEF e
<1>12. ConditionalsKept(t.pp, next)
    <2>1. ASSUME NEW i \in 1 .. N + 1 PROVE t.pp[i].seen_else = next[i]
        <3>1. i \in 1 .. N \/ i = N + 1
            BY <1>8
        <3> QED BY <3>1, <1>8, <1>9, <1>10, <1>11 DEF ConditionalsKept
    <2> QED BY <2>1, <1>9, <1>10 DEF ConditionalsKept
<1>13. (\A j \in 1 .. Len(next) : ~next[j]) => t.stack = stack
    <2> SUFFICES ASSUME \A j \in 1 .. N + 1 : ~next[j] PROVE t.stack = stack
        BY <1>10
    <2>1. \A j \in 1 .. N : ~open[j]
        BY <1>8, <1>10
    <2> QED BY <2>1, <1>3, <1>7 DEF StackKept
<1>14. ASSUME NEW j \in 1 .. Len(next), IsFirstElse(next, j)
       PROVE  t.pp[j].before_else = stack
    <2>1. j \in 1 .. N /\ j \in Nat
        BY <1>8, <1>10, <1>14 DEF IsFirstElse
    <2>2. IsFirstElse(open, j)
        <3>1. \A i \in 1 .. j - 1 : i \in 1 .. N
            BY <2>1, <1>8
        <3> QED BY <3>1, <2>1, <1>10, <1>14 DEF IsFirstElse
    <2> QED BY <2>1, <2>2, <1>7, <1>9 DEF StackKept
<1>15. StackKept(t, next, stack)
    BY <1>13, <1>14 DEF StackKept
<1> QED BY <1>1, <1>5, <1>12, <1>15

LEMMA ElseKeeps ==
    ASSUME NEW T, NEW s, IsState(s), s.stack \in T,
           s.pp \in Seq([before_if : T, before_else : T, seen_else : BOOLEAN]),
           NEW open \in Seq(BOOLEAN), NEW toks, NEW stack,
           ConditionalsKept(s.pp, open), StackKept(s, open, stack),
           Starts(toks, "#else"), open # <<>>
    PROVE  LET t == PreprocessorUpdated(s, toks)
           IN  /\ ConditionalsKept(t.pp, Turned(open, toks))
               /\ StackKept(t, Turned(open, toks), stack)
<1> DEFINE R == [before_if : T, before_else : T, seen_else : BOOLEAN]
           top == Last(s.pp)
           e == [top EXCEPT !.seen_else = TRUE, !.before_else = s.stack]
<1>1. PICK t : t = PreprocessorUpdated(s, toks)
    OBVIOUS
<1>2. PICK N : N = Len(open)
    OBVIOUS
<1>3. N \in Nat \ {0} /\ Len(s.pp) = N /\ s.pp # <<>>
    BY <1>2, LenProperties, EmptySeq DEF ConditionalsKept
<1>4. ~Starts(toks, "#if") /\ ~Starts(toks, "#endif")
    BY DEF Starts
<1>5. PICK next : next = Append(Front(open), TRUE)
    OBVIOUS
<1>6. Turned(open, toks) = next
    BY <1>4, <1>5, Zenon DEF Turned
<1>7. /\ Len(next) = N
      /\ \A i \in 1 .. N - 1 : next[i] = open[i]
      /\ next[N] = TRUE
    <2>1. PICK f : f = Front(open)
        OBVIOUS
    <2>2. f \in Seq(BOOLEAN) /\ Len(f) = N - 1 /\ \A i \in 1 .. N - 1 : f[i] = open[i]
        BY <2>1, <1>2, FrontOf
    <2>3. /\ Len(next) = Len(f) + 1
          /\ \A i \in 1 .. Len(f) : next[i] = f[i]
          /\ next[Len(f) + 1] = TRUE
        <3>1. next = Append(f, TRUE) /\ TRUE \in BOOLEAN /\ f \in Seq(BOOLEAN)
            BY <2>1, <2>2, <1>5
        <3> QED BY ONLY <3>1, PushOn
    <2>4. Len(f) = N - 1 /\ Len(f) + 1 = N
        BY <2>2, <1>3
    <2> QED BY <2>2, <2>3, <2>4
<1>8. top = s.pp[N] /\ top \in R
    BY <1>3, FrontOf
<1>9. t = [s EXCEPT !.pp = IF top.seen_else THEN @ ELSE Append(Front(@), e),
                    !.stack = top.before_if]
    BY <1>1, <1>3, <1>4, Zenon DEF PreprocessorUpdated
<1>10. e \in R /\ e.seen_else = TRUE /\ e.before_else = s.stack
    BY <1>8
<1> HIDE DEF e, top
<1>11. t.pp = IF top.seen_else THEN s.pp ELSE Append(Front(s.pp), e)
    BY <1>9 DEF IsState
<1>12. top.seen_else = open[N] /\ open[N] \in BOOLEAN
    <2>1. N \in 1 .. Len(s.pp)
        BY <1>3
    <2> QED BY <2>1, <1>8 DEF ConditionalsKept
<1>13. /\ Len(t.pp) = N
       /\ \A i \in 1 .. N - 1 : t.pp[i] = s.pp[i]
       /\ t.pp[N] = IF open[N] THEN top ELSE e
    <2>1. CASE open[N]
        BY <2>1, <1>3, <1>8, <1>11, <1>12
    <2>2. CASE ~open[N]
        <3>1. PICK f : f = Front(s.pp)
            OBVIOUS
        <3>2. f \in Seq(R) /\ Len(f) = N - 1 /\ \A i \in 1 .. N - 1 : f[i] = s.pp[i]
            BY <3>1, <1>3, FrontOf
        <3>3. /\ Len(t.pp) = Len(f) + 1
              /\ \A i \in 1 .. Len(f) : t.pp[i] = f[i]
              /\ t.pp[Len(f) + 1] = e
            <4>1. t.pp = Append(f, e)
                BY <2>2, <3>1, <1>11, <1>12
            <4> QED BY <4>1, <3>2, <1>10, PushOn
        <3>4. N - 1 + 1 = N
            BY <1>3
        <3> QED BY <2>2, <3>2, <3>3, <3>4
    <2> QED BY <2>1, <2>2, <1>12
<1>14. ConditionalsKept(t.pp, next)
    <2>1. ASSUME NEW i \in 1 .. N PROVE t.pp[i].seen_else = next[i]
        <3>1. i \in 1 .. N - 1 \/ i = N
            BY <1>3
        <3>2. CASE i \in 1 .. N - 1
            BY <3>2, <1>3, <1>7, <1>13 DEF ConditionalsKept
        <3>3. CASE i = N
            BY <3>3, <1>7, <1>10, <1>12, <1>13
        <3> QED BY <3>1, <3>2, <3>3
    <2> QED BY <2>1, <1>7, <1>13 DEF ConditionalsKept
<1>15. ~(\A j \in 1 .. Len(next) : ~next[j])
    BY <1>3, <1>7
<1>16. ASSUME NEW j \in 1 .. Len(next), IsFirstElse(next, j)
       PROVE  t.pp[j].before_else = stack
    <2>1. j \in 1 .. N - 1 \/ j = N
        BY <1>3, <1>7
    <2>2. \A i \in 1 .. j - 1 : i \in 1 .. N - 1 /\ ~open[i]
        <3>1. \A i \in 1 .. j - 1 : i \in 1 .. N - 1
            BY <2>1, <1>3
        <3> QED BY <3>1, <1>7, <1>16 DEF IsFirstElse
    <2>3. CASE j \in 1 .. N - 1
        <3>1. IsFirstElse(open, j)
            BY <2>2, <2>3, <1>7, <1>16 DEF IsFirstElse
        <3>2. j \in 1 .. Len(open)
            BY <2>3, <1>2, <1>3
        <3> QED BY <2>3, <3>1, <3>2, <1>13 DEF StackKept
    <2>4. CASE j = N /\ open[N]
        <3>1. IsFirstElse(open, N)
            BY <2>2, <2>4 DEF IsFirstElse
        <3>2. N \in 1 .. Len(open)
            BY <1>2, <1>3
        <3> QED BY <2>4, <3>1, <3>2, <1>8, <1>13 DEF StackKept
    <2>5. CASE j = N /\ ~open[N]
        <3>1. \A i \in 1 .. Len(open) : ~open[i]
            <4>1. ASSUME NEW i \in 1 .. N PROVE ~open[i]
                <5>1. i \in 1 .. N - 1 \/ i = N
                    BY <1>3
                <5> QED BY <5>1, <2>2, <2>5
            <4> QED BY <4>1, <1>2
        <3>2. s.stack = stack
            BY <3>1 DEF StackKept
        <3> QED BY <3>2, <2>5, <1>10, <1>13
    <2> QED BY <2>1, <2>3, <2>4, <2>5, <1>12
<1>17. StackKept(t, next, stack)
    BY <1>15, <1>16 DEF StackKept
<1> QED BY <1>1, <1>6, <1>14, <1>17

LEMMA EndifKeeps ==
    ASSUME NEW T, NEW s, IsState(s), s.stack \in T,
           s.pp \in Seq([before_if : T, before_else : T, seen_else : BOOLEAN]),
           NEW open \in Seq(BOOLEAN), NEW toks, NEW stack,
           ConditionalsKept(s.pp, open), StackKept(s, open, stack),
           Starts(toks, "#endif"), open # <<>>
    PROVE  LET t == PreprocessorUpdated(s, toks)
           IN  /\ ConditionalsKept(t.pp, Turned(open, toks))
               /\ StackKept(t, Turned(open, toks), stack)
<1> DEFINE R == [before_if : T, before_else : T, seen_else : BOOLEAN]
           top == Last(s.pp)
<1>1. PICK t : t = PreprocessorUpdated(s, toks)
    OBVIOUS
<1>2. PICK N : N = Len(open)
    OBVIOUS
<1>3. N \in Nat \ {0} /\ Len(s.pp) = N /\ s.pp # <<>>
    BY <1>2, LenProperties, EmptySeq DEF ConditionalsKept
<1>4. ~Starts(toks, "#if") /\ ~Starts(toks, "#else")
    BY DEF Starts
<1>5. PICK next : next = Front(open)
    OBVIOUS
<1>6. Turned(open, toks) = next
    BY <1>4, <1>5, Zenon DEF Turned
<1>7. Len(next) = N - 1 /\ \A i \in 1 .. N - 1 : next[i] = open[i]
    BY <1>2, <1>5, FrontOf
<1>8. /\ top = s.pp[N]
      /\ Len(Front(s.pp)) = N - 1
      /\ \A i \in 1 .. N - 1 : Front(s.pp)[i] = s.pp[i]
    BY <1>3, FrontOf
<1>9. t = [s EXCEPT !.pp = Front(@),
                    !.stack = IF top.seen_else THEN top.before_else ELSE @]
    BY <1>1, <1>3, <1>4, Zenon DEF PreprocessorUpdated
<1> HIDE DEF top
<1>10. /\ t.pp = Front(s.pp)
       /\ t.stack = IF top.seen_else THEN top.before_else ELSE s.stack
    BY <1>9 DEF IsState
<1>11. top.seen_else = open[N] /\ N \in 1 .. Len(open)
    <2>1. N \in 1 .. Len(s.pp)
        BY <1>3
    <2> QED BY <2>1, <1>2, <1>3, <1>8 DEF ConditionalsKept
<1>12. \A i \in 1 .. N - 1 : i \in 1 .. N
    BY <1>3
<1>13. ConditionalsKept(t.pp, next)
    BY <1>3, <1>7, <1>8, <1>10, <1>12 DEF ConditionalsKept
<1>14. ASSUME \A j \in 1 .. Len(next) : ~next[j] PROVE t.stack = stack
    <2>1. \A j \in 1 .. N - 1 : ~open[j]
        BY <1>7, <1>14
    <2>2. CASE open[N]
        <3>1. IsFirstElse(open, N)
            BY <2>1, <2>2 DEF IsFirstElse
        <3> QED BY <2>2, <3>1, <1>8, <1>10, <1>11 DEF StackKept
    <2>3. CASE ~open[N]
        <3>1. ASSUME NEW j \in 1 .. N PROVE ~open[j]
            <4>1. j \in 1 .. N - 1 \/ j = N
                BY <1>3
            <4> QED BY <4>1, <2>1, <2>3
        <3>2. s.stack = stack
            BY <3>1, <1>2 DEF StackKept
        <3> QED BY <2>3, <3>2, <1>10, <1>11
    <2> QED BY <2>2, <2>3
<1>15. ASSUME NEW j \in 1 .. Len(next), IsFirstElse(next, j)
       PROVE  t.pp[j].before_else = stack
    <2>1. j \in 1 .. N - 1 /\ j \in 1 .. Len(open)
        BY <1>2, <1>7, <1>12
    <2>2. \A i \in 1 .. j - 1 : i \in 1 .. N - 1
        BY <2>1, <1>3
    <2>3. IsFirstElse(open, j)
        BY <2>1, <2>2, <1>7, <1>15 DEF IsFirstElse
    <2> QED BY <2>1, <2>3, <1>8, <1>10 DEF StackKept
<1>16. StackKept(t, next, stack)
    BY <1>14, <1>15 DEF StackKept
<1> QED BY <1>1, <1>6, <1>13, <1>16

LEMMA PreprocessorKeeps ==
    ASSUME NEW T, NEW s, IsState(s), s.stack \in T, <<>> \in T,
           s.pp \in Seq([before_if : T, before_else : T, seen_else : BOOLEAN]),
           NEW open \in Seq(BOOLEAN), NEW toks, NEW stack,
           ConditionalsKept(s.pp, open), StackKept(s, open, stack)
    PROVE  LET t == PreprocessorUpdated(s, toks)
           IN  /\ ConditionalsKept(t.pp, Turned(open, toks))
               /\ StackKept(t, Turned(open, toks), stack)
<1>1. CASE Starts(toks, "#if")
    BY <1>1, IfKeeps
<1>2. CASE Starts(toks, "#else") /\ open # <<>>
    BY <1>2, ElseKeeps
<1>3. CASE Starts(toks, "#endif") /\ open # <<>>
    BY <1>3, EndifKeeps
<1>4. CASE /\ ~Starts(toks, "#if")
           /\ ~(Starts(toks, "#else") /\ open # <<>>)
           /\ ~(Starts(toks, "#endif") /\ open # <<>>)
    <2>1. Len(s.pp) = Len(open)
        BY DEF ConditionalsKept
    <2>2. s.pp = <<>> <=> open = <<>>
        BY <2>1, EmptySeq, LenProperties
    <2>3. /\ ~Starts(toks, "#if")
          /\ ~(Starts(toks, "#else") /\ s.pp # <<>>)
          /\ ~(Starts(toks, "#endif") /\ s.pp # <<>>)
        BY <1>4, <2>2 DEF Starts
    <2>4. PreprocessorUpdated(s, toks) = s
        BY <2>3 DEF PreprocessorUpdated
    <2>5. Turned(open, toks) = open
        BY <1>4 DEF Turned
    <2> QED BY <2>4, <2>5
<1> QED BY <1>1, <1>2, <1>3, <1>4

-----------------------------------------------------------------------------
(* Types.  n is the line, m the last one of the file.                      *)

(* A line more does no harm to a block.                                    *)
LEMMA BlocksGrow ==
    ASSUME NEW n \in Nat, NEW m \in Nat
    PROVE  /\ BlocksUpTo(n, m) \subseteq BlocksUpTo(n + 1, m)
           /\ Stacks(n, m) \subseteq Stacks(n + 1, m)
           /\ Seq(Saved(n, m)) \subseteq Seq(Saved(n + 1, m))
<1>1. BlocksUpTo(n, m) \subseteq BlocksUpTo(n + 1, m)
    BY DEF BlocksUpTo
<1>2. Stacks(n, m) \subseteq Stacks(n + 1, m)
    BY ONLY <1>1, SeqMonotonic DEF Stacks
<1>3. Saved(n, m) \subseteq Saved(n + 1, m)
    BY <1>2 DEF Saved
<1> QED BY <1>1, <1>2, <1>3, SeqMonotonic

LEMMA NewBlock ==
    ASSUME NEW m \in Nat, NEW n \in 1 .. m, NEW seen \in BOOLEAN,
           NEW kind \in {"namespace", "class", "extern", "block"}
    PROVE  Block(kind, n, seen) \in BlocksUpTo(n, m)
BY DEF Block, BlocksUpTo, Blocks

LEMMA CountType ==
    ASSUME NEW toks, Len(toks) \in Nat, NEW t
    PROVE  Count(toks, t) \in Nat
<1> DEFINE I == {i \in 1 .. Len(toks) : toks[i] = t}
<1>1. I \subseteq 1 .. Len(toks) /\ IsFiniteSet(1 .. Len(toks))
    BY FS_Interval
<1>2. IsFiniteSet(I)
    BY <1>1, FS_Subset
<1>3. Cardinality(I) \in Nat
    BY <1>2, FS_CardinalityType
<1> QED BY <1>3 DEF Count

LEMMA ParensType ==
    ASSUME NEW n, NEW m, NEW stack \in Stacks(n, m), NEW toks, Len(toks) \in Nat
    PROVE  ParensCounted(stack, toks) \in Stacks(n, m)
<1> DEFINE b == Last(stack)
           depth == Count(toks, "(") - Count(toks, ")")
           c == [b EXCEPT !.parens = @ + depth, !.asm = AsmState(b, depth, toks)]
<1>1. CASE stack = <<>>
    BY <1>1 DEF ParensCounted
<1>2. CASE stack # <<>>
    <2>1. b \in BlocksUpTo(n, m) /\ Front(stack) \in Stacks(n, m)
        BY ONLY <1>2, FrontOf DEF Stacks
    <2>2. depth \in Int
        BY CountType
    <2> HIDE DEF b, depth
    <2>3. b \in Blocks /\ b.start \in 1 .. n /\ b.last \in 0 .. m
        BY <2>1 DEF BlocksUpTo
    <2>4. AsmState(b, depth, toks) \in {"no", "inside", "end", "block"}
        BY <2>3 DEF AsmState, Blocks
    <2>5. c \in Blocks /\ c.start = b.start /\ c.last = b.last
        <3>1. PICK a : a = AsmState(b, depth, toks)
            OBVIOUS
        <3>2. PICK p : p = b.parens + depth
            OBVIOUS
        <3>3. a \in {"no", "inside", "end", "block"} /\ p \in Int
            BY <2>2, <2>3, <2>4, <3>1, <3>2 DEF Blocks
        <3>4. c = [b EXCEPT !.parens = p, !.asm = a]
            BY <3>1, <3>2
        <3> HIDE DEF c
        <3> QED BY <2>3, <3>3, <3>4 DEF Blocks
    <2>6. c \in BlocksUpTo(n, m)
        BY <2>3, <2>5 DEF BlocksUpTo
    <2> HIDE DEF c
    <2>7. Append(Front(stack), c) \in Stacks(n, m)
        BY ONLY <2>1, <2>6, PushOn DEF Stacks
    <2>8. ParensCounted(stack, toks) = Append(Front(stack), c)
        BY <1>2 DEF ParensCounted, Kept, b, c, depth
    <2> QED BY <2>7, <2>8
<1> QED BY <1>1, <1>2

LEMMA PreprocessorType ==
    ASSUME NEW T, NEW s, IsState(s), s.stack \in T, <<>> \in T,
           NEW toks, Len(toks) \in Nat,
           s.pp \in Seq([before_if : T, before_else : T, seen_else : BOOLEAN])
    PROVE  LET t == PreprocessorUpdated(s, toks)
           IN  /\ t.stack \in T
               /\ t.pp \in Seq([before_if : T, before_else : T, seen_else : BOOLEAN])
<1> DEFINE R == [before_if : T, before_else : T, seen_else : BOOLEAN]
           top == Last(s.pp)
<1>1. PICK t : t = PreprocessorUpdated(s, toks)
    OBVIOUS
<1>2. CASE Starts(toks, "#if")
    <2> DEFINE e == [before_if |-> s.stack, before_else |-> <<>>, seen_else |-> FALSE]
    <2>1. e \in R
        BY FALSE \in BOOLEAN, Zenon
    <2> HIDE DEF e
    <2>2. ~Starts(toks, "#else") /\ ~Starts(toks, "#endif")
        BY <1>2 DEF Starts
    <2>3. t = [s EXCEPT !.pp = Append(@, e)]
        BY <1>1, <1>2, <2>2, Zenon DEF PreprocessorUpdated, e
    <2>4. t.pp = Append(s.pp, e) /\ t.stack = s.stack
        BY <2>3 DEF IsState
    <2> QED BY <1>1, <2>1, <2>4, PushOn
<1>3. CASE Starts(toks, "#else") /\ s.pp # <<>>
    <2> DEFINE e == [top EXCEPT !.seen_else = TRUE, !.before_else = s.stack]
    <2>1. top \in R /\ Front(s.pp) \in Seq(R)
        BY <1>3, FrontOf
    <2>2. e \in R
        BY <2>1
    <2> HIDE DEF e, top
    <2>3. ~Starts(toks, "#if") /\ ~Starts(toks, "#endif")
        BY <1>3 DEF Starts
    <2>4. t = [s EXCEPT !.pp = IF top.seen_else THEN @ ELSE Append(Front(@), e),
                        !.stack = top.before_if]
        BY <1>1, <1>3, <2>3, Zenon DEF PreprocessorUpdated, e, top
    <2>5. /\ t.pp = IF top.seen_else THEN s.pp ELSE Append(Front(s.pp), e)
          /\ t.stack = top.before_if
        BY <2>4 DEF IsState
    <2>6. Append(Front(s.pp), e) \in Seq(R)
        BY <2>1, <2>2, PushOn
    <2> QED BY <1>1, <2>1, <2>5, <2>6
<1>4. CASE Starts(toks, "#endif") /\ s.pp # <<>>
    <2>1. top \in R /\ Front(s.pp) \in Seq(R)
        BY <1>4, FrontOf
    <2> HIDE DEF top
    <2>2. ~Starts(toks, "#if") /\ ~Starts(toks, "#else")
        BY <1>4 DEF Starts
    <2>3. t = [s EXCEPT !.pp = Front(@),
                        !.stack = IF top.seen_else THEN top.before_else ELSE @]
        BY <1>1, <1>4, <2>2, Zenon DEF PreprocessorUpdated, top
    <2>4. /\ t.pp = Front(s.pp)
          /\ t.stack = IF top.seen_else THEN top.before_else ELSE s.stack
        BY <2>3 DEF IsState
    <2> QED BY <1>1, <2>1, <2>4
<1>5. CASE /\ ~Starts(toks, "#if")
           /\ ~(Starts(toks, "#else") /\ s.pp # <<>>)
           /\ ~(Starts(toks, "#endif") /\ s.pp # <<>>)
    <2>1. t = s
        BY <1>1, <1>5, Zenon DEF PreprocessorUpdated
    <2> QED BY <1>1, <2>1
<1> QED BY <1>2, <1>3, <1>4, <1>5

(* The namespaces of a line are new blocks, and what is left of it begins  *)
(* in it or ends it.                                                       *)
LEMMA NamespacesType ==
    ASSUME NEW m \in Nat, NEW n \in 1 .. m, NEW toks, Len(toks) \in Nat
    PROVE  /\ Namespaces(toks, n).blocks \in Stacks(n, m)
           /\ Namespaces(toks, n).rest \in 1 .. Len(toks) + 1
<1> DEFINE L == Len(toks)
           Braces(i) == {j \in i .. L : toks[j] = "{"}
           At(i) == IF Braces(i) # {}
                    THEN CHOOSE k \in Braces(i) : \A l \in Braces(i) : k <= l
                    ELSE i
           Ended(i) == i > L \/ toks[i] # "namespace"
           Entry(i, more) ==
               [blocks |-> <<Block("namespace", n, Braces(i) # {})>> \o more.blocks,
                rest   |-> more.rest]
           Value(g, i) == IF Ended(i) THEN [blocks |-> <<>>, rest |-> i]
                          ELSE Entry(i, g[At(i) + 1])
           Body(g) == [i \in 1 .. L + 1 |-> Value(g, i)]
           Found == [blocks : Stacks(n, m), rest : 1 .. L + 1]
<1>1. L \in Nat
    OBVIOUS
<1>2. ASSUME NEW i \in 1 .. L + 1, ~Ended(i) PROVE At(i) \in i .. L
    <2>1. i \in 1 .. L /\ i \in Nat
        BY <1>1, <1>2
    <2>2. CASE Braces(i) # {}
        <3>1. Braces(i) \subseteq Nat
            <4>1. \A j \in i .. L : j \in Nat
                BY <1>1, <2>1
            <4> QED BY <4>1
        <3>2. \E k \in Braces(i) : \A l \in Braces(i) : k <= l
            BY ONLY <2>2, <3>1, LeastElement
        <3>3. At(i) \in Braces(i)
            BY ONLY <2>2, <3>2
        <3> QED BY <3>3
    <2>3. CASE Braces(i) = {}
        <3>1. At(i) = i
            BY ONLY <2>3
        <3> HIDE DEF At
        <3> QED BY <2>1, <3>1
    <2> QED BY <2>2, <2>3
<1>3. Namespaces(toks, n) = (CHOOSE g : g = Body(g))[1]
    BY DEF Namespaces
<1>4. ASSUME NEW i \in 1 .. L + 1, NEW more \in Found PROVE Entry(i, more) \in Found
    <2>1. Block("namespace", n, Braces(i) # {}) \in BlocksUpTo(n, m)
        <3>1. (Braces(i) # {}) \in BOOLEAN
            OBVIOUS
        <3> QED BY ONLY <3>1, m \in Nat, n \in 1 .. m, NewBlock
    <2>2. <<Block("namespace", n, Braces(i) # {})>> \in Stacks(n, m)
        <3>1. \A b \in BlocksUpTo(n, m) : <<b>> \in Seq(BlocksUpTo(n, m))
            OBVIOUS
        <3> QED BY <2>1, <3>1 DEF Stacks
    <2>3. <<Block("namespace", n, Braces(i) # {})>> \o more.blocks \in Stacks(n, m)
        BY <2>2, ConcatProperties DEF Stacks
    <2> QED BY <2>3
<1>5. ASSUME NEW i \in 1 .. L + 1 PROVE [blocks |-> <<>>, rest |-> i] \in Found
    <2>1. <<>> \in Stacks(n, m)
        BY DEF Stacks
    <2> QED BY <2>1
<1>6. Ended(L + 1)
    BY <1>1
<1> HIDE DEF L, At, Ended, Entry, Found
<1> DEFINE P == {k \in Nat : k <= L => \E g : \A i \in L + 1 - k .. L + 1 : g[i] = Value(g, i)}
<1>7. 0 \in P
    <2> DEFINE g == [i \in L + 1 .. L + 1 |-> [blocks |-> <<>>, rest |-> i]]
    <2>1. \A i \in L + 1 - 0 .. L + 1 : i = L + 1 /\ i \in L + 1 .. L + 1
        BY <1>1
    <2>2. \A i \in L + 1 - 0 .. L + 1 : g[i] = Value(g, i)
        BY <1>6, <2>1
    <2> QED BY <2>2
<1>8. ASSUME NEW k \in Nat, k \in P PROVE k + 1 \in P
    <2> SUFFICES ASSUME k + 1 <= L
                 PROVE  \E g : \A i \in L + 1 - (k + 1) .. L + 1 : g[i] = Value(g, i)
        OBVIOUS
    <2>1. PICK g : \A i \in L + 1 - k .. L + 1 : g[i] = Value(g, i)
        BY <1>1, <1>8
    <2> DEFINE h == [i \in L - k .. L + 1 |-> IF i = L - k THEN Value(g, i) ELSE g[i]]
    <2>2. h[L - k] = Value(g, L - k) /\ \A i \in L + 1 - k .. L + 1 : h[i] = g[i]
        BY <1>1
    <2> HIDE DEF h
    <2>3. ASSUME NEW i \in L - k .. L + 1, ~Ended(i) PROVE At(i) + 1 \in L + 1 - k .. L + 1
        <3>1. i \in 1 .. L + 1
            BY <1>1
        <3>2. At(i) \in i .. L
            BY <3>1, <2>3, <1>2
        <3> QED BY <3>1, <3>2, <1>1
    <2>4. ASSUME NEW i \in L - k .. L + 1 PROVE h[i] = Value(h, i)
        <3>1. h[i] = Value(g, i)
            <4>1. i = L - k \/ i \in L + 1 - k .. L + 1
                BY <1>1
            <4> QED BY <4>1, <2>1, <2>2
        <3>2. Value(g, i) = Value(h, i)
            BY <2>2, <2>3
        <3> QED BY <3>1, <3>2
    <2>5. L + 1 - (k + 1) = L - k
        BY <1>1
    <2> QED BY <2>4, <2>5
<1> HIDE DEF P
<1>9. PICK g : \A i \in 1 .. L + 1 : g[i] = Value(g, i)
    <2>1. Nat \subseteq P
        BY <1>7, <1>8, Induction
    <2>2. L + 1 - L = 1 /\ L <= L
        BY <1>1
    <2>3. \E g : \A i \in L + 1 - L .. L + 1 : g[i] = Value(g, i)
        BY <1>1, <2>1, <2>2 DEF P
    <2> QED BY <2>2, <2>3
<1> DEFINE f == [i \in 1 .. L + 1 |-> g[i]]
<1>10. f = Body(f)
    <2>1. ASSUME NEW i \in 1 .. L + 1 PROVE f[i] = Value(f, i)
        <3>1. ~Ended(i) => At(i) + 1 \in 1 .. L + 1
            <4>1. SUFFICES ASSUME ~Ended(i) PROVE At(i) + 1 \in 1 .. L + 1
                OBVIOUS
            <4>2. At(i) \in i .. L
                BY <4>1, <1>2
            <4> QED BY <4>2, <1>1
        <3> QED BY <3>1, <1>9
    <2> HIDE DEF Value
    <2> QED BY <2>1
<1> HIDE DEF f
<1> DEFINE go == CHOOSE h : h = Body(h)
<1>11. go = Body(go)
    BY <1>10
<1> HIDE DEF go
<1>12. \A i \in 1 .. L + 1 : go[i] = Value(go, i)
    BY <1>11
<1> DEFINE Q == {k \in Nat : k <= L => \A i \in L + 1 - k .. L + 1 : go[i] \in Found}
<1>13. 0 \in Q
    <2>1. \A i \in L + 1 - 0 .. L + 1 : i = L + 1 /\ i \in 1 .. L + 1
        BY <1>1
    <2> QED BY <2>1, <1>5, <1>6, <1>12
<1>14. ASSUME NEW k \in Nat, k \in Q PROVE k + 1 \in Q
    <2> SUFFICES ASSUME k + 1 <= L, NEW i \in L + 1 - (k + 1) .. L + 1
                 PROVE  go[i] \in Found
        OBVIOUS
    <2>1. \A j \in L + 1 - k .. L + 1 : go[j] \in Found
        BY <1>1, <1>14
    <2>2. i \in 1 .. L + 1 /\ (i = L - k \/ i \in L + 1 - k .. L + 1)
        BY <1>1
    <2>3. CASE Ended(i)
        BY <2>2, <2>3, <1>5, <1>12
    <2>4. CASE ~Ended(i)
        <3>1. At(i) \in i .. L
            BY <2>2, <2>4, <1>2
        <3>2. At(i) + 1 \in L + 1 - k .. L + 1
            BY <1>1, <2>2, <3>1
        <3>3. go[i] = Entry(i, go[At(i) + 1])
            BY <2>2, <2>4, <1>12
        <3> QED BY <2>1, <2>2, <3>2, <3>3, <1>4
    <2> QED BY <2>3, <2>4
<1> HIDE DEF Q
<1>15. go[1] \in Found
    <2>1. Nat \subseteq Q
        BY <1>13, <1>14, Induction
    <2>2. L + 1 - L = 1 /\ 1 \in 1 .. L + 1
        BY <1>1
    <2> QED BY <1>1, <2>1, <2>2 DEF Q
<1>16. Namespaces(toks, n) \in Found
    BY <1>3, <1>15 DEF go
<1> QED BY <1>16 DEF Found, L

(* A class ends at a line of the file, or at none that is known.           *)
LEMMA ClassType ==
    ASSUME NEW f \in Seq(Lines), NEW n \in 1 .. Len(f)
    PROVE  ClassInfo(f, n) \in BlocksUpTo(n, Len(f))
<1> DEFINE m == Len(f)
           last == LastLine(f, n)
<1>1. m \in Nat /\ n \in 1 .. m
    BY LenProperties
<1>2. PICK indent \in Nat : indent = f[n].indent
    <2>1. f[n] \in Lines
        BY ElementOfSeq
    <2> QED BY <2>1 DEF Lines
<1>3. last \in 0 .. m
    <2> DEFINE Least(Ends) ==
                   IF Ends = {} THEN 0 ELSE CHOOSE i \in Ends : \A j \in Ends : i <= j
    <2>1. \E Ends : Ends \subseteq n .. m /\ last = Least(Ends)
        BY DEF LastLine
    <2>2. PICK Ends : Ends \subseteq n .. m /\ last = Least(Ends)
        BY <2>1
    <2> HIDE DEF last
    <2>3. CASE Ends = {}
        BY <1>1, <2>2, <2>3
    <2>4. CASE Ends # {}
        <3>1. Ends \subseteq Nat /\ Ends \subseteq 0 .. m
            BY <1>1, <2>2
        <3>2. \E i \in Ends : \A j \in Ends : i <= j
            BY ONLY <2>4, <3>1, LeastElement
        <3>3. last \in Ends
            BY ONLY <2>2, <2>4, <3>2
        <3> QED BY <3>1, <3>3
    <2> QED BY <2>3, <2>4
<1> HIDE DEF m, last
<1> DEFINE b == Block("class", n, FALSE)
           c == [b EXCEPT !.indent = f[n].indent, !.last = last]
<1>4. b \in BlocksUpTo(n, m)
    BY <1>1, NewBlock
<1> HIDE DEF b
<1>5. c \in BlocksUpTo(n, m)
    <2>1. c = [b EXCEPT !.indent = indent, !.last = last]
        BY <1>2
    <2> HIDE DEF c
    <2>2. b \in Blocks /\ b.start \in 1 .. n
        BY <1>4 DEF BlocksUpTo
    <2>3. last \in Nat
        BY <1>1, <1>3
    <2>4. c \in Blocks /\ c.start = b.start /\ c.last = last
        BY <2>1, <2>2, <2>3 DEF Blocks
    <2> QED BY <2>2, <2>4, <1>3 DEF BlocksUpTo
<1>6. ClassInfo(f, n) = c
    BY DEF ClassInfo, b, last
<1> QED BY <1>5, <1>6 DEF m

(* What Update holds in the middle of a line.                              *)
Readings(n, m) ==
    [stack : Stacks(n, m), since : Seq(Tokens), margin : BOOLEAN,
     errors : SUBSET {<<n, "whitespace/indent">>, <<n, "readability/namespace">>}]

LEMMA ConsumedType ==
    ASSUME NEW m \in Nat, NEW n \in 1 .. m, NEW acc \in Readings(n, m),
           NEW t \in Tokens, NEW line
    PROVE  Consumed(acc, t, line, n) \in Readings(n, m)
<1> DEFINE stack == acc.stack
           marked == [acc EXCEPT !.since = <<>>, !.margin = FALSE]
           extern == Block("extern", n, TRUE)
           other == Block("block", n, TRUE)
           block == IF acc.since = <<"extern">> /\ acc.margin THEN extern
                    ELSE [other EXCEPT
                             !.asm = IF IsAsm(Append(acc.since, "{"))
                                     THEN "block" ELSE "no"]
           open == [Last(stack) EXCEPT !.seen = TRUE]
           E == {<<n, "whitespace/indent">>, <<n, "readability/namespace">>}
<1>1. /\ stack \in Stacks(n, m) /\ acc.since \in Seq(Tokens)
      /\ acc.errors \in SUBSET E
    BY DEF Readings
<1>2. marked \in Readings(n, m) /\ marked.errors = acc.errors
    <2>1. <<>> \in Seq(Tokens) /\ FALSE \in BOOLEAN
        OBVIOUS
    <2> QED BY <2>1 DEF Readings
<1>3. block \in BlocksUpTo(n, m)
    <2>1. extern \in BlocksUpTo(n, m) /\ other \in BlocksUpTo(n, m)
        BY NewBlock
    <2> HIDE DEF extern, other
    <2>2. \A a \in {"block", "no"} : [other EXCEPT !.asm = a] \in BlocksUpTo(n, m)
        BY <2>1 DEF BlocksUpTo, Blocks
    <2> QED BY <2>1, <2>2
<1>4. stack # <<>> => /\ Kept(stack) \in Stacks(n, m)
                      /\ open \in BlocksUpTo(n, m)
    <2> SUFFICES ASSUME stack # <<>>
                 PROVE  Kept(stack) \in Stacks(n, m) /\ open \in BlocksUpTo(n, m)
        OBVIOUS
    <2>1. Last(stack) \in BlocksUpTo(n, m) /\ Front(stack) \in Stacks(n, m)
        BY ONLY <1>1, stack # <<>>, FrontOf DEF Stacks
    <2>2. open \in BlocksUpTo(n, m)
        BY <2>1 DEF BlocksUpTo, Blocks
    <2> QED BY <2>1, <2>2 DEF Kept
<1>5. EndErrors(Last(stack), line, n) \in SUBSET E
    BY DEF EndErrors
<1>6. ~SeenOpenBrace(stack) => stack # <<>>
    BY DEF SeenOpenBrace
<1>7. Append(acc.since, t) \in Seq(Tokens)
    BY <1>1, PushOn
<1>8. stack # <<>> => Append(Kept(stack), open) \in Stacks(n, m)
    BY <1>4, PushOn DEF Stacks
<1>9. Append(stack, block) \in Stacks(n, m)
    BY <1>1, <1>3, PushOn DEF Stacks
<1>10. Consumed(acc, t, line, n) =
          CASE t = "{" /\ ~SeenOpenBrace(stack) ->
                 [marked EXCEPT !.stack = Append(Kept(stack), open)]
            [] t = "{" /\ SeenOpenBrace(stack) ->
                 [marked EXCEPT !.stack = Append(stack, block)]
            [] t \in {";", ")"} /\ ~SeenOpenBrace(stack) ->
                 [marked EXCEPT !.stack = Kept(stack)]
            [] t = "}" /\ stack # <<>> ->
                 [marked EXCEPT !.stack = Kept(stack),
                                !.errors = @ \cup EndErrors(Last(stack), line, n)]
            [] \/ t \in {";", ")"} /\ SeenOpenBrace(stack)
               \/ t = "}" /\ stack = <<>> -> marked
            [] OTHER -> [acc EXCEPT !.since = Append(@, t)]
    BY DEF Consumed
<1> HIDE DEF stack, marked, block, open
<1>11. \A s \in Stacks(n, m) : [marked EXCEPT !.stack = s] \in Readings(n, m)
    BY <1>2 DEF Readings
<1>12. [acc EXCEPT !.since = Append(@, t)] \in Readings(n, m)
    BY <1>7 DEF Readings
<1>13. CASE t = "{"
    <2>1. CASE SeenOpenBrace(stack)
        <3>1. Consumed(acc, t, line, n) = [marked EXCEPT !.stack = Append(stack, block)]
            BY <1>10, <1>13, <2>1
        <3> QED BY <3>1, <1>9, <1>11
    <2>2. CASE ~SeenOpenBrace(stack)
        <3>1. Consumed(acc, t, line, n) =
                 [marked EXCEPT !.stack = Append(Kept(stack), open)]
            BY <1>10, <1>13, <2>2
        <3> QED BY <3>1, <2>2, <1>6, <1>8, <1>11
    <2> QED BY <2>1, <2>2
<1>14. CASE t \in {";", ")"}
    <2>1. CASE SeenOpenBrace(stack)
        <3>1. Consumed(acc, t, line, n) = marked
            BY <1>10, <1>14, <2>1
        <3> QED BY <3>1, <1>2
    <2>2. CASE ~SeenOpenBrace(stack)
        <3>1. Consumed(acc, t, line, n) = [marked EXCEPT !.stack = Kept(stack)]
            BY <1>10, <1>14, <2>2
        <3> QED BY <3>1, <2>2, <1>4, <1>6, <1>11
    <2> QED BY <2>1, <2>2
<1>15. CASE t = "}"
    <2>1. CASE stack = <<>>
        <3>1. Consumed(acc, t, line, n) = marked
            BY <1>10, <1>15, <2>1
        <3> QED BY <3>1, <1>2
    <2>2. CASE stack # <<>>
        <3>1. Consumed(acc, t, line, n) =
                 [marked EXCEPT !.stack = Kept(stack),
                                !.errors = @ \cup EndErrors(Last(stack), line, n)]
            BY <1>10, <1>15, <2>2
        <3>2. marked.errors \cup EndErrors(Last(stack), line, n) \in SUBSET E
            BY <1>1, <1>2, <1>5
        <3> QED BY <3>1, <3>2, <2>2, <1>2, <1>4 DEF Readings
    <2> QED BY <2>1, <2>2
<1>16. CASE t \notin {"{", ";", ")", "}"}
    <2>1. Consumed(acc, t, line, n) = [acc EXCEPT !.since = Append(@, t)]
        BY <1>10, <1>16
    <2> QED BY <2>1, <1>12
<1> QED BY <1>13, <1>14, <1>15, <1>16

(* Update leaves a stack of blocks that begin up to its line.              *)
LEMMA LineReadType ==
    ASSUME NEW f \in Seq(Lines), NEW n \in 1 .. Len(f), NEW before \in Stacks(n, Len(f))
    PROVE  LineRead(before, f, n).stack \in Stacks(n, Len(f))
<1> DEFINE m == Len(f)
           line == f[n]
           found == Namespaces(line.toks, n)
           spaces == ParensCounted(before, line.toks) \o found.blocks
           left == Without(line.toks, found.rest - 1)
           isClass == IsClassDeclaration(spaces, left, f, n)
           rest == IF isClass THEN Tail(left) ELSE left
           begun == [stack  |-> IF isClass THEN Append(spaces, ClassInfo(f, n))
                                ELSE spaces,
                     since  |-> <<>>,
                     margin |-> line.indent = 0 /\ rest = line.toks,
                     errors |-> {}]
           Body(g) == [i \in 0 .. Len(rest) |->
                          IF i = 0 THEN begun ELSE Consumed(g[i - 1], rest[i], line, n)]
           consumed == CHOOSE g : g = Body(g)
<1>1. LineRead(before, f, n) = consumed[Len(rest)]
    BY DEF LineRead
<1>2. m \in Nat /\ n \in 1 .. m
    BY LenProperties
<1>3. line.toks \in Seq(Tokens) /\ Len(line.toks) \in Nat
    <2>1. line \in Lines
        BY ElementOfSeq
    <2>2. line.toks \in Seq(Tokens)
        BY <2>1 DEF Lines
    <2> QED BY <2>2, LenProperties
<1>4. /\ found.blocks \in Stacks(n, m)
      /\ found.rest \in 1 .. Len(line.toks) + 1
    BY <1>2, <1>3, NamespacesType
<1>5. ParensCounted(before, line.toks) \in Stacks(n, m)
    BY <1>3, ParensType
<1>6. spaces \in Stacks(n, m)
    BY <1>4, <1>5, ConcatProperties DEF Stacks
<1>7. left \in Seq(Tokens)
    <2> DEFINE a == found.rest - 1 + 1
               b == Len(line.toks)
    <2>1. a \in Int /\ b \in Int /\ a >= 1
        BY <1>3, <1>4
    <2>2. \A i \in a .. b : line.toks[i] \in Tokens
        <3>1. \A i \in a .. b : i \in 1 .. b
            BY <1>3, <2>1
        <3> QED BY <3>1, <1>3, ElementOfSeq
    <2> HIDE DEF a, b
    <2>3. SubSeq(line.toks, a, b) \in Seq(Tokens)
        BY <2>1, <2>2, SubSeqProperties
    <2> QED BY <2>3 DEF Without, a, b
<1>8. rest \in Seq(Tokens)
    <2>1. isClass => left # <<>>
        BY DEF IsClassDeclaration, Starts
    <2> HIDE DEF left, isClass
    <2>2. left # <<>> => Tail(left) \in Seq(Tokens)
        BY <1>7, HeadTailProperties
    <2> QED BY <1>7, <2>1, <2>2
<1>9. ClassInfo(f, n) \in BlocksUpTo(n, m)
    BY ClassType
<1>10. begun \in Readings(n, m)
    <2>1. Append(spaces, ClassInfo(f, n)) \in Stacks(n, m)
        BY <1>6, <1>9, PushOn DEF Stacks
    <2>2. <<>> \in Seq(Tokens)
        OBVIOUS
    <2> HIDE DEF spaces, rest, isClass
    <2> QED BY <1>6, <2>1, <2>2 DEF Readings
<1> HIDE DEF m, line, rest, begun
<1> DEFINE N == Len(rest)
           One(acc, i) == Consumed(acc, rest[i], line, n)
           R == Readings(n, m)
           step == [i \in 1 .. N |-> [acc \in R |-> One(acc, i)]]
<1>11. N \in Nat /\ \A i \in 1 .. N : rest[i] \in Tokens
    BY <1>8, LenProperties, ElementOfSeq
<1>12. ASSUME NEW i \in 1 .. N, NEW acc \in R PROVE One(acc, i) \in R
    BY <1>2, <1>11, <1>12, ConsumedType
<1> HIDE DEF N, One, R
<1>13. step \in [1 .. N -> [R -> R]]
    BY <1>12
<1> HIDE DEF step
<1>14. PICK h \in [0 .. N -> R] :
          h[0] = begun /\ \A i \in 1 .. N : h[i] = step[i][h[i - 1]]
    <2>1. begun \in R
        BY <1>10 DEF R
    <2>2. \E g : IsRecursion(g, R, begun, N, step)
        BY ONLY <1>11, <1>13, <2>1, Recursion
    <2> QED BY <2>2 DEF IsRecursion
<1>15. ASSUME NEW i \in 1 .. N PROVE h[i] = One(h[i - 1], i)
    <2>1. i - 1 \in 0 .. N /\ h[i - 1] \in R
        BY <1>11
    <2> QED BY <1>14, <2>1 DEF step
<1>16. h = Body(h)
    <2>1. h = [i \in 0 .. N |-> IF i = 0 THEN begun ELSE One(h[i - 1], i)]
        BY <1>11, <1>14, <1>15
    <2> QED BY <2>1 DEF N, One
<1>17. consumed = Body(consumed)
    BY <1>16
<1> HIDE DEF consumed
<1>18. /\ consumed[0] = begun
       /\ \A i \in 1 .. N : consumed[i] = One(consumed[i - 1], i)
    <2>1. consumed = [i \in 0 .. N |-> IF i = 0 THEN begun ELSE One(consumed[i - 1], i)]
        BY <1>17 DEF N, One
    <2> QED BY <1>11, <2>1
<1> DEFINE P == {i \in Nat : i <= N => consumed[i] \in R}
<1>19. 0 \in P
    BY <1>10, <1>18 DEF R
<1>20. ASSUME NEW i \in Nat, i \in P PROVE i + 1 \in P
    <2> SUFFICES ASSUME i + 1 <= N PROVE consumed[i + 1] \in R
        OBVIOUS
    <2>1. PICK j : j = i + 1
        OBVIOUS
    <2>2. j \in 1 .. N /\ j - 1 = i /\ consumed[i] \in R
        BY <1>11, <1>20, <2>1
    <2> QED BY <1>12, <1>18, <2>1, <2>2
<1> HIDE DEF P
<1>21. consumed[N] \in R
    <2>1. Nat \subseteq P
        BY <1>19, <1>20, Induction
    <2> QED BY <1>11, <2>1 DEF P
<1>22. consumed[N].stack \in Stacks(n, m)
    BY <1>21 DEF R, Readings
<1> QED BY <1>1, <1>22 DEF N, m

LEMMA FunctionType ==
    ASSUME NEW func0 \in FunctionStates, NEW f, NEW n
    PROVE  FunctionLengths(func0, f, n).func \in FunctionStates
<1>1. IsTest(f[n]) \in BOOLEAN
    BY DEF IsTest
<1>2. Begin(IsTest(f[n])) \in FunctionStates
    BY <1>1 DEF Begin, FunctionStates
<1>3. End(func0) \in FunctionStates
    BY DEF End, FunctionStates
<1>4. CountLine(func0) \in FunctionStates
    <2>1. func0.lines \in Nat /\ func0.lines + 1 \in Nat
        BY DEF FunctionStates
    <2>2. \A k \in Nat : [func0 EXCEPT !.lines = k] \in FunctionStates
        BY DEF FunctionStates
    <2> QED BY <2>1, <2>2 DEF CountLine
<1> QED BY <1>2, <1>3, <1>4 DEF FunctionLengths

-----------------------------------------------------------------------------
(* The steps.                                                              *)
LEMMA WholeFileUnmoved ==
    ASSUME file' = file
    PROVE  /\ HasDirectives' = HasDirectives
           /\ ElseOpen' = ElseOpen
           /\ InElse' = InElse
           /\ FirstStacks' = FirstStacks
<1>1. HasDirectives' = HasDirectives
    BY DEF HasDirectives, IsDirective
<1>2. ElseOpen' = ElseOpen
    BY DEF ElseOpen
<1>3. InElse' = InElse
    BY <1>1, <1>2 DEF InElse
<1>4. FirstStacks' = FirstStacks
    BY <1>3 DEF FirstStacks
<1> QED BY <1>1, <1>2, <1>3, <1>4

LEMMA FileFacts ==
    ASSUME TypeInv
    PROVE  /\ file \in Seq(Lines) /\ Len(file) \in Nat
           /\ linenum \in Nat /\ linenum <= Len(file)
           /\ IsState(nest)
<1>1. file \in Seq(Lines)
    BY FilesAssumption DEF TypeInv
<1>2. Len(file) \in Nat
    BY <1>1, LenProperties
<1> QED BY <1>1, <1>2 DEF TypeInv, IsState

(* Types survive a line.                                                   *)
LEMMA LineTypes ==
    ASSUME TypeInv, NEW n, n = linenum + 1, n <= Len(file),
           NEW t, t = Updated(nest, file, n)
    PROVE  /\ n \in 1 .. Len(file)
           /\ IsState(t)
           /\ t.stack \in Stacks(n, Len(file))
           /\ t.pp \in Seq(Saved(n, Len(file)))
<1> DEFINE m == Len(file)
           p == PreprocessorUpdated(nest, file[n].toks)
<1>1. n \in 1 .. m /\ m \in Nat /\ file \in Seq(Lines) /\ IsState(nest) /\ linenum \in Nat
    BY FileFacts
<1>2. t = [stack |-> LineRead(p.stack, file, n).stack, pp |-> p.pp,
           previous |-> nest.stack, errors |-> LineRead(p.stack, file, n).errors]
    BY DEF Updated
<1>3. nest.stack \in Stacks(n, m) /\ nest.pp \in Seq(Saved(n, m))
    BY <1>1, BlocksGrow DEF TypeInv
<1>4. <<>> \in Stacks(n, m)
    BY DEF Stacks
<1>5. Len(file[n].toks) \in Nat
    <2>1. file[n] \in Lines
        BY <1>1, ElementOfSeq
    <2>2. file[n].toks \in Seq(Tokens)
        BY <2>1 DEF Lines
    <2> QED BY <2>2, LenProperties
<1> HIDE DEF p
<1>6. p.stack \in Stacks(n, m) /\ p.pp \in Seq(Saved(n, m))
    <2>1. PICK T : T = Stacks(n, Len(file))
        OBVIOUS
    <2>2. /\ Saved(n, m) = [before_if : T, before_else : T, seen_else : BOOLEAN]
          /\ nest.stack \in T /\ <<>> \in T
        BY <1>3, <1>4, <2>1 DEF Saved
    <2>3. /\ p.stack \in T
          /\ p.pp \in Seq([before_if : T, before_else : T, seen_else : BOOLEAN])
        BY <1>1, <1>3, <1>5, <2>2, PreprocessorType DEF p
    <2> QED BY <2>1, <2>2, <2>3
<1>7. LineRead(p.stack, file, n).stack \in Stacks(n, m)
    BY <1>1, <1>6, LineReadType
<1>8. IsState(t)
    BY <1>2 DEF IsState
<1>9. t.stack = LineRead(p.stack, file, n).stack /\ t.pp = p.pp
    BY <1>2
<1> QED BY <1>1, <1>6, <1>7, <1>8, <1>9

(* And so do the branches of the preprocessor.                             *)
LEMMA LineBranches ==
    ASSUME TypeInv, BranchesInv, HasDirectives,
           NEW n, n = linenum + 1, n <= Len(file),
           NEW t, t = Updated(nest, file, n)
    PROVE  /\ ConditionalsKept(t.pp, ElseOpen[n])
           /\ StackKept(t, ElseOpen[n], FirstStacks[n])
<1> DEFINE p == PreprocessorUpdated(nest, file[n].toks)
           open == ElseOpen[linenum]
           next == ElseOpen[n]
           stack == FirstStacks[linenum]
<1>1. /\ n \in 1 .. Len(file) /\ n - 1 = linenum /\ linenum \in 0 .. Len(file)
      /\ Len(file) \in Nat /\ IsState(nest)
    BY FileFacts
<1>2. open \in Seq(BOOLEAN) /\ next \in Seq(BOOLEAN) /\ next = Turned(open, file[n].toks)
    BY <1>1, ElseOpenDefined
<1>3. FirstStacks[n] = IF n \in InElse THEN stack ELSE LineRead(stack, file, n).stack
    BY <1>1, FirstStacksDefined
<1>4. n \in InElse <=> \E j \in 1 .. Len(next) : next[j]
    BY <1>1 DEF InElse
<1>5. t = [stack |-> LineRead(p.stack, file, n).stack, pp |-> p.pp,
           previous |-> nest.stack, errors |-> LineRead(p.stack, file, n).errors]
    BY DEF Updated
<1>6. t.stack = LineRead(p.stack, file, n).stack /\ t.pp = p.pp
    BY <1>5
<1>7. ConditionalsKept(p.pp, next) /\ StackKept(p, next, stack)
    <2>1. PICK T : T = Stacks(linenum, Len(file))
        OBVIOUS
    <2>2. /\ nest.stack \in T /\ <<>> \in T
          /\ nest.pp \in Seq([before_if : T, before_else : T, seen_else : BOOLEAN])
        <3>1. <<>> \in T
            BY <2>1 DEF Stacks
        <3> QED BY <2>1, <3>1 DEF TypeInv, Saved
    <2>3. ConditionalsKept(nest.pp, open) /\ StackKept(nest, open, stack)
        BY DEF BranchesInv
    <2> HIDE DEF open, next, stack
    <2> QED BY <1>1, <1>2, <2>2, <2>3, PreprocessorKeeps
<1> HIDE DEF p, open, next, stack
<1>8. CASE n \in InElse
    <2>1. FirstStacks[n] = stack /\ \E j \in 1 .. Len(next) : next[j]
        BY <1>3, <1>4, <1>8
    <2>2. StackKept(t, next, stack)
        BY <2>1, <1>6, <1>7 DEF StackKept
    <2> QED BY <2>1, <2>2, <1>6, <1>7 DEF next
<1>9. CASE n \notin InElse
    <2>1. \A j \in 1 .. Len(next) : ~next[j]
        BY <1>4, <1>9
    <2>2. p.stack = stack
        BY <2>1, <1>7 DEF StackKept
    <2>3. t.stack = FirstStacks[n]
        BY <2>2, <1>3, <1>6, <1>9
    <2>4. StackKept(t, next, FirstStacks[n])
        BY <2>1, <2>3 DEF StackKept, IsFirstElse
    <2> QED BY <2>4, <1>6, <1>7 DEF next
<1> QED BY <1>8, <1>9

LEMMA LinesInit == Init => LinesInv
<1> SUFFICES ASSUME Init PROVE LinesInv
    OBVIOUS
<1>1. file \in Seq(Lines) /\ Len(file) \in Nat
    BY FilesAssumption, LenProperties DEF Init
<1>2. /\ linenum = 0
      /\ nest = [stack |-> <<>>, pp |-> <<>>, previous |-> <<>>, errors |-> {}]
    BY DEF Init
<1>3. nest.stack = <<>> /\ nest.pp = <<>>
    BY <1>2
<1>4. TypeInv
    <2>1. <<>> \in Stacks(0, Len(file)) /\ <<>> \in Seq(Saved(0, Len(file)))
        BY DEF Stacks
    <2>2. func \in FunctionStates
        BY DEF Init, NoFunction, FunctionStates
    <2>3. nest = [stack |-> nest.stack, pp |-> nest.pp, previous |-> nest.previous,
                  errors |-> nest.errors]
        BY <1>2
    <2>4. /\ nest.stack \in Stacks(linenum, Len(file))
          /\ nest.pp \in Seq(Saved(linenum, Len(file)))
        BY <1>2, <1>3, <2>1
    <2>5. file \in Files /\ completed \in BOOLEAN
        BY DEF Init
    <2>6. linenum \in 0 .. Len(file)
        BY <1>1, <1>2
    <2> QED BY <2>2, <2>3, <2>4, <2>5, <2>6 DEF TypeInv
<1>5. ElseOpen[0] = <<>> /\ FirstStacks[0] = <<>>
    BY <1>1, ElseOpenDefined, FirstStacksDefined
<1>6. ConditionalsKept(<<>>, <<>>)
    BY DEF ConditionalsKept
<1>7. StackKept(nest, <<>>, <<>>)
    BY <1>3 DEF StackKept
<1> QED BY <1>2, <1>3, <1>4, <1>5, <1>6, <1>7 DEF LinesInv, BranchesInv

LEMMA LineNext ==
    ASSUME LinesInv, linenum + 1 <= Len(file), linenum' = linenum + 1,
           nest' = Updated(nest, file, linenum + 1), file' = file,
           func' \in FunctionStates, completed' = completed
    PROVE  LinesInv'
<1> DEFINE n == linenum + 1
           t == Updated(nest, file, n)
<1>1. TypeInv /\ BranchesInv
    BY DEF LinesInv
<1>2. /\ n \in 1 .. Len(file)
      /\ IsState(t)
      /\ t.stack \in Stacks(n, Len(file))
      /\ t.pp \in Seq(Saved(n, Len(file)))
    BY <1>1, LineTypes
<1>3. HasDirectives => /\ ConditionalsKept(t.pp, ElseOpen[n])
                       /\ StackKept(t, ElseOpen[n], FirstStacks[n])
    BY <1>1, LineBranches
<1>4. /\ HasDirectives' = HasDirectives
      /\ ElseOpen' = ElseOpen
      /\ FirstStacks' = FirstStacks
    BY WholeFileUnmoved
<1>5. nest' = t /\ linenum' = n
    OBVIOUS
<1> HIDE DEF t, n
<1>6. TypeInv'
    <2>1. linenum' \in 0 .. Len(file)'
        BY <1>2, <1>5
    <2>2. (nest = [stack |-> nest.stack, pp |-> nest.pp, previous |-> nest.previous,
                   errors |-> nest.errors])'
        BY <1>2, <1>5 DEF IsState
    <2> QED BY <1>1, <1>2, <1>5, <2>1, <2>2 DEF TypeInv
<1>7. BranchesInv'
    <2>1. HasDirectives' => /\ ConditionalsKept(nest'.pp, ElseOpen'[linenum'])
                            /\ StackKept(nest', ElseOpen'[linenum'], FirstStacks'[linenum'])
        BY <1>3, <1>4, <1>5
    <2> QED BY <2>1 DEF BranchesInv
<1> QED BY <1>6, <1>7 DEF LinesInv

LEMMA LinesNext == LinesInv /\ [Next]_vars => LinesInv'
<1> SUFFICES ASSUME LinesInv, [Next]_vars PROVE LinesInv'
    OBVIOUS
<1>1. func \in FunctionStates
    BY DEF LinesInv, TypeInv
<1>2. CASE ProcessAsmLine
    <2>1. /\ linenum + 1 <= Len(file) /\ linenum' = linenum + 1
          /\ nest' = Updated(nest, file, linenum + 1)
          /\ file' = file /\ func' = func /\ completed' = completed
        BY <1>2 DEF ProcessAsmLine
    <2> QED BY <1>1, <2>1, LineNext
<1>3. CASE ProcessCodeLine
    <2>1. /\ linenum + 1 <= Len(file) /\ linenum' = linenum + 1
          /\ nest' = Updated(nest, file, linenum + 1)
          /\ file' = file /\ completed' = completed
          /\ func' = FunctionLengths(func, file, linenum + 1).func
        BY <1>3 DEF ProcessCodeLine
    <2>2. func' \in FunctionStates
        BY <1>1, <2>1, FunctionType
    <2> QED BY <2>1, <2>2, LineNext
<1>4. CASE CheckCompletedBlocks \/ UNCHANGED vars
    <2>1. /\ file' = file /\ linenum' = linenum /\ nest' = nest /\ func' = func
          /\ completed' \in {TRUE, completed}
        BY <1>4 DEF CheckCompletedBlocks, vars
    <2>2. /\ HasDirectives' = HasDirectives
          /\ ElseOpen' = ElseOpen
          /\ FirstStacks' = FirstStacks
        BY <2>1, WholeFileUnmoved
    <2>3. TypeInv'
        BY <2>1 DEF LinesInv, TypeInv
    <2>4. BranchesInv'
        BY <2>1, <2>2 DEF LinesInv, BranchesInv
    <2> QED BY <2>3, <2>4 DEF LinesInv
<1> QED BY <1>2, <1>3, <1>4 DEF Next

-----------------------------------------------------------------------------
(* LinesInv is an invariant of the loop over the lines.                    *)
THEOREM LinesInvariant == Spec => []LinesInv
<1> QED BY LinesInit, LinesNext, PTL DEF Spec

(* The stack of NestingState has blocks only, each of which begins at a    *)
(* line that was read, and the state of the function is one.               *)
THEOREM LineTypesCorrect == Spec => []TypeOK
<1>1. LinesInv => TypeOK
    <2> SUFFICES ASSUME LinesInv PROVE TypeOK
        OBVIOUS
    <2>1. TypeInv /\ Len(file) \in Nat /\ linenum \in Nat
        BY FileFacts DEF LinesInv
    <2>2. ASSUME NEW i \in 1 .. Len(nest.stack)
          PROVE  /\ nest.stack[i] \in Blocks
                 /\ nest.stack[i].start \in 1 .. linenum
                 /\ nest.stack[i].last \in 0 .. Len(file)
        <3>1. nest.stack[i] \in BlocksUpTo(linenum, Len(file))
            BY <2>1, ElementOfSeq DEF TypeInv, Stacks
        <3> QED BY <3>1 DEF BlocksUpTo
    <2>3. ASSUME NEW i \in 1 .. Len(nest.pp) PROVE nest.pp[i].seen_else \in BOOLEAN
        <3>1. nest.pp[i] \in Saved(linenum, Len(file))
            BY <2>1, ElementOfSeq DEF TypeInv
        <3> QED BY <3>1 DEF Saved
    <2> QED BY <2>1, <2>2, <2>3 DEF TypeOK, TypeInv
<1> QED BY <1>1, LinesInvariant, PTL

(* Outside of the branches of #else the stack is what it would be had the  *)
(* file none of them (UpdatePreprocessor).                                 *)
THEOREM BranchesNeverNest == Spec => []FirstBranchOnly
<1>1. LinesInv => FirstBranchOnly
    <2> SUFFICES ASSUME LinesInv, HasDirectives, linenum \notin InElse
                 PROVE  nest.stack = FirstStacks[linenum]
        BY DEF FirstBranchOnly
    <2>1. TypeInv /\ BranchesInv /\ Len(file) \in Nat /\ linenum \in 0 .. Len(file)
        BY FileFacts DEF LinesInv
    <2>2. \A j \in 1 .. Len(ElseOpen[linenum]) : ~ElseOpen[linenum][j]
        <3>1. CASE linenum = 0
            BY <2>1, <3>1, ElseOpenDefined
        <3>2. CASE linenum # 0
            <4>1. linenum \in 1 .. Len(file)
                BY <2>1, <3>2
            <4> QED BY <4>1 DEF InElse
        <3> QED BY <3>1, <3>2
    <2> QED BY <2>1, <2>2 DEF BranchesInv, StackKept
<1> QED BY <1>1, LinesInvariant, PTL
=============================================================================
