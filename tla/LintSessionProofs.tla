------------------------- MODULE LintSessionProofs -------------------------
(***************************************************************************)
(* Proofs about a run of cpplint.py: SessionInv (LintSessionInvariant) is  *)
(* an invariant, so the filters are restored after every file and what is  *)
(* counted is what was printed; and so is PrintedInv, what was printed and *)
(* is still to come, so that in the end exactly the errors expected of the *)
(* files that are linted are printed.                                      *)
(***************************************************************************)
EXTENDS LintSessionInvariant, NaturalLemmas, SequenceTheorems, FiniteSetTheorems

-----------------------------------------------------------------------------
(* Counting one error.                                                     *)

LEMMA NamesOfCategories ==
    ASSUME NEW counting, NEW category \in Parts \X Parts
    PROVE  CountedAs(counting, category) \in Names
BY DEF CountedAs, Names

LEMMA TableFacts ==
    ASSUME NEW table \in Tables
    PROVE  /\ DOMAIN table \subseteq Names
           /\ table = [c \in DOMAIN table |-> table[c]]
           /\ \A c \in DOMAIN table : table[c] \in Nat
<1>1. PICK D \in SUBSET Names : table \in [D -> Nat]
    BY DEF Tables
<1> QED BY <1>1

LEMMA TableMade ==
    ASSUME NEW D \in SUBSET Names, NEW table \in [D -> Nat]
    PROVE  table \in Tables
BY DEF Tables

(* One more message goes to the messages of its own name only.             *)
LEMMA OneMore ==
    ASSUME NEW counting, NEW shown \in Seq(Messages), NEW m \in Messages, NEW c
    PROVE  LET name == CountedAs(counting, m.category)
               n    == Cardinality(Of(counting, shown, c))
               more == Of(counting, Append(shown, m), c)
           IN  /\ n \in Nat
               /\ n = 0 <=> Of(counting, shown, c) = {}
               /\ Cardinality(more) = IF c = name THEN n + 1 ELSE n
               /\ more = {} => c # name /\ Of(counting, shown, c) = {}
<1> DEFINE name == CountedAs(counting, m.category)
           old  == Of(counting, shown, c)
           more == Of(counting, Append(shown, m), c)
           k    == Len(shown)
<1>1. /\ k \in Nat /\ Len(Append(shown, m)) = k + 1
      /\ Append(shown, m)[k + 1] = m
      /\ \A i \in 1 .. k : Append(shown, m)[i] = shown[i]
    BY AppendProperties, LenProperties
<1>2. IsFiniteSet(old)
    <2>1. IsFiniteSet(1 .. k)
        <3>1. 1 \in Int /\ k \in Int
            BY <1>1
        <3> HIDE DEF k
        <3> QED BY ONLY <3>1, FS_Interval
    <2>2. old \subseteq 1 .. k
        BY DEF Of
    <2> QED BY <2>1, <2>2, FS_Subset
<1>3. Cardinality(old) \in Nat /\ (Cardinality(old) = 0 <=> old = {})
    BY <1>2, FS_CardinalityType, FS_EmptySet
<1>4. more = IF c = name THEN old \cup {k + 1} ELSE old
    BY <1>1 DEF Of
<1>5. k + 1 \notin old
    BY <1>1 DEF Of
<1>6. Cardinality(old \cup {k + 1}) = Cardinality(old) + 1
    BY <1>2, <1>5, FS_AddElement
<1>7. Cardinality(more) = IF c = name THEN Cardinality(old) + 1 ELSE Cardinality(old)
    BY <1>4, <1>6
<1>8. more = {} => c # name /\ old = {}
    BY <1>4
<1> QED BY <1>3, <1>7, <1>8

(* IncrementErrorCount keeps the books of what has been shown.             *)
LEMMA IncrementedTallied ==
    ASSUME NEW l, NEW state \in States(l), NEW shown \in Seq(Messages),
           Tallied(state, shown), NEW m \in Messages
    PROVE  /\ Incremented(state, m.category) \in States(l)
           /\ Tallied(Incremented(state, m.category), Append(shown, m))
<1> DEFINE counting == state.counting
           table == state.byCategory
           name  == CountedAs(counting, m.category)
           Count(c) == IF c \in DOMAIN table THEN table[c] ELSE 0
           then  == IF counting = "total" THEN table
                    ELSE [c \in DOMAIN table \cup {name} |->
                             IF c = name THEN Count(c) + 1 ELSE Count(c)]
           r     == Incremented(state, m.category)
           more  == Append(shown, m)
<1>1. /\ state.errorCount \in Nat /\ table \in Tables
      /\ state.errorCount = Len(shown)
      /\ counting \in {"total", "toplevel", "detailed"}
    BY DEF States, Tallied
<1>2. name \in Names
    BY NamesOfCategories DEF Messages
<1>3. /\ DOMAIN table \subseteq Names
      /\ \A c \in DOMAIN table : table[c] \in Nat
    BY <1>1, TableFacts
<1>4. then \in Tables
    <2>1. CASE counting = "total"
        BY <2>1, <1>1
    <2>2. CASE counting # "total"
        <3> DEFINE D == DOMAIN table \cup {name}
        <3>1. D \in SUBSET Names
            BY <1>2, <1>3
        <3>2. then \in [D -> Nat]
            BY <1>3, <2>2
        <3> HIDE DEF then, D
        <3> QED BY <3>1, <3>2, TableMade
    <2> QED BY <2>1, <2>2
<1>5. /\ r \in States(l)
      /\ r.errorCount = state.errorCount + 1 /\ r.byCategory = then
      /\ r.counting = counting
    <2>1. PICK k \in Nat : k = state.errorCount + 1
        BY <1>1
    <2>2. r = [state EXCEPT !.errorCount = k, !.byCategory = then]
        BY <2>1 DEF Incremented
    <2> HIDE DEF then, r, name, table
    <2>3. r \in States(l) /\ r.errorCount = k /\ r.byCategory = then
        BY ONLY <2>2, <1>4, k \in Nat, state \in States(l) DEF States
    <2>4. r.counting = counting
        BY ONLY <2>2, state \in States(l) DEF States
    <2> QED BY <2>1, <2>3, <2>4
<1>6. Len(more) = Len(shown) + 1
    BY AppendProperties
<1>7. ASSUME counting # "total"
      PROVE  /\ \A i \in 1 .. Len(more) :
                    CountedAs(counting, more[i].category) \in DOMAIN then
             /\ \A c \in DOMAIN then :
                    /\ then[c] = Cardinality(Of(counting, more, c))
                    /\ Of(counting, more, c) # {}
    <2>1. DOMAIN then = DOMAIN table \cup {name}
        BY <1>7
    <2>2. ASSUME NEW i \in 1 .. Len(more)
          PROVE  CountedAs(counting, more[i].category) \in DOMAIN then
        <3>1. CASE i = Len(more)
            <4>1. more[i] = m
                BY <3>1, <1>6, AppendProperties
            <4> QED BY <4>1, <2>1
        <3>2. CASE i # Len(more)
            <4>1. i \in 1 .. Len(shown) /\ more[i] = shown[i]
                BY <3>2, <1>6, AppendProperties, LenProperties
            <4>2. CountedAs(counting, shown[i].category) \in DOMAIN table
                BY <4>1, <1>7 DEF Tallied
            <4> QED BY <4>1, <4>2, <2>1
        <3> QED BY <3>1, <3>2
    <2>3. ASSUME NEW c \in DOMAIN then
          PROVE  /\ then[c] = Cardinality(Of(counting, more, c))
                 /\ Of(counting, more, c) # {}
        <3>1. then[c] = IF c = name THEN Count(c) + 1 ELSE Count(c)
            BY <1>7, <2>1
        <3>2. Count(c) = Cardinality(Of(counting, shown, c))
            <4>1. CASE c \in DOMAIN table
                BY <4>1, <1>7 DEF Tallied
            <4>2. CASE c \notin DOMAIN table
                <5>1. Of(counting, shown, c) = {}
                    BY <4>2, <1>7 DEF Of, Tallied
                <5> QED BY <4>2, <5>1, FS_EmptySet
            <4> QED BY <4>1, <4>2
        <3>3. c # name => Of(counting, shown, c) # {}
            BY <2>1, <1>7 DEF Tallied
        <3> HIDE DEF then, Count, name, more
        <3>4. /\ Cardinality(Of(counting, more, c)) =
                     IF c = name THEN Cardinality(Of(counting, shown, c)) + 1
                     ELSE Cardinality(Of(counting, shown, c))
              /\ Of(counting, more, c) = {} =>
                     c # name /\ Of(counting, shown, c) = {}
            BY ZenonT(60), OneMore DEF name, more
        <3> QED BY <3>1, <3>2, <3>3, <3>4
    <2> QED BY <2>2, <2>3
<1> HIDE DEF r, then, more
<1>8. Tallied(r, more)
    BY <1>1, <1>5, <1>6, <1>7 DEF Tallied
<1> QED BY <1>5, <1>8 DEF r, more

-----------------------------------------------------------------------------
(* Error, for one error and for a sequence of them.                        *)

LEMMA ErrorTold ==
    ASSUME NEW l, NEW t \in Tolds(l), NEW s, NEW e \in Errors, path \in ValidNames
    PROVE  Error(t, s, e) \in Tolds(l)
<1> DEFINE m == [path |-> path, line |-> e.line, category |-> e.category]
<1>1. /\ t.state \in States(l) /\ t.shown \in Seq(Messages)
      /\ Tallied(t.state, t.shown)
    BY DEF Tolds
<1>2. m \in Messages /\ m.category = e.category
    BY CategoriesAssumption DEF Messages, Errors
<1> HIDE DEF m
<1>3. /\ Incremented(t.state, m.category) \in States(l)
      /\ Tallied(Incremented(t.state, m.category), Append(t.shown, m))
    BY <1>1, <1>2, IncrementedTallied
<1>4. Append(t.shown, m) \in Seq(Messages)
    BY <1>1, <1>2, AppendProperties
<1>5. [state |-> Incremented(t.state, m.category), shown |-> Append(t.shown, m)]
          \in Tolds(l)
    BY <1>3, <1>4 DEF Tolds
<1> QED BY <1>2, <1>5 DEF Error, m

LEMMA ReportedSteps ==
    ASSUME NEW l, NEW t \in Tolds(l), NEW s, NEW errors \in Seq(Errors),
           path \in ValidNames
    PROVE  \E g \in [0 .. Len(errors) -> Tolds(l)] :
               /\ g[0] = t /\ g[Len(errors)] = Reported(t, s, errors)
               /\ \A i \in 1 .. Len(errors) : g[i] = Error(g[i - 1], s, errors[i])
<1> DEFINE n == Len(errors)
           step == [i \in 1 .. n |-> [u \in Tolds(l) |-> Error(u, s, errors[i])]]
           Body(g) == [i \in 0 .. n |->
                          IF i = 0 THEN t ELSE Error(g[i - 1], s, errors[i])]
<1>1. n \in Nat
    BY LenProperties
<1>2. \A i \in 1 .. n : errors[i] \in Errors
    BY ElementOfSeq
<1>3. step \in [1 .. n -> [Tolds(l) -> Tolds(l)]]
    BY <1>2, ErrorTold
<1> HIDE DEF n, step
<1>4. PICK h \in [0 .. n -> Tolds(l)] :
          h[0] = t /\ \A i \in 1 .. n : h[i] = step[i][h[i - 1]]
    <2>1. \E g : IsRecursion(g, Tolds(l), t, n, step)
        BY ONLY <1>1, <1>3, t \in Tolds(l), Recursion
    <2> QED BY <2>1 DEF IsRecursion
<1>5. ASSUME NEW i \in 1 .. n
      PROVE  h[i] = Error(h[i - 1], s, errors[i])
    <2>1. i - 1 \in 0 .. n /\ h[i - 1] \in Tolds(l)
        BY <1>1
    <2> QED BY <1>4, <2>1 DEF step
<1>6. h = Body(h)
    BY <1>1, <1>4, <1>5
<1> DEFINE after == CHOOSE g : g = Body(g)
<1>7. after = Body(after)
    BY <1>6
<1>8. Reported(t, s, errors) = after[n]
    BY DEF Reported, n
<1> HIDE DEF after
<1> DEFINE P == {k \in Nat : k <= n => after[k] \in Tolds(l)}
<1>9. 0 \in P
    BY <1>1, <1>7
<1>10. ASSUME NEW k \in Nat, k \in P PROVE k + 1 \in P
    <2> SUFFICES ASSUME k + 1 <= n PROVE after[k + 1] \in Tolds(l)
        OBVIOUS
    <2>1. k \in 0 .. n /\ k + 1 \in 1 .. n /\ k + 1 \in 0 .. n /\ k + 1 # 0
          /\ (k + 1) - 1 = k
        BY <1>1
    <2>2. after[k] \in Tolds(l)
        BY <2>1, <1>10
    <2>3. after[k + 1] = Error(after[k], s, errors[k + 1])
        BY <2>1, <1>7
    <2> QED BY <2>1, <2>2, <2>3, <1>2, ErrorTold DEF n
<1> HIDE DEF P
<1>11. Nat \subseteq P
    BY <1>9, <1>10, Induction
<1>12. after \in [0 .. n -> Tolds(l)]
    <2>1. \A k \in 0 .. n : after[k] \in Tolds(l)
        BY <1>1, <1>11 DEF P
    <2>2. after = [k \in 0 .. n |-> after[k]]
        BY <1>7
    <2> QED BY <2>1, <2>2
<1>13. after[0] = t /\ \A i \in 1 .. n : after[i] = Error(after[i - 1], s, errors[i])
    BY <1>1, <1>7
<1> QED BY <1>8, <1>12, <1>13 DEF n

LEMMA ReportedTold ==
    ASSUME NEW l, NEW t \in Tolds(l), NEW s, NEW errors \in Seq(Errors),
           path \in ValidNames
    PROVE  Reported(t, s, errors) \in Tolds(l)
<1>1. Len(errors) \in Nat
    BY LenProperties
<1> QED BY <1>1, ReportedSteps

-----------------------------------------------------------------------------
(* The steps.                                                              *)

(* The state between two steps: it is the state of its own options.        *)
Books(l, shown) ==
    l \in States(l) /\ shown \in Seq(Messages) /\ Tallied(l, shown)

LEMMA ToldBooks ==
    ASSUME NEW l, NEW shown
    PROVE  [state |-> l, shown |-> shown] \in Tolds(l) <=> Books(l, shown)
BY DEF Tolds, Books

LEMMA ToldAgain ==
    ASSUME NEW l, NEW t \in Tolds(l)
    PROVE  /\ Books(t.state, t.shown)
           /\ t.state.filters = l.filters /\ t.state.backup = l.backup
<1>1. t.state \in States(l) /\ t.shown \in Seq(Messages) /\ Tallied(t.state, t.shown)
    BY DEF Tolds
<1> PICK r : r = t.state
    OBVIOUS
<1>2. /\ r.filters = l.filters /\ r.backup = l.backup
      /\ r.verbose = l.verbose /\ r.counting = l.counting
    BY <1>1 DEF States
<1>3. States(r) = States(l)
    BY <1>2 DEF States
<1> QED BY <1>1, <1>2, <1>3 DEF Books

(* The options can change without a trace in what is counted.              *)
LEMMA OptionsChange ==
    ASSUME NEW l, NEW shown, Books(l, shown), NEW x
    PROVE  /\ Books([l EXCEPT !.filters = x], shown)
           /\ [l EXCEPT !.filters = x].filters = x
           /\ [l EXCEPT !.filters = x].backup = l.backup
           /\ Books([l EXCEPT !.backup = x], shown)
           /\ [l EXCEPT !.backup = x].filters = l.filters
           /\ [l EXCEPT !.backup = x].backup = x
<1>1. l \in States(l) /\ shown \in Seq(Messages) /\ Tallied(l, shown)
    BY DEF Books
<1>2. ASSUME NEW r, r = [l EXCEPT !.filters = x]
      PROVE  Books(r, shown) /\ r.filters = x /\ r.backup = l.backup
    <2>1. /\ r.filters = x /\ r.backup = l.backup /\ r.verbose = l.verbose
          /\ r.counting = l.counting /\ r.errorCount = l.errorCount
          /\ r.byCategory = l.byCategory
        BY <1>1, <1>2 DEF States
    <2>2. r \in States(r)
        BY <1>1, <1>2, <2>1 DEF States
    <2>3. Tallied(r, shown)
        BY <1>1, <2>1 DEF Tallied
    <2> QED BY <1>1, <2>1, <2>2, <2>3 DEF Books
<1>3. ASSUME NEW r, r = [l EXCEPT !.backup = x]
      PROVE  Books(r, shown) /\ r.filters = l.filters /\ r.backup = x
    <2>1. /\ r.filters = l.filters /\ r.backup = x /\ r.verbose = l.verbose
          /\ r.counting = l.counting /\ r.errorCount = l.errorCount
          /\ r.byCategory = l.byCategory
        BY <1>1, <1>3 DEF States
    <2>2. r \in States(r)
        BY <1>1, <1>3, <2>1 DEF States
    <2>3. Tallied(r, shown)
        BY <1>1, <2>1 DEF Tallied
    <2> QED BY <1>1, <2>1, <2>2, <2>3 DEF Books
<1> QED BY <1>2, <1>3

(* The command line is parsed before anything is counted.                  *)
Ready(r, f) == Books(r, <<>>) /\ r.filters = f

LEMMA OptionsParsed ==
    ASSUME NEW l, Books(l, <<>>), l.byCategory = <<>>,
           NEW f, NEW v, NEW c \in {"total", "toplevel", "detailed"}
    PROVE  Ready([l EXCEPT !.filters = f, !.verbose = v, !.counting = c], f)
<1> SUFFICES ASSUME NEW r,
                    r = [l EXCEPT !.filters = f, !.verbose = v, !.counting = c]
             PROVE  Ready(r, f)
    OBVIOUS
<1>1. l \in States(l) /\ <<>> \in Seq(Messages) /\ Tallied(l, <<>>)
    BY DEF Books
<1>2. /\ r.filters = f /\ r.backup = l.backup /\ r.verbose = v
      /\ r.counting = c /\ r.errorCount = l.errorCount
      /\ r.byCategory = l.byCategory
    BY <1>1 DEF States
<1>3. r \in States(r)
    BY <1>1, <1>2 DEF States
<1>4. Len(<<>>) = 0 /\ DOMAIN r.byCategory = {}
    BY <1>2
<1>5. Tallied(r, <<>>)
    BY <1>1, <1>2, <1>4 DEF Tallied
<1> QED BY <1>1, <1>2, <1>3, <1>5 DEF Books, Ready

-----------------------------------------------------------------------------
LEMMA SessionInvInit == Init => SessionInv
<1> SUFFICES ASSUME Init PROVE SessionInv
    OBVIOUS
<1>1. <<>> \in Tables
    <2>1. <<>> \in [{} -> Nat] /\ {} \in SUBSET Names
        OBVIOUS
    <2> QED BY <2>1, TableMade
<1>2. lint \in States(lint)
    BY <1>1 DEF Init, States
<1>3. Tallied(lint, printed)
    BY DEF Init, Tallied
<1>4. <<>> \in Seq(Messages)
    OBVIOUS
<1>5. Books(lint, printed)
    BY <1>2, <1>3, <1>4 DEF Init, Books
<1>6. Told \in Tolds(lint)
    BY <1>5, ToldBooks DEF Told
<1> QED BY <1>6 DEF Init, SessionInv, Processing

(* What SessionInv says of the variables, without the record Told.         *)
LEMMA SessionBooks ==
    ASSUME SessionInv
    PROVE  Books(lint, printed) /\ Told \in Tolds(lint)
<1>1. Told \in Tolds(lint)
    BY DEF SessionInv
<1> QED BY <1>1, ToldBooks DEF Told

LEMMA SessionInvNext ==
    ASSUME session' = session, session \in Sessions,
           Books(lint', printed'),
           phase' \in {"idle", "exit"} \cup Processing,
           phase' \in {"idle", "exit"} => lint'.filters = CommandLine,
           phase' \in Processing => lint'.backup = CommandLine,
           phase' \in {"guard", "lines"} => path' \in ValidNames,
           line' \in Nat,
           phase' = "exit" => exitCode' = IF lint'.errorCount > 0 THEN 1 ELSE 0
    PROVE  SessionInv'
<1>1. [state |-> lint', shown |-> printed'] \in Tolds(lint')
    BY ToldBooks
<1>2. Told' \in Tolds(lint')
    BY <1>1 DEF Told
<1>3. CommandLine' = CommandLine
    BY DEF CommandLine, Args
<1>4. phase' # "start"
    BY DEF Processing
<1> QED BY <1>2, <1>3, <1>4 DEF SessionInv

LEMMA ParseArgumentsStep ==
    ASSUME SessionInv, ParseArguments
    PROVE  SessionInv'
<1>1. /\ session' = session /\ session \in Sessions /\ phase' = "idle"
      /\ printed' = printed /\ printed = <<>> /\ lint.byCategory = <<>>
      /\ line' = line /\ line \in Nat
    BY DEF ParseArguments, SessionInv
<1>2. Books(lint, <<>>)
    BY <1>1, SessionBooks
<1>3. session.args.counting \in {"total", "toplevel", "detailed"}
    BY <1>1, SessionsAssumption
<1>4. lint' = [lint EXCEPT !.filters = CommandLine,
                           !.verbose = session.args.verbose,
                           !.counting = session.args.counting]
    BY DEF ParseArguments, CommandLine, Args
<1>5. PICK v, c : v = session.args.verbose /\ c = session.args.counting
    OBVIOUS
<1>6. lint' = [lint EXCEPT !.filters = CommandLine, !.verbose = v, !.counting = c]
    BY <1>4, <1>5
<1>7. c \in {"total", "toplevel", "detailed"}
    BY <1>3, <1>5
<1>8. Books(lint', <<>>) /\ lint'.filters = CommandLine
    <2>1. Ready([lint EXCEPT !.filters = CommandLine, !.verbose = v, !.counting = c],
                CommandLine)
        BY <1>1, <1>2, <1>7, OptionsParsed
    <2> QED BY <2>1, <1>6 DEF Ready
<1> QED BY <1>1, <1>8, SessionInvNext DEF Processing

(* The steps of ProcessFile before the file is opened: lint keeps its      *)
(* books and filters are copied, appended or restored.                     *)
LEMMA OverrideSteps ==
    ASSUME SessionInv,
           \/ StartFile \/ NoConfig \/ ConfigUnreadable \/ ReadConfig
           \/ ApplyFilters \/ SkipFile \/ DoneProcessing
    PROVE  SessionInv'
<1>1. Books(lint, printed)
    BY SessionBooks
<1>2. /\ session' = session /\ session \in Sessions
      /\ printed' = printed /\ line' = line /\ line \in Nat
    BY DEF StartFile, NoConfig, ConfigUnreadable, ReadConfig, ApplyFilters,
           SkipFile, DoneProcessing, SessionInv
<1>3. CASE StartFile
    <2>1. /\ phase' = "config" /\ lint.filters = CommandLine
          /\ lint' = [lint EXCEPT !.backup = CommandLine]
        BY <1>3 DEF StartFile, SessionInv
    <2>2. Books(lint', printed) /\ lint'.backup = CommandLine
        BY ZenonT(60), <2>1, <1>1, OptionsChange
    <2> QED BY <2>1, <2>2, <1>2, SessionInvNext DEF Processing
<1>4. CASE NoConfig \/ ConfigUnreadable
    <2>1. /\ phase' = "config" /\ lint.backup = CommandLine /\ lint' = lint
        BY <1>4 DEF NoConfig, ConfigUnreadable, SessionInv, Processing
    <2> QED BY <2>1, <1>1, <1>2, SessionInvNext DEF Processing
<1>5. ASSUME phase \in Processing, phase' = "idle", lint' = RestoreFilters
      PROVE  SessionInv'
    <2>1. lint.backup = CommandLine
        BY <1>5 DEF SessionInv
    <2>2. lint' = [lint EXCEPT !.filters = CommandLine]
        BY <2>1, <1>5 DEF RestoreFilters
    <2>3. Books(lint', printed) /\ lint'.filters = CommandLine
        BY ZenonT(60), <2>2, <1>1, OptionsChange
    <2> QED BY <2>3, <1>2, <1>5, SessionInvNext DEF Processing
<1>6. CASE ReadConfig
    <2>1. phase = "config" /\ lint.backup = CommandLine
        BY <1>6 DEF ReadConfig, SessionInv, Processing
    <2>2. \/ phase' = "idle" /\ lint' = RestoreFilters
          \/ phase' = phase /\ lint' = lint
        BY <1>6 DEF ReadConfig
    <2> QED BY <2>1, <2>2, <1>1, <1>2, <1>5, SessionInvNext DEF Processing
<1>7. CASE ApplyFilters
    <2>1. phase' = "open" /\ lint.backup = CommandLine
        BY <1>7 DEF ApplyFilters, SessionInv, Processing
    <2>2. PICK x : lint' = [lint EXCEPT !.filters = x]
        BY <1>7 DEF ApplyFilters
    <2>3. Books(lint', printed) /\ lint'.backup = CommandLine
        BY <2>1, <2>2, <1>1, OptionsChange
    <2> QED BY <2>1, <2>3, <1>2, SessionInvNext DEF Processing
<1>8. CASE SkipFile \/ DoneProcessing
    BY <1>5, <1>8 DEF SkipFile, DoneProcessing, Processing
<1> QED BY <1>3, <1>4, <1>6, <1>7, <1>8

(* The steps that report errors change no option.                          *)
LEMMA ReportStep ==
    ASSUME SessionInv, NEW r \in Tolds(lint), Becomes(r),
           phase \in Processing, phase' \in {"guard", "lines", "done"},
           phase' \in {"guard", "lines"} => path' \in ValidNames,
           session' = session, line' \in Nat
    PROVE  SessionInv'
<1>1. lint' = r.state /\ printed' = r.shown
    BY DEF Becomes
<1>2. Books(lint', printed') /\ lint'.backup = lint.backup
    BY <1>1, ToldAgain
<1>3. lint.backup = CommandLine /\ session \in Sessions
    BY DEF SessionInv
<1> QED BY <1>2, <1>3, SessionInvNext DEF Processing

(* The errors of a file that is linted are errors.                         *)
LEMMA FileErrors ==
    ASSUME SessionInv, path \in ValidNames
    PROVE  /\ File.copyright \in Seq(Errors) /\ File.before \in Seq(Errors)
           /\ File.after \in Seq(Errors)
           /\ \A n \in 1 .. Len(File.lines) : File.lines[n].raises \in Seq(Errors)
           /\ Len(File.lines) \in Nat /\ Len(File.guard) \in Nat
           /\ \A i \in 1 .. Len(File.guard) :
                 /\ File.guard[i].line \in 0 .. Len(File.lines)
                 /\ File.guard[i].raises \in Seq(Errors)
BY SessionsAssumption DEF File, SessionInv

LEMMA BeginFileStep ==
    ASSUME SessionInv, BeginFile
    PROVE  SessionInv'
<1> DEFINE clear == ResetNolintSuppressions
           known == [clear EXCEPT !.global = @ \cup File.global]
           mid   == Reported(Told, clear, File.copyright)
           r     == Reported(mid, known, File.before)
<1>1. /\ phase = "open" /\ phase' = "guard" /\ path \in ValidNames /\ path' = path
      /\ session' = session /\ line' = 0
      /\ Becomes(r)
    BY DEF BeginFile
<1>2. mid \in Tolds(lint)
    BY <1>1, SessionBooks, FileErrors, ReportedTold
<1> HIDE DEF mid
<1>3. r \in Tolds(lint)
    BY <1>1, <1>2, FileErrors, ReportedTold
<1> HIDE DEF r
<1> QED BY <1>1, <1>3, ReportStep DEF Processing

(* The errors that are reported when a line is looked at for NOLINT, and   *)
(* for its length.                                                         *)
TooLong(n) ==
    IF File.lines[n].length > lineLength THEN <<LineError(LineLength, 2, n)>> ELSE <<>>

LEMMA LineErrorIs ==
    ASSUME NEW c \in Categories, NEW confidence \in Nat, NEW n \in Nat
    PROVE  LineError(c, confidence, n) \in Errors /\ LineError(c, confidence, n).line = n
BY DEF LineError, Errors

LEMMA LineErrors ==
    ASSUME NEW n \in Nat
    PROVE  /\ LineError(BadNolint, 5, n) \in Errors /\ LineError(LineLength, 2, n) \in Errors
           /\ NolintErrors(n) \in Seq(Errors) /\ TooLong(n) \in Seq(Errors)
<1>1. BadNolint \in Categories /\ LineLength \in Categories /\ 5 \in Nat /\ 2 \in Nat
    BY CategoriesAssumption
<1>2. LineError(BadNolint, 5, n) \in Errors /\ LineError(LineLength, 2, n) \in Errors
    BY ONLY <1>1, n \in Nat, LineErrorIs
<1>3. ASSUME NEW e \in Errors PROVE <<e>> \in Seq(Errors)
    OBVIOUS
<1>4. <<>> \in Seq(Errors)
    OBVIOUS
<1>5. NolintErrors(n) = <<LineError(BadNolint, 5, n)>> \/ NolintErrors(n) = <<>>
    BY DEF NolintErrors
<1>6. TooLong(n) = <<LineError(LineLength, 2, n)>> \/ TooLong(n) = <<>>
    BY DEF TooLong
<1> QED BY ONLY <1>2, <1>3, <1>4, <1>5, <1>6

LEMMA CheckForHeaderGuardStep ==
    ASSUME SessionInv, CheckForHeaderGuard
    PROVE  SessionInv'
<1> DEFINE g    == File.guard[line + 1]
           then == ParseNolint(suppressed, g.line)
           all  == NolintErrors(g.line) \o g.raises
           r    == Reported(Told, then, all)
<1>1. /\ phase = "guard" /\ line < Len(File.guard) /\ line' = line + 1
      /\ phase' = phase /\ path' = path /\ session' = session
      /\ Becomes(r)
    BY DEF CheckForHeaderGuard
<1>2. path \in ValidNames /\ line \in Nat
    BY <1>1 DEF SessionInv
<1>3. g.raises \in Seq(Errors) /\ g.line \in Nat
    <2>1. line + 1 \in 1 .. Len(File.guard)
        BY <1>1, <1>2, FileErrors
    <2> QED BY <2>1, <1>2, FileErrors
<1>4. NolintErrors(g.line) \in Seq(Errors)
    BY <1>3, LineErrors
<1> HIDE DEF then, g
<1>5. all \in Seq(Errors)
    BY <1>3, <1>4, ConcatProperties
<1> HIDE DEF all
<1>6. r \in Tolds(lint)
    BY <1>2, <1>5, SessionBooks, ReportedTold
<1> HIDE DEF r
<1>7. line' \in Nat
    BY <1>1, <1>2
<1> QED BY <1>1, <1>2, <1>6, <1>7, ReportStep DEF Processing

LEMMA GuardCheckedStep ==
    ASSUME SessionInv, GuardChecked
    PROVE  SessionInv'
<1>1. /\ phase = "guard" /\ phase' = "lines" /\ line' = 0 /\ path' = path
      /\ session' = session /\ lint' = lint /\ printed' = printed
    BY DEF GuardChecked
<1>2. path \in ValidNames /\ session \in Sessions /\ lint.backup = CommandLine
    BY <1>1 DEF SessionInv, Processing
<1>3. Books(lint, printed)
    BY SessionBooks
<1> QED BY <1>1, <1>2, <1>3, SessionInvNext DEF Processing

LEMMA ProcessLineStep ==
    ASSUME SessionInv, ProcessLine
    PROVE  SessionInv'
<1> DEFINE n    == line + 1
           l    == File.lines[n]
           then == ParseNolint(suppressed, n)
           all  == NolintErrors(n) \o l.raises \o TooLong(n)
           r    == Reported(Told, then, all)
<1>1. /\ phase = "lines" /\ n <= Len(File.lines) /\ line' = n
      /\ phase' = phase /\ path' = path /\ session' = session
      /\ Becomes(r)
    BY DEF ProcessLine, TooLong
<1>2. path \in ValidNames /\ line \in Nat
    BY <1>1 DEF SessionInv
<1>3. n \in Nat /\ line' \in Nat
    BY <1>1, <1>2
<1>4. l.raises \in Seq(Errors)
    BY <1>1, <1>2, <1>3, FileErrors
<1>5. NolintErrors(n) \in Seq(Errors) /\ TooLong(n) \in Seq(Errors)
    <2> HIDE DEF n
    <2> QED BY <1>3, LineErrors
<1> HIDE DEF then, l
<1>6. all \in Seq(Errors)
    BY <1>4, <1>5, ConcatProperties
<1> HIDE DEF all
<1>7. r \in Tolds(lint)
    BY <1>2, <1>6, SessionBooks, ReportedTold
<1> HIDE DEF r, n
<1> QED BY <1>1, <1>2, <1>3, <1>7, ReportStep DEF Processing

LEMMA EndFileStep ==
    ASSUME SessionInv, EndFile
    PROVE  SessionInv'
<1> DEFINE r == Reported(Told, suppressed, File.after)
<1>1. /\ phase = "lines" /\ phase' = "done" /\ line' = line
      /\ session' = session /\ Becomes(r)
    BY DEF EndFile
<1>2. path \in ValidNames /\ line \in Nat
    BY <1>1 DEF SessionInv
<1>3. r \in Tolds(lint)
    BY <1>2, SessionBooks, FileErrors, ReportedTold
<1> HIDE DEF r
<1> QED BY <1>1, <1>2, <1>3, ReportStep DEF Processing

LEMMA ExitStep ==
    ASSUME SessionInv, Exit
    PROVE  SessionInv'
<1>1. Books(lint, printed)
    BY SessionBooks
<1>2. /\ phase = "idle" /\ phase' = "exit"
      /\ exitCode' = IF lint.errorCount > 0 THEN 1 ELSE 0
      /\ lint' = lint /\ printed' = printed /\ line' = line
      /\ session' = session
    BY DEF Exit
<1>3. lint.filters = CommandLine /\ session \in Sessions /\ line \in Nat
    BY <1>2 DEF SessionInv
<1> QED BY <1>1, <1>2, <1>3, SessionInvNext DEF Processing

LEMMA SessionInvStep ==
    ASSUME SessionInv, [Next]_vars
    PROVE  SessionInv'
<1>1. CASE UNCHANGED vars
    BY <1>1 DEF vars, SessionInv, Told, CommandLine, Args
<1> QED BY <1>1, ParseArgumentsStep, OverrideSteps, BeginFileStep,
           CheckForHeaderGuardStep, GuardCheckedStep, ProcessLineStep, EndFileStep,
           ExitStep DEF Next

-----------------------------------------------------------------------------
(* What follows.                                                           *)

(* _cpplint_state has counted what was printed and knows the filters of    *)
(* the command line, between any two steps of any run.                     *)
THEOREM SessionSound == Spec => []SessionInv
<1>1. Init => SessionInv
    BY SessionInvInit
<1>2. SessionInv /\ [Next]_vars => SessionInv'
    BY SessionInvStep
<1> QED BY <1>1, <1>2, PTL DEF Spec

(* However ProcessFile was left, by an error of a configuration or of the  *)
(* file, an exclusion or at its end, the filters are again those of the    *)
(* command line before the next file and at the end.                       *)
THEOREM FiltersAlwaysRestored == Spec => []FiltersRestored
<1>1. SessionInv => FiltersRestored
    BY DEF SessionInv, FiltersRestored
<1> QED BY <1>1, SessionSound, PTL

(* The total and the counts by category are those of the errors printed,   *)
(* and the exit code says whether there were any.                          *)
THEOREM CountsAlwaysAgree == Spec => []CountsAgree
<1>1. ASSUME SessionInv PROVE CountsAgree
    <2>1. Books(lint, printed)
        BY <1>1, SessionBooks
    <2>2. Tallied(lint, printed) /\ printed \in Seq(Messages)
        BY <2>1 DEF Books
    <2>3. lint.errorCount = Len(printed)
        BY <2>2 DEF Tallied
    <2>4. ASSUME NEW names, lint.counting # "total",
                 names = [i \in 1 .. Len(printed) |->
                             CountedAs(lint.counting, printed[i].category)]
          PROVE  IsTally(lint.byCategory, names)
        <3>1. Len(printed) \in Nat
            BY <2>2, LenProperties
        <3>2. Len(names) = Len(printed) /\ DOMAIN names = 1 .. Len(printed)
            BY <2>4, <3>1
        <3>3. ASSUME NEW c
              PROVE  {i \in 1 .. Len(names) : names[i] = c} =
                         Of(lint.counting, printed, c)
            BY <2>4, <3>2 DEF Of
        <3>4. \A c : c \in Range(names) <=> Of(lint.counting, printed, c) # {}
            BY <2>4, <3>2 DEF Range, Of
        <3>5. ASSUME NEW c \in DOMAIN lint.byCategory
              PROVE  /\ lint.byCategory[c] = Cardinality(Of(lint.counting, printed, c))
                     /\ c \in Range(names)
            BY <2>2, <2>4, <3>4 DEF Tallied
        <3>6. ASSUME NEW c \in Range(names)
              PROVE  c \in DOMAIN lint.byCategory
            BY <2>2, <2>4, <3>2 DEF Tallied, Range
        <3>7. DOMAIN lint.byCategory = Range(names)
            BY <3>5, <3>6
        <3> QED BY <3>3, <3>5, <3>7 DEF IsTally
    <2>6. lint.counting = "toplevel" =>
              IsTally(lint.byCategory,
                      [i \in 1 .. Len(printed) |-> <<printed[i].category[1]>>])
        BY <2>4 DEF CountedAs
    <2>7. lint.counting = "detailed" =>
              IsTally(lint.byCategory, [i \in 1 .. Len(printed) |-> printed[i].category])
        BY <2>4 DEF CountedAs
    <2>5. phase = "exit" => (exitCode = 1 <=> printed # <<>>)
        <3>1. printed # <<>> <=> Len(printed) > 0
            BY <2>2, EmptySeq, LenProperties
        <3> QED BY <1>1, <2>3, <3>1 DEF SessionInv
    <2> QED BY <2>3, <2>5, <2>6, <2>7 DEF CountsAgree
<1> QED BY <1>1, SessionSound, PTL

-----------------------------------------------------------------------------
(* Filters: of two lists one after the other the second decides, if any of *)
(* its filters names the category.                                         *)
Matching(filters, category) ==
    {i \in 1 .. Len(filters) : StartsWith(category, filters[i].of)}

LEMMA FilteredConcat ==
    ASSUME NEW a \in Seq(Filters), NEW b \in Seq(Filters), NEW c
    PROVE  /\ a \o b \in Seq(Filters)
           /\ Matches(a \o b, c) <=> Matches(a, c) \/ Matches(b, c)
           /\ Matches(b, c) => (IsFiltered(a \o b, c) <=> IsFiltered(b, c))
           /\ ~Matches(b, c) => (IsFiltered(a \o b, c) <=> IsFiltered(a, c))
<1> DEFINE ab == a \o b
           A  == Matching(a, c)
           B  == Matching(b, c)
           AB == Matching(ab, c)
           m  == Len(a)
           n  == Len(b)
<1>1. /\ m \in Nat /\ n \in Nat /\ ab \in Seq(Filters) /\ Len(ab) = m + n
      /\ \A i \in 1 .. m : ab[i] = a[i]
      /\ \A i \in 1 .. n : ab[m + i] = b[i]
    <2>1. /\ ab \in Seq(Filters) /\ Len(ab) = m + n
          /\ \A i \in 1 .. Len(ab) : ab[i] = IF i <= m THEN a[i] ELSE b[i - m]
        BY ConcatProperties
    <2>2. m \in Nat /\ n \in Nat
        BY LenProperties
    <2> HIDE DEF ab, m, n
    <2>3. ASSUME NEW i \in 1 .. m PROVE ab[i] = a[i]
        <3>1. i \in 1 .. m + n /\ i <= m
            BY ONLY <2>2, i \in 1 .. m
        <3> QED BY ONLY <2>1, <3>1
    <2>4. ASSUME NEW i \in 1 .. n PROVE ab[m + i] = b[i]
        <3>1. PICK k \in Int : k = m + i
            BY ONLY <2>2, i \in 1 .. n
        <3>2. k \in 1 .. m + n /\ ~(k <= m) /\ k - m = i
            BY ONLY <2>2, <3>1, i \in 1 .. n
        <3> QED BY ONLY <2>1, <3>1, <3>2
    <2> QED BY ONLY <2>1, <2>2, <2>3, <2>4
<1>2. /\ A \subseteq 1 .. m /\ B \subseteq 1 .. n /\ AB \subseteq 1 .. m + n
      /\ \A i \in 1 .. m : i \in A <=> StartsWith(c, a[i].of)
      /\ \A i \in 1 .. n : i \in B <=> StartsWith(c, b[i].of)
      /\ \A i \in 1 .. m + n : i \in AB <=> StartsWith(c, ab[i].of)
    BY <1>1 DEF Matching
<1>3. /\ Matches(a, c) <=> A # {}
      /\ Matches(b, c) <=> B # {}
      /\ Matches(ab, c) <=> AB # {}
    BY DEF Matches, Matching
<1>4. /\ IsFiltered(a, c) <=> A # {} /\ a[Max(A)].sign = "-"
      /\ IsFiltered(b, c) <=> B # {} /\ b[Max(B)].sign = "-"
      /\ IsFiltered(ab, c) <=> AB # {} /\ ab[Max(AB)].sign = "-"
    BY DEF IsFiltered, Matching
<1> HIDE DEF A, B, AB, ab, m, n
<1>5. /\ \A i \in 1 .. m : i \in AB <=> i \in A
      /\ \A i \in 1 .. n : m + i \in AB <=> i \in B
    <2>1. ASSUME NEW i \in 1 .. m PROVE i \in AB <=> i \in A
        <3>1. i \in 1 .. m + n
            BY ONLY <1>1, i \in 1 .. m
        <3>2. ab[i] = a[i]
            BY ONLY <1>1, i \in 1 .. m
        <3> QED BY ONLY <3>1, <3>2, <1>2, i \in 1 .. m
    <2>2. ASSUME NEW i \in 1 .. n PROVE m + i \in AB <=> i \in B
        <3>1. m + i \in 1 .. m + n /\ ab[m + i] = b[i]
            BY <1>1
        <3> QED BY <3>1, <1>2
    <2> QED BY <2>1, <2>2
<1>6. \A i \in AB : i \in 1 .. m \/ (i - m \in 1 .. n /\ i = m + (i - m))
    BY <1>1, <1>2
<1>7. AB # {} <=> A # {} \/ B # {}
    BY <1>2, <1>5, <1>6
<1>8. AB \subseteq 0 .. m + n /\ A \subseteq 0 .. m /\ B \subseteq 0 .. n
    BY <1>1, <1>2
<1>9. m + n \in Nat
    BY <1>1
<1>10. ASSUME B # {} PROVE IsFiltered(ab, c) <=> IsFiltered(b, c)
    <2>1. PICK x : x = Max(B) /\ x \in B /\ \A i \in B : i <= x
        BY <1>1, <1>8, <1>10, LargestOf
    <2>2. PICK y : y = Max(AB) /\ y \in AB /\ \A i \in AB : i <= y
        BY <1>7, <1>8, <1>9, <1>10, LargestOf
    <2>3. x \in 1 .. n /\ m + x \in AB
        BY <2>1, <1>2, <1>5
    <2>4. y \in Nat /\ m + x <= y
        <3>1. y \in Nat
            BY <2>2, <1>8, <1>9
        <3>2. m + x <= y
            BY <2>2, <2>3, Zenon
        <3> QED BY <3>1, <3>2
    <2>5. ~(y \in 1 .. m)
        BY <2>3, <2>4, <1>1
    <2>6. PICK z \in 1 .. n : y = m + z
        BY <2>2, <2>5, <1>6
    <2>7. z \in B
        <3>1. m + z \in AB
            BY <2>2, <2>6
        <3> QED BY <3>1, <1>5, Zenon
    <2>8. z <= x
        BY <2>1, <2>7
    <2>9. z = x
        BY <2>3, <2>4, <2>6, <2>8, <1>1
    <2>10. ab[y] = b[x]
        BY <2>3, <2>6, <2>9, <1>1
    <2> QED BY <2>1, <2>2, <2>10, <1>4, <1>7, <1>10
<1>11. ASSUME B = {} PROVE IsFiltered(ab, c) <=> IsFiltered(a, c)
    <2>1. AB = A
        <3>1. \A i \in AB : i \in A
            BY <1>5, <1>6, <1>11
        <3>2. \A i \in A : i \in AB
            BY <1>2, <1>5
        <3> QED BY <3>1, <3>2
    <2>2. ASSUME A # {} PROVE ab[Max(A)] = a[Max(A)]
        <3>1. Max(A) \in A
            BY <1>1, <1>8, <2>2, LargestOf
        <3> QED BY <3>1, <1>1, <1>2
    <2> QED BY <2>1, <2>2, <1>4
<1> QED BY <1>1, <1>3, <1>7, <1>10, <1>11 DEF ab

(* InOrder: what its function has up to each of the lists.                 *)
LEMMA OrderSteps ==
    ASSUME NEW lists \in Seq(Seq(Filters))
    PROVE  \E g \in [0 .. Len(lists) -> Seq(Filters)] :
               /\ g[0] = <<>> /\ g[Len(lists)] = InOrder(lists)
               /\ \A i \in 1 .. Len(lists) : g[i] = lists[i] \o g[i - 1]
<1> DEFINE n == Len(lists)
           S == Seq(Filters)
           nil == <<>>
           One(u, i) == lists[i] \o u
           step == [i \in 1 .. n |-> [u \in S |-> One(u, i)]]
           Body(g) == [i \in 0 .. n |-> IF i = 0 THEN nil ELSE One(g[i - 1], i)]
<1>1. n \in Nat
    BY LenProperties
<1>2. \A i \in 1 .. n : lists[i] \in S
    BY ElementOfSeq
<1>3. step \in [1 .. n -> [S -> S]]
    BY <1>2, ConcatProperties
<1>4. nil \in S
    OBVIOUS
<1> HIDE DEF n, step, S, nil, One
<1>5. PICK h \in [0 .. n -> S] :
          h[0] = nil /\ \A i \in 1 .. n : h[i] = step[i][h[i - 1]]
    <2>1. \E g : IsRecursion(g, S, nil, n, step)
        BY ONLY <1>1, <1>3, <1>4, Recursion
    <2> QED BY <2>1 DEF IsRecursion
<1>6. ASSUME NEW i \in 1 .. n
      PROVE  h[i] = One(h[i - 1], i)
    <2>1. i - 1 \in 0 .. n /\ h[i - 1] \in S
        BY <1>1
    <2> QED BY <1>5, <2>1 DEF step
<1>7. h = Body(h)
    BY <1>1, <1>5, <1>6
<1> DEFINE order == CHOOSE g : g = Body(g)
<1>8. order = Body(order)
    BY <1>7
<1>9. InOrder(lists) = order[n]
    BY DEF InOrder, n, nil, One
<1> HIDE DEF order
<1>10. order[0] = nil /\ \A i \in 1 .. n : order[i] = One(order[i - 1], i)
    BY <1>1, <1>8
<1> DEFINE P == {k \in Nat : k <= n => order[k] \in S}
<1>11. 0 \in P
    BY <1>4, <1>10
<1>12. ASSUME NEW k \in Nat, k \in P PROVE k + 1 \in P
    <2> SUFFICES ASSUME k + 1 <= n PROVE order[k + 1] \in S
        OBVIOUS
    <2>1. k + 1 \in 1 .. n /\ (k + 1) - 1 = k /\ k <= n
        BY <1>1
    <2>2. order[k] \in S /\ lists[k + 1] \in S
        BY <2>1, <1>12, <1>2
    <2>3. order[k + 1] = One(order[k], k + 1)
        BY <2>1, <1>10
    <2> QED BY <2>2, <2>3, ConcatProperties DEF S, One
<1> HIDE DEF P
<1>13. Nat \subseteq P
    BY <1>11, <1>12, Induction
<1>14. order \in [0 .. n -> S]
    <2>1. \A k \in 0 .. n : order[k] \in S
        BY <1>1, <1>13 DEF P
    <2>2. order = [k \in 0 .. n |-> order[k]]
        BY <1>8
    <2> QED BY <2>1, <2>2
<1> QED BY <1>9, <1>10, <1>14 DEF n, S, nil, One

(* Of lists in the order of cfg_filters the first that names the category  *)
(* decides, and the base if none does.                                     *)
LEMMA InOrderFiltered ==
    ASSUME NEW lists \in Seq(Seq(Filters)), NEW base \in Seq(Filters), NEW c
    PROVE  /\ base \o InOrder(lists) \in Seq(Filters)
           /\ NoneMatches(lists, c) =>
                 (IsFiltered(base \o InOrder(lists), c) <=> IsFiltered(base, c))
           /\ \A v : Decides(v, lists, c) =>
                 (IsFiltered(base \o InOrder(lists), c) <=> IsFiltered(v, c))
<1> DEFINE n == Len(lists)
<1>1. PICK g \in [0 .. n -> Seq(Filters)] :
          /\ g[0] = <<>> /\ g[n] = InOrder(lists)
          /\ \A i \in 1 .. n : g[i] = lists[i] \o g[i - 1]
    BY OrderSteps
<1>2. n \in Nat /\ \A i \in 1 .. n : lists[i] \in Seq(Filters)
    BY LenProperties, ElementOfSeq
<1> HIDE DEF n
<1> DEFINE Right(j) ==
               /\ Matches(g[j], c) => \E i \in 1 .. j : Matches(lists[i], c)
               /\ \A k \in 1 .. j : FirstNaming(lists, k, c) =>
                     Matches(g[j], c) /\ (IsFiltered(g[j], c) <=> IsFiltered(lists[k], c))
           P == {j \in Nat : j <= n => Right(j)}
<1>3. 0 \in P
    <2>1. ~Matches(g[0], c)
        BY <1>1 DEF Matches
    <2> QED BY <2>1
<1>4. ASSUME NEW j \in Nat, j \in P PROVE j + 1 \in P
    <2> SUFFICES ASSUME j + 1 <= n PROVE Right(j + 1)
        OBVIOUS
    <2>1. j + 1 \in 1 .. n /\ (j + 1) - 1 = j /\ j \in 0 .. n /\ j <= n
        BY <1>2
    <2>2. Right(j)
        BY <2>1, <1>4
    <2>3. /\ g[j + 1] = lists[j + 1] \o g[j]
          /\ lists[j + 1] \in Seq(Filters) /\ g[j] \in Seq(Filters)
        BY <2>1, <1>1, <1>2
    <2>4. PICK a, b : a = lists[j + 1] /\ b = g[j]
        OBVIOUS
    <2>5. /\ Matches(g[j + 1], c) <=> Matches(a, c) \/ Matches(b, c)
          /\ Matches(b, c) => (IsFiltered(g[j + 1], c) <=> IsFiltered(b, c))
          /\ ~Matches(b, c) => (IsFiltered(g[j + 1], c) <=> IsFiltered(a, c))
        BY <2>3, <2>4, FilteredConcat
    <2>6. ASSUME Matches(g[j + 1], c)
          PROVE  \E i \in 1 .. j + 1 : Matches(lists[i], c)
        <3>1. CASE Matches(a, c)
            BY <3>1, <2>1, <2>4
        <3>2. CASE Matches(b, c)
            <4>1. PICK i \in 1 .. j : Matches(lists[i], c)
                BY <3>2, <2>2, <2>4
            <4>2. i \in 1 .. j + 1
                OBVIOUS
            <4> QED BY <4>1, <4>2
        <3> QED BY <2>5, <2>6, <3>1, <3>2
    <2>7. ASSUME NEW k \in 1 .. j + 1, FirstNaming(lists, k, c)
          PROVE  Matches(g[j + 1], c) /\ (IsFiltered(g[j + 1], c) <=> IsFiltered(lists[k], c))
        <3>1. CASE k \in 1 .. j
            <4>1. Matches(b, c) /\ (IsFiltered(b, c) <=> IsFiltered(lists[k], c))
                BY <3>1, <2>2, <2>4, <2>7
            <4> QED BY <4>1, <2>5
        <3>2. CASE k \notin 1 .. j
            <4>1. k = j + 1
                BY <3>2
            <4>2. Matches(a, c) /\ \A i \in 1 .. j : ~Matches(lists[i], c)
                BY <4>1, <2>4, <2>7 DEF FirstNaming
            <4>3. ~Matches(b, c)
                BY <4>2, <2>2, <2>4
            <4> QED BY <4>1, <4>2, <4>3, <2>4, <2>5
        <3> QED BY <3>1, <3>2
    <2> QED BY <2>6, <2>7
<1> HIDE DEF P
<1>5. Nat \subseteq P
    BY <1>3, <1>4, Induction
<1>6. Right(n)
    BY <1>2, <1>5 DEF P
<1> HIDE DEF Right
<1>7. PICK o \in Seq(Filters) : o = InOrder(lists) /\ o = g[n]
    BY <1>1, <1>2
<1>8. /\ base \o o \in Seq(Filters)
      /\ Matches(o, c) => (IsFiltered(base \o o, c) <=> IsFiltered(o, c))
      /\ ~Matches(o, c) => (IsFiltered(base \o o, c) <=> IsFiltered(base, c))
    BY FilteredConcat
<1>9. ASSUME NoneMatches(lists, c) PROVE ~Matches(o, c)
    BY <1>6, <1>7, <1>9 DEF Right, n, NoneMatches
<1>10. ASSUME NEW v, Decides(v, lists, c)
       PROVE  Matches(o, c) /\ (IsFiltered(o, c) <=> IsFiltered(v, c))
    <2>1. PICK k \in 1 .. n : FirstNaming(lists, k, c) /\ lists[k] = v
        BY <1>10 DEF Decides, n
    <2> QED BY <2>1, <1>6, <1>7 DEF Right
<1> QED BY <1>7, <1>8, <1>9, <1>10

LEMMA CommandLineFilters ==
    ASSUME SessionInv
    PROVE  CommandLine \in Seq(Filters)
<1>1. session.args.filters \in Seq(Filters)
    BY SessionsAssumption DEF SessionInv
<1> QED BY <1>1, FiltersAssumption, ConcatProperties DEF CommandLine, Args

(* A path and the directories on it.                                       *)
LEMMA PathFacts ==
    ASSUME NEW p \in Range(Paths)
    PROVE  /\ \E S : p \in Seq(S)
           /\ Len(p) \in Nat /\ Directories(p) \subseteq 1 .. Len(p)
<1> DEFINE S == UNION {Range(q) : q \in Range(Paths)}
<1>1. Paths \in Seq(Seq(S))
    BY PathsAssumption
<1> HIDE DEF S
<1>2. PICK i \in DOMAIN Paths : p = Paths[i]
    BY DEF Range
<1>3. DOMAIN Paths = 1 .. Len(Paths)
    BY <1>1, LenProperties
<1>4. p \in Seq(S)
    BY <1>1, <1>2, <1>3, ElementOfSeq
<1>5. Len(p) \in Nat
    BY <1>4, LenProperties
<1> QED BY <1>4, <1>5 DEF Directories

(* When the configurations were read, the filters are those that count.    *)
LEMMA AppliedFilters ==
    ASSUME SessionInv, path \in Range(Paths), depth = 0, GatheredInv, NEW c \in Categories
    PROVE  IsFiltered(CommandLine \o InOrder(cfgFilters), c) <=> Filtered(path, c)
<1> DEFINE D == {d \in Directories(path) : Naming(path, d, c) # {}}
<1>1. CommandLine \in Seq(Filters) /\ cfgFilters \in Seq(Seq(Filters))
    BY CommandLineFilters DEF GatheredInv
<1>2. /\ Len(path) \in Nat /\ Directories(path) \subseteq 1 .. Len(path)
    BY PathFacts
<1>3. Visited = Directories(path)
    BY <1>2 DEF Visited
<1>4. /\ NoneMatches(cfgFilters, c) =>
             (IsFiltered(CommandLine \o InOrder(cfgFilters), c) <=> IsFiltered(CommandLine, c))
      /\ \A v : Decides(v, cfgFilters, c) =>
             (IsFiltered(CommandLine \o InOrder(cfgFilters), c) <=> IsFiltered(v, c))
    BY <1>1, InOrderFiltered
<1>5. CASE D = {}
    <2>1. NoneMatches(cfgFilters, c)
        BY <1>3, <1>5 DEF GatheredInv
    <2>2. Filtered(path, c) <=> IsFiltered(CommandLine, c)
        BY <1>5 DEF Filtered
    <2> QED BY <2>1, <2>2, <1>4
<1>6. CASE D # {}
    <2>1. D \subseteq 0 .. Len(path)
        BY <1>2
    <2>2. PICK d : d = Max(D) /\ d \in D /\ \A e \in D : e <= d
        BY <2>1, <1>2, <1>6, LargestOf
    <2>3. Nearest(d, c)
        <3>1. ASSUME NEW e \in Visited, e > d PROVE Naming(path, e, c) = {}
            <4>1. e \in Int /\ d \in Int /\ ~(e <= d)
                BY <3>1, <2>1, <2>2, <1>2, <1>3
            <4>2. e \notin D
                BY <4>1, <2>2
            <4> QED BY <4>2, <1>3
        <3> QED BY <3>1, <2>2 DEF Nearest
    <2>4. Decides(Options(path, d)[Min(Naming(path, d, c))].value, cfgFilters, c)
        BY <2>2, <2>3, <1>3 DEF GatheredInv
    <2>5. Filtered(path, c)
             <=> IsFiltered(Options(path, d)[Min(Naming(path, d, c))].value, c)
        BY <2>2, <1>6 DEF Filtered
    <2> QED BY <2>4, <2>5, <1>4
<1> QED BY <1>5, <1>6

-----------------------------------------------------------------------------
(* Lists appended to cfg_filters have the least priority.                  *)
LEMMA AppendedLists ==
    ASSUME NEW lists \in Seq(Seq(Filters)), NEW v \in Seq(Filters), NEW c
    PROVE  /\ Append(lists, v) \in Seq(Seq(Filters))
           /\ NoneMatches(lists, c) /\ ~Matches(v, c) => NoneMatches(Append(lists, v), c)
           /\ NoneMatches(lists, c) /\ Matches(v, c) => Decides(v, Append(lists, v), c)
           /\ \A w : Decides(w, lists, c) => Decides(w, Append(lists, v), c)
<1> DEFINE n == Len(lists)
           more == Append(lists, v)
<1>1. /\ more \in Seq(Seq(Filters)) /\ n \in Nat /\ Len(more) = n + 1
      /\ more[n + 1] = v
      /\ \A i \in 1 .. n : more[i] = lists[i]
    BY AppendProperties, LenProperties
<1> HIDE DEF n, more
<1>2. ASSUME NoneMatches(lists, c), ~Matches(v, c) PROVE NoneMatches(more, c)
    <2> SUFFICES ASSUME NEW i \in 1 .. Len(more) PROVE ~Matches(more[i], c)
        BY DEF NoneMatches
    <2>1. CASE i \in 1 .. n
        BY <2>1, <1>1, <1>2 DEF NoneMatches, n
    <2>2. CASE i \notin 1 .. n
        BY <2>2, <1>1, <1>2
    <2> QED BY <2>1, <2>2
<1>3. ASSUME NoneMatches(lists, c), Matches(v, c) PROVE Decides(v, more, c)
    <2>1. n + 1 \in 1 .. Len(more) /\ (n + 1) - 1 = n
        BY <1>1
    <2>2. \A i \in 1 .. n : ~Matches(more[i], c)
        BY <1>1, <1>3 DEF NoneMatches, n
    <2> QED BY <2>1, <2>2, <1>1, <1>3 DEF Decides, FirstNaming
<1>4. ASSUME NEW w, Decides(w, lists, c) PROVE Decides(w, more, c)
    <2>1. PICK k \in 1 .. n : FirstNaming(lists, k, c) /\ lists[k] = w
        BY <1>4 DEF Decides, n
    <2>2. k \in 1 .. Len(more) /\ k \in 1 .. n /\ \A i \in 1 .. k - 1 : i \in 1 .. n
        BY <1>1
    <2>3. FirstNaming(more, k, c) /\ more[k] = w
        BY <2>1, <2>2, <1>1 DEF FirstNaming
    <2> QED BY <2>2, <2>3 DEF Decides
<1> QED BY <1>1, <1>2, <1>3, <1>4 DEF more

(* What is known of the CPPLINT.cfg that is read next.                     *)
LEMMA ConfigFacts ==
    ASSUME SessionInv, path \in Range(Paths), depth \in 1 .. Len(path)
    PROVE  /\ Config = In(path, depth) /\ Config.options = Options(path, depth)
           /\ LastRead \in Nat /\ LastRead <= Len(Config.options)
           /\ Len(Config.options) \in Nat
           /\ \A i \in Places("filter") :
                 i \in 1 .. LastRead /\ Config.options[i].value \in Seq(Filters)
           /\ \A name : Places(name) \subseteq Said(path, depth, name)
           /\ Excluding = {} => \A name : Places(name) = Said(path, depth, name)
           /\ Excluding = {i \in Said(path, depth, "exclude_files") :
                               Options(path, depth)[i].value = path[depth]}
<1> DEFINE n == Len(Config.options)
<1>1. Config = In(path, depth) /\ Config.options = Options(path, depth)
    BY DEF Config, In, Options
<1>2. /\ n \in Nat
      /\ \A i \in 1 .. n : Config.options[i].name = "filter" =>
             Config.options[i].value \in Seq(Filters)
    BY SessionsAssumption DEF SessionInv, Config
<1>3. Excluding \subseteq 1 .. n
    BY DEF Excluding
<1>4. LastRead \in Nat /\ LastRead <= n /\ (Excluding = {} => LastRead = n)
    <2>1. CASE Excluding = {}
        BY <2>1, <1>2 DEF LastRead
    <2>2. CASE Excluding # {}
        <3>1. PICK m : m = Min(Excluding) /\ m \in Excluding
            <4>1. Excluding \subseteq Nat
                BY <1>3
            <4> QED BY <4>1, <2>2, SmallestOf
        <3>2. m \in 1 .. n /\ LastRead = m - 1
            BY <3>1, <2>2, <1>3 DEF LastRead
        <3> QED BY <3>2, <2>2, <1>2
    <2> QED BY <2>1, <2>2
<1>5. \A i \in Places("filter") :
          i \in 1 .. LastRead /\ Config.options[i].value \in Seq(Filters)
    BY <1>2, <1>4 DEF Places
<1>6. ASSUME NEW name
      PROVE  /\ Places(name) \subseteq Said(path, depth, name)
             /\ Excluding = {} => Places(name) = Said(path, depth, name)
    BY <1>1, <1>2, <1>4 DEF Places, Said
<1>7. Excluding = {i \in Said(path, depth, "exclude_files") :
                      Options(path, depth)[i].value = path[depth]}
    BY <1>1 DEF Excluding, Said
<1> QED BY <1>1, <1>2, <1>4, <1>5, <1>6, <1>7

(* Gathered: what its function has up to each option.                      *)
LEMMA GatheredSteps ==
    ASSUME SessionInv, path \in Range(Paths), depth \in 1 .. Len(path),
           cfgFilters \in Seq(Seq(Filters))
    PROVE  \E g \in [0 .. LastRead -> Seq(Seq(Filters))] :
               /\ g[0] = cfgFilters /\ g[LastRead] = Gathered
               /\ \A i \in 1 .. LastRead : i \notin Places("filter") => g[i] = g[i - 1]
               /\ \A i \in Places("filter") :
                     g[i] = Append(g[i - 1], Config.options[i].value)
<1> DEFINE n == LastRead
           S == Seq(Seq(Filters))
           F == Places("filter")
           One(u, i) == IF i \in F THEN Append(u, Config.options[i].value) ELSE u
           step == [i \in 1 .. n |-> [u \in S |-> One(u, i)]]
           Body(g) == [i \in 0 .. n |-> IF i = 0 THEN cfgFilters ELSE One(g[i - 1], i)]
<1>1. n \in Nat /\ \A i \in F : i \in 1 .. n /\ Config.options[i].value \in Seq(Filters)
    BY ConfigFacts
<1>2. \A i \in 1 .. n : \A u \in S : One(u, i) \in S
    <2> SUFFICES ASSUME NEW i \in 1 .. n, NEW u \in S PROVE One(u, i) \in S
        OBVIOUS
    <2>1. CASE i \in F
        <3>1. Config.options[i].value \in Seq(Filters)
            BY <2>1, <1>1
        <3> QED BY <2>1, <3>1, AppendProperties
    <2> QED BY <2>1
<1>3. cfgFilters \in S
    OBVIOUS
<1> HIDE DEF n, S, One
<1>4. step \in [1 .. n -> [S -> S]]
    BY <1>2
<1> HIDE DEF step
<1>5. PICK h \in [0 .. n -> S] :
          h[0] = cfgFilters /\ \A i \in 1 .. n : h[i] = step[i][h[i - 1]]
    <2>1. \E g : IsRecursion(g, S, cfgFilters, n, step)
        BY ONLY <1>1, <1>3, <1>4, Recursion
    <2> QED BY <2>1 DEF IsRecursion
<1>6. ASSUME NEW i \in 1 .. n
      PROVE  h[i] = One(h[i - 1], i)
    <2>1. i - 1 \in 0 .. n /\ h[i - 1] \in S
        BY <1>1
    <2> QED BY <1>5, <2>1 DEF step
<1>7. h = Body(h)
    BY <1>1, <1>5, <1>6
<1> DEFINE gathered == CHOOSE g : g = Body(g)
<1>8. gathered = Body(gathered)
    BY <1>7
<1>9. Gathered = gathered[n]
    BY DEF Gathered, n, One
<1> HIDE DEF gathered
<1>10. gathered[0] = cfgFilters /\ \A i \in 1 .. n : gathered[i] = One(gathered[i - 1], i)
    BY <1>1, <1>8
<1> DEFINE P == {k \in Nat : k <= n => gathered[k] \in S}
<1>11. 0 \in P
    BY <1>3, <1>10
<1>12. ASSUME NEW k \in Nat, k \in P PROVE k + 1 \in P
    <2> SUFFICES ASSUME k + 1 <= n PROVE gathered[k + 1] \in S
        OBVIOUS
    <2>1. k + 1 \in 1 .. n /\ (k + 1) - 1 = k /\ k <= n
        BY <1>1
    <2>2. gathered[k] \in S
        BY <2>1, <1>12
    <2>3. gathered[k + 1] = One(gathered[k], k + 1)
        BY <2>1, <1>10
    <2> QED BY <2>1, <2>2, <2>3, <1>2
<1> HIDE DEF P
<1>13. Nat \subseteq P
    BY <1>11, <1>12, Induction
<1>14. gathered \in [0 .. n -> S]
    <2>1. \A k \in 0 .. n : gathered[k] \in S
        BY <1>1, <1>13 DEF P
    <2>2. gathered = [k \in 0 .. n |-> gathered[k]]
        BY <1>8
    <2> QED BY <2>1, <2>2
<1>15. /\ \A i \in 1 .. n : i \notin F => gathered[i] = gathered[i - 1]
       /\ \A i \in F : gathered[i] = Append(gathered[i - 1], Config.options[i].value)
    BY <1>1, <1>10 DEF One
<1> QED BY <1>9, <1>10, <1>14, <1>15 DEF n, S

(* What comes first among the lists gathered.                              *)
LEMMA GatheredFirst ==
    ASSUME SessionInv, path \in Range(Paths), depth \in 1 .. Len(path),
           cfgFilters \in Seq(Seq(Filters)), NEW c
    PROVE  LET N == {i \in Places("filter") : Matches(Config.options[i].value, c)}
           IN  /\ Gathered \in Seq(Seq(Filters))
               /\ NoneMatches(cfgFilters, c) /\ N = {} => NoneMatches(Gathered, c)
               /\ \A w : Decides(w, cfgFilters, c) => Decides(w, Gathered, c)
               /\ NoneMatches(cfgFilters, c) /\ N # {} =>
                     Decides(Config.options[Min(N)].value, Gathered, c)
<1> DEFINE F == Places("filter")
           V(i) == Config.options[i].value
           N == {i \in F : Matches(V(i), c)}
           n == LastRead
<1>1. PICK g \in [0 .. n -> Seq(Seq(Filters))] :
          /\ g[0] = cfgFilters /\ g[n] = Gathered
          /\ \A i \in 1 .. n : i \notin F => g[i] = g[i - 1]
          /\ \A i \in F : g[i] = Append(g[i - 1], V(i))
    BY GatheredSteps
<1>2. n \in Nat /\ \A i \in F : i \in 1 .. n /\ V(i) \in Seq(Filters)
    BY ConfigFacts
<1> HIDE DEF F, V, n
<1> DEFINE Q1(j) == (NoneMatches(cfgFilters, c) /\ \A i \in N : i > j)
                       => NoneMatches(g[j], c)
           Q2(j) == \A w : Decides(w, cfgFilters, c) => Decides(w, g[j], c)
           Q3(j) == \A m \in N : (/\ NoneMatches(cfgFilters, c) /\ m <= j
                                   /\ \A i \in N : m <= i)
                       => Decides(V(m), g[j], c)
           P == {j \in Nat : j <= n => Q1(j) /\ Q2(j) /\ Q3(j)}
<1>3. 0 \in P
    <2>1. Q1(0) /\ Q2(0)
        BY <1>1
    <2>2. Q3(0)
        BY <1>2
    <2> QED BY <2>1, <2>2
<1>4. ASSUME NEW j \in Nat, j \in P PROVE j + 1 \in P
    <2> SUFFICES ASSUME j + 1 <= n PROVE Q1(j + 1) /\ Q2(j + 1) /\ Q3(j + 1)
        OBVIOUS
    <2>1. j + 1 \in 1 .. n /\ (j + 1) - 1 = j /\ j \in 0 .. n /\ j <= n
        BY <1>2
    <2>2. Q1(j) /\ Q2(j) /\ Q3(j)
        BY <2>1, <1>4
    <2>3. \A i \in N : i \in Nat
        BY <1>2
    <2>4. CASE j + 1 \notin F
        <3>1. g[j + 1] = g[j]
            BY <2>1, <2>4, <1>1
        <3>2. \A i \in N : i # j + 1
            BY <2>4
        <3>3. \A i \in N : (i > j + 1 => i > j) /\ (i <= j + 1 => i <= j)
                            /\ (i > j => i > j + 1)
            BY <2>3, <3>2
        <3>4. Q1(j + 1)
            BY <2>2, <3>1, <3>3
        <3>5. Q3(j + 1)
            BY <2>2, <3>1, <3>3
        <3> QED BY <2>2, <3>1, <3>4, <3>5
    <2>5. CASE j + 1 \in F
        <3>1. g[j + 1] = Append(g[j], V(j + 1)) /\ V(j + 1) \in Seq(Filters)
              /\ g[j] \in Seq(Seq(Filters))
            BY <2>1, <2>5, <1>1, <1>2
        <3>2. PICK u, v, x : u = g[j] /\ v = V(j + 1) /\ x = g[j + 1]
            OBVIOUS
        <3>3. /\ NoneMatches(u, c) /\ ~Matches(v, c) => NoneMatches(x, c)
              /\ NoneMatches(u, c) /\ Matches(v, c) => Decides(v, x, c)
              /\ \A w : Decides(w, u, c) => Decides(w, x, c)
            BY <3>1, <3>2, AppendedLists
        <3>4. Q1(j + 1)
            <4> SUFFICES ASSUME NoneMatches(cfgFilters, c), \A i \in N : i > j + 1
                         PROVE  NoneMatches(x, c)
                BY <3>2
            <4>1. j + 1 \notin N
                BY <2>3
            <4>2. \A i \in N : i > j
                BY <2>3
            <4> QED BY <4>1, <4>2, <2>2, <2>5, <3>2, <3>3
        <3>5. Q2(j + 1)
            BY <2>2, <3>2, <3>3
        <3>6. Q3(j + 1)
            <4> SUFFICES ASSUME NEW m \in N, NoneMatches(cfgFilters, c), m <= j + 1,
                                \A i \in N : m <= i
                         PROVE  Decides(V(m), x, c)
                BY <3>2
            <4>1. CASE m <= j
                <5>1. Decides(V(m), u, c)
                    BY <4>1, <2>2, <3>2
                <5> QED BY <5>1, <3>3
            <4>2. CASE ~(m <= j)
                <5>1. m = j + 1 /\ \A i \in N : i > j
                    BY <4>2, <2>3
                <5>2. NoneMatches(u, c) /\ Matches(v, c)
                    BY <5>1, <2>2, <3>2
                <5> QED BY <5>1, <5>2, <3>2, <3>3
            <4> QED BY <4>1, <4>2
        <3> QED BY <3>4, <3>5, <3>6
    <2> QED BY <2>4, <2>5
<1> HIDE DEF P
<1>5. Nat \subseteq P
    BY <1>3, <1>4, Induction
<1>6. Q1(n) /\ Q2(n) /\ Q3(n) /\ n \in 0 .. n
    BY <1>2, <1>5 DEF P
<1>7. ASSUME NoneMatches(cfgFilters, c), N # {}
      PROVE  Decides(V(Min(N)), g[n], c)
    <2>1. N \subseteq Nat
        BY <1>2
    <2>2. PICK m : m = Min(N) /\ m \in N /\ \A i \in N : m <= i
        BY <2>1, <1>7, SmallestOf
    <2>3. m <= n
        BY <2>2, <1>2
    <2> QED BY <2>2, <2>3, <1>6, <1>7
<1>8. NoneMatches(cfgFilters, c) /\ N = {} => NoneMatches(g[n], c)
    BY <1>6
<1>9. Gathered \in Seq(Seq(Filters))
    BY <1>1, <1>6
<1> HIDE DEF N, Q1, Q3
<1> QED BY <1>1, <1>6, <1>7, <1>8, <1>9 DEF N, F, V

-----------------------------------------------------------------------------
(* What is expected depends on the session alone.                          *)
LEMMA SameConfigs ==
    ASSUME session' = session, NEW p, NEW d
    PROVE  /\ Args' = Args /\ CommandLine' = CommandLine
           /\ In(p, d)' = In(p, d) /\ Options(p, d)' = Options(p, d)
           /\ \A name : Said(p, d, name)' = Said(p, d, name)
           /\ Stops(p, d)' <=> Stops(p, d)
           /\ \A c : Naming(p, d, c)' = Naming(p, d, c)
           /\ Directories(p)' = Directories(p)
<1>1. Args' = Args /\ CommandLine' = CommandLine
    BY DEF Args, CommandLine
<1>2. ASSUME NEW e
      PROVE  /\ In(p, e)' = In(p, e) /\ Options(p, e)' = Options(p, e)
             /\ \A name : Said(p, e, name)' = Said(p, e, name)
             /\ Stops(p, e)' <=> Stops(p, e)
    <2>1. In(p, e)' = In(p, e)
        BY DEF In
    <2>2. Options(p, e)' = Options(p, e)
        BY <2>1 DEF Options
    <2>3. \A name : Said(p, e, name)' = Said(p, e, name)
        BY <2>2 DEF Said
    <2> QED BY <2>1, <2>2, <2>3 DEF Stops
<1>3. \A c : Naming(p, d, c)' = Naming(p, d, c)
    BY <1>2 DEF Naming
<1>4. Directories(p)' = Directories(p)
    BY <1>2 DEF Directories
<1> QED BY <1>1, <1>2, <1>3, <1>4

LEMMA SameExpected ==
    ASSUME session' = session, NEW p
    PROVE  /\ \A c : Filtered(p, c)' <=> Filtered(p, c)
           /\ Excluded(p)' <=> Excluded(p)
           /\ LengthOf(p)' = LengthOf(p)
           /\ Named(p)' <=> Named(p)
           /\ Linted(p)' <=> Linted(p)
           /\ \A n : ExpectedFrom(p, n)' = ExpectedFrom(p, n)
           /\ \A i : ExpectedOfGuard(p, i)' = ExpectedOfGuard(p, i)
           /\ Expected(p)' = Expected(p)
           /\ Due(p)' = Due(p)
<1>1. Args' = Args /\ CommandLine' = CommandLine /\ Directories(p)' = Directories(p)
    BY SameConfigs
<1>2. ASSUME NEW d
      PROVE  /\ Options(p, d)' = Options(p, d)
             /\ \A name : Said(p, d, name)' = Said(p, d, name)
             /\ \A c : Naming(p, d, c)' = Naming(p, d, c)
    BY SameConfigs
<1>3. ASSUME NEW c PROVE Filtered(p, c)' <=> Filtered(p, c)
    BY <1>1, <1>2 DEF Filtered
<1>4. Excluded(p)' <=> Excluded(p)
    BY <1>1, <1>2 DEF Excluded
<1>5. LengthOf(p)' = LengthOf(p)
    BY <1>1, <1>2 DEF LengthOf
<1>6. Named(p)' <=> Named(p)
    BY <1>1 DEF Named
<1>7. Linted(p)' <=> Linted(p)
    BY <1>4, <1>6 DEF Linted
<1>8. ASSUME NEW e PROVE Passes(p, e)' <=> Passes(p, e)
    BY <1>1, <1>3 DEF Passes
<1>9. ASSUME NEW n PROVE ExpectedFrom(p, n)' = ExpectedFrom(p, n)
    <2>1. \A m : RaisedAt(p, m)' = RaisedAt(p, m)
        BY <1>5 DEF RaisedAt
    <2> QED BY <2>1, <1>8 DEF ExpectedFrom, Left
<1>10. ASSUME NEW i PROVE ExpectedOfGuard(p, i)' = ExpectedOfGuard(p, i)
    <2>1. \A j : RaisedByGuard(p, j)' = RaisedByGuard(p, j)
        BY DEF RaisedByGuard
    <2> QED BY <2>1, <1>8 DEF ExpectedOfGuard, Left
<1>11. ExpectedFirst(p)' = ExpectedFirst(p)
    BY <1>8 DEF ExpectedFirst, Left
<1>12. Expected(p)' = Expected(p)
    BY <1>9, <1>10, <1>11 DEF Expected
<1>13. Due(p)' = Due(p)
    BY <1>7, <1>12 DEF Due
<1> QED BY <1>3, <1>4, <1>5, <1>6, <1>7, <1>9, <1>10, <1>12, <1>13

LEMMA SameWanted ==
    ASSUME session' = session
    PROVE  /\ Wanted' = Wanted
           /\ OneLength' <=> OneLength
<1>1. Wanted' = Wanted
    BY SameExpected DEF Wanted
<1>2. OneLength' <=> OneLength
    BY SameConfigs, SameExpected DEF OneLength
<1> QED BY <1>1, <1>2

-----------------------------------------------------------------------------
(* One directory further outwards.                                         *)
LEMMA VisitedNext ==
    ASSUME SessionInv, path \in Range(Paths), ConfigInv, depth > 0,
           session' = session, path' = path,
           \/ depth' = depth - 1 /\ ~Stops(path, depth)
           \/ depth' = 0 /\ Stops(path, depth)
    PROVE  /\ depth \in 1 .. Len(path) /\ depth' \in 0 .. Len(path)
           /\ depth' > 0 => \A e \in depth' + 1 .. Len(path) : ~Stops(path, e)
           /\ depth \in Directories(path) <=>
                 In(path, depth).exists /\ In(path, depth).readable
           /\ Visited' = Visited \cup ({depth} \cap Directories(path))
<1> DEFINE n == Len(path)
           D == Directories(path)
<1>1. n \in Nat /\ D \subseteq 1 .. n
    BY PathFacts
<1>2. depth \in 1 .. n
    BY <1>1 DEF ConfigInv
<1>3. \A e \in depth + 1 .. n : ~Stops(path, e)
    BY DEF ConfigInv
<1>4. depth' \in 0 .. n
    BY <1>1, <1>2
<1>5. ASSUME depth' > 0, NEW e \in depth' + 1 .. n PROVE ~Stops(path, e)
    <2>1. depth' = depth - 1 /\ ~Stops(path, depth)
        BY <1>5
    <2>2. e = depth \/ e \in depth + 1 .. n
        BY <2>1, <1>1, <1>2
    <2> QED BY <2>1, <2>2, <1>3
<1>6. depth \in D <=> In(path, depth).exists /\ In(path, depth).readable
    BY <1>2, <1>3 DEF Directories
<1>7. Visited' = {d \in D : d > depth'}
    BY SameConfigs DEF Visited
<1>8. ASSUME Stops(path, depth), NEW d \in D PROVE d >= depth
    <2>1. ASSUME d < depth PROVE FALSE
        <3>1. depth \in d + 1 .. n
            BY <2>1, <1>1, <1>2
        <3> QED BY <3>1, <1>8 DEF Directories
    <2> QED BY <2>1, <1>1, <1>2
<1>9. ASSUME NEW d \in D PROVE d > depth' <=> d > depth \/ d = depth
    <2>1. CASE depth' = depth - 1
        BY <2>1, <1>1, <1>2
    <2>2. CASE depth' = 0 /\ Stops(path, depth)
        BY <2>2, <1>1, <1>2, <1>8
    <2> QED BY <2>1, <2>2
<1>10. Visited' = Visited \cup ({depth} \cap D)
    <2>1. \A d : d \in Visited' <=> d \in Visited \cup ({depth} \cap D)
        BY <1>7, <1>9 DEF Visited
    <2> QED BY <2>1
<1> QED BY <1>2, <1>4, <1>5, <1>6, <1>10

(* A configuration that is not there or cannot be read adds nothing.       *)
LEMMA ConfigSkipped ==
    ASSUME SessionInv, path \in Range(Paths), ConfigInv, depth > 0,
           session' = session, path' = path, lint' = lint, cfgFilters' = cfgFilters,
           \/ ~Config.exists /\ depth' = depth - 1
           \/ Config.exists /\ ~Config.readable /\ depth' = 0
    PROVE  ConfigInv' /\ Visited' = Visited
<1>1. depth \in 1 .. Len(path)
    BY PathFacts DEF ConfigInv
<1>2. Config = In(path, depth)
    BY <1>1, ConfigFacts
<1>3. Stops(path, depth) <=> Config.exists /\ (Config.readable => Said(path, depth, "set noparent") # {})
    BY <1>2 DEF Stops
<1>4. /\ depth' \in 0 .. Len(path)
      /\ depth' > 0 => \A e \in depth' + 1 .. Len(path) : ~Stops(path, e)
      /\ depth \in Directories(path) <=>
            In(path, depth).exists /\ In(path, depth).readable
      /\ Visited' = Visited \cup ({depth} \cap Directories(path))
    BY <1>3, VisitedNext
<1>5. Visited' = Visited
    BY <1>2, <1>4
<1>6. PICK p : p = path
    OBVIOUS
<1>7. \A d : /\ Stops(path, d)' <=> Stops(path, d)
             /\ Options(path, d)' = Options(path, d)
             /\ \A name : Said(path, d, name)' = Said(path, d, name)
             /\ \A c : Naming(path, d, c)' = Naming(path, d, c)
    <2>1. ASSUME NEW d
          PROVE  /\ Stops(p, d)' <=> Stops(p, d)
                 /\ Options(p, d)' = Options(p, d)
                 /\ \A name : Said(p, d, name)' = Said(p, d, name)
                 /\ \A c : Naming(p, d, c)' = Naming(p, d, c)
        BY SameConfigs
    <2> QED BY <2>1, <1>6 DEF Stops, Options, Said, Naming, In
<1>8. CommandLine' = CommandLine
    BY SameConfigs
<1>9. \A d, c : Nearest(d, c)' <=> Nearest(d, c)
    BY <1>5, <1>7 DEF Nearest
<1>10. GatheredInv'
    BY <1>5, <1>7, <1>9 DEF ConfigInv, GatheredInv
<1> QED BY <1>4, <1>5, <1>7, <1>8, <1>10 DEF ConfigInv

(* The operators about the path that is processed.                         *)
LEMMA SamePath ==
    ASSUME session' = session, path' = path
    PROVE  /\ CommandLine' = CommandLine /\ Args' = Args
           /\ Directories(path)' = Directories(path)
           /\ \A d : /\ Stops(path, d)' <=> Stops(path, d)
                     /\ Options(path, d)' = Options(path, d)
                     /\ \A name : Said(path, d, name)' = Said(path, d, name)
                     /\ \A c : Naming(path, d, c)' = Naming(path, d, c)
           /\ \A c : Filtered(path, c)' <=> Filtered(path, c)
           /\ Excluded(path)' <=> Excluded(path)
           /\ LengthOf(path)' = LengthOf(path)
           /\ Named(path)' <=> Named(path)
           /\ Linted(path)' <=> Linted(path)
           /\ \A n : ExpectedFrom(path, n)' = ExpectedFrom(path, n)
           /\ \A i : ExpectedOfGuard(path, i)' = ExpectedOfGuard(path, i)
           /\ Expected(path)' = Expected(path)
           /\ Due(path)' = Due(path)
BY SameConfigs, SameExpected

(* A configuration that is read decides for the categories that no nearer  *)
(* one names.                                                              *)
LEMMA ConfigGathered ==
    ASSUME SessionInv, path \in Range(Paths), ConfigInv, depth > 0,
           session' = session, path' = path, lint' = lint, cfgFilters' = Gathered,
           Config.exists, Config.readable, Excluding = {},
           depth' = IF Places("set noparent") # {} THEN 0 ELSE depth - 1
    PROVE  ConfigInv' /\ Visited' = Visited \cup {depth}
<1> DEFINE D == Directories(path)
<1>1. depth \in 1 .. Len(path) /\ Len(path) \in Nat /\ D \subseteq 1 .. Len(path)
    <2>1. Len(path) \in Nat /\ D \subseteq 1 .. Len(path)
        BY PathFacts
    <2>2. depth \in 0 .. Len(path)
        BY DEF ConfigInv
    <2>3. depth \in 1 .. Len(path)
        BY ONLY <2>1, <2>2, depth > 0
    <2> QED BY <2>1, <2>3
<1>2. /\ Config = In(path, depth) /\ Config.options = Options(path, depth)
      /\ \A name : Places(name) = Said(path, depth, name)
      /\ Excluding = {i \in Said(path, depth, "exclude_files") :
                         Options(path, depth)[i].value = path[depth]}
    BY <1>1, ConfigFacts
<1>3. Stops(path, depth) <=> Places("set noparent") # {}
    BY <1>2 DEF Stops
<1>4. /\ depth' \in 0 .. Len(path)
      /\ depth' > 0 => \A e \in depth' + 1 .. Len(path) : ~Stops(path, e)
      /\ depth \in D <=> In(path, depth).exists /\ In(path, depth).readable
      /\ Visited' = Visited \cup ({depth} \cap D)
    BY <1>3, VisitedNext
<1>5. Visited' = Visited \cup {depth} /\ depth \in D
    BY <1>2, <1>4
<1>6. \A d \in Visited : d \in 1 .. Len(path) /\ d > depth
    BY <1>1 DEF Visited
<1>7. \A d \in Visited' : \A i \in Said(path, d, "exclude_files") :
          Options(path, d)[i].value # path[d]
    BY <1>2, <1>5 DEF ConfigInv
<1>8. cfgFilters \in Seq(Seq(Filters))
    BY DEF ConfigInv, GatheredInv
<1>9. Gathered \in Seq(Seq(Filters))
    BY <1>1, <1>8, GatheredFirst
<1>10. ASSUME NEW c \in Categories
       PROVE  /\ (\A d \in Visited' : Naming(path, d, c) = {}) => NoneMatches(Gathered, c)
              /\ \A d \in Visited' : Nearest(d, c)' =>
                    Decides(Options(path, d)[Min(Naming(path, d, c))].value, Gathered, c)
    <2> DEFINE N == Naming(path, depth, c)
    <2>1. N = {i \in Places("filter") : Matches(Config.options[i].value, c)}
        BY <1>2 DEF Naming
    <2>2. /\ NoneMatches(cfgFilters, c) /\ N = {} => NoneMatches(Gathered, c)
          /\ \A w : Decides(w, cfgFilters, c) => Decides(w, Gathered, c)
          /\ NoneMatches(cfgFilters, c) /\ N # {} =>
                Decides(Config.options[Min(N)].value, Gathered, c)
        BY <2>1, <1>1, <1>8, GatheredFirst
    <2> HIDE DEF N
    <2>3. (\A d \in Visited : Naming(path, d, c) = {}) => NoneMatches(cfgFilters, c)
        BY DEF ConfigInv, GatheredInv
    <2>4. ASSUME \A d \in Visited' : Naming(path, d, c) = {}
          PROVE  NoneMatches(Gathered, c)
        BY <2>2, <2>3, <2>4, <1>5 DEF N
    <2>5. ASSUME NEW d \in Visited', Nearest(d, c)'
          PROVE  Decides(Options(path, d)[Min(Naming(path, d, c))].value, Gathered, c)
        <3>1. /\ Naming(path, d, c) # {}
              /\ \A e \in Visited' : e > d => Naming(path, e, c) = {}
            BY <2>5, SamePath DEF Nearest
        <3>2. CASE d = depth
            <4>1. \A e \in Visited : Naming(path, e, c) = {}
                BY <3>1, <3>2, <1>5, <1>6
            <4> QED BY <4>1, <3>1, <3>2, <2>2, <2>3, <1>2 DEF N
        <3>3. CASE d \in Visited
            <4>1. Nearest(d, c)
                BY <3>1, <3>3, <1>5 DEF Nearest
            <4>2. Decides(Options(path, d)[Min(Naming(path, d, c))].value, cfgFilters, c)
                BY <4>1, <3>3 DEF ConfigInv, GatheredInv
            <4> QED BY <4>2, <2>2
        <3> QED BY <3>2, <3>3, <1>5
    <2> QED BY <2>4, <2>5
<1>11. GatheredInv'
    BY <1>9, <1>10, SamePath DEF GatheredInv
<1>12. ConfigInv'
    <2>1. (depth > 0 => \A e \in depth + 1 .. Len(path) : ~Stops(path, e))'
        BY <1>4, SamePath
    <2>2. (\A d \in Visited : \A i \in Said(path, d, "exclude_files") :
               Options(path, d)[i].value # path[d])'
        <3>1. ASSUME NEW d
              PROVE  /\ Options(path, d)' = Options(path, d)
                     /\ Said(path, d, "exclude_files")' = Said(path, d, "exclude_files")
            BY SamePath
        <3> QED BY ONLY <1>7, <3>1, path' = path
    <2>3. (lint.filters = CommandLine)'
        BY SamePath DEF ConfigInv
    <2> QED BY <1>4, <1>11, <2>1, <2>2, <2>3 DEF ConfigInv
<1> QED BY <1>5, <1>12

-----------------------------------------------------------------------------
(* The paths that are processed, in their order.                           *)
LEMMA PathsSequence ==
    /\ Paths \in Seq(Range(Paths)) /\ Len(Paths) \in Nat
    /\ \A i \in 1 .. Len(Paths) : Paths[i] \in Range(Paths)
    /\ \A p \in Range(Paths) : \E i \in 1 .. Len(Paths) : p = Paths[i]
<1>1. PICK S : Paths \in Seq(S)
    BY PathsAssumption
<1>2. Len(Paths) \in Nat /\ DOMAIN Paths = 1 .. Len(Paths)
    BY <1>1, LenProperties
<1>3. Paths = [i \in 1 .. Len(Paths) |-> Paths[i]]
    BY <1>1, <1>2
<1>4. /\ \A i \in 1 .. Len(Paths) : Paths[i] \in Range(Paths)
      /\ \A p \in Range(Paths) : \E i \in 1 .. Len(Paths) : p = Paths[i]
    BY <1>2 DEF Range
<1>5. Paths \in [1 .. Len(Paths) -> Range(Paths)]
    BY <1>3, <1>4
<1> QED BY <1>2, <1>4, <1>5, SeqDef

(* Chosen: what its function has up to each of the paths.                  *)
LEMMA ChosenSteps ==
    ASSUME NEW K
    PROVE  \E g \in [0 .. Len(Paths) -> Seq(Range(Paths))] :
               /\ g[0] = <<>> /\ g[Len(Paths)] = Chosen(K)
               /\ \A i \in 1 .. Len(Paths) : Paths[i] \notin K => g[i] = g[i - 1]
               /\ \A i \in 1 .. Len(Paths) :
                     Paths[i] \in K => g[i] = Append(g[i - 1], Paths[i])
<1> DEFINE n == Len(Paths)
           S == Seq(Range(Paths))
           nil == <<>>
           One(u, i) == IF Paths[i] \in K THEN Append(u, Paths[i]) ELSE u
           step == [i \in 1 .. n |-> [u \in S |-> One(u, i)]]
           Body(g) == [i \in 0 .. n |-> IF i = 0 THEN nil ELSE One(g[i - 1], i)]
<1>1. n \in Nat /\ \A i \in 1 .. n : Paths[i] \in Range(Paths)
    BY PathsSequence
<1>2. \A i \in 1 .. n : \A u \in S : One(u, i) \in S
    <2> SUFFICES ASSUME NEW i \in 1 .. n, NEW u \in S PROVE One(u, i) \in S
        OBVIOUS
    <2>1. Append(u, Paths[i]) \in S
        BY <1>1, AppendProperties
    <2> QED BY <2>1
<1>3. nil \in S
    OBVIOUS
<1> HIDE DEF n, S, One, nil
<1>4. step \in [1 .. n -> [S -> S]]
    BY <1>2
<1> HIDE DEF step
<1>5. PICK h \in [0 .. n -> S] :
          h[0] = nil /\ \A i \in 1 .. n : h[i] = step[i][h[i - 1]]
    <2>1. \E g : IsRecursion(g, S, nil, n, step)
        BY ONLY <1>1, <1>3, <1>4, Recursion
    <2> QED BY <2>1 DEF IsRecursion
<1>6. ASSUME NEW i \in 1 .. n
      PROVE  h[i] = One(h[i - 1], i)
    <2>1. i - 1 \in 0 .. n /\ h[i - 1] \in S
        BY <1>1
    <2> QED BY <1>5, <2>1 DEF step
<1>7. h = Body(h)
    BY <1>1, <1>5, <1>6
<1> DEFINE chosen == CHOOSE g : g = Body(g)
<1>8. chosen = Body(chosen)
    BY <1>7
<1>9. Chosen(K) = chosen[n]
    BY DEF Chosen, n, One, nil
<1> HIDE DEF chosen
<1>10. chosen[0] = nil /\ \A i \in 1 .. n : chosen[i] = One(chosen[i - 1], i)
    BY <1>1, <1>8
<1> DEFINE P == {k \in Nat : k <= n => chosen[k] \in S}
<1>11. 0 \in P
    BY <1>3, <1>10
<1>12. ASSUME NEW k \in Nat, k \in P PROVE k + 1 \in P
    <2> SUFFICES ASSUME k + 1 <= n PROVE chosen[k + 1] \in S
        OBVIOUS
    <2>1. k + 1 \in 1 .. n /\ (k + 1) - 1 = k /\ k <= n
        BY <1>1
    <2>2. chosen[k] \in S
        BY <2>1, <1>12
    <2>3. chosen[k + 1] = One(chosen[k], k + 1)
        BY <2>1, <1>10
    <2> QED BY <2>1, <2>2, <2>3, <1>2
<1> HIDE DEF P
<1>13. Nat \subseteq P
    BY <1>11, <1>12, Induction
<1>14. chosen \in [0 .. n -> S]
    <2>1. \A k \in 0 .. n : chosen[k] \in S
        BY <1>1, <1>13 DEF P
    <2>2. chosen = [k \in 0 .. n |-> chosen[k]]
        BY <1>8
    <2> QED BY <2>1, <2>2
<1>15. /\ \A i \in 1 .. n : Paths[i] \notin K => chosen[i] = chosen[i - 1]
       /\ \A i \in 1 .. n : Paths[i] \in K => chosen[i] = Append(chosen[i - 1], Paths[i])
    BY <1>10 DEF One
<1> QED BY <1>9, <1>10, <1>14, <1>15 DEF n, S, nil

LEMMA ChosenFacts ==
    ASSUME NEW K
    PROVE  /\ Chosen(K) \in Seq(Range(Paths))
           /\ \A i \in 1 .. Len(Chosen(K)) : Chosen(K)[i] \in K
           /\ \A p \in Range(Paths) : p \in K =>
                 \E i \in 1 .. Len(Chosen(K)) : p = Chosen(K)[i]
           /\ \A i, j \in 1 .. Len(Chosen(K)) :
                 i < j => Precedes(Chosen(K)[i], Chosen(K)[j])
<1> DEFINE n == Len(Paths)
<1>1. PICK g \in [0 .. n -> Seq(Range(Paths))] :
          /\ g[0] = <<>> /\ g[n] = Chosen(K)
          /\ \A i \in 1 .. n : Paths[i] \notin K => g[i] = g[i - 1]
          /\ \A i \in 1 .. n : Paths[i] \in K => g[i] = Append(g[i - 1], Paths[i])
    BY ChosenSteps
<1>2. n \in Nat /\ \A p \in Range(Paths) : \E i \in 1 .. n : p = Paths[i]
    BY PathsSequence
<1> DEFINE Q1(s, k) == \A i \in 1 .. Len(s) :
                           \E a \in 1 .. k : s[i] = Paths[a] /\ Paths[a] \in K
           Q2(s, k) == \A a \in 1 .. k : Paths[a] \in K =>
                           \E i \in 1 .. Len(s) : Paths[a] = s[i]
           Q3(s) == \A i, j \in 1 .. Len(s) : i < j => Precedes(s[i], s[j])
           P == {k \in Nat : k <= n => Q1(g[k], k) /\ Q2(g[k], k) /\ Q3(g[k])}
<1>3. 0 \in P
    <2>1. Len(g[0]) = 0
        BY <1>1
    <2> QED BY <2>1
<1>4. ASSUME NEW k \in Nat, k \in P PROVE k + 1 \in P
    <2> SUFFICES ASSUME k + 1 <= n
                 PROVE  Q1(g[k + 1], k + 1) /\ Q2(g[k + 1], k + 1) /\ Q3(g[k + 1])
        OBVIOUS
    <2>1. k + 1 \in 1 .. n /\ (k + 1) - 1 = k /\ k \in 0 .. n /\ k <= n
        BY <1>2
    <2>2. Q1(g[k], k) /\ Q2(g[k], k) /\ Q3(g[k])
        BY <2>1, <1>4
    <2>3. \A a \in 1 .. k : a \in 1 .. k + 1 /\ a < k + 1 /\ a \in 1 .. n
        BY <2>1
    <2>4. \A a \in 1 .. k + 1 : a \in 1 .. k \/ a = k + 1
        OBVIOUS
    <2>5. CASE Paths[k + 1] \notin K
        <3>1. g[k + 1] = g[k]
            BY <2>1, <2>5, <1>1
        <3>2. Q1(g[k], k + 1)
            BY <2>2, <2>3
        <3>3. Q2(g[k], k + 1)
            BY <2>2, <2>4, <2>5
        <3> QED BY <3>1, <3>2, <3>3, <2>2
    <2>6. CASE Paths[k + 1] \in K
        <3> DEFINE s == g[k]
                   t == g[k + 1]
        <3>1. t = Append(s, Paths[k + 1]) /\ s \in Seq(Range(Paths))
              /\ Paths[k + 1] \in Range(Paths)
            BY <2>1, <2>6, <1>1, PathsSequence
        <3>2. /\ Len(s) \in Nat /\ Len(t) = Len(s) + 1 /\ t[Len(s) + 1] = Paths[k + 1]
              /\ \A i \in 1 .. Len(s) : t[i] = s[i]
            BY <3>1, AppendProperties, LenProperties
        <3> HIDE DEF s, t
        <3>3. \A i \in 1 .. Len(t) : i \in 1 .. Len(s) \/ i = Len(s) + 1
            BY <3>2
        <3>4. Q1(t, k + 1)
            <4> SUFFICES ASSUME NEW i \in 1 .. Len(t)
                         PROVE  \E a \in 1 .. k + 1 : t[i] = Paths[a] /\ Paths[a] \in K
                OBVIOUS
            <4>1. CASE i \in 1 .. Len(s)
                <5>1. PICK a \in 1 .. k : s[i] = Paths[a] /\ Paths[a] \in K
                    BY <4>1, <2>2 DEF s
                <5> QED BY <4>1, <5>1, <2>3, <3>2
            <4>2. CASE i = Len(s) + 1
                BY <4>2, <3>2, <2>6
            <4> QED BY <4>1, <4>2, <3>3
        <3>5. Q2(t, k + 1)
            <4> SUFFICES ASSUME NEW a \in 1 .. k + 1, Paths[a] \in K
                         PROVE  \E i \in 1 .. Len(t) : Paths[a] = t[i]
                OBVIOUS
            <4>1. CASE a \in 1 .. k
                <5>1. PICK i \in 1 .. Len(s) : Paths[a] = s[i]
                    BY <4>1, <2>2 DEF s
                <5>2. i \in 1 .. Len(t)
                    BY <3>2
                <5> QED BY <5>1, <5>2, <3>2
            <4>2. CASE a = k + 1
                <5>1. Len(s) + 1 \in 1 .. Len(t)
                    BY <3>2
                <5> QED BY <4>2, <5>1, <3>2
            <4> QED BY <4>1, <4>2, <2>4
        <3>6. Q3(t)
            <4> SUFFICES ASSUME NEW i \in 1 .. Len(t), NEW j \in 1 .. Len(t), i < j
                         PROVE  Precedes(t[i], t[j])
                OBVIOUS
            <4>1. i \in 1 .. Len(s)
                BY <3>2
            <4>2. CASE j \in 1 .. Len(s)
                <5>1. Precedes(s[i], s[j])
                    BY <4>1, <4>2, <2>2 DEF s
                <5> QED BY <5>1, <4>1, <4>2, <3>2
            <4>3. CASE j = Len(s) + 1
                <5>1. PICK a \in 1 .. k : s[i] = Paths[a]
                    BY <4>1, <2>2 DEF s
                <5>2. t[i] = Paths[a] /\ t[j] = Paths[k + 1]
                    BY <5>1, <4>1, <4>3, <3>2
                <5>3. a \in 1 .. n /\ a < k + 1
                    BY <2>3
                <5> QED BY <5>2, <5>3, <2>1 DEF Precedes
            <4> QED BY <4>2, <4>3, <3>3
        <3> QED BY <3>4, <3>5, <3>6 DEF t
    <2> QED BY <2>5, <2>6
<1> HIDE DEF P
<1>5. Nat \subseteq P
    BY <1>3, <1>4, Induction
<1> HIDE DEF Q1, Q2, Q3, n
<1>6. Q1(g[n], n) /\ Q2(g[n], n) /\ Q3(g[n]) /\ n \in 0 .. n
    <2>1. n \in P /\ n <= n /\ n \in 0 .. n
        BY <1>2, <1>5
    <2> QED BY <2>1 DEF P
<1>7. PICK s \in Seq(Range(Paths)) : s = Chosen(K) /\ Q1(s, n) /\ Q2(s, n) /\ Q3(s)
    BY <1>1, <1>6
<1>8. \A i \in 1 .. Len(s) : s[i] \in K
    BY <1>7 DEF Q1
<1>9. ASSUME NEW p \in Range(Paths), p \in K PROVE \E i \in 1 .. Len(s) : p = s[i]
    <2>1. PICK a \in 1 .. n : p = Paths[a]
        BY <1>2
    <2> QED BY <2>1, <1>7, <1>9 DEF Q2
<1> QED BY <1>7, <1>8, <1>9 DEF Q3

-----------------------------------------------------------------------------
(* The line length.                                                        *)
LEMMA LengthRead ==
    ASSUME OneLength, NEW p \in Range(Paths), NEW d \in Directories(p),
           NEW i \in Said(p, d, "linelength")
    PROVE  /\ Options(p, d)[i].value = LengthOf(p)
           /\ \A q \in Range(Paths) : Precedes(p, q) =>
                 Options(p, d)[i].value = LengthOf(q)
BY DEF OneLength

LEMMA LengthOfCommandLine ==
    ASSUME NEW p, \A d \in Directories(p) : Said(p, d, "linelength") = {}
    PROVE  LengthOf(p) = Args.length
<1>1. {d \in Directories(p) : Said(p, d, "linelength") # {}} = {}
    OBVIOUS
<1> QED BY <1>1 DEF LengthOf

-----------------------------------------------------------------------------
(* What is printed of a sequence of errors.                                *)
LEMMA RangeSeq ==
    ASSUME NEW S, NEW s \in Seq(S)
    PROVE  \A x : x \in Range(s) <=> \E i \in 1 .. Len(s) : x = s[i]
<1>1. DOMAIN s = 1 .. Len(s)
    BY LenProperties
<1> QED BY <1>1 DEF Range

LEMMA RangeIn ==
    ASSUME NEW S, NEW s \in Seq(S)
    PROVE  Range(s) \subseteq S
<1>1. \A x \in Range(s) : \E i \in 1 .. Len(s) : x = s[i]
    BY RangeSeq
<1>2. \A i \in 1 .. Len(s) : s[i] \in S
    BY ElementOfSeq
<1> QED BY ONLY <1>1, <1>2

LEMMA RangeAppend ==
    ASSUME NEW S, NEW s \in Seq(S), NEW x \in S
    PROVE  Range(Append(s, x)) = Range(s) \cup {x}
<1> DEFINE t == Append(s, x)
           n == Len(s)
<1>1. /\ t \in Seq(S) /\ n \in Nat /\ Len(t) = n + 1 /\ t[n + 1] = x
      /\ \A i \in 1 .. n : t[i] = s[i]
    BY AppendProperties, LenProperties
<1>2. \A y : y \in Range(s) <=> \E i \in 1 .. n : y = s[i]
    BY RangeSeq
<1>3. \A y : y \in Range(t) <=> \E i \in 1 .. n + 1 : y = t[i]
    <2>1. \A y : y \in Range(t) <=> \E i \in 1 .. Len(t) : y = t[i]
        BY <1>1, RangeSeq
    <2> QED BY ONLY <1>1, <2>1
<1> HIDE DEF t, n
<1>4. \A i \in 1 .. n + 1 : i \in 1 .. n \/ i = n + 1
    BY <1>1
<1>5. n + 1 \in 1 .. n + 1 /\ \A i \in 1 .. n : i \in 1 .. n + 1
    BY <1>1
<1>6. ASSUME NEW y \in Range(t) PROVE y \in Range(s) \cup {x}
    <2>1. PICK i \in 1 .. n + 1 : y = t[i]
        BY <1>3
    <2> QED BY <2>1, <1>1, <1>2, <1>4
<1>7. ASSUME NEW y \in Range(s) \cup {x} PROVE y \in Range(t)
    BY <1>1, <1>2, <1>3, <1>5
<1>8. Range(t) = Range(s) \cup {x}
    BY <1>6, <1>7
<1> QED BY <1>8 DEF t

LEMMA RangeConcat ==
    ASSUME NEW S, NEW s \in Seq(S), NEW t \in Seq(S)
    PROVE  Range(s \o t) = Range(s) \cup Range(t)
<1> DEFINE st == s \o t
           m == Len(s)
           n == Len(t)
<1>1. /\ st \in Seq(S) /\ m \in Nat /\ n \in Nat /\ Len(st) = m + n
      /\ \A i \in 1 .. m + n : st[i] = IF i <= m THEN s[i] ELSE t[i - m]
    BY ConcatProperties, LenProperties
<1>2. /\ \A y : y \in Range(s) <=> \E i \in 1 .. m : y = s[i]
      /\ \A y : y \in Range(t) <=> \E i \in 1 .. n : y = t[i]
    BY RangeSeq
<1>3. \A y : y \in Range(st) <=> \E i \in 1 .. m + n : y = st[i]
    <2>1. \A y : y \in Range(st) <=> \E i \in 1 .. Len(st) : y = st[i]
        BY <1>1, RangeSeq
    <2> QED BY ONLY <1>1, <2>1
<1> HIDE DEF st, m, n
<1>4. ASSUME NEW y \in Range(st) PROVE y \in Range(s) \cup Range(t)
    <2>1. PICK i \in 1 .. m + n : y = st[i]
        BY <1>3
    <2>2. CASE i <= m
        <3>1. i \in 1 .. m /\ y = s[i]
            BY <2>1, <2>2, <1>1
        <3> QED BY <3>1, <1>2
    <2>3. CASE ~(i <= m)
        <3>1. i - m \in 1 .. n /\ y = t[i - m]
            BY <2>1, <2>3, <1>1
        <3> QED BY <3>1, <1>2
    <2> QED BY <2>2, <2>3
<1>5. ASSUME NEW y \in Range(s) PROVE y \in Range(st)
    <2>1. PICK i \in 1 .. m : y = s[i]
        BY <1>2
    <2>2. i \in 1 .. m + n /\ i <= m
        BY <1>1
    <2> QED BY <2>1, <2>2, <1>1, <1>3
<1>6. ASSUME NEW y \in Range(t) PROVE y \in Range(st)
    <2>1. PICK i \in 1 .. n : y = t[i]
        BY <1>2
    <2>2. PICK k \in Int : k = m + i
        BY <1>1
    <2>3. k \in 1 .. m + n /\ ~(k <= m) /\ k - m = i
        BY <2>2, <1>1
    <2> QED BY <2>1, <2>3, <1>1, <1>3
<1>7. Range(st) = Range(s) \cup Range(t)
    BY <1>4, <1>5, <1>6
<1> QED BY <1>7 DEF st

(* One error.                                                              *)
LEMMA ErrorShown ==
    ASSUME NEW l, NEW t \in Tolds(l), NEW s, NEW e \in Errors, path \in ValidNames
    PROVE  /\ ShouldPrintError(s, e) =>
                 Range(Error(t, s, e).shown) = Range(t.shown) \cup {Message(path, e)}
           /\ ~ShouldPrintError(s, e) => Range(Error(t, s, e).shown) = Range(t.shown)
<1>1. t.shown \in Seq(Messages)
    BY DEF Tolds
<1>2. Message(path, e) \in Messages
    BY CategoriesAssumption DEF Message, Messages, Errors
<1>3. Range(Append(t.shown, Message(path, e))) = Range(t.shown) \cup {Message(path, e)}
    BY <1>1, <1>2, RangeAppend
<1>4. ShouldPrintError(s, e) => Error(t, s, e).shown = Append(t.shown, Message(path, e))
    BY DEF Error, Message
<1>5. ~ShouldPrintError(s, e) => Error(t, s, e) = t
    BY DEF Error
<1>6. ShouldPrintError(s, e) =>
          Range(Error(t, s, e).shown) = Range(t.shown) \cup {Message(path, e)}
    BY ONLY <1>3, <1>4
<1>7. ~ShouldPrintError(s, e) => Range(Error(t, s, e).shown) = Range(t.shown)
    BY ONLY <1>5
<1> QED BY <1>6, <1>7

Shown(s, errors) == {Message(path, e) : e \in {x \in errors : ShouldPrintError(s, x)}}

LEMMA ReportedShown ==
    ASSUME NEW l, NEW t \in Tolds(l), NEW s, NEW errors \in Seq(Errors),
           path \in ValidNames
    PROVE  Range(Reported(t, s, errors).shown) = Range(t.shown) \cup Shown(s, Range(errors))
<1> DEFINE n == Len(errors)
<1>1. PICK g \in [0 .. n -> Tolds(l)] :
          /\ g[0] = t /\ g[n] = Reported(t, s, errors)
          /\ \A i \in 1 .. n : g[i] = Error(g[i - 1], s, errors[i])
    <2>1. \E g \in [0 .. Len(errors) -> Tolds(l)] :
              /\ g[0] = t /\ g[Len(errors)] = Reported(t, s, errors)
              /\ \A i \in 1 .. Len(errors) : g[i] = Error(g[i - 1], s, errors[i])
        BY ONLY ReportedSteps, t \in Tolds(l), errors \in Seq(Errors), path \in ValidNames
    <2> QED BY <2>1
<1>2. n \in Nat /\ \A i \in 1 .. n : errors[i] \in Errors
    BY LenProperties, ElementOfSeq
<1>3. \A x : x \in Range(errors) <=> \E i \in 1 .. n : x = errors[i]
    BY RangeSeq
<1> HIDE DEF n
<1> DEFINE First(k) == {errors[i] : i \in 1 .. k}
           Q(k) == Range(g[k].shown) = Range(t.shown) \cup Shown(s, First(k))
           P == {k \in Nat : k <= n => Q(k)}
<1>4. 0 \in P
    <2>1. First(0) = {}
        OBVIOUS
    <2>2. Shown(s, {}) = {}
        BY DEF Shown
    <2> QED BY <2>1, <2>2, <1>1
<1>5. ASSUME NEW k \in Nat, k \in P PROVE k + 1 \in P
    <2> SUFFICES ASSUME k + 1 <= n PROVE Q(k + 1)
        OBVIOUS
    <2>1. k + 1 \in 1 .. n /\ (k + 1) - 1 = k /\ k \in 0 .. n /\ k <= n
        BY <1>2
    <2>2. Q(k)
        BY <2>1, <1>5
    <2>3. PICK e \in Errors : e = errors[k + 1]
        BY <2>1, <1>2
    <2>4. g[k + 1] = Error(g[k], s, e) /\ g[k] \in Tolds(l)
        BY <2>1, <2>3, <1>1
    <2>5. First(k + 1) = First(k) \cup {e}
        <3>1. \A i \in 1 .. k + 1 : i \in 1 .. k \/ i = k + 1
            OBVIOUS
        <3>2. k + 1 \in 1 .. k + 1 /\ \A i \in 1 .. k : i \in 1 .. k + 1
            OBVIOUS
        <3> QED BY <3>1, <3>2, <2>3
    <2> HIDE DEF First
    <2>6. /\ ShouldPrintError(s, e) =>
                 Range(g[k + 1].shown) = Range(g[k].shown) \cup {Message(path, e)}
          /\ ~ShouldPrintError(s, e) => Range(g[k + 1].shown) = Range(g[k].shown)
        <3>1. PICK u \in Tolds(l) : u = g[k]
            BY <2>4
        <3>2. g[k + 1] = Error(u, s, e)
            BY <2>4, <3>1
        <3>3. /\ ShouldPrintError(s, e) =>
                     Range(Error(u, s, e).shown) = Range(u.shown) \cup {Message(path, e)}
              /\ ~ShouldPrintError(s, e) => Range(Error(u, s, e).shown) = Range(u.shown)
            BY ONLY ErrorShown, u \in Tolds(l), e \in Errors, path \in ValidNames
        <3> QED BY ONLY <3>1, <3>2, <3>3
    <2>7. /\ ShouldPrintError(s, e) =>
                 Shown(s, First(k + 1)) = Shown(s, First(k)) \cup {Message(path, e)}
          /\ ~ShouldPrintError(s, e) => Shown(s, First(k + 1)) = Shown(s, First(k))
        BY <2>5 DEF Shown
    <2> QED BY <2>2, <2>6, <2>7
<1> HIDE DEF P
<1>6. Nat \subseteq P
    BY <1>4, <1>5, Induction
<1>7. Q(n)
    <2>1. n \in P /\ n <= n
        BY <1>2, <1>6
    <2> QED BY <2>1 DEF P
<1>8. First(n) = Range(errors)
    BY <1>3
<1> QED BY <1>1, <1>7, <1>8

LEMMA ReportedNow ==
    ASSUME SessionInv, NEW s, NEW errors \in Seq(Errors), path \in ValidNames
    PROVE  /\ Reported(Told, s, errors) \in Tolds(lint)
           /\ Range(Reported(Told, s, errors).shown) =
                 Range(printed) \cup Shown(s, Range(errors))
<1>1. PICK t \in Tolds(lint) : t = Told /\ t.shown = printed
    BY DEF SessionInv, Told
<1>2. Reported(t, s, errors) \in Tolds(lint)
    BY ONLY ReportedTold, t \in Tolds(lint), errors \in Seq(Errors), path \in ValidNames
<1>3. Range(Reported(t, s, errors).shown) = Range(t.shown) \cup Shown(s, Range(errors))
    BY ONLY ReportedShown, t \in Tolds(lint), errors \in Seq(Errors), path \in ValidNames
<1> QED BY ONLY <1>1, <1>2, <1>3

(* An error is printed if it passes, unless NOLINT stands for its line.    *)
LEMMA ShouldPrint ==
    ASSUME NEW s, NEW e \in Errors, lint.verbose = Args.verbose, OpenInv
    PROVE  ShouldPrintError(s, e) <=>
               Passes(path, e) /\ ~IsErrorSuppressedByNolint(s, e.category, e.line)
<1>1. e.category \in Categories
    BY DEF Errors
<1>2. IsFiltered(lint.filters, e.category) <=> Filtered(path, e.category)
    BY <1>1 DEF OpenInv
<1> QED BY <1>2 DEF ShouldPrintError, Passes

LEMMA SuppressedBy ==
    ASSUME NEW s, NEW R, NEW c \in Categories, NEW k, Knows(s, File, R)
    PROVE  IsErrorSuppressedByNolint(s, c, k) <=>
               c \in File.global \/ HasNolint(File, R, k, c)
<1> DEFINE at(m) == IF File.lines[m].next THEN m + 1 ELSE m
           M == {i \in R : File.lines[i].nolint \in Categories \cup {<<"any">>}}
<1> HIDE DEF at
<1>1. s.global = File.global /\ s.lines = {<<File.lines[m].nolint, at(m)>> : m \in M}
    BY DEF at, Knows, Noted
<1>2. \A m : Suppresses(File, m, k, c)
                <=> File.lines[m].nolint \in {<<"any">>, c} /\ k = at(m)
    BY DEF Suppresses, at
<1>3. ASSUME NEW x \in {<<"any">>, c}
      PROVE  <<x, k>> \in s.lines <=> \E m \in R : File.lines[m].nolint = x /\ k = at(m)
    <2>1. \A m \in R : File.lines[m].nolint = x => m \in M
        OBVIOUS
    <2> QED BY <2>1, <1>1
<1>4. (\E m \in R : Suppresses(File, m, k, c))
          <=> <<c, k>> \in s.lines \/ <<<<"any">>, k>> \in s.lines
    BY <1>2, <1>3
<1> QED BY <1>1, <1>4 DEF IsErrorSuppressedByNolint, HasNolint

-----------------------------------------------------------------------------
(* What a step keeps.                                                      *)
LEMMA LintKept ==
    ASSUME SessionInv, NEW x
    PROVE  /\ [lint EXCEPT !.filters = x].verbose = lint.verbose
           /\ [lint EXCEPT !.filters = x].filters = x
           /\ [lint EXCEPT !.backup = x].verbose = lint.verbose
           /\ [lint EXCEPT !.backup = x].filters = lint.filters
<1>1. lint \in States(lint)
    BY SessionBooks DEF Books
<1> QED BY <1>1 DEF States

LEMMA TodoFacts ==
    ASSUME PathsInv
    PROVE  /\ Len(todo) \in Nat
           /\ \A i \in 1 .. Len(todo) : todo[i] \in Range(Paths)
           /\ \A p : p \in Range(todo) <=> \E i \in 1 .. Len(todo) : p = todo[i]
<1>1. todo \in Seq(Range(Paths))
    BY DEF PathsInv
<1> QED BY <1>1, LenProperties, ElementOfSeq, RangeSeq

LEMMA TodoKept ==
    ASSUME session' = session, todo' = todo
    PROVE  /\ TodoDue' = TodoDue
           /\ \A i \in 1 .. Len(todo) : /\ Named(todo[i])' <=> Named(todo[i])
                                        /\ LengthOf(todo[i])' = LengthOf(todo[i])
<1>1. TodoDue' = TodoDue
    BY SameExpected DEF TodoDue
<1> QED BY <1>1, SameExpected

LEMMA PathsKept ==
    ASSUME PathsInv, session' = session, todo' = todo, path' = path,
           lint'.verbose = lint.verbose,
           phase \in Processing /\ phase' \in Processing \cup {"idle"}
    PROVE  PathsInv'
<1>1. Args' = Args /\ (Named(path)' <=> Named(path))
    BY SamePath
<1>2. \A i \in 1 .. Len(todo) : Named(todo[i])' <=> Named(todo[i])
    BY TodoKept
<1>3. phase' # "exit"
    BY DEF Processing
<1> QED BY <1>1, <1>2, <1>3 DEF PathsInv

LEMMA LengthKept ==
    ASSUME LengthInv, session' = session, todo' = todo, path' = path,
           lineLength' = lineLength,
           phase' = "config" => phase = "config" /\ Visited' = Visited,
           phase' \in {"open", "guard", "lines"} => (OneLength => lineLength = LengthOf(path))
    PROVE  LengthInv'
<1> SUFFICES ASSUME OneLength'
             PROVE  /\ \A i \in 1 .. Len(todo') :
                          lineLength' \in {Args.length', LengthOf(todo[i])'}
                    /\ phase' = "config" =>
                          /\ lineLength' \in {Args.length', LengthOf(path)'}
                          /\ (\E d \in Visited' : Said(path, d, "linelength")' # {}) =>
                                lineLength' = LengthOf(path)'
                    /\ phase' \in {"open", "guard", "lines"} => lineLength' = LengthOf(path)'
    BY DEF LengthInv
<1>1. OneLength
    BY SameWanted
<1>2. /\ Args' = Args /\ LengthOf(path)' = LengthOf(path)
      /\ \A d : Said(path, d, "linelength")' = Said(path, d, "linelength")
    BY SamePath
<1>3. \A i \in 1 .. Len(todo) : LengthOf(todo[i])' = LengthOf(todo[i])
    BY TodoKept
<1> QED BY <1>1, <1>2, <1>3 DEF LengthInv

LEMMA PrintStep ==
    ASSUME PrintInv, session' = session,
           OneLength =>
               /\ Range(printed)' \subseteq Range(printed) \cup Wanted
               /\ Range(printed) \cup PathDue \cup TodoDue
                     \subseteq Range(printed)' \cup PathDue' \cup TodoDue'
    PROVE  PrintInv'
<1> SUFFICES ASSUME OneLength'
             PROVE  /\ Range(printed)' \subseteq Wanted'
                    /\ Wanted' \subseteq Range(printed)' \cup PathDue' \cup TodoDue'
    BY DEF PrintInv
<1>1. OneLength /\ Wanted' = Wanted
    BY SameWanted
<1> QED BY <1>1 DEF PrintInv

LEMMA PrintKept ==
    ASSUME PrintInv, session' = session, printed' = printed,
           PathDue \cup TodoDue \subseteq PathDue' \cup TodoDue'
    PROVE  PrintInv'
<1>1. Range(printed)' = Range(printed)
    BY DEF Range
<1> QED BY <1>1, PrintStep

-----------------------------------------------------------------------------
(* The steps, from PrintedInv after the arguments were parsed.             *)
LEMMA StartFileStep ==
    ASSUME SessionInv, PrintedInv, StartFile
    PROVE  PrintedInv'
<1> DEFINE n == Len(todo)
<1>1. /\ phase = "idle" /\ todo # <<>> /\ phase' = "config"
      /\ path' = Head(todo) /\ todo' = Tail(todo) /\ depth' = Len(Head(todo))
      /\ cfgFilters' = <<>> /\ lint' = [lint EXCEPT !.backup = lint.filters]
      /\ session' = session /\ lineLength' = lineLength /\ printed' = printed
    BY DEF StartFile
<1>2. PathsInv /\ LengthInv /\ PrintInv
    BY <1>1 DEF PrintedInv
<1>3. lint'.verbose = lint.verbose /\ lint'.filters = CommandLine
    BY <1>1, LintKept DEF SessionInv
<1>4. /\ todo \in Seq(Range(Paths))
      /\ \A i \in 1 .. n : todo[i] \in Range(Paths) /\ Named(todo[i])
      /\ \A i, j \in 1 .. n : i < j => Precedes(todo[i], todo[j])
    BY <1>2, TodoFacts DEF PathsInv
<1>5. /\ n \in Nat /\ n >= 1 /\ Head(todo) = todo[1]
      /\ Tail(todo) \in Seq(Range(Paths)) /\ Len(Tail(todo)) = n - 1
      /\ \A i \in 1 .. n - 1 : Tail(todo)[i] = todo[i + 1]
    BY <1>1, <1>4, HeadTailProperties, EmptySeq, LenProperties
<1> HIDE DEF n
<1>6. 1 \in 1 .. n /\ \A i \in 1 .. n - 1 : i + 1 \in 1 .. n /\ 1 < i + 1
    BY <1>5
<1>7. PICK p \in Range(Paths) : p = todo[1] /\ path' = p /\ Named(p)
    BY <1>1, <1>4, <1>5, <1>6
<1>8. \A i \in 1 .. n - 1 : /\ todo'[i] = todo[i + 1] /\ Named(todo[i + 1])
                            /\ Precedes(p, todo[i + 1])
    BY <1>1, <1>4, <1>5, <1>6, <1>7
<1>9. \A i, j \in 1 .. n - 1 : i < j => Precedes(todo'[i], todo'[j])
    <2>1. \A i, j \in 1 .. n - 1 : i < j => i + 1 < j + 1
        BY <1>5
    <2> QED BY <2>1, <1>4, <1>6, <1>8
<1>10. /\ Len(todo') = n - 1 /\ todo' \in Seq(Range(Paths))
    BY <1>1, <1>5
<1>11. PathsInv'
    <2>1. Named(path)'
        BY <1>1, <1>7, SameExpected
    <2>2. \A i \in 1 .. n - 1 : Named(todo[i])'
        BY <1>1, <1>8, SameExpected
    <2>3. Args' = Args /\ lint.verbose = Args.verbose
        BY <1>1, <1>2, SameConfigs DEF PathsInv
    <2>4. phase' # "exit"
        BY <1>1
    <2> QED BY <1>3, <1>7, <1>8, <1>9, <1>10, <2>1, <2>2, <2>3, <2>4 DEF PathsInv
<1>12. Visited' = {}
    <2>1. Directories(path)' \subseteq 1 .. Len(p)
        BY <1>1, <1>7, SameConfigs, PathFacts
    <2>2. depth' = Len(p) /\ Len(p) \in Nat
        BY <1>1, <1>5, <1>7, PathFacts
    <2> QED BY <2>1, <2>2 DEF Visited
<1>13. ConfigInv'
    <2>1. depth' = Len(p) /\ Len(p) \in Nat
        BY <1>1, <1>5, <1>7, PathFacts
    <2>2. (depth \in 0 .. Len(path))'
        BY <2>1, <1>7
    <2>3. (depth > 0 => \A e \in depth + 1 .. Len(path) : ~Stops(path, e))'
        BY <2>1, <1>7
    <2>4. (lint.filters = CommandLine)'
        BY <1>1, <1>3, SameConfigs
    <2>5. GatheredInv'
        <3>1. cfgFilters' \in Seq(Seq(Filters)) /\ Len(cfgFilters') = 0
            BY <1>1
        <3>2. \A c : NoneMatches(cfgFilters', c)
            BY <3>1 DEF NoneMatches
        <3> QED BY <3>1, <3>2, <1>12 DEF GatheredInv
    <2> QED BY <2>2, <2>3, <2>4, <2>5, <1>12 DEF ConfigInv
<1>14. LengthInv'
    <2> SUFFICES ASSUME OneLength'
                 PROVE  /\ \A i \in 1 .. Len(todo') :
                              lineLength' \in {Args.length', LengthOf(todo[i])'}
                        /\ lineLength' \in {Args.length', LengthOf(path)'}
        BY <1>1, <1>12 DEF LengthInv
    <2>1. OneLength /\ Args' = Args
        BY <1>1, SameWanted, SameConfigs
    <2>2. \A i \in 1 .. n : lineLength \in {Args.length, LengthOf(todo[i])}
        BY <2>1, <1>2 DEF LengthInv, n
    <2>3. LengthOf(path)' = LengthOf(p)
        BY <1>1, <1>7, SameExpected
    <2>4. \A i \in 1 .. n - 1 : LengthOf(todo[i])' = LengthOf(todo[i + 1])
        BY <1>1, <1>8, SameExpected
    <2> QED BY <1>1, <1>6, <1>7, <1>10, <2>1, <2>2, <2>3, <2>4
<1>15. PrintInv'
    <2>1. PathDue' = Due(p)
        BY <1>1, <1>7, SameExpected DEF PathDue
    <2>2. TodoDue' = UNION {Due(q) : q \in Range(todo')}
        BY <1>1, SameExpected DEF TodoDue
    <2>3. ASSUME NEW q \in Range(todo) PROVE q = p \/ q \in Range(todo')
        <3>1. PICK i \in 1 .. n : q = todo[i]
            BY <1>2, TodoFacts DEF n
        <3>2. CASE i = 1
            BY <3>1, <3>2, <1>7
        <3>3. CASE i # 1
            <4>1. i - 1 \in 1 .. n - 1 /\ (i - 1) + 1 = i
                BY <3>3, <1>5
            <4>2. todo'[i - 1] = q
                BY <3>1, <4>1, <1>8
            <4>3. i - 1 \in DOMAIN todo'
                BY <4>1, <1>10, LenProperties
            <4> QED BY <4>2, <4>3 DEF Range
        <3> QED BY <3>2, <3>3
    <2>4. TodoDue \subseteq PathDue' \cup TodoDue'
        BY <2>1, <2>2, <2>3 DEF TodoDue
    <2>5. PathDue = {}
        BY <1>1 DEF PathDue
    <2> QED BY <1>1, <1>2, <2>4, <2>5, PrintKept
<1> QED BY <1>1, <1>11, <1>13, <1>14, <1>15 DEF PrintedInv

LEMMA NoConfigStep ==
    ASSUME SessionInv, PrintedInv, NoConfig \/ ConfigUnreadable
    PROVE  PrintedInv'
<1>1. /\ phase = "config" /\ depth > 0 /\ phase' = phase
      /\ session' = session /\ todo' = todo /\ path' = path /\ lint' = lint
      /\ cfgFilters' = cfgFilters /\ lineLength' = lineLength /\ printed' = printed
      /\ \/ ~Config.exists /\ depth' = depth - 1
         \/ Config.exists /\ ~Config.readable /\ depth' = 0
    BY DEF NoConfig, ConfigUnreadable
<1>2. PathsInv /\ ConfigInv /\ LengthInv /\ PrintInv /\ path \in Range(Paths)
    BY <1>1 DEF PrintedInv, PathsInv, Processing
<1>3. ConfigInv' /\ Visited' = Visited
    BY <1>1, <1>2, ConfigSkipped
<1>4. PathsInv'
    BY <1>1, <1>2, PathsKept DEF Processing
<1>5. LengthInv'
    BY <1>1, <1>2, <1>3, LengthKept
<1>6. PathDue' = PathDue /\ TodoDue' = TodoDue
    BY <1>1, SamePath, TodoKept DEF PathDue
<1>7. PrintInv'
    BY <1>1, <1>2, <1>6, PrintKept
<1> QED BY <1>1, <1>3, <1>4, <1>5, <1>7 DEF PrintedInv

LEMMA ReadConfigStep ==
    ASSUME SessionInv, PrintedInv, ReadConfig
    PROVE  PrintedInv'
<1> DEFINE L == Places("linelength")
           k == Max(L)
<1>1. /\ phase = "config" /\ depth > 0 /\ Config.exists /\ Config.readable
      /\ session' = session /\ todo' = todo /\ path' = path /\ printed' = printed
      /\ lineLength' = IF L = {} THEN lineLength ELSE Config.options[k].value
    BY DEF ReadConfig
<1>2. PathsInv /\ ConfigInv /\ LengthInv /\ PrintInv /\ path \in Range(Paths)
    BY <1>1 DEF PrintedInv, PathsInv, Processing
<1>3. depth \in 1 .. Len(path) /\ Len(path) \in Nat
    <2>1. Len(path) \in Nat /\ depth \in 0 .. Len(path)
        BY <1>2, PathFacts DEF ConfigInv
    <2> QED BY ONLY <2>1, <1>1
<1>4. /\ Config = In(path, depth) /\ Config.options = Options(path, depth)
      /\ LastRead \in Nat
      /\ \A name : Places(name) \subseteq Said(path, depth, name)
      /\ Excluding = {} => \A name : Places(name) = Said(path, depth, name)
      /\ Excluding = {i \in Said(path, depth, "exclude_files") :
                         Options(path, depth)[i].value = path[depth]}
    BY <1>2, <1>3, ConfigFacts
<1>5. depth \in Directories(path)
    <2>1. \A e \in depth + 1 .. Len(path) : ~Stops(path, e)
        BY <1>1, <1>2 DEF ConfigInv
    <2> QED BY <2>1, <1>1, <1>3, <1>4 DEF Directories
<1>6. L # {} => k \in L
    <2>1. L \subseteq 0 .. LastRead
        BY <1>4 DEF Places
    <2> HIDE DEF L
    <2> QED BY <2>1, <1>4, LargestOf
<1>7. ASSUME OneLength, L # {}
      PROVE  /\ lineLength' = LengthOf(path)
             /\ \A i \in 1 .. Len(todo) : lineLength' = LengthOf(todo[i])
    <2>1. k \in Said(path, depth, "linelength")
        BY <1>4, <1>6, <1>7
    <2>2. lineLength' = Options(path, depth)[k].value
        BY <1>1, <1>4, <1>7
    <2> HIDE DEF k
    <2>3. \A q \in Range(Paths) : Precedes(path, q) =>
              Options(path, depth)[k].value = LengthOf(q)
        BY <2>1, <1>2, <1>5, <1>7, LengthRead
    <2>4. Options(path, depth)[k].value = LengthOf(path)
        BY <2>1, <1>2, <1>5, <1>7, LengthRead
    <2>5. \A i \in 1 .. Len(todo) : todo[i] \in Range(Paths) /\ Precedes(path, todo[i])
        BY <1>1, <1>2, TodoFacts DEF PathsInv, Processing
    <2> QED BY <2>2, <2>3, <2>4, <2>5
<1>8. OneLength =>
          \A i \in 1 .. Len(todo) : lineLength' \in {Args.length', LengthOf(todo[i])'}
    <2>1. Args' = Args /\ \A i \in 1 .. Len(todo) : LengthOf(todo[i])' = LengthOf(todo[i])
        BY <1>1, SameConfigs, TodoKept
    <2> HIDE DEF k, L
    <2> QED BY <2>1, <1>1, <1>2, <1>7 DEF LengthInv
<1>9. TodoDue' = TodoDue
    BY <1>1, TodoKept
<1>10. CASE Excluding # {}
    <2>1. phase' = "idle" /\ lint' = RestoreFilters
        BY <1>10 DEF ReadConfig
    <2>2. lint'.verbose = lint.verbose
        BY <2>1, LintKept DEF RestoreFilters
    <2>3. PathsInv'
        BY <1>1, <1>2, <2>1, <2>2, PathsKept DEF Processing
    <2>4. LengthInv'
        <3>1. OneLength' => OneLength
            BY <1>1, SameWanted
        <3> QED BY <3>1, <2>1, <1>1, <1>8 DEF LengthInv
    <2>5. Excluded(path)
        BY <1>4, <1>5, <1>10 DEF Excluded
    <2>6. PathDue = {}
        BY <1>1, <2>5 DEF PathDue, Due, Linted
    <2>7. PrintInv'
        BY <1>1, <1>2, <1>9, <2>6, PrintKept
    <2> QED BY <2>1, <2>3, <2>4, <2>7 DEF PrintedInv
<1>11. CASE Excluding = {}
    <2>1. /\ phase' = phase /\ lint' = lint /\ cfgFilters' = Gathered
          /\ depth' = IF Places("set noparent") # {} THEN 0 ELSE depth - 1
        BY <1>11 DEF ReadConfig
    <2>2. ConfigInv' /\ Visited' = Visited \cup {depth}
        BY <1>1, <1>2, <1>11, <2>1, ConfigGathered
    <2>3. PathsInv'
        BY <1>1, <1>2, <2>1, PathsKept DEF Processing
    <2>4. LengthInv'
        <3> SUFFICES ASSUME OneLength'
                     PROVE  /\ lineLength' \in {Args.length', LengthOf(path)'}
                            /\ (\E d \in Visited' : Said(path, d, "linelength")' # {}) =>
                                  lineLength' = LengthOf(path)'
            <4>1. OneLength' => OneLength
                BY <1>1, SameWanted
            <4> QED BY <4>1, <2>1, <1>1, <1>8 DEF LengthInv
        <3>1. OneLength
            BY <1>1, SameWanted
        <3>2. /\ Args' = Args /\ LengthOf(path)' = LengthOf(path)
              /\ \A d : Said(path, d, "linelength")' = Said(path, d, "linelength")
            BY <1>1, SamePath
        <3>3. /\ lineLength \in {Args.length, LengthOf(path)}
              /\ (\E d \in Visited : Said(path, d, "linelength") # {}) =>
                    lineLength = LengthOf(path)
            BY <3>1, <1>1, <1>2 DEF LengthInv
        <3>4. L = Said(path, depth, "linelength")
            BY <1>4, <1>11
        <3> HIDE DEF L, k
        <3> QED BY <3>1, <3>2, <3>3, <3>4, <1>1, <1>7, <2>2
    <2>5. PathDue' = PathDue
        BY <1>1, <2>1, SamePath DEF PathDue
    <2>6. PrintInv'
        BY <1>1, <1>2, <1>9, <2>5, PrintKept
    <2> QED BY <1>1, <2>1, <2>2, <2>3, <2>4, <2>6 DEF PrintedInv
<1> QED BY <1>10, <1>11

-----------------------------------------------------------------------------
LEMMA ApplyFiltersStep ==
    ASSUME SessionInv, PrintedInv, ApplyFilters
    PROVE  PrintedInv'
<1>1. /\ phase = "config" /\ depth = 0 /\ phase' = "open"
      /\ lint' = [lint EXCEPT !.filters = lint.filters \o InOrder(cfgFilters)]
      /\ session' = session /\ todo' = todo /\ path' = path
      /\ lineLength' = lineLength /\ printed' = printed
    BY DEF ApplyFilters
<1>2. PathsInv /\ ConfigInv /\ LengthInv /\ PrintInv /\ path \in Range(Paths)
    BY <1>1 DEF PrintedInv, PathsInv, Processing
<1>3. /\ lint'.verbose = lint.verbose
      /\ lint'.filters = CommandLine \o InOrder(cfgFilters)
    BY <1>1, <1>2, LintKept DEF ConfigInv
<1>4. Visited = Directories(path)
    <2>1. \A d \in Directories(path) : d > depth
        BY <1>1, <1>2, PathFacts
    <2> QED BY <2>1 DEF Visited
<1>5. OpenInv'
    <2>1. ~Excluded(path)
        BY <1>2, <1>4 DEF Excluded, ConfigInv
    <2>2. \A c \in Categories :
              IsFiltered(CommandLine \o InOrder(cfgFilters), c) <=> Filtered(path, c)
        BY <1>1, <1>2, AppliedFilters DEF ConfigInv
    <2>3. \A c \in Categories : IsFiltered(lint'.filters, c) <=> Filtered(path, c)
        BY <2>2, <1>3
    <2>4. /\ Excluded(path)' <=> Excluded(path)
          /\ \A c : Filtered(path, c)' <=> Filtered(path, c)
        BY <1>1, SamePath
    <2> QED BY <2>1, <2>3, <2>4 DEF OpenInv
<1>6. OneLength => lineLength = LengthOf(path)
    <2> SUFFICES ASSUME OneLength PROVE lineLength = LengthOf(path)
        OBVIOUS
    <2>1. CASE \E d \in Directories(path) : Said(path, d, "linelength") # {}
        BY <2>1, <1>1, <1>2, <1>4 DEF LengthInv
    <2>2. CASE \A d \in Directories(path) : Said(path, d, "linelength") = {}
        <3>1. LengthOf(path) = Args.length
            BY <2>2, LengthOfCommandLine
        <3> QED BY <3>1, <1>1, <1>2 DEF LengthInv
    <2> QED BY <2>1, <2>2
<1>7. LengthInv'
    BY <1>1, <1>2, <1>6, LengthKept
<1>8. PathsInv'
    BY <1>1, <1>2, <1>3, PathsKept DEF Processing
<1>9. PathDue' = PathDue /\ TodoDue' = TodoDue
    BY <1>1, SamePath, TodoKept DEF PathDue
<1>10. PrintInv'
    BY <1>1, <1>2, <1>9, PrintKept
<1> QED BY <1>1, <1>5, <1>7, <1>8, <1>10 DEF PrintedInv

LEMMA SkipFileStep ==
    ASSUME SessionInv, PrintedInv, SkipFile \/ DoneProcessing
    PROVE  PrintedInv'
<1>1. /\ phase \in {"open", "done"} /\ phase' = "idle" /\ lint' = RestoreFilters
      /\ phase = "open" => ~File.readable \/ path \notin ValidNames
      /\ session' = session /\ todo' = todo /\ path' = path
      /\ lineLength' = lineLength /\ printed' = printed
    BY DEF SkipFile, DoneProcessing
<1>2. PathsInv /\ LengthInv /\ PrintInv
    BY <1>1 DEF PrintedInv
<1>3. lint'.verbose = lint.verbose
    BY <1>1, LintKept DEF RestoreFilters
<1>4. PathsInv'
    BY <1>1, <1>2, <1>3, PathsKept DEF Processing
<1>5. LengthInv'
    BY <1>1, <1>2, LengthKept
<1>6. PathDue = {}
    BY <1>1 DEF PathDue, Due, Linted, File
<1>7. TodoDue' = TodoDue
    BY <1>1, TodoKept
<1>8. PrintInv'
    BY <1>1, <1>2, <1>6, <1>7, PrintKept
<1> QED BY <1>1, <1>4, <1>5, <1>8 DEF PrintedInv

LEMMA EndStep ==
    ASSUME SessionInv, PrintedInv, Exit
    PROVE  PrintedInv'
<1>1. /\ phase = "idle" /\ todo = <<>> /\ phase' = "exit"
      /\ session' = session /\ todo' = todo /\ path' = path /\ lint' = lint
      /\ lineLength' = lineLength /\ printed' = printed
    BY DEF Exit
<1>2. PathsInv /\ LengthInv /\ PrintInv
    BY <1>1 DEF PrintedInv
<1>3. PathsInv'
    <2>1. Args' = Args /\ \A i \in 1 .. Len(todo) : Named(todo[i])' <=> Named(todo[i])
        BY <1>1, SameConfigs, TodoKept
    <2> QED BY <2>1, <1>1, <1>2 DEF PathsInv, Processing
<1>4. LengthInv'
    BY <1>1, <1>2, LengthKept
<1>5. PathDue = {} /\ TodoDue' = TodoDue
    BY <1>1, TodoKept DEF PathDue
<1>6. PrintInv'
    BY <1>1, <1>2, <1>5, PrintKept
<1> QED BY <1>1, <1>3, <1>4, <1>6 DEF PrintedInv

LEMMA ArgumentsStep ==
    ASSUME SessionInv, ParseArguments
    PROVE  PrintedInv'
<1> DEFINE Asked == {p \in Range(Paths) :
                        IF Args.recursive
                        THEN p \in ValidNames /\ \E d \in Args.named : IsParentOrSame(d, p)
                        ELSE p \in Args.named}
           K == {p \in Asked : ~\E e \in Args.excludes : IsParentOrSame(e, p)}
<1>1. /\ phase = "start" /\ phase' = "idle" /\ todo' = Chosen(K)
      /\ lint' = [lint EXCEPT !.filters = DefaultFilters \o Args.filters,
                              !.verbose = Args.verbose,
                              !.counting = Args.counting]
      /\ lineLength' = Args.length
      /\ session' = session /\ printed' = printed
    BY DEF ParseArguments, Args
<1>2. lint'.verbose = Args.verbose /\ Args' = Args
    <2>1. lint \in States(lint)
        BY SessionBooks DEF Books
    <2> QED BY <2>1, <1>1, SameConfigs DEF States
<1>3. \A p \in Range(Paths) : p \in K <=> Named(p)
    <2>1. ASSUME NEW p \in Range(Paths) PROVE IsPrefix(p, p)
        <3>1. PICK S : p \in Seq(S)
            BY PathFacts
        <3>2. SubSeq(p, 1, Len(p)) = p /\ Len(p) \in Nat
            BY <3>1, SubSeqFull, LenProperties
        <3> QED BY <3>2 DEF IsPrefix
    <2>2. ASSUME NEW p \in Range(Paths)
          PROVE  (\E d \in Args.named : d = p) <=> (\E d \in Args.named : IsPrefix(d, p) /\ d = p)
        BY <2>1
    <2>3. CASE Args.recursive
        BY <2>3 DEF Named, IsParentOrSame
    <2>4. CASE ~Args.recursive
        BY <2>2, <2>4 DEF Named, IsParentOrSame
    <2> QED BY <2>3, <2>4
<1> HIDE DEF K
<1>4. /\ Chosen(K) \in Seq(Range(Paths))
      /\ \A i \in 1 .. Len(Chosen(K)) : Chosen(K)[i] \in K
      /\ \A p \in Range(Paths) : p \in K =>
            \E i \in 1 .. Len(Chosen(K)) : p = Chosen(K)[i]
      /\ \A i, j \in 1 .. Len(Chosen(K)) : i < j => Precedes(Chosen(K)[i], Chosen(K)[j])
    BY ChosenFacts
<1>5. PICK s \in Seq(Range(Paths)) : /\ s = Chosen(K)
                                     /\ \A i \in 1 .. Len(s) : s[i] \in K
                                     /\ \A p \in Range(Paths) : p \in K =>
                                           \E i \in 1 .. Len(s) : p = s[i]
                                     /\ \A i, j \in 1 .. Len(s) :
                                           i < j => Precedes(s[i], s[j])
    BY <1>4
<1>6. todo' = s /\ \A i \in 1 .. Len(s) : s[i] \in Range(Paths) /\ Named(s[i])
    <2>1. \A i \in 1 .. Len(s) : s[i] \in Range(Paths)
        BY <1>5, ElementOfSeq
    <2> QED BY <2>1, <1>1, <1>3, <1>5
<1>7. PathsInv'
    <2>1. \A i \in 1 .. Len(s) : Named(todo[i])'
        BY <1>1, <1>6, SameExpected
    <2> QED BY <2>1, <1>1, <1>2, <1>5, <1>6 DEF PathsInv, Processing
<1>8. LengthInv'
    BY <1>1, <1>2 DEF LengthInv
<1>9. PrintInv'
    <2>1. Range(printed)' = {}
        <3>1. printed' = <<>>
            BY <1>1 DEF SessionInv
        <3> QED BY <3>1 DEF Range
    <2>2. TodoDue' = UNION {Due(q) : q \in Range(s)} /\ Wanted' = Wanted
        BY <1>1, <1>6, SameExpected, SameWanted DEF TodoDue
    <2>3. ASSUME NEW q \in Range(Paths), Linted(q) PROVE q \in Range(s) /\ Expected(q) = Due(q)
        <3>1. q \in K
            BY <2>3, <1>3 DEF Linted
        <3>2. \E i \in 1 .. Len(s) : q = s[i]
            BY <3>1, <1>5
        <3>3. q \in Range(s)
            BY <3>2, RangeSeq
        <3> QED BY <2>3, <3>3 DEF Due
    <2>4. Wanted \subseteq TodoDue'
        BY <2>2, <2>3 DEF Wanted
    <2> QED BY <2>1, <2>2, <2>4 DEF PrintInv
<1> QED BY <1>1, <1>7, <1>8, <1>9 DEF PrintedInv

-----------------------------------------------------------------------------
(* The steps that print.                                                   *)
LEMMA ReportKept ==
    ASSUME SessionInv, NEW r \in Tolds(lint), Becomes(r)
    PROVE  /\ lint'.verbose = lint.verbose /\ lint'.filters = lint.filters
           /\ Range(printed)' = Range(r.shown)
<1>1. r.state \in States(lint) /\ lint' = r.state /\ printed' = r.shown
    BY DEF Tolds, Becomes
<1>2. lint'.verbose = lint.verbose /\ lint'.filters = lint.filters
    BY <1>1 DEF States
<1>3. Range(printed)' = Range(r.shown)
    BY <1>1 DEF Range
<1> QED BY <1>2, <1>3

LEMMA OpenKept ==
    ASSUME OpenInv, session' = session, path' = path, lint'.filters = lint.filters
    PROVE  OpenInv'
BY SamePath DEF OpenInv

LEMMA ErrorsOfFile ==
    ASSUME SessionInv, path \in ValidNames
    PROVE  /\ Range(File.copyright) \subseteq Errors /\ Range(File.before) \subseteq Errors
           /\ Range(File.after) \subseteq Errors
           /\ Len(File.lines) \in Nat /\ Len(File.guard) \in Nat
<1>1. ASSUME NEW s \in Seq(Errors) PROVE Range(s) \subseteq Errors
    BY RangeIn
<1> QED BY <1>1, FileErrors

(* With the NOLINT comments of some lines known, an error is printed if it *)
(* passes and none of them stands for its line.                            *)
LEMMA ShownWith ==
    ASSUME OpenInv, lint.verbose = Args.verbose,
           NEW s, NEW R, NEW E, E \subseteq Errors, Knows(s, File, R)
    PROVE  Shown(s, E) = Left(path, E, R)
<1>1. ASSUME NEW e \in E
      PROVE  ShouldPrintError(s, e) <=>
                /\ Passes(path, e) /\ e.category \notin File.global
                /\ ~HasNolint(File, R, e.line, e.category)
    <2>1. e \in Errors /\ e.category \in Categories
        BY DEF Errors
    <2>2. IsErrorSuppressedByNolint(s, e.category, e.line) <=>
              e.category \in File.global \/ HasNolint(File, R, e.line, e.category)
        BY <2>1, SuppressedBy
    <2> QED BY <2>1, <2>2, ShouldPrint
<1> QED BY <1>1 DEF Shown, Left, File

(* The suppressions before any line is looked at.                          *)
LEMMA NothingNoted == Noted(File, {}) = {}
BY DEF Noted

LEMMA BeginFilePrints ==
    ASSUME SessionInv, PrintedInv, BeginFile
    PROVE  PrintedInv'
<1> DEFINE clear == ResetNolintSuppressions
           known == [clear EXCEPT !.global = @ \cup File.global]
           mid   == Reported(Told, clear, File.copyright)
           r     == Reported(mid, known, File.before)
           C     == {Message(path, e) : e \in {x \in Range(File.copyright) : Passes(path, x)}}
           B     == Left(path, Range(File.before), {})
<1>1. /\ phase = "open" /\ phase' = "guard" /\ File.readable /\ path \in ValidNames
      /\ path' = path /\ session' = session /\ todo' = todo /\ line' = 0
      /\ lineLength' = lineLength /\ suppressed' = known
      /\ Becomes(r)
    BY DEF BeginFile
<1>2. /\ PathsInv /\ OpenInv /\ LengthInv /\ PrintInv
      /\ path \in Range(Paths) /\ Named(path) /\ lint.verbose = Args.verbose
    BY <1>1 DEF PrintedInv, PathsInv, Processing
<1>3. /\ mid \in Tolds(lint)
      /\ Range(mid.shown) = Range(printed) \cup Shown(clear, Range(File.copyright))
    <2>1. File.copyright \in Seq(Errors)
        BY <1>1, FileErrors
    <2> HIDE DEF clear
    <2> QED BY ONLY <2>1, <1>1, SessionInv, ReportedNow DEF mid
<1> HIDE DEF mid
<1>4. /\ r \in Tolds(lint)
      /\ Range(r.shown) = Range(mid.shown) \cup Shown(known, Range(File.before))
    <2>1. File.before \in Seq(Errors) /\ path \in ValidNames
        BY <1>1, FileErrors
    <2>2. PICK t \in Tolds(lint) : t = mid
        BY <1>3
    <2> HIDE DEF known
    <2>3. Reported(t, known, File.before) \in Tolds(lint)
        BY ONLY <2>1, t \in Tolds(lint), ReportedTold
    <2>4. Range(Reported(t, known, File.before).shown) =
              Range(t.shown) \cup Shown(known, Range(File.before))
        BY ONLY <2>1, t \in Tolds(lint), ReportedShown
    <2> QED BY ONLY <2>2, <2>3, <2>4 DEF r
<1> HIDE DEF r
<1>5. /\ lint'.verbose = lint.verbose /\ lint'.filters = lint.filters
      /\ Range(printed)' = Range(r.shown)
    BY <1>1, <1>4, ReportKept
<1>6. /\ known = [global |-> File.global, lines |-> {}]
      /\ clear.global = {} /\ clear.lines = {}
    BY DEF ResetNolintSuppressions
<1> HIDE DEF known, clear
<1>7. Shown(clear, Range(File.copyright)) = C
    <2>1. \A e \in Range(File.copyright) : ShouldPrintError(clear, e) <=> Passes(path, e)
        <3>1. \A e : ~IsErrorSuppressedByNolint(clear, e.category, e.line)
            BY <1>6 DEF IsErrorSuppressedByNolint
        <3> QED BY <3>1, <1>1, <1>2, ErrorsOfFile, ShouldPrint
    <2> QED BY <2>1 DEF Shown
<1>8. Shown(known, Range(File.before)) = B
    <2>1. Knows(known, File, {})
        BY <1>6, NothingNoted DEF Knows
    <2> QED BY <2>1, <1>1, <1>2, ErrorsOfFile, ShownWith
<1> HIDE DEF C, B
<1>9. Range(printed)' = Range(printed) \cup C \cup B
    BY <1>3, <1>4, <1>5, <1>7, <1>8
<1>10. /\ Linted(path)
       /\ Expected(path) = C \cup B \cup ExpectedOfGuard(path, 1) \cup ExpectedFrom(path, 1)
    <2>1. Linted(path)
        BY <1>1, <1>2 DEF Linted, OpenInv, File
    <2> QED BY <2>1 DEF Expected, ExpectedFirst, C, B, File
<1>11. PathsInv'
    BY <1>1, <1>2, <1>5, PathsKept DEF Processing
<1>12. OpenInv'
    BY <1>1, <1>2, <1>5, OpenKept
<1>13. ReadInv'
    <2>1. Linted(path)'
        BY <1>1, <1>10, SamePath
    <2>2. File' = File
        BY <1>1 DEF File
    <2>3. line' \in 0 .. Len(File.guard)
        BY <1>1, ErrorsOfFile
    <2>4. GuardLines(File, 0) = {}
        BY DEF GuardLines
    <2>5. Knows(known, File, GuardLines(File, 0))
        BY <2>4, <1>6, NothingNoted DEF Knows
    <2> QED BY <2>1, <2>2, <2>3, <2>5, <1>1 DEF ReadInv
<1>14. LengthInv'
    <2>1. OneLength => lineLength = LengthOf(path)
        BY <1>1, <1>2 DEF LengthInv
    <2> QED BY <2>1, <1>1, <1>2, LengthKept
<1>15. PrintInv'
    <2>1. PathDue = C \cup B \cup ExpectedOfGuard(path, 1) \cup ExpectedFrom(path, 1)
        BY <1>1, <1>10 DEF PathDue, Due
    <2>2. PathDue' = ExpectedOfGuard(path, 1) \cup ExpectedFrom(path, 1)
        BY <1>1, SamePath DEF PathDue
    <2>3. TodoDue' = TodoDue
        BY <1>1, TodoKept
    <2>4. C \cup B \subseteq Wanted
        BY <1>2, <1>10 DEF Wanted
    <2> QED BY <2>1, <2>2, <2>3, <2>4, <1>1, <1>2, <1>9, PrintStep
<1> QED BY <1>1, <1>11, <1>12, <1>13, <1>14, <1>15 DEF PrintedInv

LEMMA EndFilePrints ==
    ASSUME SessionInv, PrintedInv, EndFile
    PROVE  PrintedInv'
<1> DEFINE r == Reported(Told, suppressed, File.after)
           E == Range(File.after)
           n == Len(File.lines)
<1>1. /\ phase = "lines" /\ phase' = "done" /\ line = n
      /\ path' = path /\ session' = session /\ todo' = todo
      /\ lineLength' = lineLength
      /\ Becomes(r)
    BY DEF EndFile
<1>2. /\ PathsInv /\ OpenInv /\ ReadInv /\ LengthInv /\ PrintInv
      /\ path \in Range(Paths) /\ lint.verbose = Args.verbose /\ path \in ValidNames
    BY <1>1 DEF PrintedInv, PathsInv, Processing, SessionInv
<1>3. r \in Tolds(lint) /\ Range(r.shown) = Range(printed) \cup Shown(suppressed, E)
    <2>1. File.after \in Seq(Errors)
        BY <1>2, FileErrors
    <2> QED BY ONLY <2>1, <1>2, SessionInv, ReportedNow DEF r, E
<1> HIDE DEF r
<1>4. /\ lint'.verbose = lint.verbose
      /\ Range(printed)' = Range(printed) \cup Shown(suppressed, E)
    BY <1>1, <1>3, ReportKept
<1>5. n \in Nat /\ E \subseteq Errors
    BY <1>2, ErrorsOfFile
<1>6. Shown(suppressed, E) = Left(path, E, LinesUpTo(File, n))
    <2>1. Knows(suppressed, File, LinesUpTo(File, n))
        BY <1>1, <1>2 DEF ReadInv
    <2> HIDE DEF E, n
    <2> QED BY <2>1, <1>2, <1>5, ShownWith
<1>7. /\ ExpectedFrom(path, n + 1) = Shown(suppressed, E)
      /\ ExpectedFrom(path, n + 1) \subseteq ExpectedFrom(path, 1)
    <2>1. n + 1 .. n = {}
        BY <1>5
    <2> QED BY <2>1, <1>6 DEF ExpectedFrom, File
<1>8. PathsInv'
    BY <1>1, <1>2, <1>4, PathsKept DEF Processing
<1>9. LengthInv'
    BY <1>1, <1>2, LengthKept
<1>10. PrintInv'
    <2>1. PathDue = Shown(suppressed, E)
        BY <1>1, <1>7 DEF PathDue
    <2>2. TodoDue' = TodoDue
        BY <1>1, TodoKept
    <2>3. Linted(path) /\ Shown(suppressed, E) \subseteq Expected(path)
        BY <1>2, <1>7 DEF Expected, ReadInv
    <2>4. Shown(suppressed, E) \subseteq Wanted
        BY <2>3, <1>2 DEF Wanted
    <2> QED BY <2>1, <2>2, <2>4, <1>1, <1>2, <1>4, PrintStep
<1> QED BY <1>1, <1>8, <1>9, <1>10 DEF PrintedInv

-----------------------------------------------------------------------------
(* The errors that are reported while a line is looked at.                 *)
LEMMA RangeOfOne ==
    ASSUME NEW e \in Errors
    PROVE  Range(<<e>>) = {e}
<1>1. <<e>> \in Seq(Errors) /\ Len(<<e>>) = 1 /\ <<e>>[1] = e
    OBVIOUS
<1>2. PICK s \in Seq(Errors) : s = <<e>> /\ Len(s) = 1 /\ s[1] = e
    BY <1>1
<1>3. \A x : x \in Range(s) <=> \E i \in 1 .. Len(s) : x = s[i]
    BY RangeSeq
<1>4. \A x : x \in Range(s) <=> x = e
    <2>1. \A i \in 1 .. 1 : s[i] = e
        BY <1>2
    <2>2. 1 \in 1 .. 1
        OBVIOUS
    <2> QED BY ONLY <1>2, <1>3, <2>1, <2>2
<1> QED BY <1>2, <1>4

LEMMA RangeOfNone == Range(<<>>) = {}
BY DEF Range

LEMMA NolintErrorsRange ==
    ASSUME NEW n \in Nat
    PROVE  Range(NolintErrors(n)) = BadNolintAt(File, n)
<1>1. LineError(BadNolint, 5, n) \in Errors
    BY LineErrors
<1>2. Range(<<LineError(BadNolint, 5, n)>>) = {LineError(BadNolint, 5, n)}
    BY ONLY <1>1, RangeOfOne
<1> QED BY <1>2, RangeOfNone DEF NolintErrors, BadNolintAt

LEMMA TooLongRange ==
    ASSUME NEW n \in Nat
    PROVE  Range(TooLong(n)) = IF File.lines[n].length > lineLength
                               THEN {LineError(LineLength, 2, n)} ELSE {}
<1>1. LineError(LineLength, 2, n) \in Errors
    BY LineErrors
<1>2. Range(<<LineError(LineLength, 2, n)>>) = {LineError(LineLength, 2, n)}
    BY ONLY <1>1, RangeOfOne
<1> QED BY <1>2, RangeOfNone DEF TooLong

(* The NOLINT comment of one more line.                                    *)
LEMMA NolintParsed ==
    ASSUME NEW R, NEW n \in Nat, Knows(suppressed, File, R)
    PROVE  Knows(ParseNolint(suppressed, n), File, R \cup ({n} \ {0}))
<1> DEFINE at(m) == IF File.lines[m].next THEN m + 1 ELSE m
           Ok(m) == File.lines[m].nolint \in Categories \cup {<<"any">>}
           x(m) == <<File.lines[m].nolint, at(m)>>
           Old == {x(m) : m \in {i \in R : Ok(i)}}
           New == {x(m) : m \in {i \in R \cup ({n} \ {0}) : Ok(i)}}
<1>1. suppressed = [global |-> File.global, lines |-> Old]
    BY DEF Knows, Noted
<1>2. ParseNolint(suppressed, n) =
          IF n > 0 /\ Ok(n) THEN [suppressed EXCEPT !.lines = @ \cup {x(n)}] ELSE suppressed
    BY DEF ParseNolint
<1>3. n > 0 <=> n # 0
    OBVIOUS
<1> HIDE DEF Ok, x
<1>4. New = IF n > 0 /\ Ok(n) THEN Old \cup {x(n)} ELSE Old
    BY <1>3
<1> HIDE DEF Old, New
<1>5. ParseNolint(suppressed, n) = [global |-> File.global, lines |-> New]
    BY <1>1, <1>2, <1>4
<1> QED BY <1>5 DEF New, Ok, x, Knows, Noted

LEMMA LinesNext ==
    ASSUME NEW f, NEW i \in Nat
    PROVE  /\ GuardLines(f, i + 1) = GuardLines(f, i) \cup ({f.guard[i + 1].line} \ {0})
           /\ LinesUpTo(f, i + 1) = LinesUpTo(f, i) \cup ({i + 1} \ {0})
           /\ LinesUpTo(f, 0) = GuardLines(f, Len(f.guard))
<1>1. \A j : j \in 1 .. i + 1 <=> j \in 1 .. i \/ j = i + 1
    OBVIOUS
<1>2. 1 .. 0 = {} /\ i + 1 # 0
    OBVIOUS
<1>3. GuardLines(f, i + 1) = GuardLines(f, i) \cup ({f.guard[i + 1].line} \ {0})
    BY <1>1 DEF GuardLines
<1>4. LinesUpTo(f, i + 1) = LinesUpTo(f, i) \cup ({i + 1} \ {0})
    BY <1>1, <1>2 DEF LinesUpTo
<1>5. LinesUpTo(f, 0) = GuardLines(f, Len(f.guard))
    BY <1>2 DEF LinesUpTo
<1> QED BY <1>3, <1>4, <1>5

-----------------------------------------------------------------------------
(* What is expected of the guard and from one line on, from the next and   *)
(* of the file.                                                            *)
LEMMA ExpectedOfGuardNext ==
    ASSUME NEW p, NEW i \in Nat, i >= 1,
           Len(session.files[p].guard) \in Nat, i <= Len(session.files[p].guard)
    PROVE  LET Here == Left(p, RaisedByGuard(p, i), GuardLines(session.files[p], i))
           IN  /\ ExpectedOfGuard(p, i) = Here \cup ExpectedOfGuard(p, i + 1)
               /\ Here \subseteq Expected(p)
<1> DEFINE f == session.files[p]
           N == Len(f.guard)
           F(j) == Left(p, RaisedByGuard(p, j), GuardLines(f, j))
<1>1. \A k : ExpectedOfGuard(p, k) = UNION {F(j) : j \in k .. N}
    BY DEF ExpectedOfGuard
<1>2. \A j : j \in i .. N <=> j = i \/ j \in i + 1 .. N
    OBVIOUS
<1>3. i \in 1 .. N
    OBVIOUS
<1>4. ExpectedOfGuard(p, 1) \subseteq Expected(p)
    BY DEF Expected
<1> HIDE DEF F, N
<1>5. ExpectedOfGuard(p, i) = F(i) \cup ExpectedOfGuard(p, i + 1)
    BY <1>1, <1>2
<1>6. F(i) \subseteq ExpectedOfGuard(p, 1)
    BY <1>1, <1>3
<1> QED BY <1>4, <1>5, <1>6 DEF F

LEMMA ExpectedNext ==
    ASSUME NEW p, NEW n \in Nat, n >= 1,
           Len(session.files[p].lines) \in Nat, n <= Len(session.files[p].lines)
    PROVE  LET Here == Left(p, RaisedAt(p, n), LinesUpTo(session.files[p], n))
           IN  /\ ExpectedFrom(p, n) = Here \cup ExpectedFrom(p, n + 1)
               /\ Here \subseteq Expected(p)
<1> DEFINE f == session.files[p]
           N == Len(f.lines)
           F(m) == Left(p, RaisedAt(p, m), LinesUpTo(f, m))
           Late == Left(p, Range(f.after), LinesUpTo(f, N))
<1>1. \A k : ExpectedFrom(p, k) = Late \cup (UNION {F(m) : m \in k .. N})
    BY DEF ExpectedFrom
<1>2. \A m : m \in n .. N <=> m = n \/ m \in n + 1 .. N
    OBVIOUS
<1>3. n \in 1 .. N
    OBVIOUS
<1>4. ExpectedFrom(p, 1) \subseteq Expected(p)
    BY DEF Expected
<1> HIDE DEF F, N, Late
<1>5. ExpectedFrom(p, n) = F(n) \cup ExpectedFrom(p, n + 1)
    BY <1>1, <1>2
<1>6. F(n) \subseteq ExpectedFrom(p, 1)
    BY <1>1, <1>3
<1> QED BY <1>4, <1>5, <1>6 DEF F

-----------------------------------------------------------------------------
(* A step that looks at a line and reports errors prints those that are    *)
(* expected of it.                                                         *)
LEMMA LookPrints ==
    ASSUME SessionInv, PathsInv, OpenInv, LengthInv, PrintInv, Linted(path),
           phase \in {"guard", "lines"}, phase' = phase,
           path' = path, session' = session, todo' = todo, lineLength' = lineLength,
           NEW s, NEW R, Knows(s, File, R),
           NEW errors \in Seq(Errors), Becomes(Reported(Told, s, errors)),
           NEW raised, OneLength => Range(errors) = raised,
           PathDue = Left(path, raised, R) \cup PathDue',
           Left(path, raised, R) \subseteq Expected(path)
    PROVE  PathsInv' /\ OpenInv' /\ LengthInv' /\ PrintInv' /\ Linted(path)'
<1> DEFINE r == Reported(Told, s, errors)
<1>1. /\ path \in Range(Paths) /\ lint.verbose = Args.verbose /\ path \in ValidNames
    BY DEF PathsInv, Processing, SessionInv
<1>2. r \in Tolds(lint) /\ Range(r.shown) = Range(printed) \cup Shown(s, Range(errors))
    BY ONLY <1>1, errors \in Seq(Errors), SessionInv, ReportedNow DEF r
<1> HIDE DEF r
<1>3. /\ lint'.verbose = lint.verbose /\ lint'.filters = lint.filters
      /\ Range(printed)' = Range(printed) \cup Shown(s, Range(errors))
    BY <1>2, ReportKept DEF r
<1>4. Range(errors) \subseteq Errors
    BY RangeIn
<1>5. OneLength => Shown(s, Range(errors)) = Left(path, raised, R)
    BY <1>1, <1>4, ShownWith
<1>6. PathsInv'
    BY <1>3, PathsKept DEF Processing
<1>7. OpenInv'
    BY <1>3, OpenKept
<1>8. LengthInv'
    <2>1. OneLength => lineLength = LengthOf(path)
        BY DEF LengthInv
    <2> QED BY <2>1, LengthKept
<1>9. PrintInv'
    <2>1. TodoDue' = TodoDue
        BY TodoKept
    <2>2. Left(path, raised, R) \subseteq Wanted
        BY <1>1 DEF Wanted
    <2> QED BY <2>1, <2>2, <1>3, <1>5, PrintStep
<1>10. Linted(path)'
    BY SamePath
<1> QED BY <1>6, <1>7, <1>8, <1>9, <1>10

LEMMA GuardPrints ==
    ASSUME SessionInv, PrintedInv, CheckForHeaderGuard
    PROVE  PrintedInv'
<1> DEFINE i    == line + 1
           g    == File.guard[i]
           then == ParseNolint(suppressed, g.line)
           all  == NolintErrors(g.line) \o g.raises
<1>1. /\ phase = "guard" /\ phase' = "guard" /\ line < Len(File.guard) /\ line' = i
      /\ path' = path /\ session' = session /\ todo' = todo
      /\ lineLength' = lineLength /\ suppressed' = then
      /\ Becomes(Reported(Told, then, all))
    BY DEF CheckForHeaderGuard
<1>2. /\ PathsInv /\ OpenInv /\ ReadInv /\ LengthInv /\ PrintInv
      /\ path \in ValidNames /\ line \in Nat
    BY <1>1 DEF PrintedInv, SessionInv
<1>3. /\ i \in Nat /\ i >= 1 /\ Len(File.guard) \in Nat /\ i \in 1 .. Len(File.guard)
    BY <1>1, <1>2, FileErrors
<1>4. g.raises \in Seq(Errors) /\ g.line \in Nat
    BY <1>2, <1>3, FileErrors
<1>5. Knows(then, File, GuardLines(File, i))
    <2>1. Knows(suppressed, File, GuardLines(File, line))
        BY <1>1, <1>2 DEF ReadInv
    <2>2. GuardLines(File, i) = GuardLines(File, line) \cup ({g.line} \ {0})
        BY <1>2, LinesNext
    <2> QED BY <2>1, <2>2, <1>4, NolintParsed
<1>6. all \in Seq(Errors) /\ Range(all) = RaisedByGuard(path, i)
    <2>1. NolintErrors(g.line) \in Seq(Errors)
        BY <1>4, LineErrors
    <2>2. Range(NolintErrors(g.line)) = BadNolintAt(File, g.line)
        BY <1>4, NolintErrorsRange
    <2>3. all \in Seq(Errors)
        BY <2>1, <1>4, ConcatProperties
    <2>4. Range(all) = Range(NolintErrors(g.line)) \cup Range(g.raises)
        BY <2>1, <1>4, RangeConcat
    <2> QED BY <2>2, <2>3, <2>4 DEF RaisedByGuard, File
<1>7. /\ ExpectedOfGuard(path, i) =
             Left(path, RaisedByGuard(path, i), GuardLines(File, i))
               \cup ExpectedOfGuard(path, i + 1)
      /\ Left(path, RaisedByGuard(path, i), GuardLines(File, i)) \subseteq Expected(path)
    <2> HIDE DEF i
    <2> QED BY <1>3, ExpectedOfGuardNext DEF File
<1>8. PathDue = Left(path, RaisedByGuard(path, i), GuardLines(File, i)) \cup PathDue'
    <2>1. PathDue = ExpectedOfGuard(path, i) \cup ExpectedFrom(path, 1)
        BY <1>1 DEF PathDue
    <2>2. PathDue' = ExpectedOfGuard(path, i + 1) \cup ExpectedFrom(path, 1)
        BY <1>1, SamePath DEF PathDue
    <2> QED BY <2>1, <2>2, <1>7
<1> HIDE DEF then, all, g, i
<1>9. PathsInv' /\ OpenInv' /\ LengthInv' /\ PrintInv' /\ Linted(path)'
    BY <1>1, <1>2, <1>5, <1>6, <1>7, <1>8, LookPrints DEF ReadInv
<1>10. ReadInv'
    <2>1. File' = File
        BY <1>1 DEF File
    <2>2. i \in 0 .. Len(File.guard)
        BY <1>3
    <2> QED BY <2>1, <2>2, <1>1, <1>5, <1>9 DEF ReadInv
<1> QED BY <1>1, <1>9, <1>10 DEF PrintedInv

LEMMA GuardCheckedPrints ==
    ASSUME SessionInv, PrintedInv, GuardChecked
    PROVE  PrintedInv'
<1>1. /\ phase = "guard" /\ phase' = "lines" /\ line = Len(File.guard) /\ line' = 0
      /\ path' = path /\ session' = session /\ todo' = todo /\ lint' = lint
      /\ lineLength' = lineLength /\ suppressed' = suppressed /\ printed' = printed
    BY DEF GuardChecked
<1>2. /\ PathsInv /\ OpenInv /\ ReadInv /\ LengthInv /\ PrintInv
      /\ path \in ValidNames /\ line \in Nat
    BY <1>1 DEF PrintedInv, SessionInv
<1>3. PathsInv'
    BY <1>1, <1>2, PathsKept DEF Processing
<1>4. OpenInv'
    BY <1>1, <1>2, OpenKept
<1>5. ReadInv'
    <2>1. Linted(path)' /\ File' = File
        BY <1>1, <1>2, SamePath DEF ReadInv, File
    <2>2. Knows(suppressed, File, LinesUpTo(File, 0))
        BY <1>1, <1>2, LinesNext DEF ReadInv
    <2>3. 0 \in 0 .. Len(File.lines)
        BY <1>2, FileErrors
    <2> QED BY <2>1, <2>2, <2>3, <1>1 DEF ReadInv
<1>6. LengthInv'
    <2>1. OneLength => lineLength = LengthOf(path)
        BY <1>1, <1>2 DEF LengthInv
    <2> QED BY <2>1, <1>1, <1>2, LengthKept
<1>7. PrintInv'
    <2>1. PathDue = ExpectedFrom(path, 1)
        <3>1. line + 1 .. Len(File.guard) = {}
            BY <1>1, <1>2
        <3>2. ExpectedOfGuard(path, line + 1) = {}
            BY <3>1 DEF ExpectedOfGuard, File
        <3> QED BY <3>2, <1>1 DEF PathDue
    <2>2. PathDue' = ExpectedFrom(path, 1)
        BY <1>1, SamePath DEF PathDue
    <2>3. TodoDue' = TodoDue
        BY <1>1, TodoKept
    <2> QED BY <2>1, <2>2, <2>3, <1>1, <1>2, PrintKept
<1> QED BY <1>1, <1>3, <1>4, <1>5, <1>6, <1>7 DEF PrintedInv

LEMMA ProcessLinePrints ==
    ASSUME SessionInv, PrintedInv, ProcessLine
    PROVE  PrintedInv'
<1> DEFINE n    == line + 1
           l    == File.lines[n]
           then == ParseNolint(suppressed, n)
           all  == NolintErrors(n) \o l.raises \o TooLong(n)
<1>1. /\ phase = "lines" /\ phase' = "lines" /\ n <= Len(File.lines) /\ line' = n
      /\ path' = path /\ session' = session /\ todo' = todo
      /\ lineLength' = lineLength /\ suppressed' = then
      /\ Becomes(Reported(Told, then, all))
    BY DEF ProcessLine, TooLong
<1>2. /\ PathsInv /\ OpenInv /\ ReadInv /\ LengthInv /\ PrintInv
      /\ path \in ValidNames /\ line \in Nat
    BY <1>1 DEF PrintedInv, SessionInv
<1>3. /\ n \in Nat /\ n >= 1 /\ Len(File.lines) \in Nat /\ n \in 1 .. Len(File.lines)
    BY <1>1, <1>2, FileErrors
<1>4. l.raises \in Seq(Errors)
    BY <1>2, <1>3, FileErrors
<1>5. Knows(then, File, LinesUpTo(File, n))
    <2>1. Knows(suppressed, File, LinesUpTo(File, line))
        BY <1>1, <1>2 DEF ReadInv
    <2>2. LinesUpTo(File, n) = LinesUpTo(File, line) \cup ({n} \ {0})
        BY <1>2, LinesNext
    <2> HIDE DEF n
    <2> QED BY <2>1, <2>2, <1>3, NolintParsed
<1> HIDE DEF then
<1>6. all \in Seq(Errors) /\ (OneLength => Range(all) = RaisedAt(path, n))
    <2> HIDE DEF n
    <2>1. NolintErrors(n) \in Seq(Errors) /\ TooLong(n) \in Seq(Errors)
        BY <1>3, LineErrors
    <2>2. PICK a \in Seq(Errors), b \in Seq(Errors), c \in Seq(Errors) :
              a = NolintErrors(n) /\ b = l.raises /\ c = TooLong(n)
        BY <2>1, <1>4
    <2>3. PICK ab \in Seq(Errors) : ab = a \o b
        BY ONLY a \in Seq(Errors), b \in Seq(Errors), ConcatProperties
    <2>4. ab \o c \in Seq(Errors) /\ all = ab \o c
        BY <2>2, <2>3, ConcatProperties
    <2>5. Range(ab) = Range(a) \cup Range(b)
        BY ONLY <2>3, a \in Seq(Errors), b \in Seq(Errors), RangeConcat
    <2>6. Range(ab \o c) = Range(ab) \cup Range(c)
        BY ONLY ab \in Seq(Errors), c \in Seq(Errors), RangeConcat
    <2>7. Range(a) = BadNolintAt(File, n)
        BY <2>2, <1>3, NolintErrorsRange
    <2>8. Range(c) = IF l.length > lineLength THEN {LineError(LineLength, 2, n)} ELSE {}
        BY <2>2, <1>3, TooLongRange
    <2>9. OneLength => lineLength = LengthOf(path)
        BY <1>1, <1>2 DEF LengthInv
    <2>10. Range(all) = Range(l.raises) \cup BadNolintAt(File, n) \cup Range(c)
        BY <2>2, <2>4, <2>5, <2>6, <2>7
    <2> HIDE DEF all
    <2> QED BY <2>4, <2>8, <2>9, <2>10 DEF RaisedAt, File
<1>7. /\ ExpectedFrom(path, n) =
             Left(path, RaisedAt(path, n), LinesUpTo(File, n)) \cup ExpectedFrom(path, n + 1)
      /\ Left(path, RaisedAt(path, n), LinesUpTo(File, n)) \subseteq Expected(path)
    <2> HIDE DEF n
    <2> QED BY <1>3, ExpectedNext DEF File
<1>8. PathDue = Left(path, RaisedAt(path, n), LinesUpTo(File, n)) \cup PathDue'
    <2>1. PathDue = ExpectedFrom(path, n)
        BY <1>1 DEF PathDue
    <2>2. PathDue' = ExpectedFrom(path, n + 1)
        BY <1>1, SamePath DEF PathDue
    <2> QED BY <2>1, <2>2, <1>7
<1> HIDE DEF all, n
<1>9. PathsInv' /\ OpenInv' /\ LengthInv' /\ PrintInv' /\ Linted(path)'
    BY <1>1, <1>2, <1>5, <1>6, <1>7, <1>8, LookPrints DEF ReadInv
<1>10. ReadInv'
    <2>1. File' = File
        BY <1>1 DEF File
    <2>2. n \in 0 .. Len(File.lines)
        BY <1>3
    <2> QED BY <2>1, <2>2, <1>1, <1>5, <1>9 DEF ReadInv
<1> QED BY <1>1, <1>9, <1>10 DEF PrintedInv

LEMMA PrintedInvStep ==
    ASSUME SessionInv, PrintedInv, [Next]_vars
    PROVE  PrintedInv'
<1>1. CASE UNCHANGED vars
    <2>1. /\ session' = session /\ phase' = phase /\ todo' = todo /\ path' = path
          /\ depth' = depth /\ cfgFilters' = cfgFilters /\ lint' = lint
          /\ lineLength' = lineLength /\ suppressed' = suppressed /\ line' = line
          /\ printed' = printed
        BY <1>1 DEF vars
    <2> SUFFICES ASSUME phase # "start" PROVE PrintedInv'
        BY <2>1 DEF PrintedInv
    <2>2. PathsInv /\ LengthInv /\ PrintInv
        BY DEF PrintedInv
    <2>3. Visited' = Visited
        BY <2>1, SamePath DEF Visited
    <2>4. PathsInv'
        BY <2>1, <2>2, SamePath, TodoKept DEF PathsInv
    <2>5. phase = "config" => ConfigInv'
        <3> SUFFICES ASSUME ConfigInv PROVE ConfigInv'
            BY DEF PrintedInv
        <3>1. \A d, c : Nearest(d, c)' <=> Nearest(d, c)
            BY <2>1, <2>3, SamePath DEF Nearest
        <3>2. GatheredInv'
            BY <2>1, <2>3, <3>1, SamePath DEF ConfigInv, GatheredInv
        <3> QED BY <2>1, <2>3, <3>2, SamePath DEF ConfigInv
    <2>6. phase \in {"open", "guard", "lines"} => OpenInv'
        BY <2>1, OpenKept DEF PrintedInv
    <2>7. phase \in {"guard", "lines"} => ReadInv'
        BY <2>1, SamePath DEF PrintedInv, ReadInv, File
    <2>8. LengthInv'
        <3>1. phase \in {"open", "guard", "lines"} => (OneLength => lineLength = LengthOf(path))
            BY <2>2 DEF LengthInv
        <3> QED BY <2>1, <2>2, <2>3, <3>1, LengthKept
    <2>9. PathDue' = PathDue /\ TodoDue' = TodoDue
        BY <2>1, SamePath, TodoKept DEF PathDue
    <2>10. PrintInv'
        BY <2>1, <2>2, <2>9, PrintKept
    <2> QED BY <2>1, <2>4, <2>5, <2>6, <2>7, <2>8, <2>10 DEF PrintedInv
<1> QED BY <1>1, ArgumentsStep, StartFileStep, NoConfigStep, ReadConfigStep,
           ApplyFiltersStep, SkipFileStep, BeginFilePrints, GuardPrints,
           GuardCheckedPrints, ProcessLinePrints, EndFilePrints, EndStep DEF Next

(* Whatever was linted before: when the program ends, the errors printed   *)
(* are those that pass verbosity, filters and the suppressions of the      *)
(* lines looked at so far, of the files that are linted.                   *)
THEOREM PrintedAlwaysExactly == Spec => []PrintedExactly
<1>1. Init => PrintedInv
    BY DEF Init, PrintedInv
<1>2. SessionInv /\ PrintedInv /\ [Next]_vars => PrintedInv'
    BY PrintedInvStep
<1>3. ASSUME PrintedInv PROVE PrintedExactly
    <2> SUFFICES ASSUME phase = "exit", OneLength
                 PROVE  Range(printed) = Wanted
        BY DEF PrintedExactly, Wanted
    <2>1. todo = <<>> /\ PrintInv
        BY <1>3 DEF PrintedInv, PathsInv
    <2>2. PathDue = {} /\ TodoDue = {}
        BY <2>1 DEF PathDue, TodoDue, Range
    <2> QED BY <2>1, <2>2 DEF PrintInv
<1> QED BY <1>1, <1>2, <1>3, SessionSound, PTL DEF Spec
=============================================================================
