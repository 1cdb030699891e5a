------------------------ MODULE CheckIncludesProofs ------------------------
(***************************************************************************)
(* Proofs that the include checks of cpplint.py report what the lines of a *)
(* file say, whatever the file (CheckIncludes), from IncludesInv.          *)
(***************************************************************************)
EXTENDS CheckIncludesInvariant, NaturalLemmas, SequenceTheorems, FiniteSetTheorems

-----------------------------------------------------------------------------
(* The branches that are open, line by line.                               *)
LEMMA FrontAt ==
    ASSUME NEW b \in Seq(Nat), b # <<>>
    PROVE  /\ Front(b) \in Seq(Nat)
           /\ Len(Front(b)) = Len(b) - 1
           /\ \A i \in 1 .. Len(b) - 1 : Front(b)[i] = b[i]
<1> DEFINE N == Len(b)
           f == SubSeq(b, 1, N - 1)
<1>1. N \in Nat /\ N # 0
    BY LenProperties, EmptySeq
<1>2. 1 \in Int /\ N - 1 \in Int
    BY <1>1
<1>3. \A i \in 1 .. N - 1 : b[i] \in Nat
    BY <1>1, ElementOfSeq
<1> HIDE DEF N
<1>4. /\ f \in Seq(Nat)
      /\ Len(f) = IF 1 <= N - 1 THEN (N - 1) - 1 + 1 ELSE 0
      /\ \A i \in 1 .. (N - 1) - 1 + 1 : f[i] = b[1 + i - 1]
    BY ONLY <1>2, <1>3, SubSeqProperties
<1> HIDE DEF f
<1>5. Len(f) = N - 1
    BY <1>1, <1>4
<1>6. \A i \in 1 .. N - 1 : f[i] = b[i]
    BY <1>1, <1>4
<1> QED BY <1>4, <1>5, <1>6 DEF Front, f, N

(* What one line does to them.                                             *)
Opens(b, c, n) ==
    Len(c) = Len(b) + 1 /\ c[Len(c)] = n /\ \A i \in 1 .. Len(b) : c[i] = b[i]

Turns(b, c, n) ==
    Len(b) > 0 /\ Len(c) = Len(b) /\ c[Len(c)] = n /\ \A i \in 1 .. Len(b) - 1 : c[i] = b[i]

Closes(b, c) ==
    Len(c) <= Len(b) /\ \A i \in 1 .. Len(c) : c[i] = b[i]

LEMMA PushAt ==
    ASSUME NEW b \in Seq(Nat), NEW n \in Nat
    PROVE  Append(b, n) \in Seq(Nat) /\ Opens(b, Append(b, n), n)
BY AppendProperties DEF Opens

LEMMA BranchedAt ==
    ASSUME NEW b \in Seq(Nat), NEW kind, NEW n \in Nat
    PROVE  /\ Branched(b, kind, n) \in Seq(Nat)
           /\ kind = "if" => Opens(b, Branched(b, kind, n), n)
           /\ kind = "else" /\ b # <<>> => Turns(b, Branched(b, kind, n), n)
           /\ kind = "endif" => Closes(b, Branched(b, kind, n))
           /\ kind \notin {"if", "else", "endif"} => Branched(b, kind, n) = b
<1>1. CASE kind = "if"
    <2>1. Branched(b, kind, n) = Append(b, n)
        BY <1>1 DEF Branched
    <2> QED BY <1>1, <2>1, PushAt
<1>2. CASE kind = "else" /\ b = <<>>
    <2>1. Branched(b, kind, n) = Append(SubSeq(b, 1, Len(b) - 1), n)
        BY <1>2 DEF Branched, Front
    <2>2. Branched(b, kind, n) = Append(<<>>, n)
        BY <1>2, <2>1
    <2>3. Append(<<>>, n) \in Seq(Nat)
        OBVIOUS
    <2> QED BY <1>2, <2>2, <2>3
<1>3. CASE kind = "else" /\ b # <<>>
    <2> DEFINE f == Front(b)
               c == Append(f, n)
    <2>1. /\ f \in Seq(Nat)
          /\ Len(f) = Len(b) - 1
          /\ \A i \in 1 .. Len(b) - 1 : f[i] = b[i]
        BY <1>3, FrontAt
    <2>2. Branched(b, kind, n) = c
        BY <1>3 DEF Branched
    <2>3. c \in Seq(Nat) /\ Opens(f, c, n)
        BY <2>1, PushAt
    <2>4. Len(b) \in Nat /\ Len(b) # 0
        BY <1>3, LenProperties, EmptySeq
    <2> HIDE DEF c, f
    <2>5. Turns(b, c, n)
        BY <2>1, <2>3, <2>4 DEF Opens, Turns
    <2> QED BY <1>3, <2>2, <2>3, <2>5
<1>4. CASE kind = "endif"
    <2>1. Branched(b, kind, n) = Front(b)
        BY <1>4 DEF Branched
    <2>2. CASE b = <<>>
        <3>1. Branched(b, kind, n) = <<>>
            BY <2>1, <2>2 DEF Front
        <3>2. Closes(b, <<>>)
            BY <2>2 DEF Closes
        <3> QED BY <1>4, <2>2, <3>1, <3>2
    <2>3. CASE b # <<>>
        <3>1. Len(b) \in Nat
            BY LenProperties
        <3>2. Closes(b, Front(b))
            BY <2>3, <3>1, FrontAt DEF Closes
        <3> QED BY <1>4, <2>1, <2>3, <3>2, FrontAt
    <2> QED BY <2>2, <2>3
<1>5. CASE kind \notin {"if", "else", "endif"}
    BY <1>5 DEF Branched
<1> QED BY <1>1, <1>2, <1>3, <1>4, <1>5

LEMMA BranchedBounded ==
    ASSUME NEW b \in Seq(Nat), NEW kind, NEW n \in Nat,
           \A i \in 1 .. Len(b) : b[i] <= n
    PROVE  \A i \in 1 .. Len(Branched(b, kind, n)) : Branched(b, kind, n)[i] <= n
<1> DEFINE c == Branched(b, kind, n)
<1>1. /\ c \in Seq(Nat)
      /\ kind = "if" => Opens(b, c, n)
      /\ kind = "else" /\ b # <<>> => Turns(b, c, n)
      /\ kind = "endif" => Closes(b, c)
      /\ kind \notin {"if", "else", "endif"} => c = b
    BY BranchedAt
<1>2. Len(b) \in Nat /\ Len(c) \in Nat
    BY <1>1, LenProperties
<1>3. CASE kind = "else" /\ b = <<>>
    <2>1. c = Append(SubSeq(b, 1, Len(b) - 1), n)
        BY <1>3 DEF Branched, Front
    <2>2. c = <<n>>
        BY <1>3, <2>1
    <2> QED BY <2>2
<1> SUFFICES ASSUME NEW i \in 1 .. Len(c) PROVE c[i] <= n
    OBVIOUS
<1> HIDE DEF c
<1>4. CASE kind = "if"
    BY SMTT(30), <1>1, <1>2, <1>4 DEF Opens
<1>5. CASE kind = "else" /\ b # <<>>
    BY SMTT(30), <1>1, <1>2, <1>5 DEF Turns
<1>6. CASE kind = "endif"
    BY SMTT(30), <1>1, <1>2, <1>6 DEF Closes
<1> QED BY <1>1, <1>3, <1>4, <1>5, <1>6 DEF c

(* All that is used of Branches.                                           *)
AreBranches(b, lines) ==
    /\ b \in [0 .. Len(lines) -> Seq(Nat)]
    /\ \A n \in 1 .. Len(lines) : b[n] = Branched(b[n - 1], lines[n].kind, n)
    /\ \A n \in 0 .. Len(lines) : \A i \in 1 .. Len(b[n]) : b[n][i] <= n

LEMMA BranchesDefined ==
    ASSUME NEW lines, Len(lines) \in Nat
    PROVE  AreBranches(BranchesOf(lines), lines)
<1> DEFINE N == Len(lines)
           step == [n \in 1 .. N |-> [was \in Seq(Nat) |-> Branched(was, lines[n].kind, n)]]
           Body(g) == [n \in 0 .. N |->
                          IF n = 0 THEN <<>> ELSE Branched(g[n - 1], lines[n].kind, n)]
<1>1. N \in Nat
    OBVIOUS
<1>2. step \in [1 .. N -> [Seq(Nat) -> Seq(Nat)]]
    BY BranchedAt
<1>3. <<>> \in Seq(Nat)
    OBVIOUS
<1> HIDE DEF N, step
<1>4. PICK h \in [0 .. N -> Seq(Nat)] :
          h[0] = <<>> /\ \A n \in 1 .. N : h[n] = step[n][h[n - 1]]
    <2>1. \E g : IsRecursion(g, Seq(Nat), <<>>, N, step)
        BY ONLY <1>1, <1>2, <1>3, Recursion
    <2> QED BY <2>1 DEF IsRecursion
<1>5. ASSUME NEW n \in 1 .. N
      PROVE  h[n] = Branched(h[n - 1], lines[n].kind, n)
    <2>1. n - 1 \in 0 .. N /\ h[n - 1] \in Seq(Nat)
        BY <1>1
    <2> QED BY <1>4, <2>1 DEF step
<1>6. h = Body(h)
    BY <1>1, <1>4, <1>5
<1> DEFINE b == CHOOSE g : g = Body(g)
<1>7. b = Body(b)
    BY <1>6
<1>8. BranchesOf(lines) = b
    BY DEF BranchesOf, N
<1> HIDE DEF b
<1> DEFINE Fine(n) == b[n] \in Seq(Nat) /\ \A i \in 1 .. Len(b[n]) : b[n][i] <= n
           P == {k \in Nat : k <= N => Fine(k)}
<1>9. 0 \in P
    BY <1>1, <1>7
<1>10. ASSUME NEW k \in Nat, k \in P PROVE k + 1 \in P
    <2> SUFFICES ASSUME k + 1 <= N PROVE Fine(k + 1)
        OBVIOUS
    <2> DEFINE n == k + 1
               kind == lines[n].kind
               c == Branched(b[k], kind, n)
    <2>1. n \in 0 .. N /\ n # 0 /\ n - 1 = k /\ k \in 0 .. N /\ n \in Nat
        BY <1>1
    <2>2. b[n] = c
        BY <2>1, <1>7
    <2>3. b[k] \in Seq(Nat) /\ \A i \in 1 .. Len(b[k]) : b[k][i] <= k
        BY <1>1, <1>10
    <2>4. n \in Nat /\ \A i \in 1 .. Len(b[k]) : b[k][i] <= n
        <3>1. ASSUME NEW i \in 1 .. Len(b[k]) PROVE b[k][i] <= n
            <4>1. b[k][i] \in Nat /\ b[k][i] <= k
                BY <2>3, ElementOfSeq
            <4> QED BY <4>1
        <3> QED BY <2>1, <3>1
    <2> HIDE DEF n, kind
    <2>5. c \in Seq(Nat) /\ \A i \in 1 .. Len(c) : c[i] <= n
        BY <2>3, <2>4, BranchedAt, BranchedBounded
    <2>6. Fine(n)
        BY <2>2, <2>5
    <2> QED BY <2>6 DEF n
<1> HIDE DEF P
<1>11. Nat \subseteq P
    BY <1>9, <1>10, Induction
<1>12. ASSUME NEW n \in 0 .. N PROVE Fine(n)
    BY <1>1, <1>11 DEF P
<1>13. b \in [0 .. N -> Seq(Nat)]
    BY <1>7, <1>12
<1>14. \A n \in 1 .. N : b[n] = Branched(b[n - 1], lines[n].kind, n)
    BY <1>1, <1>7
<1> QED BY <1>8, <1>12, <1>13, <1>14 DEF AreBranches, N

-----------------------------------------------------------------------------
(* Lines, headers and places.                                              *)
LEMMA FileFacts ==
    ASSUME file \in IncludingFiles
    PROVE  /\ Len(Lines) \in Nat
           /\ \A n \in 1 .. Len(Lines) : Lines[n] \in FileLines
           /\ AreBranches(Branches, Lines)
           /\ \A n \in 1 .. Len(Lines) :
                 Lines[n].kind = "else" => Branches[n - 1] # <<>>
<1>1. Lines \in Seq(FileLines)
    BY FilesAssumption DEF Lines
<1>2. Len(Lines) \in Nat /\ \A n \in 1 .. Len(Lines) : Lines[n] \in FileLines
    BY <1>1, LenProperties, ElementOfSeq
<1>3. AreBranches(Branches, Lines)
    BY <1>2, BranchesDefined DEF Branches
<1>4. Branches \in {BranchesOf(file.lines)}
    BY DEF Branches, Lines
<1>5. \A n \in 1 .. Len(file.lines) :
          file.lines[n].kind = "else" => Branches[n - 1] # <<>>
    BY <1>4, BranchesAssumption
<1> QED BY <1>2, <1>3, <1>5 DEF Lines

LEMMA CanonAt ==
    ASSUME file \in IncludingFiles, NEW n \in 1 .. Len(Lines), Lines[n].kind = "include"
    PROVE  CanonOf(n) \in Nat /\ CanonOf(n) > 0
<1>1. \E i \in 1 .. Len(Sorted) : Sorted[i] = Canonical(Lines[n].of)
    BY FilesAssumption DEF Lines
<1>2. CanonOf(n) \in 1 .. Len(Sorted)
    BY <1>1 DEF CanonOf, CanonicalizeAlphabeticalOrder
<1> QED BY <1>2

Mine   == {"likely_my", "possible_my"}
System == {"c_sys", "cpp_sys", "other_sys"}

LEMMA TypeAt ==
    ASSUME NEW n
    PROVE  Type(n) \in Mine \cup System \cup {"other"}
<1> DEFINE f == file  p == Lines[n].of  a == Lines[n].angle
<1> HIDE DEF f, p, a
<1>1. ClassifyInclude(f, p, a) \in Mine \cup System \cup {"other"}
    BY DEF ClassifyInclude, Mine, System
<1> QED BY <1>1 DEF Type, f, p, a

LEMMA SystemSections ==
    /\ DOMAIN SystemSection = System
    /\ \A t \in System : SystemSection[t] \in 2 .. 4
BY DEF SystemSection, System

AllMine(n, T) == IsMine(n) /\ \A k \in T : IsMine(k)

LEMMA PlaceAt ==
    ASSUME NEW n
    PROVE  /\ AllMine(n, Since(n)) => Place(n) = 1
           /\ ~AllMine(n, Since(n)) /\ Type(n) \in System => Place(n) = SystemSection[Type(n)]
           /\ ~AllMine(n, Since(n)) /\ Type(n) \notin System => Place(n) = 5
           /\ Place(n) \in 1 .. 5
<1> DEFINE t == Type(n)  all == AllMine(n, Since(n))
<1>1. Place(n) = CASE all -> 1
                   [] t \in System -> SystemSection[t]
                   [] OTHER -> 5
    BY SystemSections DEF Place, AllMine, MY_H_SECTION, OTHER_H_SECTION
<1>2. all => t \in Mine
    BY DEF AllMine, IsMine, Mine
<1>3. t \in Mine => t \notin System
    BY DEF Mine, System
<1> HIDE DEF t, all
<1>4. /\ all => Place(n) = 1
      /\ ~all /\ t \in System => Place(n) = SystemSection[t]
      /\ ~all /\ t \notin System => Place(n) = 5
    BY <1>1, <1>2, <1>3
<1>5. Place(n) \in 1 .. 5
    BY <1>4, SystemSections
<1> QED BY <1>4, <1>5 DEF t, all

(* Those that are not the file's own have the place of their class.        *)
LEMMA PlaceOfType ==
    ASSUME NEW n, NEW m, ~IsMine(n), Type(m) = Type(n)
    PROVE  Place(m) = Place(n)
<1>1. ~IsMine(m)
    BY DEF IsMine
<1>2. ~AllMine(n, Since(n)) /\ ~AllMine(m, Since(m))
    BY <1>1 DEF AllMine
<1> QED BY <1>2, PlaceAt

(* The section of the code is the place of the property.                   *)
LEMMA SectionIsPlace ==
    ASSUME includes \in IncludeStates, SectionKept, NEW n, Since(n) = Recent,
           \A k \in Recent : Since(k) \subseteq Recent
    PROVE  SectionOf(includes, Type(n)) = Place(n)
<1> DEFINE s == includes.section  t == Type(n)
<1>1. s \in 0 .. 5 /\ (\A k \in Recent : Place(k) <= s)
      /\ (s # 0 => \E k \in Recent : Place(k) = s)
    BY DEF SectionKept, IncludeStates, INITIAL_SECTION, OTHER_H_SECTION
<1>2. SectionOf(includes, t) =
          CASE t \in System -> SystemSection[t]
            [] t \in Mine /\ s <= 1 -> 1
            [] OTHER -> 5
    BY SystemSections DEF SectionOf, MY_H_SECTION, OTHER_H_SECTION, Mine
<1>3. t \in Mine <=> IsMine(n)
    BY DEF IsMine, Mine
<1>4. t \in Mine => t \notin System
    BY DEF Mine, System
<1>5. ASSUME s <= 1, NEW k \in Recent PROVE IsMine(k)
    <2>1. Place(k) <= 1 /\ Place(k) \in 1 .. 5
        BY <1>1, <1>5, PlaceAt
    <2> SUFFICES ASSUME ~IsMine(k) PROVE FALSE
        OBVIOUS
    <2>2. ~AllMine(k, Since(k))
        BY DEF AllMine
    <2>3. Place(k) \in 2 .. 5
        BY <2>2, PlaceAt, SystemSections
    <2> QED BY <2>1, <2>3
<1>6. ASSUME \A k \in Recent : IsMine(k) PROVE s <= 1
    <2> SUFFICES ASSUME s # 0 PROVE s = 1
        BY <1>1
    <2>1. PICK k \in Recent : Place(k) = s
        BY <1>1
    <2>2. AllMine(k, Since(k))
        BY <1>6 DEF AllMine
    <2> QED BY <2>1, <2>2, PlaceAt
<1>7. AllMine(n, Since(n)) <=> t \in Mine /\ s <= 1
    BY <1>3, <1>5, <1>6 DEF AllMine
<1> HIDE DEF s, t
<1>8. CASE t \in System
    BY <1>2, <1>4, <1>7, <1>8, PlaceAt DEF t
<1>9. CASE t \notin System /\ t \in Mine /\ s <= 1
    BY <1>2, <1>7, <1>9, PlaceAt DEF t
<1>10. CASE t \notin System /\ ~(t \in Mine /\ s <= 1)
    BY <1>2, <1>7, <1>10, PlaceAt DEF t
<1> QED BY <1>8, <1>9, <1>10 DEF t

-----------------------------------------------------------------------------
(* What one more line leaves as it was.                                    *)
Raised == {"subdir", "duplicate", "other package", "order", "alpha"}

IsDirective(n) == Lines[n].kind \in {"if", "else", "endif"}

NewLine ==
    /\ phase = "lines" /\ phase' = phase
    /\ linenum < Len(Lines)
    /\ linenum' = linenum + 1
    /\ file' = file
    /\ errors \subseteq errors'
    /\ \A e \in errors' : e \in errors \/ (e[1] = linenum + 1 /\ e[2] \in Raised)

LEMMA SameFile ==
    ASSUME file' = file
    PROVE  /\ Lines' = Lines /\ Branches' = Branches
           /\ \A n : Type(n)' = Type(n) /\ (IsMine(n)' <=> IsMine(n)) /\ CanonOf(n)' = CanonOf(n)
           /\ \A p : Counts(p)' <=> Counts(p)
           /\ \A n : IsDirective(n)' <=> IsDirective(n)
BY DEF Lines, Branches, Type, IsMine, CanonOf, Counts, OfOtherPackage, IsOfThisFile,
       RepositoryName, IsDirective

LEMMA AcceptedIncluded ==
    Accepted \subseteq Included
BY DEF Accepted

LEMMA NewLineNumbers ==
    ASSUME IncludesInv, NewLine
    PROVE  /\ linenum \in Nat /\ linenum + 1 \in 1 .. Len(Lines) /\ Len(Lines) \in Nat
           /\ Included \subseteq 1 .. linenum
           /\ \A k \in Included' : k \in Included \/ k = linenum + 1
           /\ Included \subseteq Included'
           /\ linenum + 1 \in Included' <=> Lines[linenum + 1].kind = "include"
<1>1. file \in IncludingFiles /\ linenum \in 0 .. Len(Lines)
    BY DEF IncludesInv
<1>2. Len(Lines) \in Nat
    BY <1>1, FileFacts
<1>3. Lines' = Lines
    BY SameFile DEF NewLine
<1> QED BY <1>1, <1>2, <1>3 DEF NewLine, Included

(* Of the lines before, the same is known as before.                       *)
LEMMA EarlierAccepted ==
    ASSUME IncludesInv, NewLine
    PROVE  /\ \A k \in 1 .. linenum : k \in Accepted' <=> k \in Accepted
           /\ \A k \in Accepted' : k \in Accepted \/ k = linenum + 1
           /\ \A k \in 1 .. linenum, w \in {"order", "alpha"} :
                 <<k, w>> \in errors' <=> <<k, w>> \in errors
           /\ \A k \in 1 .. linenum : Clean(k)' <=> Clean(k)
<1>1. /\ linenum \in Nat /\ linenum + 1 \in 1 .. Len(Lines) /\ Len(Lines) \in Nat
      /\ Included \subseteq 1 .. linenum
      /\ \A k \in Included' : k \in Included \/ k = linenum + 1
      /\ Included \subseteq Included'
    BY NewLineNumbers
<1>2. Lines' = Lines /\ \A p : Counts(p)' <=> Counts(p)
    BY SameFile DEF NewLine
<1>3. errors \subseteq errors'
    BY DEF NewLine
<1>4. ASSUME NEW k \in 1 .. linenum, NEW e \in errors', e[1] = k
      PROVE  e \in errors
    <2>1. k # linenum + 1
        BY <1>1
    <2> QED BY <1>4, <2>1 DEF NewLine
<1>5. ASSUME NEW k \in 1 .. linenum
      PROVE  k \in Accepted' <=> k \in Accepted
    <2>1. k \in Included' <=> k \in Included
        <3>1. k # linenum + 1
            BY <1>1
        <3> QED BY <1>1, <3>1
    <2>2. (\A e \in errors' : ~(e[1] = k /\ e[2] = "duplicate"))
              <=> (\A e \in errors : ~(e[1] = k /\ e[2] = "duplicate"))
        BY <1>3, <1>4
    <2> QED BY <1>2, <2>1, <2>2 DEF Accepted
<1>6. ASSUME NEW k \in Accepted', k # linenum + 1
      PROVE  k \in Accepted
    <2>1. k \in Included'
        BY <1>6 DEF Accepted
    <2>2. k \in 1 .. linenum
        BY <1>1, <1>6, <2>1
    <2> QED BY <1>5, <1>6, <2>2
<1>7. ASSUME NEW k \in 1 .. linenum, NEW w
      PROVE  <<k, w>> \in errors' <=> <<k, w>> \in errors
    <2>1. <<k, w>>[1] = k
        OBVIOUS
    <2> QED BY <1>3, <1>4, <2>1
<1>8. ASSUME NEW k \in 1 .. linenum
      PROVE  Clean(k)' <=> Clean(k)
    <2>1. (\A e \in errors' : e[1] = k => e[2] = "subdir")
              <=> (\A e \in errors : e[1] = k => e[2] = "subdir")
        BY <1>3, <1>4
    <2> QED BY <1>5, <2>1 DEF Clean
<1> QED BY <1>5, <1>6, <1>7, <1>8

LEMMA EarlierPlaces ==
    ASSUME IncludesInv, NewLine
    PROVE  \A n \in 1 .. linenum + 1 : Since(n)' = Since(n) /\ Place(n)' = Place(n)
<1>1. /\ linenum \in Nat
      /\ Included \subseteq 1 .. linenum
    BY NewLineNumbers
<1>2. /\ Lines' = Lines
      /\ \A n : Type(n)' = Type(n) /\ (IsMine(n)' <=> IsMine(n))
    BY SameFile DEF NewLine
<1>3. /\ \A k \in 1 .. linenum : k \in Accepted' <=> k \in Accepted
      /\ \A k \in Accepted' : k \in Accepted \/ k = linenum + 1
    BY EarlierAccepted
<1>4. Accepted \subseteq 1 .. linenum
    BY <1>1, AcceptedIncluded
<1> SUFFICES ASSUME NEW n \in 1 .. linenum + 1
             PROVE  Since(n)' = Since(n) /\ Place(n)' = Place(n)
    OBVIOUS
<1>5. ASSUME NEW k, k < n
      PROVE  k \in Accepted' <=> k \in Accepted
    <2>1. k \in Accepted' => k # linenum + 1
        BY <1>1, <1>5
    <2> QED BY <1>3, <1>4, <2>1
<1>6. Since(n)' = Since(n)
    <2>1. Since(n)' = {k \in Accepted' :
              k < n /\ \A j \in k .. n : Lines'[j].kind \notin {"if", "else", "endif"}}
        BY DEF Since
    <2> QED BY <1>2, <1>5, <2>1 DEF Since
<1>7. Place(n)' = Place(n)
    BY <1>2, <1>6 DEF Place
<1> QED BY <1>6, <1>7

LEMMA RecentLines ==
    ASSUME IncludesInv, NewLine
    PROVE  /\ Recent \subseteq Accepted /\ Accepted \subseteq 1 .. linenum
           /\ \A k \in Recent : Since(k) \subseteq Recent
           /\ \A k \in Recent, j \in Recent : j < k => j \in Since(k)
           /\ ~IsDirective(linenum + 1) => Since(linenum + 1) = Recent
           /\ IsDirective(linenum + 1) => Recent' = {}
           /\ ~IsDirective(linenum + 1) =>
                 Recent' = Recent \cup (Accepted' \cap {linenum + 1})
<1> DEFINE n == linenum + 1
<1>1. /\ linenum \in Nat /\ n \in Nat
      /\ Included \subseteq 1 .. linenum
      /\ linenum' = n
    BY NewLineNumbers DEF NewLine
<1>2. Lines' = Lines
    BY SameFile DEF NewLine
<1>3. /\ \A k \in 1 .. linenum : k \in Accepted' <=> k \in Accepted
      /\ \A k \in Accepted' : k \in Accepted \/ k = n
    BY EarlierAccepted
<1>4. Recent \subseteq Accepted /\ Accepted \subseteq 1 .. linenum
    BY <1>1, AcceptedIncluded DEF Recent
<1>5. ASSUME NEW k \in Recent PROVE Since(k) \subseteq Recent
    <2> SUFFICES ASSUME NEW j \in Since(k) PROVE j \in Recent
        OBVIOUS
    <2>1. /\ j \in Accepted /\ j < k
          /\ \A i \in j .. k : Lines[i].kind \notin {"if", "else", "endif"}
        BY DEF Since
    <2>2. \A i \in k .. linenum : Lines[i].kind \notin {"if", "else", "endif"}
        BY DEF Recent
    <2>3. j \in 1 .. linenum /\ k \in 1 .. linenum
        BY <1>4, <2>1
    <2>4. \A i \in j .. linenum : i \in j .. k \/ i \in k .. linenum
        BY <1>1, <2>3
    <2> QED BY <2>1, <2>2, <2>4 DEF Recent
<1>6. ASSUME NEW k \in Recent, NEW j \in Recent, j < k PROVE j \in Since(k)
    <2>1. j \in Accepted /\ \A i \in j .. linenum : Lines[i].kind \notin {"if", "else", "endif"}
        BY DEF Recent
    <2>2. j \in 1 .. linenum /\ k \in 1 .. linenum
        BY <1>4
    <2>3. \A i \in j .. k : i \in j .. linenum
        BY <1>1, <2>2
    <2> QED BY <1>6, <2>1, <2>3 DEF Since
<1>7. ASSUME NEW k \in 1 .. linenum
      PROVE  k .. n = (k .. linenum) \cup {n}
    BY <1>1
<1>8. ASSUME ~IsDirective(n) PROVE Since(n) = Recent
    <2>1. ASSUME NEW k \in Accepted
          PROVE  (k < n /\ \A j \in k .. n : Lines[j].kind \notin {"if", "else", "endif"})
                     <=> \A j \in k .. linenum : Lines[j].kind \notin {"if", "else", "endif"}
        <3>1. k \in 1 .. linenum /\ k < n
            BY <1>1, <1>4
        <3>2. k .. n = (k .. linenum) \cup {n}
            BY <1>7, <3>1
        <3> HIDE DEF n
        <3> QED BY <1>8, <3>1, <3>2 DEF IsDirective
    <2> QED BY <2>1 DEF Since, Recent
<1>9. Recent' = {k \in Accepted' :
                    \A j \in k .. n : Lines[j].kind \notin {"if", "else", "endif"}}
    BY <1>1, <1>2 DEF Recent
<1>10. ASSUME IsDirective(n) PROVE Recent' = {}
    <2>1. ASSUME NEW k \in Accepted' PROVE n \in k .. n
        <3>1. k \in 1 .. linenum \/ k = n
            BY <1>3, <1>4
        <3> QED BY <1>1, <3>1
    <2>2. Lines[n].kind \in {"if", "else", "endif"}
        BY <1>10 DEF IsDirective
    <2> HIDE DEF n
    <2> QED BY <1>9, <2>1, <2>2
<1>11. ASSUME ~IsDirective(n) PROVE Recent' = Recent \cup (Accepted' \cap {n})
    <2>1. ASSUME NEW k \in 1 .. linenum PROVE k \in Recent' <=> k \in Recent
        <3>1. k .. n = (k .. linenum) \cup {n}
            BY <1>7
        <3> HIDE DEF n
        <3> QED BY <1>3, <1>9, <1>11, <3>1 DEF IsDirective, Recent
    <2>2. n \in Recent' <=> n \in Accepted'
        <3>1. n .. n = {n}
            BY <1>1
        <3> HIDE DEF n
        <3> QED BY <1>9, <1>11, <3>1 DEF IsDirective
    <2>3. \A k \in Recent' : k \in 1 .. linenum \/ k = n
        BY <1>3, <1>4, <1>9
    <2>4. n \notin Recent
        BY <1>1, <1>4
    <2> HIDE DEF n
    <2> QED BY <1>4, <2>1, <2>2, <2>3, <2>4
<1> QED BY <1>4, <1>5, <1>6, <1>8, <1>10, <1>11

-----------------------------------------------------------------------------
(* What CheckIncludeLine raises of an include, and when it records it.     *)
Earlier(n) == FindHeader(includes, Lines[n].of)

Recording(n) == Earlier(n) = {} /\ Counts(Lines[n].of)

Checked(n) == CheckIncludeLine(file, n, includes)

LEMMA MaxOfTwo ==
    ASSUME NEW a \in Nat, NEW b \in Nat
    PROVE  Max({a, b}) = IF a >= b THEN a ELSE b
<1>1. {a, b} \subseteq 0 .. a + b
    OBVIOUS
<1>2. Max({a, b}) \in {a, b} /\ \A x \in {a, b} : x <= Max({a, b})
    BY <1>1, LargestOf
<1> QED BY <1>2

Pushed(n) ==
    [includes.lists EXCEPT
        ![Len(includes.lists)] = Append(@, [of |-> Lines[n].of, line |-> n])]

Section(n) == SectionOf(includes, Type(n))

Unsorted(n) ==
    /\ Section(n) = includes.section
    /\ includes.last > CanonOf(n)
    /\ n > 1
    /\ Lines[n - 1].kind = "include"

LEMMA SectionAt ==
    ASSUME NEW n
    PROVE  Section(n) \in 1 .. 5
<1>1. Section(n) = CASE Type(n) \in System -> SystemSection[Type(n)]
                     [] Type(n) \in Mine /\ includes.section <= 1 -> 1
                     [] OTHER -> 5
    BY SystemSections DEF Section, SectionOf, MY_H_SECTION, OTHER_H_SECTION, Mine
<1>2. Type(n) \in System => ~(Type(n) \in Mine)
    BY DEF System, Mine
<1> QED BY <1>1, <1>2, SystemSections

LEMMA RecordedAt ==
    ASSUME includes \in IncludeStates, NEW n \in Nat, CanonOf(n) \in Nat
    PROVE  /\ Recorded(file, n, includes).state =
                 [lists   |-> Pushed(n),
                  section |-> IF Section(n) >= includes.section
                              THEN Section(n) ELSE includes.section,
                  last    |-> CanonOf(n)]
           /\ Recorded(file, n, includes).errors =
                 (IF Section(n) >= includes.section THEN {} ELSE {<<n, "order">>})
                    \cup IF Unsorted(n) THEN {<<n, "alpha">>} ELSE {}
<1> DEFINE s == includes
           t == Type(n)
           p == Lines[n].of
           entered == [s EXCEPT !.lists[Len(s.lists)] = Append(@, [of |-> p, line |-> n])]
           order == CheckNextIncludeOrder(entered, t)
           place == CanonOf(n)
           sec == Section(n)
<1>1. s = [lists |-> s.lists, section |-> s.section, last |-> s.last]
    BY DEF IncludeStates
<1>2. s.section \in Nat /\ s.last \in Nat /\ sec \in Nat
    <2>1. s.section \in 0 .. 5 /\ s.last \in Nat
        BY DEF IncludeStates, INITIAL_SECTION, OTHER_H_SECTION
    <2>2. sec \in 1 .. 5
        BY SectionAt
    <2> QED BY <2>1, <2>2
<1>3. entered = [lists |-> Pushed(n), section |-> s.section, last |-> s.last]
    <2> DEFINE one == [of |-> p, line |-> n]
               lists == s.lists
    <2>1. entered = [s EXCEPT !.lists = [lists EXCEPT ![Len(lists)] = Append(@, one)]]
        OBVIOUS
    <2>2. Pushed(n) = [lists EXCEPT ![Len(lists)] = Append(@, one)]
        BY DEF Pushed
    <2> HIDE DEF s, lists, entered, one
    <2> QED BY <1>1, <2>1, <2>2
<1> HIDE DEF entered
<1>4. SectionOf(entered, t) = sec
    BY <1>3 DEF SectionOf, Section
<1>5. order = [inOrder |-> sec >= s.section,
               state   |-> [entered EXCEPT !.section = Max({sec, s.section}),
                                           !.last = IF sec = s.section THEN @ ELSE 0]]
    BY <1>3, <1>4 DEF CheckNextIncludeOrder
<1> HIDE DEF order, sec
<1>6. order.state = [lists   |-> Pushed(n),
                     section |-> Max({sec, s.section}),
                     last    |-> IF sec = s.section THEN s.last ELSE 0]
    BY <1>3, <1>5
<1>7. Max({sec, s.section}) = IF sec >= s.section THEN sec ELSE s.section
    BY <1>2, MaxOfTwo
<1>8. Recorded(file, n, s) =
          [state  |-> [order.state EXCEPT !.last = place],
           errors |-> (IF order.inOrder THEN {} ELSE {<<n, "order">>})
                        \cup IF IsInAlphabeticalOrder(order.state, Lines, n, place)
                             THEN {} ELSE {<<n, "alpha">>}]
    BY DEF Recorded, Lines, Type, CanonOf, order, entered
<1>9. IsInAlphabeticalOrder(order.state, Lines, n, place) <=> ~Unsorted(n)
    <2>1. IsInAlphabeticalOrder(order.state, Lines, n, place) <=>
              ~((IF sec = s.section THEN s.last ELSE 0) > place
                  /\ n > 1 /\ Lines[n - 1].kind = "include")
        BY <1>6 DEF IsInAlphabeticalOrder
    <2> QED BY <1>2, <2>1 DEF Unsorted, sec
<1>10. order.inOrder <=> sec >= s.section
    BY <1>5
<1> HIDE DEF s, place
<1>11. Recorded(file, n, s).state = [order.state EXCEPT !.last = place]
    BY <1>8
<1>12. Recorded(file, n, s).errors =
          (IF order.inOrder THEN {} ELSE {<<n, "order">>})
             \cup IF IsInAlphabeticalOrder(order.state, Lines, n, place)
                  THEN {} ELSE {<<n, "alpha">>}
    BY <1>8
<1>13. Recorded(file, n, s).errors =
          (IF sec >= s.section THEN {} ELSE {<<n, "order">>})
             \cup IF Unsorted(n) THEN {<<n, "alpha">>} ELSE {}
    BY <1>9, <1>10, <1>12
<1>14. Recorded(file, n, s).state =
          [lists   |-> Pushed(n),
           section |-> IF sec >= s.section THEN sec ELSE s.section,
           last    |-> place]
    BY <1>6, <1>7, <1>11
<1> QED BY <1>13, <1>14 DEF s, place, sec

RecordedState(n) ==
    [lists   |-> Pushed(n),
     section |-> IF Section(n) >= includes.section
                 THEN Section(n) ELSE includes.section,
     last    |-> CanonOf(n)]

LEMMA CheckedAt ==
    ASSUME includes \in IncludeStates, NEW n \in Nat, CanonOf(n) \in Nat
    PROVE  /\ Recording(n) => Checked(n).state = RecordedState(n)
           /\ ~Recording(n) => Checked(n).state = includes
           /\ \A e \in Checked(n).errors :
                 /\ e[1] = n /\ e[2] \in Raised
                 /\ e[2] = "duplicate" => Earlier(n) # {} /\ e[3] = Min(Earlier(n))
           /\ Earlier(n) # {} => <<n, "duplicate", Min(Earlier(n))>> \in Checked(n).errors
           /\ <<n, "order">> \in Checked(n).errors <=>
                 Recording(n) /\ ~(Section(n) >= includes.section)
           /\ <<n, "alpha">> \in Checked(n).errors <=> Recording(n) /\ Unsorted(n)
<1> DEFINE line     == Lines[n]
           subdir   == IF WithoutDirectory(line) THEN {<<n, "subdir">>} ELSE {}
           earlier  == Earlier(n)
           other    == OfOtherPackage(file, line.of)
           third    == IsThirdParty(line.of) => IsOfThisFile(file, line.of)
           first    == Min(earlier)
           recorded == Recorded(file, n, includes)
           order    == IF Section(n) >= includes.section THEN {} ELSE {<<n, "order">>}
           alpha    == IF Unsorted(n) THEN {<<n, "alpha">>} ELSE {}
           checked  == Checked(n)
<1>1. checked =
          CASE earlier # {} ->
                 [state |-> includes, errors |-> subdir \cup {<<n, "duplicate", first>>}]
            [] earlier = {} /\ other ->
                 [state |-> includes, errors |-> subdir \cup {<<n, "other package">>}]
            [] earlier = {} /\ ~other /\ third ->
                 [state |-> recorded.state, errors |-> subdir \cup recorded.errors]
            [] OTHER -> [state |-> includes, errors |-> subdir]
    BY DEF Checked, CheckIncludeLine, Earlier, Lines
<1>2. Recording(n) <=> earlier = {} /\ ~other /\ third
    BY DEF Recording, Counts
<1>3. recorded.state = RecordedState(n) /\ recorded.errors = order \cup alpha
    BY RecordedAt DEF RecordedState
<1> DEFINE d == <<n, "duplicate", first>>  p == <<n, "other package">>
           o == <<n, "order">>  a == <<n, "alpha">>
<1>4. /\ \A e \in subdir : e[1] = n /\ e[2] = "subdir"
      /\ d[1] = n /\ d[2] = "duplicate" /\ d[3] = first
      /\ p[1] = n /\ p[2] = "other package"
      /\ o[1] = n /\ o[2] = "order" /\ a[1] = n /\ a[2] = "alpha"
    <2>1. d[1] = n /\ d[2] = "duplicate" /\ d[3] = first
        OBVIOUS
    <2>2. \A e \in subdir : e = <<n, "subdir">>
        OBVIOUS
    <2> HIDE DEF subdir, d
    <2> QED BY <2>1, <2>2
<1>5. order = (IF Section(n) >= includes.section THEN {} ELSE {o})
    OBVIOUS
<1>6. alpha = IF Unsorted(n) THEN {a} ELSE {}
    OBVIOUS
<1> DEFINE Right(c) ==
               /\ \A e \in c.errors :
                     /\ e[1] = n /\ e[2] \in Raised
                     /\ e[2] = "duplicate" => earlier # {} /\ e[3] = first
               /\ earlier # {} => d \in c.errors
               /\ o \in c.errors <=> Recording(n) /\ ~(Section(n) >= includes.section)
               /\ a \in c.errors <=> Recording(n) /\ Unsorted(n)
               /\ Recording(n) => c.state = RecordedState(n)
               /\ ~Recording(n) => c.state = includes
<1> SUFFICES Right(checked)
    OBVIOUS
<1> HIDE DEF subdir, earlier, other, third, first, recorded, checked, line, d, p, o, a,
             order, alpha
<1>7. CASE earlier # {}
    <2>1. checked.state = includes /\ checked.errors = subdir \cup {d}
        BY <1>1, <1>7 DEF d
    <2>2. ~Recording(n)
        BY <1>2, <1>7
    <2> QED BY <1>4, <1>7, <2>1, <2>2 DEF Raised
<1>8. CASE earlier = {} /\ other
    <2>1. checked.state = includes /\ checked.errors = subdir \cup {p}
        BY <1>1, <1>8 DEF p
    <2>2. ~Recording(n)
        BY <1>2, <1>8
    <2> QED BY <1>4, <1>8, <2>1, <2>2 DEF Raised
<1>9. CASE earlier = {} /\ ~other /\ third
    <2>1. checked.state = recorded.state /\ checked.errors = subdir \cup (order \cup alpha)
        BY <1>1, <1>3, <1>9
    <2>2. Recording(n)
        BY <1>2, <1>9
    <2> QED BY <1>3, <1>4, <1>5, <1>6, <1>9, <2>1, <2>2 DEF Raised
<1>10. CASE earlier = {} /\ ~other /\ ~third
    <2>1. checked.state = includes /\ checked.errors = subdir
        BY <1>1, <1>10
    <2>2. ~Recording(n)
        BY <1>2, <1>10
    <2> QED BY <1>4, <1>10, <2>1, <2>2 DEF Raised
<1> QED BY <1>7, <1>8, <1>9, <1>10

(* An Include step.                                                        *)
LEMMA IncludeAt ==
    ASSUME IncludesInv, Include, NEW n, n = linenum + 1
    PROVE  /\ NewLine /\ ~IsDirective(n) /\ Lines[n].kind = "include"
           /\ n \in Nat /\ n \in 1 .. Len(Lines)
           /\ CanonOf(n) \in Nat /\ CanonOf(n) > 0
           /\ Recording(n) => includes' = RecordedState(n)
           /\ ~Recording(n) => includes' = includes
           /\ \A e \in errors' : e \in errors \/ e[1] = n
           /\ \A e \in errors' : e[1] = n /\ e[2] = "duplicate" =>
                 Earlier(n) # {} /\ e[3] = Min(Earlier(n))
           /\ Earlier(n) # {} => <<n, "duplicate", Min(Earlier(n))>> \in errors'
           /\ <<n, "order">> \in errors' <=>
                 Recording(n) /\ ~(Section(n) >= includes.section)
           /\ <<n, "alpha">> \in errors' <=> Recording(n) /\ Unsorted(n)
           /\ n \in Accepted' <=> Recording(n)
<1>1. /\ phase = "lines" /\ phase' = phase /\ linenum < Len(Lines)
      /\ Lines[n].kind = "include" /\ linenum' = n /\ file' = file
    BY DEF Include, At, Lines
<1>2. includes' = Checked(n).state /\ errors' = errors \cup Checked(n).errors
    BY DEF Include, Checked
<1>3. /\ file \in IncludingFiles /\ linenum \in 0 .. Len(Lines)
      /\ includes \in IncludeStates /\ ErrorsKept
    BY DEF IncludesInv
<1>4. n \in Nat /\ n \in 1 .. Len(Lines) /\ linenum \in Nat /\ ~(n \in 1 .. linenum)
    BY <1>1, <1>3, FileFacts
<1>5. CanonOf(n) \in Nat /\ CanonOf(n) > 0
    BY <1>1, <1>3, <1>4, CanonAt
<1>6. /\ Recording(n) => Checked(n).state = RecordedState(n)
      /\ ~Recording(n) => Checked(n).state = includes
      /\ \A e \in Checked(n).errors :
            /\ e[1] = n /\ e[2] \in Raised
            /\ e[2] = "duplicate" => Earlier(n) # {} /\ e[3] = Min(Earlier(n))
      /\ Earlier(n) # {} => <<n, "duplicate", Min(Earlier(n))>> \in Checked(n).errors
      /\ <<n, "order">> \in Checked(n).errors <=>
            Recording(n) /\ ~(Section(n) >= includes.section)
      /\ <<n, "alpha">> \in Checked(n).errors <=> Recording(n) /\ Unsorted(n)
    BY <1>3, <1>4, <1>5, CheckedAt
<1>7. ~IsDirective(n)
    BY <1>1 DEF IsDirective
<1>8. NewLine
    <2>1. ASSUME NEW e \in errors', e \notin errors
          PROVE  e[1] = n /\ e[2] \in Raised
        <3>1. e \in Checked(n).errors
            BY <1>2, <2>1
        <3> QED BY <1>6, <3>1
    <2>2. errors \subseteq errors'
        BY <1>2
    <2>3. phase = "lines" /\ phase' = phase /\ linenum < Len(Lines)
          /\ linenum' = linenum + 1 /\ file' = file
        BY <1>1
    <2> QED BY <2>1, <2>2, <2>3 DEF NewLine
<1>9. ASSUME NEW e \in errors PROVE ~(e[1] = n /\ e[2] \in Raised)
    <2>1. e[2] \in Raised => e[2] \notin {"missing", "own header"}
        BY DEF Raised
    <2> QED BY <1>3, <1>4, <2>1 DEF ErrorsKept
<1>10. <<n, "order">> \notin errors /\ <<n, "alpha">> \notin errors
    <2>1. ASSUME NEW w \in Raised PROVE <<n, w>> \notin errors
        BY <1>9
    <2>2. "order" \in Raised /\ "alpha" \in Raised
        BY DEF Raised
    <2> QED BY <2>1, <2>2
<1>11. ASSUME NEW e \in errors', e[1] = n, e[2] = "duplicate"
       PROVE  e \in Checked(n).errors
    <2>1. e[2] \in Raised
        BY <1>11 DEF Raised
    <2> QED BY <1>2, <1>9, <1>11, <2>1
<1>12. (\A e \in errors' : ~(e[1] = n /\ e[2] = "duplicate")) <=> Earlier(n) = {}
    <2>1. Earlier(n) # {} => \E e \in errors' : e[1] = n /\ e[2] = "duplicate"
        <3> DEFINE e == <<n, "duplicate", Min(Earlier(n))>>
        <3>1. Earlier(n) # {} => e \in errors'
            BY <1>2, <1>6
        <3>2. e[1] = n /\ e[2] = "duplicate"
            OBVIOUS
        <3> QED BY <3>1, <3>2
    <2> QED BY <1>6, <1>11, <2>1
<1>13. n \in Accepted' <=> Recording(n)
    <2>1. n \in Included'
        BY <1>1, <1>8, NewLineNumbers
    <2>2. Lines' = Lines /\ \A p : Counts(p)' <=> Counts(p)
        BY <1>1, SameFile
    <2> QED BY <1>12, <2>1, <2>2 DEF Accepted, Recording
<1> QED BY <1>1, <1>2, <1>4, <1>5, <1>6, <1>7, <1>8, <1>10, <1>11, <1>13

-----------------------------------------------------------------------------
(* The order of the includes.                                              *)
OrderOk(n) == <<n, "order">> \in errors <=> \E k \in Since(n) : Place(k) > Place(n)

LEMMA OrderStep ==
    ASSUME IncludesInv, OrderFollowsSections, Include
    PROVE  OrderFollowsSections'
<1> DEFINE n == linenum + 1
<1>1. /\ NewLine /\ ~IsDirective(n) /\ n \in Nat
      /\ <<n, "order">> \in errors' <=>
            Recording(n) /\ ~(Section(n) >= includes.section)
      /\ n \in Accepted' <=> Recording(n)
    BY IncludeAt
<1>2. /\ \A k \in 1 .. linenum : k \in Accepted' <=> k \in Accepted
      /\ \A k \in Accepted' : k \in Accepted \/ k = n
      /\ \A k \in 1 .. linenum, w \in {"order", "alpha"} :
            <<k, w>> \in errors' <=> <<k, w>> \in errors
    BY <1>1, EarlierAccepted
<1>3. \A k \in 1 .. n : Since(k)' = Since(k) /\ Place(k)' = Place(k)
    BY <1>1, EarlierPlaces
<1>4. /\ Recent \subseteq Accepted /\ Accepted \subseteq 1 .. linenum
      /\ \A k \in Recent : Since(k) \subseteq Recent
      /\ Since(n) = Recent
    BY <1>1, RecentLines
<1>5. linenum \in Nat /\ n \in 1 .. n /\ 1 .. linenum \subseteq 1 .. n
    BY <1>1, NewLineNumbers
<1>6. includes \in IncludeStates /\ SectionKept
    BY DEF IncludesInv, OrderKept
<1>7. Section(n) = Place(n)
    BY <1>4, <1>6, SectionIsPlace DEF Section
<1>8. Place(n) \in 1 .. 5 /\ includes.section \in 0 .. 5
    BY <1>6, PlaceAt DEF IncludeStates, INITIAL_SECTION, OTHER_H_SECTION
<1> HIDE DEF n
<1>9. (\E k \in Recent : Place(k) > Place(n)) <=> ~(Place(n) >= includes.section)
    <2>1. ASSUME NEW k \in Recent, Place(k) > Place(n)
          PROVE  ~(Place(n) >= includes.section)
        <3>1. Place(k) <= includes.section /\ Place(k) \in 1 .. 5
            BY <1>6, PlaceAt DEF SectionKept
        <3> QED BY <1>8, <2>1, <3>1
    <2>2. ASSUME ~(Place(n) >= includes.section)
          PROVE  \E k \in Recent : Place(k) > Place(n)
        <3>1. includes.section # INITIAL_SECTION
            BY <1>8, <2>2 DEF INITIAL_SECTION
        <3>2. PICK k \in Recent : Place(k) = includes.section
            BY <1>6, <3>1 DEF SectionKept
        <3> QED BY <1>8, <2>2, <3>2
    <2> QED BY <2>1, <2>2
<1>10. SUFFICES ASSUME NEW m \in Accepted' PROVE OrderOk(m)'
    BY DEF OrderFollowsSections, OrderOk
<1>11. CASE m = n
    <2>1. <<n, "order">> \in errors' <=> \E k \in Since(n) : Place(k) > Place(n)
        BY <1>1, <1>4, <1>7, <1>9, <1>10, <1>11
    <2>2. \A k \in Since(n) : Place(k)' = Place(k)
        BY <1>3, <1>4, <1>5
    <2> QED BY <1>3, <1>5, <1>11, <2>1, <2>2 DEF OrderOk
<1>12. CASE m # n
    <2>1. m \in Accepted /\ m \in 1 .. linenum
        BY <1>2, <1>4, <1>12
    <2>2. OrderOk(m)
        BY <2>1 DEF OrderFollowsSections, OrderOk
    <2>3. <<m, "order">> \in errors' <=> <<m, "order">> \in errors
        BY <1>2, <2>1
    <2>4. Since(m) \subseteq 1 .. n
        BY <1>4, <1>5 DEF Since
    <2>5. /\ Since(m)' = Since(m) /\ Place(m)' = Place(m)
          /\ \A k \in Since(m) : Place(k)' = Place(k)
        BY <1>3, <1>5, <2>1, <2>4
    <2> QED BY <2>2, <2>3, <2>5 DEF OrderOk
<1> QED BY <1>11, <1>12

LEMMA IncludeOrder ==
    ASSUME IncludesInv, Include, NEW n, n = linenum + 1
    PROVE  /\ Section(n) = Place(n)
           /\ Place(n) \in 1 .. 5 /\ includes.section \in 0 .. 5 /\ includes.last \in Nat
           /\ Since(n) = Recent
           /\ Recent \subseteq 1 .. linenum
           /\ Recent' = IF Recording(n) THEN Recent \cup {n} ELSE Recent
           /\ \A k \in 1 .. n : Since(k)' = Since(k) /\ Place(k)' = Place(k)
           /\ \A k : CanonOf(k)' = CanonOf(k)
           /\ linenum \in Nat /\ n \in Nat /\ n \in 1 .. n /\ 1 .. linenum \subseteq 1 .. n
<1>1. /\ NewLine /\ ~IsDirective(n) /\ n \in Nat
      /\ n \in Accepted' <=> Recording(n)
    BY IncludeAt
<1>2. includes \in IncludeStates /\ SectionKept
    BY DEF IncludesInv, OrderKept
<1>3. /\ Recent \subseteq 1 .. linenum
      /\ \A k \in Recent : Since(k) \subseteq Recent
      /\ Since(n) = Recent
      /\ Recent' = Recent \cup (Accepted' \cap {n})
    BY <1>1, RecentLines
<1>4. Section(n) = Place(n)
    BY <1>2, <1>3, SectionIsPlace DEF Section
<1>5. Place(n) \in 1 .. 5 /\ includes.section \in 0 .. 5 /\ includes.last \in Nat
    BY <1>2, PlaceAt DEF IncludeStates, INITIAL_SECTION, OTHER_H_SECTION
<1>6. \A k \in 1 .. n : Since(k)' = Since(k) /\ Place(k)' = Place(k)
    BY <1>1, EarlierPlaces
<1>7. \A k : CanonOf(k)' = CanonOf(k)
    BY <1>1, SameFile DEF NewLine
<1>8. linenum \in Nat /\ n \in 1 .. n /\ 1 .. linenum \subseteq 1 .. n
    BY <1>1, NewLineNumbers
<1> QED BY <1>1, <1>3, <1>4, <1>5, <1>6, <1>7, <1>8

LEMMA IncludeSection ==
    ASSUME IncludesInv, Include
    PROVE  SectionKept' /\ LastKept'
<1> SUFFICES ASSUME NEW n, n = linenum + 1 PROVE SectionKept' /\ LastKept'
    OBVIOUS
<1>1. /\ Recording(n) => includes' = RecordedState(n)
      /\ ~Recording(n) => includes' = includes
      /\ CanonOf(n) > 0 /\ CanonOf(n) \in Nat
    BY IncludeAt
<1>2. /\ Section(n) = Place(n)
      /\ Place(n) \in 1 .. 5 /\ includes.section \in 0 .. 5 /\ includes.last \in Nat
      /\ Recent \subseteq 1 .. linenum
      /\ Recent' = IF Recording(n) THEN Recent \cup {n} ELSE Recent
      /\ \A k \in 1 .. n : Place(k)' = Place(k)
      /\ \A k : CanonOf(k)' = CanonOf(k)
      /\ linenum \in Nat /\ n \in Nat /\ n \in 1 .. n /\ 1 .. linenum \subseteq 1 .. n
    BY IncludeOrder
<1>3. SectionKept /\ LastKept
    BY DEF IncludesInv, OrderKept
<1>4. \A k \in Recent : k < n /\ Place(k) \in 1 .. 5 /\ Place(k)' = Place(k)
    BY <1>2, PlaceAt
<1>5. CASE ~Recording(n)
    <2>1. includes' = includes /\ Recent' = Recent
        BY <1>1, <1>2, <1>5
    <2> QED BY <1>2, <1>3, <1>4, <2>1 DEF SectionKept, LastKept
<1>6. CASE Recording(n)
    <2> DEFINE s == includes.section  p == Place(n)
    <2>1. Recent' = Recent \cup {n}
        BY <1>2, <1>6
    <2>2. includes'.section = (IF p >= s THEN p ELSE s) /\ includes'.last = CanonOf(n)
        BY <1>1, <1>2, <1>6 DEF RecordedState
    <2>3. /\ \A k \in Recent : Place(k) <= s
          /\ s # 0 => \E k \in Recent : Place(k) = s
        BY <1>3 DEF SectionKept, INITIAL_SECTION
    <2>4. Place(n)' = p
        BY <1>2
    <2> HIDE DEF s, p
    <2>5. p \in 1 .. 5 /\ s \in 0 .. 5
        BY <1>2 DEF s, p
    <2>6. \A k \in Recent' : Place(k)' <= includes'.section
        BY <1>4, <2>1, <2>2, <2>3, <2>4, <2>5
    <2>7. \E k \in Recent' : Place(k)' = includes'.section
        <3>1. CASE p >= s
            BY <2>1, <2>2, <2>4, <3>1
        <3>2. CASE ~(p >= s)
            <4>1. PICK k \in Recent : Place(k) = s
                BY <2>3, <2>5, <3>2
            <4> QED BY <1>4, <2>1, <2>2, <3>2, <4>1
        <3> QED BY <3>1, <3>2
    <2>8. ASSUME NEW k \in Recent', \A j \in Recent' : j <= k
          PROVE  includes'.last = CanonOf(k)'
        <3>1. n <= k
            BY <2>1, <2>8
        <3>2. k = n
            BY <1>4, <2>1, <3>1, <1>2
        <3> QED BY <1>2, <2>2, <3>2
    <2> QED BY <2>1, <2>6, <2>7, <2>8 DEF SectionKept, LastKept
<1> QED BY <1>5, <1>6

(* Unless something is reported, a header is sorted behind the last one.   *)
LEMMA IncludeSorted ==
    ASSUME IncludesInv, OrderFollowsSections, Include
    PROVE  SortedByPlace'
<1> SUFFICES ASSUME NEW n, n = linenum + 1 PROVE SortedByPlace'
    OBVIOUS
<1>1. /\ NewLine
      /\ n \in Accepted' <=> Recording(n)
      /\ <<n, "order">> \in errors' <=>
            Recording(n) /\ ~(Section(n) >= includes.section)
      /\ <<n, "alpha">> \in errors' <=> Recording(n) /\ Unsorted(n)
      /\ CanonOf(n) \in Nat /\ n \in Nat
    BY IncludeAt
<1>2. /\ Section(n) = Place(n)
      /\ Place(n) \in 1 .. 5 /\ includes.section \in 0 .. 5 /\ includes.last \in Nat
      /\ Recent \subseteq 1 .. linenum
      /\ \A k \in 1 .. n : Since(k)' = Since(k) /\ Place(k)' = Place(k)
      /\ \A k : CanonOf(k)' = CanonOf(k)
      /\ linenum \in Nat /\ n \in Nat /\ n \in 1 .. n /\ 1 .. linenum \subseteq 1 .. n
    BY IncludeOrder
<1>3. /\ Included \subseteq 1 .. linenum
      /\ \A k \in Included' : k \in Included \/ k = n
    BY <1>1, NewLineNumbers
<1>4. \A k \in 1 .. linenum : Clean(k)' <=> Clean(k)
    BY <1>1, EarlierAccepted
<1>5. SectionKept /\ LastKept /\ SortedByPlace /\ includes \in IncludeStates
      /\ file \in IncludingFiles
    BY DEF IncludesInv, OrderKept
<1>6. ASSUME NEW k, Clean(k)
      PROVE  /\ k \in Accepted /\ k \in Included /\ ~IsDirective(k)
             /\ <<k, "order">> \notin errors
    <2>1. k \in Accepted /\ \A e \in errors : e[1] = k => e[2] = "subdir"
        BY <1>6 DEF Clean
    <2>2. k \in Included /\ Lines[k].kind = "include"
        BY <2>1 DEF Accepted, Included
    <2>3. <<k, "order">>[1] = k /\ <<k, "order">>[2] = "order"
        OBVIOUS
    <2> QED BY <2>1, <2>2, <2>3 DEF IsDirective
<1>7. ASSUME Clean(n)'
      PROVE  Place(n) >= includes.section /\ ~Unsorted(n)
    <2>1. n \in Accepted' /\ \A e \in errors' : e[1] = n => e[2] = "subdir"
        BY <1>7 DEF Clean
    <2>2. /\ <<n, "order">>[1] = n /\ <<n, "order">>[2] = "order"
          /\ <<n, "alpha">>[1] = n /\ <<n, "alpha">>[2] = "alpha"
        OBVIOUS
    <2>3. <<n, "order">> \notin errors' /\ <<n, "alpha">> \notin errors'
        BY <2>1, <2>2
    <2> QED BY <1>1, <1>2, <2>1, <2>3
<1>8. ASSUME NEW i \in Included, \A k \in i .. linenum : Clean(k), Clean(n)',
             Place(i) = Place(n)
      PROVE  CanonOf(i) <= CanonOf(n)
    <2> DEFINE l == linenum
    <2>1. i \in 1 .. l /\ l \in i .. l /\ i \in i .. l /\ l \in 1 .. l /\ n > 1
        BY <1>2, <1>3
    <2>2. ASSUME NEW k \in i .. l PROVE k \in Recent
        <3>1. \A j \in k .. l : j \in i .. l
            BY <2>1
        <3>2. \A j \in k .. l : ~IsDirective(j)
            BY <1>6, <1>8, <3>1
        <3>3. k \in Accepted
            BY <1>6, <1>8
        <3> QED BY <3>2, <3>3 DEF Recent, IsDirective
    <2>3. includes.section = Place(n) /\ Place(l) <= includes.section
        <3>1. Place(i) <= includes.section /\ Place(l) <= includes.section
            BY <1>5, <2>1, <2>2 DEF SectionKept
        <3> QED BY <1>2, <1>7, <1>8, <3>1
    <2>4. includes.last = CanonOf(l)
        BY <1>2, <1>5, <2>1, <2>2 DEF LastKept
    <2>5. l \in Included /\ Lines[n - 1].kind = "include"
        <3>1. l \in Included
            BY <1>6, <1>8, <2>1
        <3>2. n - 1 = l
            BY <1>2
        <3> QED BY <3>1, <3>2 DEF Included
    <2>6. ~(includes.last > CanonOf(n))
        BY <1>2, <1>7, <1>8, <2>1, <2>3, <2>5 DEF Unsorted
    <2>7. CanonOf(l) <= CanonOf(n)
        BY <1>1, <1>2, <2>4, <2>6
    <2>8. CASE i = l
        BY <2>7, <2>8
    <2>9. CASE i # l
        <3>1. i < l /\ i \in Since(l)
            <4>1. i < l
                BY <1>2, <2>1, <2>9
            <4>2. i \in Accepted /\ \A j \in i .. l : ~IsDirective(j)
                BY <1>6, <1>8, <2>1
            <4> QED BY <4>1, <4>2 DEF Since, IsDirective
        <3>2. ~(Place(i) > Place(l))
            BY <1>6, <1>8, <2>1, <3>1 DEF OrderFollowsSections
        <3>3. Place(i) = Place(l)
            <4>1. Place(i) \in 1 .. 5 /\ Place(l) \in 1 .. 5
                BY PlaceAt
            <4> QED BY <1>8, <2>3, <3>2, <4>1
        <3>4. CanonOf(i) <= CanonOf(l)
            BY <1>5, <1>8, <2>5, <3>1, <3>3 DEF SortedByPlace
        <3>5. CanonOf(i) \in Nat /\ CanonOf(l) \in Nat
            <4>1. i \in 1 .. Len(Lines) /\ l \in 1 .. Len(Lines)
                BY <1>1, <1>3, <2>1, NewLineNumbers
            <4>2. Lines[i].kind = "include" /\ Lines[l].kind = "include"
                BY <2>5 DEF Included
            <4> QED BY <1>5, <4>1, <4>2, CanonAt
        <3> QED BY <1>1, <2>7, <3>4, <3>5
    <2> QED BY <2>8, <2>9
<1> SUFFICES ASSUME NEW i \in Included', NEW m \in Included',
                    i < m, \A k \in i .. m : Clean(k)', Place(i)' = Place(m)'
             PROVE  CanonOf(i)' <= CanonOf(m)'
    BY DEF SortedByPlace
<1>9. CASE m = n
    <2>1. i \in Included /\ i \in 1 .. linenum
        BY <1>2, <1>3, <1>9
    <2>2. ASSUME NEW k \in i .. linenum PROVE Clean(k)
        <3>1. k \in i .. m /\ k \in 1 .. linenum
            BY <1>2, <1>9, <2>1
        <3> QED BY <1>4, <3>1
    <2>3. Clean(n)'
        <3>1. n \in i .. n
            BY <1>2, <2>1
        <3> QED BY <1>9, <3>1
    <2>4. Place(i) = Place(n)
        BY <1>2, <1>9, <2>1
    <2> QED BY <1>2, <1>8, <1>9, <2>1, <2>2, <2>3, <2>4
<1>10. CASE m # n
    <2>1. m \in Included /\ m \in 1 .. linenum
        BY <1>3, <1>10
    <2>2. i \in 1 .. linenum
        BY <1>2, <1>3, <2>1
    <2>3. i \in Included
        BY <1>2, <1>3, <2>2
    <2>4. ASSUME NEW k \in i .. m PROVE Clean(k)
        <3>1. k \in 1 .. linenum
            BY <1>2, <2>1, <2>2
        <3> QED BY <1>4, <3>1
    <2>5. Place(i) = Place(m)
        BY <1>2, <2>1, <2>2
    <2> QED BY <1>2, <1>5, <2>1, <2>3, <2>4, <2>5 DEF SortedByPlace
<1> QED BY <1>9, <1>10

(* One that is reported as unsorted is before the last one.                *)
UnsortedOk(n) ==
    <<n, "alpha">> \in errors =>
        /\ n - 1 \in Included
        /\ Since(n) # {}
        /\ CanonOf(Max(Since(n))) > CanonOf(n)
        /\ \/ Place(Max(Since(n))) = Place(n)
           \/ <<Max(Since(n)), "order">> \in errors

LEMMA UnsortedEach ==
    ReportedIfUnsorted <=> \A n \in Included : UnsortedOk(n)
BY DEF ReportedIfUnsorted, UnsortedOk, CanonOf

LEMMA IncludeUnsorted ==
    ASSUME IncludesInv, OrderFollowsSections, ReportedIfUnsorted, Include
    PROVE  ReportedIfUnsorted'
<1> SUFFICES ASSUME NEW n, n = linenum + 1 PROVE ReportedIfUnsorted'
    OBVIOUS
<1>1. /\ NewLine
      /\ <<n, "alpha">> \in errors' <=> Recording(n) /\ Unsorted(n)
    BY IncludeAt
<1>2. /\ Section(n) = Place(n)
      /\ Place(n) \in 1 .. 5 /\ includes.section \in 0 .. 5 /\ includes.last \in Nat
      /\ Since(n) = Recent
      /\ Recent \subseteq 1 .. linenum
      /\ \A k \in 1 .. n : Since(k)' = Since(k) /\ Place(k)' = Place(k)
      /\ \A k : CanonOf(k)' = CanonOf(k)
      /\ linenum \in Nat /\ n \in Nat /\ n \in 1 .. n /\ 1 .. linenum \subseteq 1 .. n
    BY IncludeOrder
<1>3. /\ Included \subseteq 1 .. linenum
      /\ Included \subseteq Included'
      /\ \A k \in Included' : k \in Included \/ k = n
    BY <1>1, NewLineNumbers
<1>4. /\ \A k \in 1 .. linenum : <<k, "alpha">> \in errors' <=> <<k, "alpha">> \in errors
      /\ errors \subseteq errors'
    BY <1>1, EarlierAccepted DEF NewLine
<1>5. SectionKept /\ LastKept
    BY DEF IncludesInv, OrderKept
<1>6. ASSUME NEW m \in 1 .. n, Since(m) # {}
      PROVE  /\ Max(Since(m)) \in Since(m)
             /\ \A k \in Since(m) : k <= Max(Since(m))
             /\ Max(Since(m)) \in 1 .. n
             /\ Max(Since(m)) \in Accepted
    <2>1. Since(m) \subseteq Accepted
        BY DEF Since
    <2>2. Accepted \subseteq 1 .. linenum
        BY <1>3, AcceptedIncluded
    <2>3. ASSUME NEW k \in Since(m) PROVE k \in 0 .. n
        <3>1. k \in 1 .. linenum
            BY <2>1, <2>2
        <3> QED BY <1>2, <3>1
    <2>4. Max(Since(m)) \in Since(m) /\ \A k \in Since(m) : k <= Max(Since(m))
        BY <1>2, <1>6, <2>3, LargestOf
    <2> QED BY <1>2, <2>1, <2>2, <2>4
<1>7. ASSUME NEW m \in 1 .. n, UnsortedOk(m),
             <<m, "alpha">> \in errors' => <<m, "alpha">> \in errors
      PROVE  UnsortedOk(m)'
    <2> SUFFICES ASSUME <<m, "alpha">> \in errors'
                 PROVE  /\ (m - 1 \in Included)' /\ Since(m)' # {}
                        /\ CanonOf(Max(Since(m)))' > CanonOf(m)'
                        /\ \/ Place(Max(Since(m)))' = Place(m)'
                           \/ <<Max(Since(m))', "order">> \in errors'
        BY DEF UnsortedOk
    <2>1. /\ m - 1 \in Included /\ Since(m) # {}
          /\ CanonOf(Max(Since(m))) > CanonOf(m)
          /\ \/ Place(Max(Since(m))) = Place(m)
             \/ <<Max(Since(m)), "order">> \in errors
        BY <1>7 DEF UnsortedOk
    <2>2. Since(m)' = Since(m) /\ Place(m)' = Place(m)
        BY <1>2
    <2>3. Max(Since(m)') = Max(Since(m))
        BY <2>2
    <2>4. PICK k : k = Max(Since(m))
        OBVIOUS
    <2>5. k \in 1 .. n
        BY <1>6, <2>1, <2>4
    <2>6. CanonOf(Max(Since(m)))' = CanonOf(k)' /\ Place(Max(Since(m)))' = Place(k)'
        BY <2>3, <2>4
    <2>7. Place(k)' = Place(k) /\ CanonOf(k)' = CanonOf(k) /\ CanonOf(m)' = CanonOf(m)
        BY <1>2, <2>5
    <2> QED BY <1>3, <1>4, <2>1, <2>2, <2>3, <2>4, <2>6, <2>7
<1>8. ASSUME <<n, "alpha">> \in errors'
      PROVE  UnsortedOk(n)'
    <2> DEFINE s == includes.section
    <2>1. /\ Place(n) = s /\ includes.last > CanonOf(n) /\ n > 1
          /\ Lines[n - 1].kind = "include"
        BY <1>1, <1>2, <1>8 DEF Unsorted
    <2>2. n - 1 \in Included
        BY <1>2, <2>1 DEF Included
    <2>3. CanonOf(n) \in Nat
        BY IncludeAt
    <2>4. Recent # {}
        <3>1. includes.last # 0
            BY <2>1, <2>3
        <3> QED BY <1>5, <3>1 DEF LastKept
    <2>5. PICK k : k = Max(Since(n))
        OBVIOUS
    <2>6. k \in Recent /\ k \in Accepted /\ k \in 1 .. n /\ \A j \in Recent : j <= k
        BY <1>2, <1>6, <2>4, <2>5
    <2>7. includes.last = CanonOf(k)
        BY <1>5, <2>6 DEF LastKept
    <2>8. ASSUME Place(k) # Place(n) PROVE <<k, "order">> \in errors
        <3>1. Place(k) <= s /\ Place(k) \in 1 .. 5 /\ s # 0
            BY <1>2, <1>5, <2>1, <2>6, PlaceAt DEF SectionKept
        <3>2. PICK j \in Recent : Place(j) = s
            BY <1>5, <3>1 DEF SectionKept, INITIAL_SECTION
        <3>3. j # k /\ j <= k
            BY <2>1, <2>6, <2>8, <3>2
        <3>4. j \in Since(k)
            <4>1. j < k
                BY <1>2, <2>6, <3>3
            <4> QED BY <1>1, <2>6, <4>1, RecentLines
        <3>5. Place(j) > Place(k)
            BY <1>2, <2>1, <2>8, <3>1, <3>2
        <3> QED BY <2>6, <3>4, <3>5 DEF OrderFollowsSections
    <2>9. Since(n)' = Recent /\ Place(n)' = Place(n) /\ Place(k)' = Place(k)
        BY <1>2, <2>6
    <2>10. Max(Since(n)') = k
        BY <1>2, <2>5, <2>9
    <2>11. CanonOf(Max(Since(n)))' = CanonOf(k) /\ Place(Max(Since(n)))' = Place(k)
           /\ CanonOf(n)' = CanonOf(n)
        BY <1>2, <2>9, <2>10
    <2>12. n - 1 \in Included' /\ Since(n)' # {}
        BY <1>3, <2>2, <2>4, <2>9
    <2>13. CanonOf(Max(Since(n)))' > CanonOf(n)'
        BY <2>1, <2>7, <2>11
    <2>14. \/ Place(Max(Since(n)))' = Place(n)'
           \/ <<Max(Since(n))', "order">> \in errors'
        BY <1>4, <2>8, <2>9, <2>10, <2>11
    <2> QED BY <2>12, <2>13, <2>14 DEF UnsortedOk
<1>9. \A m \in Included : UnsortedOk(m)
    BY UnsortedEach
<1>10. ASSUME NEW m \in Included' PROVE UnsortedOk(m)'
    <2>1. CASE m = n
        BY <1>8, <2>1 DEF UnsortedOk
    <2>2. CASE m # n
        <3>1. m \in Included /\ m \in 1 .. linenum /\ m \in 1 .. n
            BY <1>2, <1>3, <2>2
        <3> QED BY <1>4, <1>7, <1>9, <3>1
    <2> QED BY <2>1, <2>2
<1> QED BY <1>10 DEF ReportedIfUnsorted, UnsortedOk, CanonOf

(* A step that includes nothing and raises nothing of the order.           *)
Unmoved ==
    /\ Included' = Included /\ Accepted' = Accepted
    /\ \A n \in Included :
          /\ Since(n)' = Since(n) /\ Place(n)' = Place(n)
          /\ Clean(n)' => Clean(n)
          /\ \A w \in {"order", "alpha"} : <<n, w>> \in errors' <=> <<n, w>> \in errors
    /\ \A n : CanonOf(n)' = CanonOf(n)

LEMMA UnmovedOrder ==
    ASSUME Unmoved, linenum \in Nat, OrderFollowsSections, SortedByPlace, ReportedIfUnsorted
    PROVE  OrderFollowsSections' /\ SortedByPlace' /\ ReportedIfUnsorted'
<1>1. /\ Included' = Included /\ Accepted' = Accepted
      /\ \A n \in Included :
            /\ Since(n)' = Since(n) /\ Place(n)' = Place(n)
            /\ Clean(n)' => Clean(n)
            /\ <<n, "order">> \in errors' <=> <<n, "order">> \in errors
            /\ <<n, "alpha">> \in errors' <=> <<n, "alpha">> \in errors
      /\ \A n : CanonOf(n)' = CanonOf(n)
    BY DEF Unmoved
<1>2. Accepted \subseteq Included /\ Included \subseteq 1 .. linenum
    BY AcceptedIncluded DEF Included
<1>3. \A n : Since(n) \subseteq Included
    BY <1>2 DEF Since
<1>4. OrderFollowsSections'
    <2> SUFFICES ASSUME NEW m \in Accepted' PROVE OrderOk(m)'
        BY DEF OrderFollowsSections, OrderOk
    <2>1. m \in Included /\ OrderOk(m)
        BY <1>1, <1>2 DEF OrderFollowsSections, OrderOk
    <2>2. \A k \in Since(m) : Place(k)' = Place(k)
        BY <1>1, <1>3
    <2> QED BY <1>1, <2>1, <2>2 DEF OrderOk
<1>5. SortedByPlace'
    <2> SUFFICES ASSUME NEW i \in Included', NEW m \in Included',
                        i < m, \A k \in i .. m : Clean(k)', Place(i)' = Place(m)'
                 PROVE  CanonOf(i)' <= CanonOf(m)'
        BY DEF SortedByPlace
    <2>1. i \in Included /\ m \in Included /\ Place(i) = Place(m)
        BY <1>1
    <2>2. ASSUME NEW k \in i .. m PROVE Clean(k)
        <3>1. Clean(k)'
            OBVIOUS
        <3>2. k \in Accepted'
            BY <3>1 DEF Clean
        <3> QED BY <1>1, <1>2, <3>1, <3>2
    <2> QED BY <1>1, <2>1, <2>2 DEF SortedByPlace
<1>6. ReportedIfUnsorted'
    <2> SUFFICES ASSUME NEW m \in Included', <<m, "alpha">> \in errors'
                 PROVE  /\ (m - 1 \in Included)' /\ Since(m)' # {}
                        /\ CanonOf(Max(Since(m)))' > CanonOf(m)'
                        /\ \/ Place(Max(Since(m)))' = Place(m)'
                           \/ <<Max(Since(m))', "order">> \in errors'
        BY DEF ReportedIfUnsorted, CanonOf
    <2>1. UnsortedOk(m) /\ m \in Included /\ <<m, "alpha">> \in errors
        BY <1>1, UnsortedEach
    <2>2. /\ m - 1 \in Included /\ Since(m) # {}
          /\ CanonOf(Max(Since(m))) > CanonOf(m)
          /\ \/ Place(Max(Since(m))) = Place(m)
             \/ <<Max(Since(m)), "order">> \in errors
        BY <2>1 DEF UnsortedOk
    <2>3. Since(m)' = Since(m) /\ Place(m)' = Place(m)
        BY <1>1, <2>1
    <2>4. PICK k : k = Max(Since(m))
        OBVIOUS
    <2>5. k \in Included
        <3>1. Since(m) \subseteq 0 .. linenum
            <4>1. \A j \in 1 .. linenum : j \in 0 .. linenum
                OBVIOUS
            <4> QED BY <1>2, <1>3, <4>1
        <3>2. k \in Since(m)
            BY <2>2, <2>4, <3>1, LargestOf
        <3> QED BY <1>3, <3>2
    <2>6. Max(Since(m)') = k
        BY <2>3, <2>4
    <2>7. CanonOf(Max(Since(m)))' = CanonOf(k)' /\ Place(Max(Since(m)))' = Place(k)'
        BY <2>6
    <2>8. /\ Place(k)' = Place(k) /\ CanonOf(k)' = CanonOf(k) /\ CanonOf(m)' = CanonOf(m)
          /\ <<k, "order">> \in errors' <=> <<k, "order">> \in errors
        BY <1>1, <2>5
    <2> QED BY <1>1, <2>2, <2>3, <2>4, <2>6, <2>7, <2>8
<1> QED BY <1>4, <1>5, <1>6

LEMMA QuietLine ==
    ASSUME IncludesInv, Directive \/ OtherLine, NEW n, n = linenum + 1
    PROVE  /\ NewLine /\ Unmoved
           /\ Lines[n].kind # "include"
           /\ errors' = errors
           /\ Directive => IsDirective(n)
           /\ OtherLine => ~IsDirective(n) /\ includes' = includes
<1>1. /\ phase = "lines" /\ phase' = phase /\ linenum < Len(Lines)
      /\ Lines[n].kind \in {"if", "else", "endif", "code", "blank"}
      /\ linenum' = n /\ file' = file /\ errors' = errors
    BY DEF Directive, OtherLine, At, Lines
<1>2. /\ Directive => IsDirective(n)
      /\ OtherLine => ~IsDirective(n) /\ includes' = includes
    BY DEF Directive, OtherLine, At, Lines, IsDirective
<1>3. NewLine
    BY <1>1 DEF NewLine
<1>4. Lines[n].kind # "include"
    BY <1>1
<1>5. /\ linenum \in Nat
      /\ Included \subseteq 1 .. linenum
      /\ \A k \in Included' : k \in Included \/ k = linenum + 1
      /\ Included \subseteq Included'
      /\ linenum + 1 \in Included' <=> Lines[linenum + 1].kind = "include"
    BY <1>3, NewLineNumbers
<1>6. Included' = Included
    BY <1>4, <1>5
<1>7. /\ \A k \in 1 .. linenum : k \in Accepted' <=> k \in Accepted
      /\ \A k \in 1 .. linenum : Clean(k)' <=> Clean(k)
    BY <1>3, EarlierAccepted
<1>8. Accepted' = Accepted
    <2>1. Accepted' \subseteq Included' /\ Accepted \subseteq Included
        BY AcceptedIncluded DEF Accepted
    <2> QED BY <1>5, <1>6, <1>7, <2>1
<1>9. ASSUME NEW k \in Included PROVE Since(k)' = Since(k) /\ Place(k)' = Place(k)
    <2>1. k \in 1 .. linenum + 1
        BY <1>5
    <2> QED BY <1>3, <2>1, EarlierPlaces
<1>10. \A k : CanonOf(k)' = CanonOf(k)
    BY <1>1, SameFile
<1>11. Unmoved
    BY <1>1, <1>5, <1>6, <1>7, <1>8, <1>9, <1>10 DEF Unmoved
<1> QED BY <1>1, <1>2, <1>3, <1>4, <1>11

(* The passes over the whole file.                                         *)
WholeFile == LastLine \/ CheckForIncludeWhatYouUse \/ CheckHeaderFileIncluded

LEMMA WholeFileUnmoved ==
    ASSUME WholeFile
    PROVE  /\ UNCHANGED <<file, linenum, includes>>
           /\ errors \subseteq errors'
           /\ \A e \in errors' :
                 \/ e \in errors
                 \/ e[2] = "missing"
                 \/ CheckHeaderFileIncluded /\ e[2] = "own header"
           /\ Recent' = Recent
           /\ Unmoved
<1>1. UNCHANGED <<file, linenum, includes>>
    BY DEF WholeFile, LastLine, CheckForIncludeWhatYouUse, CheckHeaderFileIncluded
<1> DEFINE Fits(e) == e[2] = "missing" \/ (CheckHeaderFileIncluded /\ e[2] = "own header")
<1>2. \E E : errors' = errors \cup E /\ \A e \in E : Fits(e)
    <2>1. CASE LastLine
        <3>1. PICK E : E = {}
            OBVIOUS
        <3>2. errors' = errors \cup E
            BY <2>1, <3>1 DEF LastLine
        <3>3. \A e \in E : Fits(e)
            BY <3>1
        <3> QED BY <3>2, <3>3
    <2>2. CASE CheckForIncludeWhatYouUse
        <3>1. PICK E : E = LET opened   == Opened(includes)
                               included == {e.of : e \in Entries(includes)}
                                              \cup UNION {Range(file.disk[q]) : q \in opened}
                               givesUp  == /\ opened = {}
                                           /\ file.path.ext \in NonHeaderExtensions
                               required == Required(file.lines)
                           IN  IF givesUp THEN {}
                               ELSE {<<required[p], "missing", p>> :
                                        p \in DOMAIN required \ included}
            OBVIOUS
        <3>2. errors' = errors \cup E
            BY <2>2, <3>1 DEF CheckForIncludeWhatYouUse
        <3>3. ASSUME NEW e \in E PROVE e[2] = "missing"
            <4>1. PICK x, p : e = <<x, "missing", p>>
                BY <3>1
            <4> QED BY <4>1
        <3>4. \A e \in E : Fits(e)
            BY <3>3
        <3> QED BY <3>2, <3>4
    <2>3. CASE CheckHeaderFileIncluded
        <3> DEFINE missing == {q \in OwnHeaders : ~IsIncluded(q, includes)}
                   first   == IF Entries(includes) = {} THEN 0
                              ELSE Min({e.line : e \in Entries(includes)})
        <3>1. PICK before \in SUBSET missing :
                  errors' = errors \cup
                        IF IsTestFile(file.path) THEN {}
                        ELSE {<<first, "own header", q>> : q \in before}
            BY <2>3 DEF CheckHeaderFileIncluded
        <3> HIDE DEF missing, first
        <3>2. PICK E : E = IF IsTestFile(file.path) THEN {}
                           ELSE {<<first, "own header", q>> : q \in before}
            OBVIOUS
        <3>3. ASSUME NEW e \in E PROVE e[2] = "own header"
            <4>1. PICK q : e = <<first, "own header", q>>
                BY <3>2
            <4> QED BY <4>1
        <3>4. \A e \in E : Fits(e)
            BY <2>3, <3>3
        <3>5. errors' = errors \cup E
            BY <3>1, <3>2
        <3> QED BY <3>4, <3>5
    <2> QED BY <2>1, <2>2, <2>3 DEF WholeFile
<1>3. /\ errors \subseteq errors'
      /\ \A e \in errors' : e \in errors \/ Fits(e)
    BY <1>2
<1>4. Lines' = Lines /\ Included' = Included
    BY <1>1 DEF Lines, Included
<1>5. /\ \A n : Type(n)' = Type(n) /\ (IsMine(n)' <=> IsMine(n)) /\ CanonOf(n)' = CanonOf(n)
      /\ \A p : Counts(p)' <=> Counts(p)
    BY <1>1, SameFile
<1>6. \A e \in errors' : e[2] = "duplicate" => e \in errors
    BY <1>3
<1>7. Accepted' = Accepted
    BY <1>3, <1>4, <1>5, <1>6 DEF Accepted
<1>8. \A n : Since(n)' = Since(n)
    BY <1>4, <1>7 DEF Since
<1>9. \A n : Place(n)' = Place(n)
    BY <1>5, <1>8 DEF Place
<1>10. ASSUME NEW n, NEW w \in {"order", "alpha"}
       PROVE  <<n, w>> \in errors' <=> <<n, w>> \in errors
    <2>1. <<n, w>>[2] = w
        OBVIOUS
    <2> QED BY <1>3, <2>1
<1>11. \A n : Clean(n)' => Clean(n)
    BY <1>3, <1>7 DEF Clean
<1>12. Recent' = Recent
    BY <1>1, <1>4, <1>7 DEF Recent
<1> QED BY <1>1, <1>3, <1>4, <1>5, <1>7, <1>8, <1>9, <1>10, <1>11, <1>12 DEF Unmoved

LEMMA OrderNext ==
    ASSUME IncludesInv, OrderFollowsSections, ReportedIfUnsorted, Next
    PROVE  OrderKept' /\ OrderFollowsSections' /\ ReportedIfUnsorted'
<1>1. SectionKept /\ LastKept /\ SortedByPlace
    BY DEF IncludesInv, OrderKept
<1>2. linenum \in Nat
    <2>1. file \in IncludingFiles /\ linenum \in 0 .. Len(Lines)
        BY DEF IncludesInv
    <2> QED BY <2>1, FileFacts
<1>3. CASE Include
    BY <1>3, OrderStep, IncludeSection, IncludeSorted, IncludeUnsorted DEF OrderKept
<1>4. CASE Directive
    <2>1. PICK n : n = linenum + 1
        OBVIOUS
    <2>2. NewLine /\ Unmoved /\ IsDirective(n)
        BY <1>4, <2>1, QuietLine
    <2>3. Recent' = {}
        BY <2>1, <2>2, RecentLines
    <2>4. includes'.section = INITIAL_SECTION /\ includes'.last = 0
        BY <1>4 DEF Directive, ResetSection
    <2>5. SectionKept' /\ LastKept'
        BY <2>3, <2>4 DEF SectionKept, LastKept
    <2> QED BY <1>1, <1>2, <2>2, <2>5, UnmovedOrder DEF OrderKept
<1>5. CASE OtherLine \/ WholeFile
    <2>1. Unmoved /\ Recent' = Recent /\ includes' = includes
        <3>1. CASE OtherLine
            <4>1. PICK n : n = linenum + 1
                OBVIOUS
            <4>2. /\ NewLine /\ Unmoved /\ ~IsDirective(n)
                  /\ Lines[n].kind # "include" /\ includes' = includes
                BY <3>1, <4>1, QuietLine
            <4>3. Accepted \subseteq 1 .. linenum /\ Accepted' = Accepted
                BY <4>2, RecentLines DEF Unmoved
            <4>4. Accepted' \cap {n} = {}
                BY <1>2, <4>1, <4>3
            <4> QED BY <4>1, <4>2, <4>4, RecentLines
        <3> QED BY <1>5, <3>1, WholeFileUnmoved
    <2>2. /\ Recent \subseteq Included /\ \A k \in Recent : Place(k)' = Place(k)
          /\ \A k \in Recent : CanonOf(k)' = CanonOf(k)
        BY <2>1, AcceptedIncluded DEF Recent, Unmoved
    <2>3. SectionKept' /\ LastKept'
        BY <1>1, <2>1, <2>2 DEF SectionKept, LastKept
    <2> QED BY <1>1, <1>2, <2>1, <2>3, UnmovedOrder DEF OrderKept
<1> QED BY <1>3, <1>4, <1>5 DEF Next, WholeFile

-----------------------------------------------------------------------------
(* The lists: one is appended, the last one is extended or emptied.        *)
Headers == [of : Paths, line : Nat]

LEMMA ListChanges ==
    ASSUME NEW s \in Seq(Seq(Headers)) \ {<<>>}, NEW l \in Seq(Headers)
    PROVE  /\ Len(s) \in Nat /\ Len(s) > 0 /\ s[Len(s)] \in Seq(Headers)
           /\ Append(s, l) \in Seq(Seq(Headers)) \ {<<>>}
           /\ Len(Append(s, l)) = Len(s) + 1
           /\ Append(s, l)[Len(s) + 1] = l
           /\ \A i \in 1 .. Len(s) : Append(s, l)[i] = s[i]
           /\ [s EXCEPT ![Len(s)] = l] \in Seq(Seq(Headers)) \ {<<>>}
           /\ Len([s EXCEPT ![Len(s)] = l]) = Len(s)
           /\ [s EXCEPT ![Len(s)] = l][Len(s)] = l
           /\ \A i \in 1 .. Len(s) - 1 : [s EXCEPT ![Len(s)] = l][i] = s[i]
<1>1. Len(s) \in Nat /\ Len(s) > 0 /\ DOMAIN s = 1 .. Len(s)
    <2>1. Len(s) \in Nat /\ DOMAIN s = 1 .. Len(s)
        BY LenProperties
    <2>2. Len(s) # 0
        BY EmptySeq
    <2> QED BY <2>1, <2>2
<1>2. s[Len(s)] \in Seq(Headers)
    BY <1>1, ElementOfSeq
<1> DEFINE a == Append(s, l)  x == [s EXCEPT ![Len(s)] = l]
<1>3. /\ a \in Seq(Seq(Headers)) /\ Len(a) = Len(s) + 1
      /\ a[Len(s) + 1] = l /\ \A i \in 1 .. Len(s) : a[i] = s[i]
    BY AppendProperties
<1>4. x \in Seq(Seq(Headers)) /\ Len(x) = Len(s)
      /\ x[Len(s)] = l /\ \A i \in 1 .. Len(s) - 1 : x[i] = s[i]
    <2>1. PICK i : i = Len(s)
        OBVIOUS
    <2>2. PICK S : S = Seq(Headers)
        OBVIOUS
    <2>3. i \in 1 .. Len(s) /\ s \in Seq(S) /\ l \in S
        BY <1>1, <2>1, <2>2
    <2>4. /\ [s EXCEPT ![i] = l] \in Seq(S) /\ Len([s EXCEPT ![i] = l]) = Len(s)
          /\ \A j \in 1 .. Len(s) : [s EXCEPT ![i] = l][j] = IF j = i THEN l ELSE s[j]
        BY ONLY <2>3, ExceptSeq
    <2>5. x = [s EXCEPT ![i] = l]
        BY <2>1
    <2> HIDE DEF x
    <2>6. \A j \in 1 .. Len(s) : x[j] = IF j = i THEN l ELSE s[j]
        BY <2>4, <2>5
    <2>7. x[i] = l
        BY <2>3, <2>6
    <2>8. ASSUME NEW j \in 1 .. i - 1 PROVE x[j] = s[j]
        <3>1. i \in Nat
            BY <1>1, <2>1
        <3>2. j \in 1 .. i /\ j # i
            BY ONLY <3>1, j \in 1 .. i - 1
        <3> QED BY <2>1, <2>6, <3>2
    <2> QED BY <2>1, <2>2, <2>4, <2>5, <2>7, <2>8
<1> HIDE DEF a, x
<1>5. a # <<>> /\ x # <<>>
    <2>1. Len(a) # 0 /\ Len(x) # 0
        BY <1>1, <1>3, <1>4
    <2> QED BY <2>1
<1> QED BY <1>1, <1>2, <1>3, <1>4, <1>5 DEF a, x

Entry(n) == [of |-> Lines[n].of, line |-> n]

LEMMA PushedAt ==
    ASSUME includes \in IncludeStates, NEW n \in Nat, Lines[n].of \in Paths
    PROVE  /\ Pushed(n) \in Seq(Seq(Headers)) \ {<<>>}
           /\ Len(Pushed(n)) = Len(includes.lists)
           /\ Pushed(n)[Len(includes.lists)]
                 = Append(includes.lists[Len(includes.lists)], Entry(n))
           /\ \A i \in 1 .. Len(includes.lists) - 1 : Pushed(n)[i] = includes.lists[i]
<1>1. PICK s : s = includes.lists
    OBVIOUS
<1>2. s \in Seq(Seq(Headers)) \ {<<>>}
    BY <1>1 DEF IncludeStates, Headers
<1>3. PICK l : l = Append(s[Len(s)], Entry(n))
    OBVIOUS
<1>4. l \in Seq(Headers)
    <2>1. s[Len(s)] \in Seq(Headers)
        BY <1>2, ListChanges, EmptySeq
    <2>2. Entry(n) \in Headers
        BY DEF Entry, Headers
    <2> QED BY <1>3, <2>1, <2>2, AppendProperties
<1>5. Pushed(n) = [s EXCEPT ![Len(s)] = l]
    BY <1>1, <1>3 DEF Pushed, Entry
<1> QED BY <1>1, <1>2, <1>3, <1>4, <1>5, ListChanges

(* What a directive does to them.                                          *)
LEMMA ResetAt ==
    ASSUME includes \in IncludeStates, NEW d
    PROVE  LET s == includes.lists
               t == ResetSection(includes, d).lists
           IN  /\ ResetSection(includes, d) \in IncludeStates
               /\ d = "if" =>
                     /\ Len(t) = Len(s) + 1 /\ t[Len(s) + 1] = <<>>
                     /\ \A i \in 1 .. Len(s) : t[i] = s[i]
               /\ d = "else" =>
                     /\ Len(t) = Len(s) /\ t[Len(s)] = <<>>
                     /\ \A i \in 1 .. Len(s) - 1 : t[i] = s[i]
               /\ d \notin {"if", "else"} => t = s
<1>1. PICK s : s = includes.lists
    OBVIOUS
<1>2. s \in Seq(Seq(Headers)) \ {<<>>}
    BY <1>1 DEF IncludeStates, Headers
<1>3. <<>> \in Seq(Headers)
    OBVIOUS
<1>4. PICK t : t = ResetSection(includes, d).lists
    OBVIOUS
<1>5. t = CASE d = "if" -> Append(s, <<>>)
            [] d = "else" -> [s EXCEPT ![Len(s)] = <<>>]
            [] OTHER -> s
    BY <1>1, <1>4 DEF ResetSection
<1>6. /\ t \in Seq(Seq(Headers)) \ {<<>>}
      /\ d = "if" =>
            /\ Len(t) = Len(s) + 1 /\ t[Len(s) + 1] = <<>>
            /\ \A i \in 1 .. Len(s) : t[i] = s[i]
      /\ d = "else" =>
            /\ Len(t) = Len(s) /\ t[Len(s)] = <<>>
            /\ \A i \in 1 .. Len(s) - 1 : t[i] = s[i]
      /\ d \notin {"if", "else"} => t = s
    <2>1. CASE d = "if"
        BY <1>2, <1>3, <1>5, <2>1, ListChanges
    <2>2. CASE d = "else"
        BY <1>2, <1>3, <1>5, <2>2, ListChanges
    <2>3. CASE d \notin {"if", "else"}
        BY <1>2, <1>5, <2>3
    <2> QED BY <2>1, <2>2, <2>3
<1>7. ResetSection(includes, d) = [lists |-> t, section |-> 0, last |-> 0]
    BY <1>4 DEF ResetSection, INITIAL_SECTION
<1>8. ResetSection(includes, d) \in IncludeStates
    BY <1>6, <1>7 DEF IncludeStates, INITIAL_SECTION, OTHER_H_SECTION, Headers
<1> QED BY <1>1, <1>4, <1>6, <1>8

LEMMA IncludeStatesNext ==
    ASSUME IncludesInv, Next
    PROVE  includes' \in IncludeStates
<1>1. includes \in IncludeStates /\ file \in IncludingFiles
    BY DEF IncludesInv
<1>2. CASE Include
    <2> SUFFICES ASSUME NEW n, n = linenum + 1 PROVE includes' \in IncludeStates
        OBVIOUS
    <2>1. /\ Recording(n) => includes' = RecordedState(n)
          /\ ~Recording(n) => includes' = includes
          /\ n \in Nat /\ n \in 1 .. Len(Lines) /\ CanonOf(n) \in Nat
        BY <1>2, IncludeAt
    <2>2. Lines[n].of \in Paths
        <3>1. Lines[n] \in FileLines
            BY <1>1, <2>1, FileFacts
        <3> QED BY <3>1 DEF FileLines
    <2>3. Pushed(n) \in Seq(Seq(Headers)) \ {<<>>}
        BY <1>1, <2>1, <2>2, PushedAt
    <2>4. Section(n) \in 1 .. 5 /\ includes.section \in 0 .. 5
        BY <1>1, SectionAt DEF IncludeStates, INITIAL_SECTION, OTHER_H_SECTION
    <2>5. (IF Section(n) >= includes.section THEN Section(n) ELSE includes.section) \in 0 .. 5
        BY <2>4
    <2>6. RecordedState(n) \in IncludeStates
        BY <2>1, <2>3, <2>5
        DEF RecordedState, IncludeStates, INITIAL_SECTION, OTHER_H_SECTION, Headers
    <2> QED BY <1>1, <2>1, <2>6
<1>3. CASE Directive
    BY <1>1, <1>3, ResetAt DEF Directive
<1>4. CASE OtherLine \/ WholeFile
    <2>1. includes' = includes
        BY <1>4 DEF OtherLine, WholeFile, LastLine, CheckForIncludeWhatYouUse,
                    CheckHeaderFileIncluded
    <2> QED BY <1>1, <2>1
<1> QED BY <1>2, <1>3, <1>4 DEF Next, WholeFile

-----------------------------------------------------------------------------
(* The invariant.                                                          *)
LEMMA ErrorsNext ==
    ASSUME IncludesInv, Next
    PROVE  /\ file' = file
           /\ linenum' \in 0 .. Len(Lines)
           /\ phase' \in {"lines", "use", "own", "done"}
           /\ phase' # "lines" => linenum' = Len(Lines)
           /\ ErrorsKept'
<1>1. /\ file \in IncludingFiles /\ linenum \in 0 .. Len(Lines) /\ Len(Lines) \in Nat
      /\ phase # "lines" => linenum = Len(Lines)
      /\ ErrorsKept
    BY FileFacts DEF IncludesInv
<1>2. CASE Include \/ Directive \/ OtherLine
    <2>1. NewLine
        BY <1>2, IncludeAt, QuietLine
    <2>2. /\ phase = "lines" /\ phase' = phase /\ linenum < Len(Lines)
          /\ linenum' = linenum + 1 /\ file' = file
          /\ \A e \in errors' : e \in errors \/ (e[1] = linenum + 1 /\ e[2] \in Raised)
        BY <2>1 DEF NewLine
    <2>3. /\ linenum \in Nat /\ linenum + 1 \in 1 .. linenum'
          /\ \A k \in 1 .. linenum : k \in 1 .. linenum'
          /\ linenum' \in 0 .. Len(Lines)
        BY <1>1, <2>2
    <2>4. /\ \A e \in errors : e[2] \notin {"missing", "own header"} => e[1] \in 1 .. linenum
          /\ \A e \in errors : e[2] # "own header"
        BY <1>1, <2>2 DEF ErrorsKept
    <2>5. \A w \in Raised : w # "own header"
        BY DEF Raised
    <2>6. \A e \in errors' : e[2] \notin {"missing", "own header"} => e[1] \in 1 .. linenum'
        BY <2>2, <2>3, <2>4
    <2>7. \A e \in errors' : e[2] # "own header"
        BY <2>2, <2>4, <2>5
    <2> QED BY <2>2, <2>3, <2>6, <2>7 DEF ErrorsKept
<1>3. CASE WholeFile
    <2>1. /\ file' = file /\ linenum' = linenum
          /\ \A e \in errors' :
                \/ e \in errors
                \/ e[2] = "missing"
                \/ CheckHeaderFileIncluded /\ e[2] = "own header"
        BY <1>3, WholeFileUnmoved
    <2>2. /\ phase' \in {"use", "own", "done"} /\ linenum = Len(Lines) /\ phase # "done"
          /\ CheckHeaderFileIncluded => phase' = "done"
        BY <1>1, <1>3
        DEF WholeFile, LastLine, CheckForIncludeWhatYouUse, CheckHeaderFileIncluded, Lines
    <2>3. ErrorsKept'
        BY <1>1, <2>1, <2>2 DEF ErrorsKept
    <2> QED BY <1>1, <2>1, <2>2, <2>3
<1> QED BY <1>2, <1>3 DEF Next, WholeFile

LEMMA NothingIncluded ==
    ASSUME Init
    PROVE  Included = {} /\ Accepted = {} /\ Recent = {} /\ errors = {} /\ linenum = 0
BY DEF Init, Included, Accepted, Recent

LEMMA StartState ==
    NewIncludeState = [lists |-> <<<<>>>>, section |-> 0, last |-> 0]
BY DEF NewIncludeState, ResetSection, INITIAL_SECTION

LEMMA IncludesInit ==
    ASSUME Init
    PROVE  IncludesInv /\ OrderFollowsSections /\ ReportedIfUnsorted
<1>1. Included = {} /\ Accepted = {} /\ Recent = {} /\ errors = {} /\ linenum = 0
    BY NothingIncluded
<1>2. /\ file \in IncludingFiles /\ phase = "lines"
      /\ includes = [lists |-> <<<<>>>>, section |-> 0, last |-> 0]
    BY StartState DEF Init
<1>3. Len(Lines) \in Nat
    BY <1>2, FileFacts
<1>4. includes \in IncludeStates
    <2>1. <<<<>>>> \in Seq(Seq(Headers)) \ {<<>>}
        OBVIOUS
    <2> QED BY <1>2, <2>1 DEF IncludeStates, INITIAL_SECTION, OTHER_H_SECTION, Headers
<1>5. OrderKept
    BY <1>1, <1>2 DEF OrderKept, SectionKept, LastKept, SortedByPlace, INITIAL_SECTION
<1> QED BY <1>1, <1>2, <1>3, <1>4, <1>5
        DEF IncludesInv, ErrorsKept, OrderFollowsSections, ReportedIfUnsorted

OrderInv == IncludesInv /\ OrderFollowsSections /\ ReportedIfUnsorted

LEMMA OrderInvNext ==
    ASSUME OrderInv, [Next]_vars
    PROVE  OrderInv'
<1>1. CASE Next
    <2>1. IncludesInv /\ OrderFollowsSections /\ ReportedIfUnsorted
        BY DEF OrderInv
    <2>2. /\ file' = file
          /\ linenum' \in 0 .. Len(Lines)
          /\ phase' \in {"lines", "use", "own", "done"}
          /\ phase' # "lines" => linenum' = Len(Lines)
          /\ ErrorsKept'
        BY <1>1, <2>1, ErrorsNext
    <2>3. includes' \in IncludeStates
        BY <1>1, <2>1, IncludeStatesNext
    <2>4. OrderKept' /\ OrderFollowsSections' /\ ReportedIfUnsorted'
        BY <1>1, <2>1, OrderNext
    <2>5. file' \in IncludingFiles /\ Lines' = Lines
        BY <2>1, <2>2 DEF IncludesInv, Lines
    <2> QED BY <2>2, <2>3, <2>4, <2>5 DEF OrderInv, IncludesInv
<1>2. CASE UNCHANGED vars
    <2>1. OrderInv
        OBVIOUS
    <2> USE <1>2 DEF vars
    <2>2. /\ Lines' = Lines /\ Included' = Included /\ Accepted' = Accepted
          /\ \A n : Type(n)' = Type(n) /\ (IsMine(n)' <=> IsMine(n)) /\ CanonOf(n)' = CanonOf(n)
        BY DEF Lines, Included, Accepted, Counts, OfOtherPackage, IsOfThisFile, RepositoryName,
               Type, IsMine, CanonOf
    <2>3. \A n : Since(n)' = Since(n)
        BY <2>2 DEF Since
    <2>4. \A n : Place(n)' = Place(n)
        BY <2>2, <2>3 DEF Place
    <2>5. (\A n : Clean(n)' => Clean(n)) /\ Recent' = Recent
        BY <2>2 DEF Clean, Recent
    <2>6. Unmoved
        BY <2>2, <2>3, <2>4, <2>5 DEF Unmoved
    <2>7. linenum \in Nat
        BY FileFacts DEF OrderInv, IncludesInv
    <2>8. SortedByPlace' /\ OrderFollowsSections' /\ ReportedIfUnsorted'
        BY <2>6, <2>7, UnmovedOrder DEF OrderInv, IncludesInv, OrderKept
    <2>9. SectionKept' /\ LastKept'
        BY <2>2, <2>4, <2>5 DEF OrderInv, IncludesInv, OrderKept, SectionKept, LastKept
    <2> QED BY <2>2, <2>8, <2>9 DEF OrderInv, IncludesInv, OrderKept, ErrorsKept
<1> QED BY <1>1, <1>2

(* Nothing that CheckIncludeLine keeps is out of step with the lines.      *)
THEOREM IncludesInvariant ==
    Spec => []OrderInv
<1>1. Init => OrderInv
    BY IncludesInit DEF OrderInv
<1>2. OrderInv /\ [Next]_vars => OrderInv'
    BY OrderInvNext
<1> QED BY <1>1, <1>2, PTL DEF Spec

(* An include is reported as misplaced exactly if one since the last       *)
(* directive has a later place (CheckNextIncludeOrder).                    *)
THEOREM OrderAlwaysFollows ==
    Spec => []OrderFollowsSections
<1>1. OrderInv => OrderFollowsSections
    BY DEF OrderInv
<1> QED BY <1>1, IncludesInvariant, PTL

(* Includes of which nothing is reported are sorted, and one is reported   *)
(* as unsorted only if it is (IsInAlphabeticalOrder).                      *)
THEOREM UnsortedAlwaysReported ==
    Spec => []UnsortedReported
<1>1. OrderInv => UnsortedReported
    <2> SUFFICES ASSUME OrderInv PROVE SortedIfClean
        BY DEF OrderInv, UnsortedReported
    <2>1. SortedByPlace
        BY DEF OrderInv, IncludesInv, OrderKept
    <2> SUFFICES ASSUME NEW n \in Included, NEW m \in Included, n < m,
                        \A k \in n .. m : Clean(k), Type(n) = Type(m), ~IsMine(n)
                 PROVE  CanonOf(n) <= CanonOf(m)
        BY DEF SortedIfClean, CanonOf
    <2>2. Place(n) = Place(m)
        BY PlaceOfType
    <2> QED BY <2>1, <2>2 DEF SortedByPlace
<1> QED BY <1>1, IncludesInvariant, PTL

-----------------------------------------------------------------------------
(* The lists of include_state, of which #else empties the last one and     *)
(* #endif removes none: they find the includes that the branches of the    *)
(* lines make duplicates, from ListsKept, and the two passes at the end,   *)
(* which read the lists, ask for what is missing.                          *)

(* The parts of ListsKept for an include line and the lines up to m.       *)
Still(b, line, m) ==
    \A k \in line .. m :
        /\ Len(b[m]) <= Len(b[k])
        /\ \A i \in 1 .. Len(b[m]) - 1 : b[k][i] = b[m][i]

Nested(lines, line, m) == \E k \in line + 1 .. m : lines[k].kind = "if"

Outlived(b, lines, line, m) ==
    \A d \in 1 .. Len(b[line]) :
        /\ \A k \in line .. m : d <= Len(b[k])
        /\ b[m][d] # b[line][d]
        => \E k \in line .. m : lines[k].kind = "if" /\ d < Len(b[k])

OnLast(s) == Range(Last(s.lists))
OnOthers(s) == UNION {Range(s.lists[i]) : i \in 1 .. Len(s.lists) - 1}

LEMMA ListParts ==
    /\ LastListKept <=> \A e \in OnLast(includes) : Still(Branches, e.line, linenum)
    /\ OtherListsKept <=> \A e \in OnOthers(includes) : Nested(Lines, e.line, linenum)
    /\ OutlivedByNested <=>
          \A e \in Entries(includes) : Outlived(Branches, Lines, e.line, linenum)
<1>1. LastListKept <=> \A e \in OnLast(includes) : Still(Branches, e.line, linenum)
    BY DEF LastListKept, OnLast, Still
<1>2. OtherListsKept <=> \A e \in OnOthers(includes) : Nested(Lines, e.line, linenum)
    BY DEF OtherListsKept, OnOthers, Nested
<1>3. OutlivedByNested <=>
          \A e \in Entries(includes) : Outlived(Branches, Lines, e.line, linenum)
    BY DEF OutlivedByNested, Outlived
<1> QED BY <1>1, <1>2, <1>3

(* One more line.                                                          *)
OneMore(b, lines, m, n) ==
    /\ AreBranches(b, lines) /\ Len(lines) \in Nat
    /\ m \in Nat /\ n = m + 1 /\ n \in 1 .. Len(lines)
    /\ lines[n].kind = "else" => b[m] # <<>>

LEMMA OneMoreLine ==
    ASSUME NEW b, NEW lines, NEW m, NEW n, OneMore(b, lines, m, n)
    PROVE  /\ m \in Nat /\ n \in Nat /\ n = m + 1 /\ m \in 0 .. Len(lines)
           /\ \A k \in 0 .. n :
                 /\ b[k] \in Seq(Nat) /\ Len(b[k]) \in Nat
                 /\ \A i \in 1 .. Len(b[k]) : b[k][i] \in Nat /\ b[k][i] <= k
           /\ lines[n].kind = "if" => Opens(b[m], b[n], n)
           /\ lines[n].kind = "else" => Turns(b[m], b[n], n)
           /\ lines[n].kind = "endif" => Closes(b[m], b[n])
           /\ lines[n].kind \notin {"if", "else", "endif"} => b[n] = b[m]
<1>1. /\ AreBranches(b, lines) /\ Len(lines) \in Nat
      /\ m \in Nat /\ n = m + 1 /\ n \in 1 .. Len(lines) /\ n - 1 = m
      /\ lines[n].kind = "else" => b[m] # <<>>
    BY DEF OneMore
<1>2. /\ m \in 0 .. Len(lines) /\ n \in 0 .. Len(lines) /\ n \in Nat
      /\ \A k \in 0 .. n : k \in 0 .. Len(lines)
    BY <1>1
<1>3. ASSUME NEW k \in 0 .. n
      PROVE  /\ b[k] \in Seq(Nat) /\ Len(b[k]) \in Nat
             /\ \A i \in 1 .. Len(b[k]) : b[k][i] \in Nat /\ b[k][i] <= k
    <2>1. b[k] \in Seq(Nat) /\ \A i \in 1 .. Len(b[k]) : b[k][i] <= k
        BY <1>1, <1>2 DEF AreBranches
    <2>2. PICK s : s = b[k]
        OBVIOUS
    <2>3. Len(s) \in Nat /\ \A i \in 1 .. Len(s) : s[i] \in Nat
        BY <2>1, <2>2, LenProperties, ElementOfSeq
    <2> QED BY <2>1, <2>2, <2>3
<1>4. b[n] = Branched(b[m], lines[n].kind, n)
    BY <1>1 DEF AreBranches
<1>5. b[m] \in Seq(Nat)
    <2>1. m \in 0 .. n
        BY <1>1
    <2> QED BY <1>3, <2>1
<1> QED BY <1>1, <1>2, <1>3, <1>4, <1>5, BranchedAt

LEMMA StillStep ==
    ASSUME NEW b, NEW lines, NEW m, NEW n, OneMore(b, lines, m, n),
           NEW line \in 1 .. m, Still(b, line, m), lines[n].kind # "if"
    PROVE  Still(b, line, n)
<1>1. /\ m \in Nat /\ n \in Nat /\ n = m + 1
      /\ \A k \in 0 .. n : Len(b[k]) \in Nat
      /\ lines[n].kind = "else" => Turns(b[m], b[n], n)
      /\ lines[n].kind = "endif" => Closes(b[m], b[n])
      /\ lines[n].kind \notin {"if", "else", "endif"} => b[n] = b[m]
    BY OneMoreLine
<1>2. /\ Len(b[n]) <= Len(b[m])
      /\ \A i \in 1 .. Len(b[n]) - 1 : b[m][i] = b[n][i]
    <2>1. Len(b[n]) \in Nat /\ Len(b[m]) \in Nat
        BY <1>1
    <2>2. CASE lines[n].kind = "else"
        <3>1. Len(b[n]) = Len(b[m]) /\ \A i \in 1 .. Len(b[m]) - 1 : b[n][i] = b[m][i]
            BY <1>1, <2>2 DEF Turns
        <3> QED BY <2>1, <3>1
    <2>3. CASE lines[n].kind = "endif"
        BY <1>1, <2>1, <2>3 DEF Closes
    <2>4. CASE lines[n].kind \notin {"if", "else", "endif"}
        BY <1>1, <2>1, <2>4
    <2> QED BY <2>2, <2>3, <2>4
<1> SUFFICES ASSUME NEW k \in line .. n
             PROVE  /\ Len(b[n]) <= Len(b[k])
                    /\ \A i \in 1 .. Len(b[n]) - 1 : b[k][i] = b[n][i]
    BY DEF Still
<1>3. CASE k = n
    BY <1>1, <1>3
<1>4. CASE k # n
    <2>1. k \in line .. m /\ k \in 0 .. n /\ m \in 0 .. n /\ n \in 0 .. n
        BY <1>1, <1>4
    <2>2. /\ Len(b[m]) <= Len(b[k])
          /\ \A i \in 1 .. Len(b[m]) - 1 : b[k][i] = b[m][i]
        BY <2>1 DEF Still
    <2>3. Len(b[k]) \in Nat /\ Len(b[n]) \in Nat /\ Len(b[m]) \in Nat
        BY <1>1, <2>1
    <2>4. \A i \in 1 .. Len(b[n]) - 1 : i \in 1 .. Len(b[m]) - 1
        BY <1>2, <2>3
    <2> QED BY <1>2, <2>2, <2>3, <2>4
<1> QED BY <1>3, <1>4

LEMMA OutlivedStep ==
    ASSUME NEW b, NEW lines, NEW m, NEW n, OneMore(b, lines, m, n),
           NEW line \in 1 .. m, Outlived(b, lines, line, m),
           lines[n].kind = "else" => Nested(lines, line, m),
           \A k \in 1 .. m : lines[k].kind = "if" => Len(b[k]) = Len(b[k - 1]) + 1
    PROVE  Outlived(b, lines, line, n)
<1>1. /\ m \in Nat /\ n \in Nat /\ n = m + 1
      /\ \A k \in 0 .. n : Len(b[k]) \in Nat
      /\ lines[n].kind = "if" => Opens(b[m], b[n], n)
      /\ lines[n].kind = "else" => Turns(b[m], b[n], n)
      /\ lines[n].kind = "endif" => Closes(b[m], b[n])
      /\ lines[n].kind \notin {"if", "else", "endif"} => b[n] = b[m]
    BY OneMoreLine
<1> SUFFICES ASSUME NEW d \in 1 .. Len(b[line]), \A k \in line .. n : d <= Len(b[k]),
                    b[n][d] # b[line][d]
             PROVE  \E k \in line .. n : lines[k].kind = "if" /\ d < Len(b[k])
    BY DEF Outlived
<1>2. line .. m \subseteq line .. n /\ m \in line .. n /\ n \in line .. n /\ line .. n \subseteq 0 .. n
    BY <1>1
<1>3. d \in Nat /\ d <= Len(b[m]) /\ d <= Len(b[n]) /\ Len(b[m]) \in Nat /\ Len(b[n]) \in Nat
    <2>1. Len(b[line]) \in Nat
        BY <1>1
    <2> QED BY <1>1, <1>2, <2>1
<1>4. CASE b[m][d] # b[line][d]
    BY <1>2, <1>4 DEF Outlived
<1>5. CASE b[m][d] = b[line][d]
    <2>1. lines[n].kind = "else"
        <3>1. d \in 1 .. Len(b[m]) /\ d \in 1 .. Len(b[n])
            BY <1>3
        <3>2. b[n][d] # b[m][d]
            BY <1>5
        <3> QED BY <1>1, <3>1, <3>2 DEF Opens, Closes
    <2>2. PICK k \in line + 1 .. m : lines[k].kind = "if"
        BY <2>1 DEF Nested
    <2>3. k \in 1 .. m /\ k \in line .. n /\ k - 1 \in line .. n
        BY <1>1, <2>2
    <2>4. Len(b[k]) = Len(b[k - 1]) + 1 /\ d <= Len(b[k - 1]) /\ Len(b[k - 1]) \in Nat
        BY <1>1, <1>2, <2>2, <2>3
    <2>5. d < Len(b[k])
        BY <1>3, <2>4
    <2> QED BY <2>2, <2>3, <2>5
<1> QED BY <1>4, <1>5

-----------------------------------------------------------------------------
(* Coverage and alternatives, position by position.                        *)
LEMMA SameStart ==
    ASSUME NEW s \in Seq(Nat), NEW t \in Seq(Nat), NEW d \in Nat, d <= Len(s), d <= Len(t)
    PROVE  SubSeq(s, 1, d) = SubSeq(t, 1, d) <=> \A i \in 1 .. d : s[i] = t[i]
<1>1. \A i \in 1 .. d : s[i] \in Nat /\ t[i] \in Nat
    <2>1. Len(s) \in Nat /\ Len(t) \in Nat
        BY LenProperties
    <2>2. \A i \in 1 .. d : i \in 1 .. Len(s) /\ i \in 1 .. Len(t)
        BY <2>1
    <2> QED BY <2>2, ElementOfSeq
<1> DEFINE u == SubSeq(s, 1, d)  v == SubSeq(t, 1, d)
<1>2. 1 \in Int /\ d \in Int
    OBVIOUS
<1>3. /\ u \in Seq(Nat) /\ Len(u) = IF 1 <= d THEN d - 1 + 1 ELSE 0
      /\ \A i \in 1 .. d - 1 + 1 : u[i] = s[1 + i - 1]
    BY ONLY <1>1, <1>2, SubSeqProperties
<1>4. /\ v \in Seq(Nat) /\ Len(v) = IF 1 <= d THEN d - 1 + 1 ELSE 0
      /\ \A i \in 1 .. d - 1 + 1 : v[i] = t[1 + i - 1]
    BY ONLY <1>1, <1>2, SubSeqProperties
<1> HIDE DEF u, v
<1>5. Len(u) = d /\ Len(v) = d
    BY <1>3, <1>4
<1>6. \A i \in 1 .. d : u[i] = s[i] /\ v[i] = t[i]
    BY <1>3, <1>4
<1>7. u = v <=> \A i \in 1 .. d : u[i] = v[i]
    BY <1>3, <1>4, <1>5, SeqEqual
<1> QED BY <1>6, <1>7 DEF u, v

CoversAt(b, n, m) ==
    Len(b[n]) <= Len(b[m]) /\ \A i \in 1 .. Len(b[n]) : b[n][i] = b[m][i]

LEMMA CoversEach ==
    ASSUME NEW b, NEW n, NEW m, b[n] \in Seq(Nat), b[m] \in Seq(Nat)
    PROVE  Covers(n, m, b) <=> CoversAt(b, n, m)
<1>1. PICK s, t : s = b[n] /\ t = b[m]
    OBVIOUS
<1>2. s \in Seq(Nat) /\ t \in Seq(Nat) /\ Len(s) \in Nat /\ Len(t) \in Nat
    BY <1>1, LenProperties
<1>3. Len(s) <= Len(t) =>
          (SubSeq(s, 1, Len(s)) = SubSeq(t, 1, Len(s)) <=> \A i \in 1 .. Len(s) : s[i] = t[i])
    BY <1>2, SameStart
<1> QED BY <1>1, <1>3 DEF Covers, CoversAt, IsPrefix

LEMMA CoversStep ==
    ASSUME NEW b, NEW lines, NEW m, NEW n, OneMore(b, lines, m, n),
           NEW line \in 1 .. m, Covers(line, n, b)
    PROVE  Covers(line, m, b)
<1>1. /\ m \in Nat /\ n \in Nat /\ n = m + 1
      /\ \A k \in 0 .. n :
            /\ b[k] \in Seq(Nat) /\ Len(b[k]) \in Nat
            /\ \A i \in 1 .. Len(b[k]) : b[k][i] \in Nat /\ b[k][i] <= k
      /\ lines[n].kind = "if" => Opens(b[m], b[n], n)
      /\ lines[n].kind = "else" => Turns(b[m], b[n], n)
      /\ lines[n].kind = "endif" => Closes(b[m], b[n])
      /\ lines[n].kind \notin {"if", "else", "endif"} => b[n] = b[m]
    BY SMTT(30), OneMoreLine
<1>2. m \in 0 .. n /\ n \in 0 .. n /\ line \in 0 .. n /\ line < n
    BY <1>1
<1>3. PICK s, t, u : s = b[line] /\ t = b[m] /\ u = b[n]
    OBVIOUS
<1>4. /\ Len(s) \in Nat /\ Len(t) \in Nat /\ Len(u) \in Nat
      /\ \A i \in 1 .. Len(s) : s[i] < n
      /\ lines[n].kind = "if" => Opens(t, u, n)
      /\ lines[n].kind = "else" => Turns(t, u, n)
      /\ lines[n].kind = "endif" => Closes(t, u)
      /\ lines[n].kind \notin {"if", "else", "endif"} => u = t
    <2>1. \A i \in 1 .. Len(s) : s[i] \in Nat /\ s[i] <= line
        BY <1>1, <1>2, <1>3
    <2>2. \A i \in 1 .. Len(s) : s[i] < n
        BY <1>1, <1>2, <2>1
    <2> QED BY <1>1, <1>2, <1>3, <2>2
<1>5. Len(s) <= Len(u) /\ \A i \in 1 .. Len(s) : s[i] = u[i]
    BY <1>1, <1>2, <1>3, CoversEach DEF CoversAt
<1>6. Len(s) <= Len(t) /\ \A i \in 1 .. Len(s) : s[i] = t[i]
    <2>1. ASSUME Len(s) > 0 PROVE Len(s) \in 1 .. Len(s) /\ u[Len(s)] # n
        <3>1. Len(s) \in 1 .. Len(s)
            BY <1>4, <2>1
        <3>2. s[Len(s)] < n /\ s[Len(s)] = u[Len(s)]
            BY <1>4, <1>5, <3>1
        <3>3. s[Len(s)] # n
            BY <1>1, <3>2
        <3> QED BY <3>1, <3>2, <3>3
    <2>2. CASE lines[n].kind = "if"
        <3>1. Len(u) = Len(t) + 1 /\ u[Len(u)] = n /\ \A i \in 1 .. Len(t) : u[i] = t[i]
            BY <1>4, <2>2 DEF Opens
        <3>2. Len(s) # Len(u)
            BY <1>4, <2>1, <3>1
        <3> QED BY <1>4, <1>5, <3>1, <3>2
    <2>3. CASE lines[n].kind = "else"
        <3>1. /\ Len(t) > 0 /\ Len(u) = Len(t) /\ u[Len(u)] = n
              /\ \A i \in 1 .. Len(t) - 1 : u[i] = t[i]
            BY <1>4, <2>3 DEF Turns
        <3>2. Len(s) # Len(u)
            BY <1>4, <2>1, <3>1
        <3> QED BY <1>4, <1>5, <3>1, <3>2
    <2>4. CASE lines[n].kind = "endif"
        <3>1. Len(u) <= Len(t) /\ \A i \in 1 .. Len(u) : u[i] = t[i]
            BY <1>4, <2>4 DEF Closes
        <3> QED BY <1>4, <1>5, <3>1
    <2>5. CASE lines[n].kind \notin {"if", "else", "endif"}
        BY <1>4, <1>5, <2>5
    <2> QED BY <2>2, <2>3, <2>4, <2>5
<1> QED BY <1>1, <1>2, <1>3, <1>6, CoversEach DEF CoversAt

(* An #else replaces the innermost branch of the lines before it.          *)
LEMMA ElseReplaces ==
    ASSUME NEW b, NEW lines, NEW m, NEW n, OneMore(b, lines, m, n),
           NEW line \in 1 .. m, Still(b, line, m), NEW k \in line .. m,
           lines[n].kind = "else"
    PROVE  Alternative(k, n, b) # {}
<1>1. /\ m \in Nat /\ n \in Nat /\ n = m + 1
      /\ \A j \in 0 .. n :
            /\ b[j] \in Seq(Nat) /\ Len(b[j]) \in Nat
            /\ \A i \in 1 .. Len(b[j]) : b[j][i] \in Nat /\ b[j][i] <= j
      /\ Turns(b[m], b[n], n)
    BY OneMoreLine
<1>2. m \in 0 .. n /\ n \in 0 .. n /\ k \in 0 .. n /\ k < n
    BY <1>1
<1>3. PICK d : d = Len(b[n])
    OBVIOUS
<1>4. /\ d = Len(b[m]) /\ d \in Nat /\ d > 0 /\ b[n][d] = n
      /\ \A i \in 1 .. d - 1 : b[n][i] = b[m][i]
    BY <1>1, <1>2, <1>3 DEF Turns
<1>5. \A j \in k .. m : d <= Len(b[j]) /\ \A i \in 1 .. d - 1 : b[j][i] = b[m][i]
    <2>1. \A j \in k .. m : j \in line .. m
        BY <1>1
    <2> QED BY <1>4, <2>1 DEF Still
<1>6. d <= Len(b[k]) /\ \A i \in 1 .. d - 1 : b[k][i] = b[n][i]
    <2>1. k \in k .. m
        BY <1>1
    <2> QED BY <1>4, <1>5, <2>1
<1>7. d \in 1 .. Len(b[k]) /\ b[n][d] # b[k][d]
    <2>1. d \in 1 .. Len(b[k]) /\ Len(b[k]) \in Nat
        BY <1>1, <1>2, <1>4, <1>6
    <2>2. b[k][d] \in Nat /\ b[k][d] <= k
        BY <1>1, <1>2, <2>1
    <2>3. b[k][d] # n
        BY <1>1, <1>2, <2>2
    <2> QED BY <1>4, <2>1, <2>3
<1>8. \A j \in k .. n : Len(b[j]) >= d
    <2>1. ASSUME NEW j \in k .. n PROVE Len(b[j]) >= d
        <3>1. Len(b[j]) \in Nat
            BY <1>1, <1>2
        <3>2. CASE j = n
            <4>1. Len(b[j]) = d
                BY <1>3, <3>2
            <4> QED BY <3>1, <4>1
        <3>3. CASE j # n
            <4>1. j \in k .. m
                BY <1>1, <3>3
            <4> QED BY <1>4, <1>5, <3>1, <4>1
        <3> QED BY <3>2, <3>3
    <2> QED BY <2>1
<1>9. SubSeq(b[k], 1, d - 1) = SubSeq(b[n], 1, d - 1)
    <2>1. PICK s, t : s = b[k] /\ t = b[n]
        OBVIOUS
    <2>2. PICK c : c = d - 1
        OBVIOUS
    <2>3. s \in Seq(Nat) /\ t \in Seq(Nat)
        BY <1>1, <1>2, <2>1
    <2>5. c \in Nat /\ c <= d
        BY <1>4, <2>2
    <2>6. c <= Len(s) /\ c <= Len(t)
        <3>1. d <= Len(s) /\ d = Len(t) /\ Len(s) \in Nat /\ Len(t) \in Nat
            <4>1. d <= Len(s) /\ d = Len(t)
                BY <1>3, <1>6, <2>1
            <4> QED BY <2>3, <4>1, LenProperties
        <3> QED BY <1>4, <2>5, <3>1
    <2>4. \A i \in 1 .. c : s[i] = t[i]
        BY <1>6, <2>1, <2>2
    <2> QED BY <2>1, <2>2, <2>3, <2>4, <2>5, <2>6, SameStart
<1>10. d \in Alternative(k, n, b)
    BY <1>3, <1>4, <1>7, <1>8, <1>9 DEF Alternative
<1> QED BY <1>10

(* No branch of a line that covers another one ends in between.            *)
LEMMA CoveredNotReplaced ==
    ASSUME NEW b, NEW n, NEW j, CoversAt(b, n, j)
    PROVE  Alternative(n, j, b) = {}
<1>1. \A d \in 1 .. Len(b[n]) : b[n][d] = b[j][d]
    BY DEF CoversAt
<1> QED BY <1>1 DEF Alternative

-----------------------------------------------------------------------------
(* What one more line does to the entries.                                 *)
LEMMA RangeAppend ==
    ASSUME NEW l \in Seq(Headers), NEW x \in Headers
    PROVE  Range(Append(l, x)) = Range(l) \cup {x}
<1>1. PICK a : a = Append(l, x)
    OBVIOUS
<1>2. /\ a \in Seq(Headers) /\ Len(a) = Len(l) + 1 /\ Len(l) \in Nat
      /\ a[Len(l) + 1] = x /\ \A i \in 1 .. Len(l) : a[i] = l[i]
    BY <1>1, AppendProperties, LenProperties
<1>3. DOMAIN a = 1 .. Len(l) + 1 /\ DOMAIN l = 1 .. Len(l)
    BY <1>2, LenProperties
<1>4. 1 .. Len(l) + 1 = (1 .. Len(l)) \cup {Len(l) + 1}
    BY <1>2
<1>5. Range(a) = {a[i] : i \in (1 .. Len(l)) \cup {Len(l) + 1}}
    BY <1>3, <1>4 DEF Range
<1>6. Range(l) = {l[i] : i \in 1 .. Len(l)}
    BY <1>3 DEF Range
<1> QED BY <1>1, <1>2, <1>5, <1>6

LEMMA EntriesSplit ==
    ASSUME NEW s \in IncludeStates
    PROVE  Entries(s) = OnLast(s) \cup OnOthers(s)
<1>1. PICK l : l = s.lists
    OBVIOUS
<1>2. Len(l) \in Nat /\ Len(l) > 0
    <2>1. l \in Seq(Seq(Headers)) \ {<<>>}
        BY <1>1 DEF IncludeStates, Headers
    <2>2. <<>> \in Seq(Headers)
        OBVIOUS
    <2> QED BY <2>1, <2>2, ListChanges
<1>3. 1 .. Len(l) = (1 .. Len(l) - 1) \cup {Len(l)}
    BY <1>2
<1> QED BY <1>1, <1>3 DEF Entries, OnLast, OnOthers, Last

LEMMA NewLineLists ==
    ASSUME IncludesInv, Include \/ Directive \/ OtherLine, NEW n, n = linenum + 1
    PROVE  /\ \A e \in OnLast(includes') :
                 \/ e \in OnLast(includes) /\ Lines[n].kind \notin {"if", "else"}
                 \/ e = Entry(n) /\ Include /\ Recording(n)
           /\ \A e \in OnOthers(includes') :
                 e \in OnOthers(includes) \/ (Lines[n].kind = "if" /\ e \in OnLast(includes))
           /\ \A e \in Entries(includes) :
                 e \in Entries(includes') \/ (Lines[n].kind = "else" /\ e \in OnLast(includes))
           /\ Include /\ Recording(n) => Entry(n) \in Entries(includes')
<1>1. PICK s, t : s = includes.lists /\ t = includes'.lists
    OBVIOUS
<1>2. includes \in IncludeStates /\ includes' \in IncludeStates
    BY IncludeStatesNext DEF IncludesInv, Next
<1>3. /\ s \in Seq(Seq(Headers)) \ {<<>>}
      /\ Len(s) \in Nat /\ Len(s) > 0 /\ s[Len(s)] \in Seq(Headers)
    <2>1. s \in Seq(Seq(Headers)) \ {<<>>}
        BY <1>1, <1>2 DEF IncludeStates, Headers
    <2>2. <<>> \in Seq(Headers)
        OBVIOUS
    <2> QED BY <2>1, <2>2, ListChanges
<1>4. /\ OnLast(includes) = Range(s[Len(s)]) /\ OnLast(includes') = Range(t[Len(t)])
      /\ OnOthers(includes) = UNION {Range(s[i]) : i \in 1 .. Len(s) - 1}
      /\ OnOthers(includes') = UNION {Range(t[i]) : i \in 1 .. Len(t) - 1}
    BY <1>1 DEF OnLast, OnOthers, Last
<1>5. /\ Entries(includes) = OnLast(includes) \cup OnOthers(includes)
      /\ Entries(includes') = OnLast(includes') \cup OnOthers(includes')
    BY <1>2, EntriesSplit
<1>6. Range(<<>>) = {}
    BY DEF Range
<1>7. CASE includes' = includes /\ Lines[n].kind \notin {"if", "else"}
           /\ ~(Include /\ Recording(n))
    BY <1>5, <1>7
<1>8. CASE Include /\ Recording(n)
    <2>1. /\ includes' = RecordedState(n) /\ n \in Nat /\ n \in 1 .. Len(Lines)
          /\ Lines[n].kind = "include"
        BY <1>8, IncludeAt
    <2>2. Lines[n].of \in Paths
        <3>1. Lines[n] \in FileLines
            BY <2>1, FileFacts DEF IncludesInv
        <3> QED BY <3>1 DEF FileLines
    <2>3. t = Pushed(n)
        BY <1>1, <2>1 DEF RecordedState
    <2>4. /\ Len(t) = Len(s) /\ t[Len(s)] = Append(s[Len(s)], Entry(n))
          /\ \A i \in 1 .. Len(s) - 1 : t[i] = s[i]
        BY <1>1, <1>2, <2>1, <2>2, <2>3, PushedAt
    <2>5. Entry(n) \in Headers
        BY <2>1, <2>2 DEF Entry, Headers
    <2>6. OnLast(includes') = OnLast(includes) \cup {Entry(n)}
        BY <1>3, <1>4, <2>4, <2>5, RangeAppend
    <2>7. OnOthers(includes') = OnOthers(includes)
        BY <1>4, <2>4
    <2> QED BY <1>5, <1>8, <2>1, <2>6, <2>7
<1>9. CASE Directive
    <2> DEFINE kind == Lines[n].kind
    <2>1. t = ResetSection(includes, kind).lists
        BY <1>1, <1>9 DEF Directive, Lines
    <2>2. /\ kind = "if" =>
                /\ Len(t) = Len(s) + 1 /\ t[Len(s) + 1] = <<>>
                /\ \A i \in 1 .. Len(s) : t[i] = s[i]
          /\ kind = "else" =>
                /\ Len(t) = Len(s) /\ t[Len(s)] = <<>>
                /\ \A i \in 1 .. Len(s) - 1 : t[i] = s[i]
          /\ kind \notin {"if", "else"} => t = s
        <3>1. PICK d : d = kind
            OBVIOUS
        <3> QED BY SMTT(30), <1>1, <1>2, <2>1, <3>1, ResetAt
    <2>3. ~Include
        <3>1. Lines[n].kind # "include"
            BY <1>9, QuietLine
        <3> QED BY <3>1, IncludeAt
    <2> HIDE DEF kind
    <2>4. CASE kind = "if"
        <3>1. OnLast(includes') = {}
            BY <1>3, <1>4, <1>6, <2>2, <2>4
        <3>2. OnOthers(includes') = OnOthers(includes) \cup OnLast(includes)
            <4>1. Len(t) - 1 = Len(s) /\ 1 .. Len(s) = (1 .. Len(s) - 1) \cup {Len(s)}
                BY <1>3, <2>2, <2>4
            <4>2. OnOthers(includes') = UNION {Range(s[i]) : i \in 1 .. Len(s)}
                BY <1>4, <2>2, <2>4, <4>1
            <4> QED BY SMTT(30), <1>4, <4>1, <4>2
        <3> QED BY <1>5, <2>3, <2>4, <3>1, <3>2 DEF kind
    <2>5. CASE kind = "else"
        <3>1. OnLast(includes') = {}
            BY <1>3, <1>4, <1>6, <2>2, <2>5
        <3>2. OnOthers(includes') = OnOthers(includes)
            BY <1>4, <2>2, <2>5
        <3> QED BY <1>5, <2>3, <2>5, <3>1, <3>2 DEF kind
    <2>6. CASE kind \notin {"if", "else"}
        <3>1. t = s
            BY <2>2, <2>6
        <3>2. OnLast(includes') = OnLast(includes) /\ OnOthers(includes') = OnOthers(includes)
            BY <1>4, <3>1
        <3> QED BY <1>5, <2>3, <2>6, <3>2 DEF kind
    <2> QED BY <2>4, <2>5, <2>6
<1>10. CASE Include /\ ~Recording(n)
    <2>1. includes' = includes /\ Lines[n].kind = "include"
        BY <1>10, IncludeAt
    <2> QED BY <1>7, <1>10, <2>1
<1>11. CASE OtherLine
    <2>1. includes' = includes /\ ~IsDirective(n) /\ Lines[n].kind # "include"
        BY <1>11, QuietLine
    <2>2. ~Include
        BY <2>1, IncludeAt
    <2> QED BY <1>7, <2>1, <2>2 DEF IsDirective
<1> QED BY <1>8, <1>9, <1>10, <1>11

-----------------------------------------------------------------------------
(* The lists follow the lines.                                             *)
LEMMA IfDeepens ==
    ASSUME NEW b, NEW lines, AreBranches(b, lines), Len(lines) \in Nat,
           NEW k \in 1 .. Len(lines), lines[k].kind = "if"
    PROVE  Len(b[k]) = Len(b[k - 1]) + 1
<1>1. k - 1 \in 0 .. Len(lines) /\ k \in Nat
    OBVIOUS
<1>2. b[k - 1] \in Seq(Nat) /\ b[k] = Branched(b[k - 1], lines[k].kind, k)
    BY <1>1 DEF AreBranches
<1> QED BY <1>1, <1>2, BranchedAt DEF Opens

LEMMA NewLineBranches ==
    ASSUME IncludesInv, NewLine, NEW n, n = linenum + 1
    PROVE  /\ OneMore(Branches, Lines, linenum, n)
           /\ \A k \in 1 .. linenum :
                 Lines[k].kind = "if" => Len(Branches[k]) = Len(Branches[k - 1]) + 1
           /\ Branches' = Branches /\ Lines' = Lines /\ linenum' = n
           /\ linenum \in Nat /\ n \in Nat
           /\ Included \subseteq 1 .. linenum /\ Included \subseteq Included'
           /\ \A k \in Included' : k \in Included \/ k = n
           /\ n \in Included' <=> Lines[n].kind = "include"
<1>1. /\ AreBranches(Branches, Lines) /\ Len(Lines) \in Nat
      /\ \A k \in 1 .. Len(Lines) : Lines[k].kind = "else" => Branches[k - 1] # <<>>
    BY FileFacts DEF IncludesInv
<1>2. /\ linenum \in Nat /\ n \in 1 .. Len(Lines) /\ n - 1 = linenum /\ n \in Nat
      /\ Included \subseteq 1 .. linenum /\ Included \subseteq Included'
      /\ \A k \in Included' : k \in Included \/ k = n
      /\ n \in Included' <=> Lines[n].kind = "include"
    BY NewLineNumbers
<1>3. OneMore(Branches, Lines, linenum, n)
    BY <1>1, <1>2 DEF OneMore
<1>4. \A k \in 1 .. linenum :
          Lines[k].kind = "if" => Len(Branches[k]) = Len(Branches[k - 1]) + 1
    BY <1>1, <1>2, IfDeepens
<1>5. Branches' = Branches /\ Lines' = Lines /\ linenum' = n
    BY SameFile DEF NewLine
<1> QED BY <1>2, <1>3, <1>4, <1>5

LEMMA EntriesNext ==
    ASSUME IncludesInv, EntriesKept, LastListKept, OtherListsKept, OutlivedByNested,
           Include \/ Directive \/ OtherLine
    PROVE  EntriesKept' /\ LastListKept' /\ OtherListsKept' /\ OutlivedByNested'
<1> SUFFICES ASSUME NEW n, n = linenum + 1
             PROVE  EntriesKept' /\ LastListKept' /\ OtherListsKept' /\ OutlivedByNested'
    OBVIOUS
<1> DEFINE b == Branches  m == linenum
<1>1. NewLine
    BY IncludeAt, QuietLine
<1>2. /\ OneMore(b, Lines, m, n)
      /\ \A k \in 1 .. m : Lines[k].kind = "if" => Len(b[k]) = Len(b[k - 1]) + 1
      /\ b' = b /\ Lines' = Lines /\ linenum' = n
      /\ m \in Nat /\ n \in Nat
      /\ Included \subseteq 1 .. m /\ Included \subseteq Included'
      /\ n \in Included' <=> Lines[n].kind = "include"
    BY <1>1, NewLineBranches
<1>3. /\ \A e \in OnLast(includes') :
            \/ e \in OnLast(includes) /\ Lines[n].kind \notin {"if", "else"}
            \/ e = Entry(n) /\ Include /\ Recording(n)
      /\ \A e \in OnOthers(includes') :
            e \in OnOthers(includes) \/ (Lines[n].kind = "if" /\ e \in OnLast(includes))
    BY NewLineLists
<1>4. /\ Entries(includes) = OnLast(includes) \cup OnOthers(includes)
      /\ Entries(includes') = OnLast(includes') \cup OnOthers(includes')
    BY EntriesSplit, IncludeStatesNext DEF IncludesInv, Next
<1>5. \A e \in Entries(includes) : e.line \in 1 .. m /\ e.line \in Included /\ e.of = Lines[e.line].of
    BY <1>2 DEF EntriesKept
<1>6. /\ Entry(n).line = n /\ Entry(n).of = Lines[n].of
      /\ Include => Lines[n].kind = "include"
    BY IncludeAt DEF Entry
<1>7. /\ \A e \in OnLast(includes) : Still(b, e.line, m)
      /\ \A e \in OnOthers(includes) : Nested(Lines, e.line, m)
      /\ \A e \in Entries(includes) : Outlived(b, Lines, e.line, m)
    BY ListParts
<1>8. \A e \in Entries(includes') : e \in Entries(includes) \/ (e = Entry(n) /\ Include)
    BY <1>3, <1>4
<1>9. EntriesKept'
    <2>1. \A p : Counts(p)' <=> Counts(p)
        BY <1>1, SameFile DEF NewLine
    <2>2. \A e \in Entries(includes') : e \in Entries(includes) \/ (e = Entry(n) /\ Counts(e.of))
        BY <1>3, <1>4, <1>6 DEF Recording
    <2>3. \A e \in Entries(includes) : Counts(e.of)
        BY DEF EntriesKept
    <2> QED BY <1>2, <1>5, <1>6, <1>8, <2>1, <2>2, <2>3 DEF EntriesKept
<1>10. ASSUME NEW e \in OnLast(includes') PROVE Still(b, e.line, n)
    <2>1. CASE e \in OnLast(includes) /\ Lines[n].kind \notin {"if", "else"}
        <3>1. e.line \in 1 .. m /\ Still(b, e.line, m) /\ Lines[n].kind # "if"
            BY <1>4, <1>5, <1>7, <2>1
        <3> QED BY <1>2, <3>1, StillStep
    <2>2. CASE e = Entry(n)
        <3>1. e.line = n /\ \A k \in n .. n : k = n
            BY <1>2, <1>6, <2>2
        <3>2. Len(b[n]) \in Nat
            <4>1. n \in 0 .. n
                BY <1>2
            <4> QED BY <1>2, <4>1, OneMoreLine
        <3> HIDE DEF b
        <3> QED BY <3>1, <3>2 DEF Still
    <2> QED BY <1>3, <2>1, <2>2
<1>11. ASSUME NEW e \in OnOthers(includes') PROVE Nested(Lines, e.line, n)
    <2>1. \A l \in 1 .. m : l + 1 .. m \subseteq l + 1 .. n /\ n \in l + 1 .. n
        BY <1>2
    <2>2. CASE e \in OnOthers(includes)
        <3>1. e.line \in 1 .. m /\ Nested(Lines, e.line, m)
            BY <1>4, <1>5, <1>7, <2>2
        <3> QED BY <2>1, <3>1 DEF Nested
    <2>3. CASE Lines[n].kind = "if" /\ e \in OnLast(includes)
        <3>1. e.line \in 1 .. m
            BY <1>4, <1>5, <2>3
        <3> QED BY <2>1, <2>3, <3>1 DEF Nested
    <2> QED BY <1>3, <2>2, <2>3
<1>12. ASSUME NEW e \in Entries(includes') PROVE Outlived(b, Lines, e.line, n)
    <2>1. CASE e = Entry(n)
        <3>1. e.line = n
            BY <1>6, <2>1
        <3> QED BY <3>1 DEF Outlived
    <2>2. CASE e \in Entries(includes) /\ e # Entry(n)
        <3>1. e.line \in 1 .. m /\ Outlived(b, Lines, e.line, m)
            BY <1>5, <1>7, <2>2
        <3>2. ASSUME Lines[n].kind = "else" PROVE Nested(Lines, e.line, m)
            <4>1. e \in OnOthers(includes)
                BY <1>3, <1>4, <2>2, <3>2
            <4> QED BY <1>7, <4>1
        <3> HIDE DEF b, m
        <3> QED BY <1>2, <3>1, <3>2, OutlivedStep
    <2> QED BY <1>8, <2>1, <2>2
<1>13. /\ LastListKept' <=> \A e \in OnLast(includes') : Still(b, e.line, n)
       /\ OtherListsKept' <=> \A e \in OnOthers(includes') : Nested(Lines, e.line, n)
       /\ OutlivedByNested' <=> \A e \in Entries(includes') : Outlived(b, Lines, e.line, n)
    <2>1. LastListKept' <=> \A e \in OnLast(includes') : Still(Branches', e.line, linenum')
        BY DEF LastListKept, OnLast, Still
    <2>2. OtherListsKept' <=> \A e \in OnOthers(includes') : Nested(Lines', e.line, linenum')
        BY DEF OtherListsKept, OnOthers, Nested
    <2>3. OutlivedByNested' <=>
              \A e \in Entries(includes') : Outlived(Branches', Lines', e.line, linenum')
        BY DEF OutlivedByNested, Outlived
    <2> QED BY <1>2, <2>1, <2>2, <2>3
<1> QED BY <1>9, <1>10, <1>11, <1>12, <1>13

(* What Replaced and Covers say of a line they go on to say.               *)
LEMMA ListedNext ==
    ASSUME IncludesInv, EntriesKept, LastListKept, Listed, NeverAgain,
           Include \/ Directive \/ OtherLine
    PROVE  Listed' /\ NeverAgain'
<1> SUFFICES ASSUME NEW n, n = linenum + 1 PROVE Listed' /\ NeverAgain'
    OBVIOUS
<1> DEFINE b == Branches  m == linenum
<1>1. NewLine
    BY IncludeAt, QuietLine
<1>2. /\ OneMore(b, Lines, m, n)
      /\ b' = b /\ Lines' = Lines /\ linenum' = n
      /\ m \in Nat /\ n \in Nat /\ n = m + 1
      /\ Included \subseteq 1 .. m
      /\ \A k \in Included' : k \in Included \/ k = n
      /\ n \in Included' <=> Lines[n].kind = "include"
    BY <1>1, NewLineBranches
<1>3. \A e \in Entries(includes) :
          e \in Entries(includes') \/ (Lines[n].kind = "else" /\ e \in OnLast(includes))
    BY NewLineLists
<1>4. Include /\ Recording(n) => Entry(n) \in Entries(includes')
    BY NewLineLists
<1>5. \A e \in Entries(includes) : e.line \in 1 .. m
    BY <1>2 DEF EntriesKept
<1>6. \A e \in OnLast(includes) : Still(b, e.line, m) /\ e.line \in 1 .. m
    <2>1. OnLast(includes) \subseteq Entries(includes)
        BY EntriesSplit DEF IncludesInv
    <2> QED BY <1>5, <2>1, ListParts
<1>7. \A p : Counts(p)' <=> Counts(p)
    BY <1>1, SameFile DEF NewLine
<1>8. \A k \in 1 .. n : Replaced(k, b)' <=>
          \E j \in k .. n : Lines[j].kind = "else" /\ Alternative(k, j, b) # {}
    BY <1>2 DEF Replaced, Alternative
<1>9. ASSUME NEW k \in Included, Counts(Lines[k].of), ~Replaced(k, b)'
      PROVE  \E e \in Entries(includes') : e.of = Lines[k].of /\ e.line <= k
    <2>1. k \in 1 .. m /\ k \in 1 .. n
        BY <1>2
    <2>2. ~Replaced(k, b)
        <3>1. \A j \in k .. m : j \in k .. n
            BY <1>2, <2>1
        <3> HIDE DEF b
        <3> QED BY <1>8, <1>9, <2>1, <3>1 DEF Replaced
    <2>3. PICK e \in Entries(includes) : e.of = Lines[k].of /\ e.line <= k
        BY <1>9, <2>2 DEF Listed
    <2>4. ASSUME Lines[n].kind = "else", e \in OnLast(includes) PROVE FALSE
        <3>1. PICK l : l = e.line
            OBVIOUS
        <3>2. l \in 1 .. m /\ Still(b, l, m) /\ l <= k
            BY <1>6, <2>3, <2>4, <3>1
        <3>3. k \in l .. m
            BY <2>1, <3>2
        <3> HIDE DEF b, m
        <3>4. Alternative(k, n, b) # {}
            BY <1>2, <2>4, <3>2, <3>3, ElseReplaces
        <3>5. n \in k .. n
            BY <2>1
        <3>6. Replaced(k, b)'
            BY <1>8, <2>1, <2>4, <3>4, <3>5
        <3> QED BY <1>9, <3>6
    <2> QED BY <1>3, <2>3, <2>4
<1>10. ASSUME n \in Included', Counts(Lines[n].of)
       PROVE  \E e \in Entries(includes') : e.of = Lines[n].of /\ e.line <= n
    <2>1. Include
        BY <1>2, <1>10, QuietLine
    <2>2. CASE Recording(n)
        BY <1>2, <1>4, <2>1, <2>2 DEF Entry
    <2>3. CASE ~Recording(n)
        <3>1. Earlier(n) # {}
            BY <1>10, <2>3 DEF Recording
        <3>2. PICK e \in Entries(includes) : e.of = Lines[n].of
            BY <3>1 DEF Earlier, FindHeader
        <3>3. Lines[n].kind # "else"
            BY <1>2, <1>10
        <3>4. e.line <= n
            BY <1>2, <1>5
        <3> QED BY <1>3, <3>2, <3>3, <3>4
    <2> QED BY <2>2, <2>3
<1>11. Listed'
    <2> SUFFICES ASSUME NEW k \in Included', Counts(Lines[k].of)', ~Replaced(k, b)'
                 PROVE  \E e \in Entries(includes') : e.of = Lines'[k].of /\ e.line <= k
        BY DEF Listed
    <2> QED BY <1>2, <1>7, <1>9, <1>10
<1>12. NeverAgain'
    <2> SUFFICES ASSUME NEW k \in Included', Covers(k, n, b), NEW j \in k .. n
                 PROVE  Covers(k, j, b)
        BY <1>2 DEF NeverAgain, Covers
    <2>1. CASE j = n
        BY <2>1
    <2>2. CASE j # n
        <3>1. k \in Included /\ k \in 1 .. m /\ j \in k .. m
            <4>1. k # n
                BY <1>2, <2>2
            <4>2. k \in Included /\ k \in 1 .. m
                BY <1>2, <4>1
            <4> QED BY <1>2, <2>2, <4>2
        <3>2. Covers(k, m, b)
            <4> HIDE DEF b, m
            <4> QED BY <1>2, <3>1, CoversStep
        <3> QED BY <3>1, <3>2 DEF NeverAgain
    <2> QED BY <2>1, <2>2
<1> QED BY <1>11, <1>12

-----------------------------------------------------------------------------
(* Duplicates.                                                             *)
LEMMA CoveredListed ==
    ASSUME IncludesInv, Listed, NeverAgain, NEW k \in Included, Counts(Lines[k].of),
           Covers(k, linenum, Branches)
    PROVE  \E e \in Entries(includes) : e.of = Lines[k].of /\ e.line <= k
<1> DEFINE b == Branches
<1>1. AreBranches(b, Lines) /\ Len(Lines) \in Nat /\ linenum \in 0 .. Len(Lines)
    BY FileFacts DEF IncludesInv
<1>2. k \in 1 .. linenum
    BY DEF Included
<1>3. ASSUME NEW j \in k .. linenum PROVE Alternative(k, j, b) = {}
    <2>1. Covers(k, j, b)
        BY <1>3 DEF NeverAgain
    <2>2. k \in 0 .. Len(Lines) /\ j \in 0 .. Len(Lines)
        BY <1>1, <1>2
    <2>3. b[k] \in Seq(Nat) /\ b[j] \in Seq(Nat)
        BY <1>1, <2>2 DEF AreBranches
    <2> HIDE DEF b
    <2>4. CoversAt(b, k, j)
        BY <2>1, <2>3, CoversEach
    <2> QED BY <2>4, CoveredNotReplaced
<1>4. ~Replaced(k, b)
    BY <1>3 DEF Replaced
<1> QED BY <1>4 DEF Listed

SparedOk(e) ==
    /\ e[3] < e[1]
    /\ Lines[e[3]].of = Lines[e[1]].of
    /\ \A d \in Alternative(e[3], e[1], Branches) :
          \E k \in e[3] .. e[1] : Lines[k].kind = "if" /\ Len(Branches[k]) > d

LEMMA SparedEach ==
    AlternativesSpared <=> \A e \in errors : e[2] = "duplicate" => SparedOk(e)
BY DEF AlternativesSpared, SparedOk

(* What OutlivedByNested means for the alternatives.                       *)
LEMMA OutlivedSpares ==
    ASSUME NEW b, NEW lines, NEW l \in Nat, NEW n \in Nat, Outlived(b, lines, l, n),
           NEW d \in Alternative(l, n, b), \A k \in l .. n : Len(b[k]) \in Nat
    PROVE  \E k \in l .. n : lines[k].kind = "if" /\ Len(b[k]) > d
<1>1. /\ d \in 1 .. Len(b[l])
      /\ b[l][d] # b[n][d]
      /\ \A k \in l .. n : Len(b[k]) >= d
    BY DEF Alternative
<1>2. \A k \in l .. n : d <= Len(b[k])
    BY <1>1
<1>3. PICK k \in l .. n : lines[k].kind = "if" /\ d < Len(b[k])
    BY <1>1, <1>2 DEF Outlived
<1> QED BY <1>3

LEMMA DuplicatesNext ==
    ASSUME IncludesInv, ListsKept, DuplicatesReported, Include \/ Directive \/ OtherLine
    PROVE  DuplicatesReported'
<1> SUFFICES ASSUME NEW n, n = linenum + 1 PROVE DuplicatesReported'
    OBVIOUS
<1> DEFINE b == Branches  m == linenum
<1>1. NewLine
    BY IncludeAt, QuietLine
<1>2. /\ OneMore(b, Lines, m, n)
      /\ b' = b /\ Lines' = Lines /\ linenum' = n
      /\ m \in Nat /\ n \in Nat /\ n = m + 1
      /\ Included \subseteq 1 .. m
      /\ \A k \in Included' : k \in Included \/ k = n
      /\ n \in Included' <=> Lines[n].kind = "include"
    BY <1>1, NewLineBranches
<1>3. \A p : Counts(p)' <=> Counts(p)
    BY <1>1, SameFile DEF NewLine
<1>4. errors \subseteq errors' /\ \A e \in errors' : e \in errors \/ e[1] = n
    BY <1>1, <1>2 DEF NewLine
<1>5. /\ EntriesKept /\ OutlivedByNested /\ Listed /\ NeverAgain
      /\ RepeatsFound /\ AlternativesSpared
    BY DEF ListsKept, DuplicatesReported
<1>6. \A e \in Entries(includes) : e.line \in 1 .. m /\ e.of = Lines[e.line].of
    BY <1>2, <1>5 DEF EntriesKept
<1>7. Earlier(n) = {e.line : e \in {x \in Entries(includes) : x.of = Lines[n].of}}
    BY DEF Earlier, FindHeader
<1>8. Earlier(n) \subseteq Nat
    <2>1. \A e \in Entries(includes) : e.line \in Nat
        BY <1>6
    <2> QED BY <1>7, <2>1
<1>9. ASSUME NEW k \in Included, n \in Included', Lines[k].of = Lines[n].of,
             Counts(Lines[k].of), Covers(k, n, b)
      PROVE  \E e \in errors' : e[1] = n /\ e[2] = "duplicate" /\ e[3] <= k
    <2>1. Covers(k, m, b)
        <3>1. k \in 1 .. m
            BY <1>2
        <3> HIDE DEF b, m
        <3> QED BY <1>2, <1>9, <3>1, CoversStep
    <2>2. PICK e \in Entries(includes) : e.of = Lines[k].of /\ e.line <= k
        BY <1>5, <1>9, <2>1, CoveredListed
    <2>3. PICK f : f = Min(Earlier(n))
        OBVIOUS
    <2>4. e.line \in Earlier(n)
        BY <1>7, <1>9, <2>2
    <2>5. f \in Nat /\ f <= e.line
        BY <1>8, <2>3, <2>4, SmallestOf
    <2>6. Include
        BY <1>2, <1>9, QuietLine
    <2>7. <<n, "duplicate", f>> \in errors'
        BY <2>3, <2>4, <2>6, IncludeAt
    <2>8. f <= k
        <3>1. e.line \in Nat /\ k \in Nat
            BY <1>2, <1>6
        <3> QED BY <2>2, <2>5, <3>1
    <2> DEFINE x == <<n, "duplicate", f>>
    <2>9. x[1] = n /\ x[2] = "duplicate" /\ x[3] = f
        OBVIOUS
    <2> HIDE DEF x
    <2> QED BY <2>7, <2>8, <2>9 DEF x
<1>10. RepeatsFound'
    <2> SUFFICES ASSUME NEW i \in Included', NEW j \in Included', i < j,
                        Lines[i].of = Lines[j].of, Counts(Lines[i].of), Covers(i, j, b)
                 PROVE  \E e \in errors' : e[1] = j /\ e[2] = "duplicate" /\ e[3] <= i
        BY <1>2, <1>3 DEF RepeatsFound, Covers
    <2>1. i \in Included
        <3>1. j \in 1 .. m \/ j = n
            BY <1>2
        <3>2. i # n
            BY <1>2, <3>1
        <3> QED BY <1>2, <3>2
    <2>2. CASE j = n
        BY <1>9, <2>1, <2>2
    <2>3. CASE j # n
        <3>1. j \in Included
            BY <1>2, <2>3
        <3>2. \E e \in errors : e[1] = j /\ e[2] = "duplicate" /\ e[3] <= i
            BY <1>5, <2>1, <3>1 DEF RepeatsFound
        <3> QED BY <1>4, <3>2
    <2> QED BY <2>2, <2>3
<1>11. ASSUME NEW e \in errors', e \notin errors, e[2] = "duplicate"
       PROVE  SparedOk(e)
    <2>1. e[1] = n
        BY <1>4, <1>11
    <2>2. Include
        <3>1. errors' # errors
            BY <1>11
        <3> QED BY <3>1, QuietLine
    <2>3. Earlier(n) # {} /\ e[3] = Min(Earlier(n))
        BY <1>11, <2>1, <2>2, IncludeAt
    <2>4. e[3] \in Earlier(n)
        BY <1>8, <2>3, SmallestOf
    <2>5. PICK x \in Entries(includes) : x.of = Lines[n].of /\ x.line = e[3]
        BY <1>7, <2>4
    <2>6. PICK l : l = e[3]
        OBVIOUS
    <2>7. l \in 1 .. m /\ Lines[l].of = Lines[n].of
        BY <1>6, <2>5, <2>6
    <2>8. Outlived(b, Lines, l, m)
        BY <1>5, <2>5, <2>6, ListParts
    <2>9. Outlived(b, Lines, l, n)
        <3>1. Lines[n].kind = "include"
            BY <2>2, IncludeAt
        <3>2. \A k \in 1 .. m : Lines[k].kind = "if" => Len(b[k]) = Len(b[k - 1]) + 1
            BY <1>1, NewLineBranches
        <3> HIDE DEF b, m
        <3> QED BY <1>2, <2>7, <2>8, <3>1, <3>2, OutlivedStep
    <2>10. \A k \in l .. n : Len(b[k]) \in Nat
        <3>1. \A k \in l .. n : k \in 0 .. n
            BY <1>2, <2>7
        <3> HIDE DEF b, m
        <3> QED BY <1>2, <3>1, OneMoreLine
    <2>11. ASSUME NEW d \in Alternative(l, n, b)
           PROVE  \E k \in l .. n : Lines[k].kind = "if" /\ Len(b[k]) > d
        <3>1. l \in Nat /\ n \in Nat
            BY <1>2, <2>7
        <3> HIDE DEF b, m
        <3>2. PICK y : y = Lines
            OBVIOUS
        <3>3. Outlived(b, y, l, n)
            BY <2>9, <3>2
        <3>4. \E k \in l .. n : y[k].kind = "if" /\ Len(b[k]) > d
            BY ONLY SMTT(30), <2>10, <2>11, <3>1, <3>3, OutlivedSpares
        <3> QED BY <3>2, <3>4
    <2>12. l < n
        BY <1>2, <2>7
    <2> QED BY <2>1, <2>6, <2>7, <2>11, <2>12 DEF SparedOk
<1>12. AlternativesSpared'
    <2>1. \A e : SparedOk(e)' <=> SparedOk(e)
        BY <1>2 DEF SparedOk, Alternative
    <2>2. \A e \in errors : e[2] = "duplicate" => SparedOk(e)
        BY <1>5, SparedEach
    <2>3. \A e \in errors' : e[2] = "duplicate" => SparedOk(e)
        BY <1>11, <2>2
    <2> QED BY <2>1, <2>3 DEF AlternativesSpared, SparedOk
<1> QED BY <1>10, <1>12 DEF DuplicatesReported

(* A step that leaves the lists as they are and raises no duplicate.       *)
LEMMA UnmovedLists ==
    ASSUME ListsKept, DuplicatesReported, UNCHANGED <<file, linenum, includes>>,
           errors \subseteq errors',
           \A e \in errors' : e[2] = "duplicate" => e \in errors
    PROVE  ListsKept' /\ DuplicatesReported'
<1>1. Lines' = Lines /\ Included' = Included /\ Branches' = Branches
      /\ (\A p : Counts(p)' <=> Counts(p))
    BY SameFile DEF Included
<1>2. EntriesKept' /\ LastListKept' /\ OtherListsKept' /\ OutlivedByNested'
    BY <1>1 DEF ListsKept, EntriesKept, LastListKept, OtherListsKept, OutlivedByNested
<1>3. Listed'
    <2>1. \A n : Replaced(n, Branches)' <=> Replaced(n, Branches)
        BY <1>1 DEF Replaced, Alternative
    <2> QED BY <1>1, <2>1 DEF ListsKept, Listed
<1>4. NeverAgain'
    BY <1>1 DEF ListsKept, NeverAgain, Covers
<1>5. RepeatsFound'
    BY <1>1 DEF DuplicatesReported, RepeatsFound, Covers
<1>6. AlternativesSpared'
    BY <1>1 DEF DuplicatesReported, AlternativesSpared, Alternative
<1> QED BY <1>2, <1>3, <1>4, <1>5, <1>6 DEF ListsKept, DuplicatesReported

ListsInv == IncludesInv /\ ListsKept /\ DuplicatesReported

LEMMA ListsInit ==
    ASSUME Init
    PROVE  ListsInv
<1>1. IncludesInv
    BY IncludesInit
<1>2. Included = {} /\ errors = {}
    BY NothingIncluded
<1>3. Entries(includes) = {}
    <2>1. includes.lists = <<<<>>>>
        BY StartState DEF Init
    <2>2. OnLast(includes) = {} /\ OnOthers(includes) = {}
        BY <2>1 DEF OnLast, OnOthers, Last, Range
    <2> QED BY <1>1, <2>2, EntriesSplit DEF IncludesInv
<1>4. OnLast(includes) = {} /\ OnOthers(includes) = {}
    BY <1>1, <1>3, EntriesSplit DEF IncludesInv
<1>5. LastListKept /\ OtherListsKept /\ OutlivedByNested
    BY <1>3, <1>4, ListParts
<1>6. EntriesKept /\ Listed /\ NeverAgain /\ DuplicatesReported
    BY <1>2, <1>3
    DEF EntriesKept, Listed, NeverAgain, DuplicatesReported, RepeatsFound, AlternativesSpared
<1> QED BY <1>1, <1>5, <1>6 DEF ListsInv, ListsKept

LEMMA ListsInvNext ==
    ASSUME OrderInv, ListsInv, [Next]_vars
    PROVE  ListsInv'
<1>1. IncludesInv'
    BY OrderInvNext DEF OrderInv
<1>2. IncludesInv /\ ListsKept /\ DuplicatesReported
    BY DEF ListsInv
<1>3. CASE Include \/ Directive \/ OtherLine
    <2>1. EntriesKept' /\ LastListKept' /\ OtherListsKept' /\ OutlivedByNested'
        BY <1>2, <1>3, EntriesNext DEF ListsKept
    <2>2. Listed' /\ NeverAgain'
        BY <1>2, <1>3, ListedNext DEF ListsKept
    <2>3. DuplicatesReported'
        BY <1>2, <1>3, DuplicatesNext
    <2> QED BY <1>1, <2>1, <2>2, <2>3 DEF ListsInv, ListsKept
<1>4. CASE WholeFile
    <2>1. /\ UNCHANGED <<file, linenum, includes>>
          /\ errors \subseteq errors'
          /\ \A e \in errors' :
                \/ e \in errors
                \/ e[2] = "missing"
                \/ CheckHeaderFileIncluded /\ e[2] = "own header"
        BY <1>4, WholeFileUnmoved
    <2>2. \A e \in errors' : e[2] = "duplicate" => e \in errors
        BY <2>1
    <2> QED BY <1>1, <1>2, <2>1, <2>2, UnmovedLists DEF ListsInv
<1>5. CASE UNCHANGED vars
    <2>1. UNCHANGED <<file, linenum, includes>> /\ errors' = errors
        BY <1>5 DEF vars
    <2> QED BY <1>1, <1>2, <2>1, UnmovedLists DEF ListsInv
<1> QED BY <1>3, <1>4, <1>5 DEF Next, WholeFile

(* What is on the lists is known from the lines (ResetSection, FindHeader). *)
THEOREM ListsInvariant ==
    Spec => []ListsInv
<1>1. Init => ListsInv
    BY ListsInit
<1>2. OrderInv /\ ListsInv /\ [Next]_vars => ListsInv'
    BY ListsInvNext
<1> QED BY <1>1, <1>2, IncludesInvariant, PTL DEF Spec

(* A second include is reported if the first one is compiled wherever the  *)
(* second is, and in the other branch of a conditional only after a nested *)
(* one (CheckIncludeLine).                                                 *)
THEOREM DuplicatesAlwaysReported ==
    Spec => []DuplicatesReported
<1>1. ListsInv => DuplicatesReported
    BY DEF ListsInv
<1> QED BY <1>1, ListsInvariant, PTL

-----------------------------------------------------------------------------
(* Paths as texts.                                                         *)
LEMMA SeparatedAt ==
    ASSUME NEW S, NEW w \in Seq(S), NEW c \in S
    PROVE  /\ Separated(w, c) \in Seq(S)
           /\ Len(w) \in Nat /\ Len(Separated(w, c)) = 2 * Len(w)
           /\ \A i \in 1 .. 2 * Len(w) :
                 Separated(w, c)[i] = IF i % 2 = 1 THEN w[(i + 1) \div 2] ELSE c
<1> DEFINE e(i) == IF i % 2 = 1 THEN w[(i + 1) \div 2] ELSE c
<1>1. PICK N : N = 2 * Len(w)
    OBVIOUS
<1>2. Len(w) \in Nat /\ N \in Nat
    BY <1>1, LenProperties
<1>3. ASSUME NEW i \in 1 .. N PROVE e(i) \in S
    <2>1. CASE i % 2 = 1
        <3>1. (i + 1) \div 2 \in 1 .. Len(w)
            BY <1>1, <1>2, <2>1
        <3> QED BY <2>1, <3>1, ElementOfSeq
    <2> QED BY <2>1
<1>4. [i \in 1 .. N |-> e(i)] \in Seq(S)
    BY <1>2, <1>3, IsASeq
<1>5. Separated(w, c) = [i \in 1 .. N |-> e(i)]
    BY <1>1 DEF Separated
<1> HIDE DEF e
<1>6. Len(Separated(w, c)) = N
    BY <1>2, <1>4, <1>5
<1>7. \A i \in 1 .. N : Separated(w, c)[i] = e(i)
    BY <1>5
<1> QED BY <1>1, <1>2, <1>4, <1>5, <1>6, <1>7 DEF e

LEMMA FrontIn ==
    ASSUME NEW S, NEW w \in Seq(S)
    PROVE  Front(w) \in Seq(S)
<1>1. PICK c : c = Len(w) - 1
    OBVIOUS
<1>2. Len(w) \in Nat /\ c \in Int
    BY <1>1, LenProperties
<1>3. \A i \in 1 .. c : i \in 1 .. Len(w)
    BY <1>1, <1>2
<1>4. \A i \in 1 .. c : w[i] \in S
    BY <1>3, ElementOfSeq
<1>5. SubSeq(w, 1, c) \in Seq(S)
    BY ONLY <1>2, <1>4, SubSeqProperties
<1> QED BY <1>1, <1>5 DEF Front

(* What words and separators are put together from.                        *)
Signs == {"/", "-", ".", "h"}

LEMMA TextIn ==
    ASSUME NEW S, NEW p, p.dir \in Seq(S), p.base \in Seq(S), Signs \subseteq S, p.ext \in S
    PROVE  /\ Separated(p.dir, "/") \in Seq(S)
           /\ Front(Separated(p.base, "-")) \in Seq(S)
           /\ Extension(p.ext) \in Seq(S)
           /\ Text(p) \in Seq(S)
<1>1. "/" \in S /\ "-" \in S /\ "." \in S /\ "h" \in S
    BY DEF Signs
<1>2. Extension(p.ext) \in Seq(S)
    <2>1. <<>> \in Seq(S) /\ <<".", "h", p.ext>> \in Seq(S) /\ <<".", p.ext>> \in Seq(S)
        BY <1>1
    <2> QED BY <2>1 DEF Extension
<1>3. Separated(p.dir, "/") \in Seq(S) /\ Front(Separated(p.base, "-")) \in Seq(S)
    BY <1>1, SeparatedAt, FrontIn
<1>4. \A x, y \in Seq(S) : x \o y \in Seq(S)
    BY ConcatProperties
<1> QED BY <1>2, <1>3, <1>4 DEF Text

-----------------------------------------------------------------------------
(* The own header of a source file.                                        *)
LEMMA OverlapsItself ==
    ASSUME NEW p, p.dir \in Seq(STRING), p.base \in Seq(STRING)
    PROVE  Overlap(p, p)
<1>1. PICK S : S = STRING \cup Signs \cup {p.ext}
    OBVIOUS
<1>2. Signs \subseteq S /\ STRING \subseteq S /\ p.ext \in S
    BY <1>1
<1>3. p.dir \in Seq(S) /\ p.base \in Seq(S)
    BY <1>2, SeqMonotonic
<1>4. PICK t : t = Text(p)
    OBVIOUS
<1>5. t \in Seq(S)
    BY <1>2, <1>3, <1>4, TextIn
<1>6. InText(t, t)
    <2>1. Len(t) \in Nat /\ SubSeq(t, 1, Len(t)) = t
        BY <1>5, LenProperties, SubSeqFull
    <2>2. 0 \in 0 .. Len(t) - Len(t) /\ 0 + 1 = 1 /\ 0 + Len(t) = Len(t)
        BY <2>1
    <2>3. SubSeq(t, 0 + 1, 0 + Len(t)) = t
        BY <2>1, <2>2
    <2> QED BY <2>2, <2>3 DEF InText
<1> QED BY <1>4, <1>6 DEF Overlap

LEMMA OwnHeaderAt ==
    ASSUME file \in IncludingFiles, NEW q \in OwnHeaders
    PROVE  RepositoryName(file, q) = q /\ Overlap(q, q) /\ Counts(q)
<1>1. /\ q \in DOMAIN file.disk
      /\ q.ext \in HeaderExtensions
      /\ q = [file.path EXCEPT !.ext = q.ext]
    BY DEF OwnHeaders
<1>2. file.path \in Paths
    BY FilesAssumption
<1>3. q.dir = file.path.dir /\ q.base = file.path.base
    BY <1>1, <1>2 DEF Paths
<1>4. RepositoryName(file, q) = q
    BY <1>1 DEF RepositoryName
<1>5. Overlap(q, q)
    <2>1. q.dir \in Seq(STRING) /\ q.base \in Seq(STRING)
        BY <1>2, <1>3 DEF Paths
    <2> QED BY <2>1, OverlapsItself
<1>6. ~OfOtherPackage(file, q)
    BY <1>3 DEF OfOtherPackage
<1>7. IsOfThisFile(file, q)
    BY <1>1, <1>4, <1>5 DEF IsOfThisFile
<1> QED BY <1>4, <1>5, <1>6, <1>7 DEF Counts

AskedFor == {e[3] : e \in {x \in errors : x[2] = "own header"}}
Similar == {n \in Included : \E q \in OwnHeaders : Overlap(q, Lines[n].of)}

OwnOk(q) ==
    /\ (\E n \in Included : Lines[n].of = q /\ ~Replaced(n, Branches)) => q \notin AskedFor
    /\ (Similar = {} /\ ~IsTestFile(file.path)) => q \in AskedFor

LEMMA OwnEach ==
    OwnHeaderAsked <=>
        (phase = "done" /\ file.path.ext \in NonHeaderExtensions
         => \A q \in OwnHeaders : OwnOk(q))
BY DEF OwnHeaderAsked, OwnOk, AskedFor, Similar

LEMMA OwnUnmoved ==
    ASSUME file' = file, linenum' = linenum
    PROVE  /\ Lines' = Lines /\ Included' = Included /\ Similar' = Similar
           /\ \A n : Replaced(n, Branches)' <=> Replaced(n, Branches)
<1>1. /\ Lines' = Lines /\ Included' = Included
      /\ \A n : Replaced(n, Branches)' <=> Replaced(n, Branches)
    BY SameFile DEF Included, Replaced, Alternative
<1>2. OwnHeaders' = OwnHeaders
    BY DEF OwnHeaders
<1> QED BY <1>1, <1>2 DEF Similar

LEMMA OwnHeaderNext ==
    ASSUME ListsInv, CheckHeaderFileIncluded, NEW q \in OwnHeaders
    PROVE  OwnOk(q)'
<1> DEFINE missing == {h \in OwnHeaders : ~IsIncluded(h, includes)}
           first   == IF Entries(includes) = {} THEN 0
                      ELSE Min({e.line : e \in Entries(includes)})
<1>1. PICK before \in SUBSET missing :
          /\ missing = OwnHeaders => before = missing
          /\ errors' = errors \cup
                IF IsTestFile(file.path) THEN {}
                ELSE {<<first, "own header", h>> : h \in before}
    BY DEF CheckHeaderFileIncluded
<1>2. \A h \in OwnHeaders : h \in missing <=> ~IsIncluded(h, includes)
    OBVIOUS
<1>3. missing \subseteq OwnHeaders
    OBVIOUS
<1> HIDE DEF missing, first
<1>4. UNCHANGED <<file, linenum, includes>> /\ phase = "own"
    BY DEF CheckHeaderFileIncluded
<1>5. /\ Lines' = Lines /\ Included' = Included /\ Similar' = Similar
      /\ IsTestFile(file.path)' = IsTestFile(file.path)
      /\ \A n : Replaced(n, Branches)' <=> Replaced(n, Branches)
    BY <1>4, OwnUnmoved DEF IsTestFile
<1>6. file \in IncludingFiles /\ EntriesKept /\ Listed /\ ErrorsKept
    BY DEF ListsInv, ListsKept, IncludesInv
<1>7. \A h \in OwnHeaders :
          /\ Overlap(h, h) /\ Counts(h)
          /\ IsIncluded(h, includes) <=> \E e \in Entries(includes) : Overlap(h, e.of)
    BY <1>6, OwnHeaderAt DEF IsIncluded
<1>8. \A e \in errors : e[2] # "own header"
    BY <1>4, <1>6 DEF ErrorsKept
<1>9. AskedFor' = IF IsTestFile(file.path) THEN {} ELSE before
    <2>1. AskedFor' = {e[3] : e \in {x \in errors' : x[2] = "own header"}}
        BY DEF AskedFor
    <2>2. CASE IsTestFile(file.path)
        <3>1. {x \in errors' : x[2] = "own header"} = {}
            BY <1>1, <1>8, <2>2
        <3> QED BY <2>1, <2>2, <3>1
    <2>3. CASE ~IsTestFile(file.path)
        <3>1. \A h : /\ <<first, "own header", h>>[2] = "own header"
                     /\ <<first, "own header", h>>[3] = h
            OBVIOUS
        <3>2. {x \in errors' : x[2] = "own header"} = {<<first, "own header", h>> : h \in before}
            BY <1>1, <1>8, <2>3, <3>1
        <3>3. {e[3] : e \in {<<first, "own header", h>> : h \in before}} = before
            BY <3>1
        <3> QED BY <2>1, <2>3, <3>2, <3>3
    <2> QED BY <2>2, <2>3
<1>10. ASSUME NEW n \in Included, Lines[n].of = q, ~Replaced(n, Branches)
       PROVE  q \notin AskedFor'
    <2>1. \E e \in Entries(includes) : e.of = q
        BY <1>6, <1>7, <1>10 DEF Listed
    <2>2. q \notin missing
        BY <1>2, <1>7, <2>1
    <2> QED BY <1>1, <1>9, <2>2
<1>11. ASSUME Similar = {}, ~IsTestFile(file.path)
       PROVE  q \in AskedFor'
    <2>1. ASSUME NEW h \in OwnHeaders PROVE h \in missing
        <3>1. ASSUME NEW e \in Entries(includes) PROVE ~Overlap(h, e.of)
            BY <1>6, <1>11 DEF EntriesKept, Similar
        <3> QED BY <1>2, <1>7, <3>1
    <2>2. missing = OwnHeaders
        BY <1>3, <2>1
    <2> QED BY <1>1, <1>9, <1>11, <2>2
<1> QED BY <1>5, <1>10, <1>11 DEF OwnOk

LEMMA OwnHeaderAskedNext ==
    ASSUME ListsInv, OwnHeaderAsked, [Next]_vars
    PROVE  OwnHeaderAsked'
<1>1. file' = file /\ OwnHeaders' = OwnHeaders
    <2>1. file' = file
        BY ErrorsNext DEF ListsInv, vars
    <2> QED BY <2>1 DEF OwnHeaders
<1> SUFFICES ASSUME phase' = "done", file.path.ext \in NonHeaderExtensions,
                    NEW q \in OwnHeaders
             PROVE  OwnOk(q)'
    <2>1. OwnHeaderAsked' <=>
              (phase' = "done" /\ file'.path.ext \in NonHeaderExtensions
               => \A q \in OwnHeaders' : OwnOk(q)')
        BY DEF OwnHeaderAsked, OwnOk, AskedFor, Similar
    <2> QED BY <1>1, <2>1
<1>2. CheckHeaderFileIncluded \/ UNCHANGED vars
    BY DEF Next, Include, Directive, OtherLine, At, LastLine, CheckForIncludeWhatYouUse
<1>3. CASE CheckHeaderFileIncluded
    BY <1>3, OwnHeaderNext
<1>4. CASE UNCHANGED vars
    <2>1. OwnOk(q)
        BY <1>4, OwnEach DEF vars
    <2>2. /\ Lines' = Lines /\ Included' = Included /\ Similar' = Similar
          /\ \A n : Replaced(n, Branches)' <=> Replaced(n, Branches)
        BY <1>4, OwnUnmoved DEF vars
    <2>3. IsTestFile(file.path)' = IsTestFile(file.path) /\ AskedFor' = AskedFor
        BY <1>4 DEF vars, IsTestFile, AskedFor
    <2> QED BY <1>4, <2>1, <2>2, <2>3 DEF OwnOk
<1> QED BY <1>2, <1>3, <1>4

(* A source file is not asked for a header of its own that it includes     *)
(* where no other branch follows, and asked for each of them if it         *)
(* includes nothing with a name like one of theirs and is no test          *)
(* (CheckHeaderFileIncluded).  Between the two, where a header is not      *)
(* included but another one with a name like its own is, nothing is said.  *)
THEOREM OwnHeaderAlwaysAsked ==
    Spec => []OwnHeaderAsked
<1>1. Init => OwnHeaderAsked
    BY DEF Init, OwnHeaderAsked
<1>2. ListsInv /\ OwnHeaderAsked /\ [Next]_vars => OwnHeaderAsked'
    BY OwnHeaderAskedNext
<1> QED BY <1>1, <1>2, ListsInvariant, PTL DEF Spec

-----------------------------------------------------------------------------
(* The names of modules as texts.                                          *)
LEMMA SeparatedConcat ==
    ASSUME NEW S, NEW u \in Seq(S), NEW v \in Seq(S), NEW c \in S
    PROVE  Separated(u \o v, c) = Separated(u, c) \o Separated(v, c)
<1>1. PICK w : w = u \o v
    OBVIOUS
<1>2. PICK x, y, z : x = Separated(u, c) /\ y = Separated(v, c) /\ z = Separated(w, c)
    OBVIOUS
<1>3. PICK a, b : a = Len(u) /\ b = Len(v)
    OBVIOUS
<1>4. /\ w \in Seq(S) /\ Len(w) = a + b /\ a \in Nat /\ b \in Nat
      /\ \A i \in 1 .. a + b : w[i] = IF i <= a THEN u[i] ELSE v[i - a]
    BY <1>1, <1>3, ConcatProperties, LenProperties
<1>5. /\ x \in Seq(S) /\ Len(x) = 2 * a
      /\ \A i \in 1 .. 2 * a : x[i] = IF i % 2 = 1 THEN u[(i + 1) \div 2] ELSE c
    <2>1. /\ Separated(u, c) \in Seq(S) /\ Len(Separated(u, c)) = 2 * Len(u)
          /\ \A i \in 1 .. 2 * Len(u) :
                Separated(u, c)[i] = IF i % 2 = 1 THEN u[(i + 1) \div 2] ELSE c
        BY SeparatedAt, Zenon
    <2> QED BY <1>2, <1>3, <2>1
<1>6. /\ y \in Seq(S) /\ Len(y) = 2 * b
      /\ \A i \in 1 .. 2 * b : y[i] = IF i % 2 = 1 THEN v[(i + 1) \div 2] ELSE c
    <2>1. /\ Separated(v, c) \in Seq(S) /\ Len(Separated(v, c)) = 2 * Len(v)
          /\ \A i \in 1 .. 2 * Len(v) :
                Separated(v, c)[i] = IF i % 2 = 1 THEN v[(i + 1) \div 2] ELSE c
        BY SeparatedAt, Zenon
    <2> QED BY <1>2, <1>3, <2>1
<1>7. /\ z \in Seq(S) /\ Len(z) = 2 * (a + b)
      /\ \A i \in 1 .. 2 * (a + b) : z[i] = IF i % 2 = 1 THEN w[(i + 1) \div 2] ELSE c
    <2>1. PICK d : d = a + b
        OBVIOUS
    <2>2. w \in Seq(S) /\ Len(w) = d /\ z = Separated(w, c)
        BY <1>2, <1>4, <2>1
    <2>3. /\ z \in Seq(S) /\ Len(z) = 2 * d
          /\ \A i \in 1 .. 2 * d : z[i] = IF i % 2 = 1 THEN w[(i + 1) \div 2] ELSE c
        <3>1. /\ Separated(w, c) \in Seq(S) /\ Len(Separated(w, c)) = 2 * Len(w)
              /\ \A i \in 1 .. 2 * Len(w) :
                    Separated(w, c)[i] = IF i % 2 = 1 THEN w[(i + 1) \div 2] ELSE c
            BY <2>2, SeparatedAt, Zenon
        <3> QED BY <2>2, <3>1
    <2> QED BY <2>1, <2>3
<1>8. /\ x \o y \in Seq(S) /\ Len(x \o y) = 2 * a + 2 * b
      /\ \A i \in 1 .. 2 * a + 2 * b :
            (x \o y)[i] = IF i <= 2 * a THEN x[i] ELSE y[i - 2 * a]
    <2>1. PICK k, l : k = 2 * a /\ l = 2 * b
        OBVIOUS
    <2>2. x \in Seq(S) /\ y \in Seq(S) /\ Len(x) = k /\ Len(y) = l
        BY <1>5, <1>6, <2>1
    <2>3. /\ x \o y \in Seq(S) /\ Len(x \o y) = k + l
          /\ \A i \in 1 .. k + l : (x \o y)[i] = IF i <= k THEN x[i] ELSE y[i - k]
        BY ONLY <2>2, ConcatProperties
    <2> QED BY <2>1, <2>3
<1>9. ASSUME NEW i \in 1 .. 2 * (a + b) PROVE z[i] = (x \o y)[i]
    <2>1. i \in 1 .. 2 * a + 2 * b /\ i \in Nat
        BY <1>4
    <2>2. CASE i <= 2 * a
        <3>1. i \in 1 .. 2 * a /\ (i % 2 = 1 => (i + 1) \div 2 \in 1 .. a)
            BY <1>4, <2>1, <2>2
        <3>2. \A k \in 1 .. a : k \in 1 .. a + b /\ w[k] = u[k]
            BY <1>4
        <3> QED BY <1>5, <1>7, <1>8, <2>1, <2>2, <3>1, <3>2
    <2>3. CASE ~(i <= 2 * a)
        <3>1. PICK j : j = i - 2 * a
            OBVIOUS
        <3>2. /\ j \in 1 .. 2 * b /\ i % 2 = j % 2
              /\ j % 2 = 1 => /\ (j + 1) \div 2 \in 1 .. b
                              /\ (i + 1) \div 2 = a + ((j + 1) \div 2)
            BY <1>4, <2>1, <2>3, <3>1
        <3>3. \A k \in 1 .. b : a + k \in 1 .. a + b /\ w[a + k] = v[k]
            BY <1>4
        <3>4. (x \o y)[i] = y[j]
            BY <1>8, <2>1, <2>3, <3>1
        <3>5. z[i] = IF j % 2 = 1 THEN v[(j + 1) \div 2] ELSE c
            BY <1>7, <3>2, <3>3
        <3> QED BY <1>6, <3>2, <3>4, <3>5
    <2> QED BY <2>2, <2>3
<1>10. Len(z) = Len(x \o y)
    BY <1>4, <1>7, <1>8
<1>11. z = x \o y
    BY <1>7, <1>8, <1>9, <1>10, SeqEqual
<1> QED BY <1>1, <1>2, <1>11

LEMMA ReverseAt ==
    ASSUME NEW S, NEW s \in Seq(S), NEW n, n = Len(s)
    PROVE  /\ Reverse(s) \in Seq(S) /\ Len(Reverse(s)) = n
           /\ \A i \in 1 .. n : Reverse(s)[i] = s[(n - i) + 1]
<1> DEFINE e(i) == s[(n - i) + 1]
<1>1. n \in Nat
    BY LenProperties
<1>2. ASSUME NEW i \in 1 .. n PROVE e(i) \in S
    <2>1. (n - i) + 1 \in 1 .. n
        BY <1>1
    <2> QED BY <2>1, ElementOfSeq
<1>3. [i \in 1 .. n |-> e(i)] \in Seq(S)
    BY <1>1, <1>2, IsASeq
<1>4. Reverse(s) = [i \in 1 .. n |-> e(i)]
    BY DEF Reverse
<1> HIDE DEF e
<1>5. Len(Reverse(s)) = n /\ \A i \in 1 .. n : Reverse(s)[i] = e(i)
    BY <1>1, <1>3, <1>4
<1> QED BY <1>3, <1>4, <1>5 DEF e

LEMMA SuffixOfConcat ==
    ASSUME NEW S, NEW u \in Seq(S), NEW v \in Seq(S)
    PROVE  IsSuffix(v, u \o v)
<1>1. PICK w : w = u \o v
    OBVIOUS
<1>2. PICK a, b : a = Len(u) /\ b = Len(v)
    OBVIOUS
<1>3. /\ w \in Seq(S) /\ Len(w) = a + b /\ a \in Nat /\ b \in Nat
      /\ \A i \in 1 .. a + b : w[i] = IF i <= a THEN u[i] ELSE v[i - a]
    BY <1>1, <1>2, ConcatProperties, LenProperties
<1>4. ASSUME NEW s \in Seq(S), NEW n, n = Len(s)
      PROVE  /\ Reverse(s) \in Seq(S) /\ Len(Reverse(s)) = n
             /\ \A i \in 1 .. n : Reverse(s)[i] = s[(n - i) + 1]
    BY <1>4, ReverseAt
<1>5. PICK x, y : x = Reverse(v) /\ y = Reverse(w)
    OBVIOUS
<1>6. /\ x \in Seq(S) /\ Len(x) = b /\ \A i \in 1 .. b : x[i] = v[(b - i) + 1]
      /\ y \in Seq(S) /\ Len(y) = a + b /\ \A i \in 1 .. a + b : y[i] = w[((a + b) - i) + 1]
    <2>1. PICK d : d = a + b
        OBVIOUS
    <2>2. w \in Seq(S) /\ d = Len(w)
        BY <1>3, <2>1
    <2>3. /\ y \in Seq(S) /\ Len(y) = d
          /\ \A i \in 1 .. d : y[i] = w[(d - i) + 1]
        BY <1>4, <1>5, <2>2
    <2>4. /\ x \in Seq(S) /\ Len(x) = b
          /\ \A i \in 1 .. b : x[i] = v[(b - i) + 1]
        BY <1>2, <1>4, <1>5
    <2> QED BY <2>1, <2>3, <2>4
<1>7. ASSUME NEW i \in 1 .. b PROVE y[i] = x[i]
    <2>1. PICK j : j = ((a + b) - i) + 1
        OBVIOUS
    <2>2. i \in 1 .. a + b /\ j \in 1 .. a + b /\ ~(j <= a) /\ j - a = (b - i) + 1
        BY <1>3, <2>1
    <2>3. y[i] = w[j] /\ w[j] = v[j - a]
        BY <1>3, <1>6, <2>1, <2>2
    <2> QED BY <1>6, <2>2, <2>3
<1>8. /\ SubSeq(x, 1, b) \in Seq(S) /\ Len(SubSeq(x, 1, b)) = b
      /\ \A i \in 1 .. b : SubSeq(x, 1, b)[i] = x[i]
      /\ SubSeq(y, 1, b) \in Seq(S) /\ Len(SubSeq(y, 1, b)) = b
      /\ \A i \in 1 .. b : SubSeq(y, 1, b)[i] = y[i]
    <2>1. ASSUME NEW s, \A i \in 1 .. b : s[i] \in S
          PROVE  /\ SubSeq(s, 1, b) \in Seq(S) /\ Len(SubSeq(s, 1, b)) = b
                 /\ \A i \in 1 .. b : SubSeq(s, 1, b)[i] = s[i]
        <3>1. 1 \in Int /\ b \in Int
            BY <1>3
        <3>2. /\ SubSeq(s, 1, b) \in Seq(S)
              /\ Len(SubSeq(s, 1, b)) = IF 1 <= b THEN b - 1 + 1 ELSE 0
              /\ \A i \in 1 .. b - 1 + 1 : SubSeq(s, 1, b)[i] = s[1 + i - 1]
            BY ONLY <2>1, <3>1, SubSeqProperties
        <3>3. b - 1 + 1 = b /\ \A i \in 1 .. b : 1 + i - 1 = i
            BY <1>3
        <3>4. (IF 1 <= b THEN b - 1 + 1 ELSE 0) = b
            BY <1>3
        <3> QED BY ONLY <3>2, <3>3, <3>4
    <2>2. \A i \in 1 .. b : x[i] \in S /\ y[i] \in S
        BY <1>3, <1>6, ElementOfSeq
    <2> QED BY <2>1, <2>2
<1>9. SubSeq(x, 1, b) = SubSeq(y, 1, b)
    BY <1>7, <1>8, SeqEqual
<1>10. b <= a + b
    BY <1>3
<1> QED BY <1>1, <1>5, <1>6, <1>9, <1>10 DEF IsSuffix, IsPrefix

Uncounted == {"public", "internal"}

AreKept(k, S, w) ==
    /\ k \in [0 .. Len(w) -> Seq(S)]
    /\ k[0] = <<>>
    /\ \A n \in 1 .. Len(w) :
          k[n] = IF w[n] \in Uncounted THEN k[n - 1] ELSE Append(k[n - 1], w[n])

LEMMA ModuleDirDefined ==
    ASSUME NEW S, NEW w \in Seq(S)
    PROVE  \E k : AreKept(k, S, w) /\ ModuleDir(w) = k[Len(w)]
<1> DEFINE N == Len(w)
           One(s, n) == IF w[n] \in Uncounted THEN s ELSE Append(s, w[n])
           step == [n \in 1 .. N |-> [s \in Seq(S) |-> One(s, n)]]
           Body(g) == [n \in 0 .. N |-> IF n = 0 THEN <<>> ELSE One(g[n - 1], n)]
<1>1. N \in Nat
    BY LenProperties
<1>2. ASSUME NEW n \in 1 .. N, NEW s \in Seq(S) PROVE One(s, n) \in Seq(S)
    <2>1. w[n] \in S
        BY ElementOfSeq
    <2> QED BY <2>1, AppendProperties
<1>3. <<>> \in Seq(S)
    OBVIOUS
<1> HIDE DEF N, One
<1>4. step \in [1 .. N -> [Seq(S) -> Seq(S)]]
    BY <1>2
<1> HIDE DEF step
<1>5. PICK h \in [0 .. N -> Seq(S)] :
          h[0] = <<>> /\ \A n \in 1 .. N : h[n] = step[n][h[n - 1]]
    <2>1. \E g : IsRecursion(g, Seq(S), <<>>, N, step)
        BY ONLY <1>1, <1>3, <1>4, Recursion
    <2> QED BY <2>1 DEF IsRecursion
<1>6. ASSUME NEW n \in 1 .. N PROVE h[n] = One(h[n - 1], n)
    <2>1. n - 1 \in 0 .. N /\ h[n - 1] \in Seq(S)
        BY <1>1
    <2> QED BY <1>5, <2>1 DEF step
<1>7. h = Body(h)
    BY <1>1, <1>5, <1>6
<1> DEFINE k == CHOOSE g : g = Body(g)
<1>8. k = Body(k)
    BY <1>7
<1>9. ModuleDir(w) = k[N]
    BY DEF ModuleDir, N, One, Uncounted
<1> HIDE DEF k
<1> DEFINE P == {n \in Nat : n <= N => k[n] \in Seq(S)}
<1>10. 0 \in P
    BY <1>1, <1>3, <1>8
<1>11. ASSUME NEW n \in Nat, n \in P PROVE n + 1 \in P
    <2> SUFFICES ASSUME n + 1 <= N PROVE k[n + 1] \in Seq(S)
        OBVIOUS
    <2>1. PICK m : m = n + 1
        OBVIOUS
    <2>2. m \in 0 .. N /\ m \in 1 .. N /\ m # 0 /\ m - 1 = n /\ k[n] \in Seq(S)
        BY <1>1, <1>11, <2>1
    <2>3. k[m] = One(k[n], m)
        BY <1>8, <2>2
    <2> QED BY <1>2, <2>1, <2>2, <2>3
<1> HIDE DEF P
<1>12. Nat \subseteq P
    BY <1>10, <1>11, Induction
<1>13. k \in [0 .. N -> Seq(S)]
    <2>1. \A n \in 0 .. N : k[n] \in Seq(S)
        BY <1>1, <1>12 DEF P
    <2> QED BY <1>8, <2>1
<1>14. k[0] = <<>> /\ \A n \in 1 .. N : k[n] = One(k[n - 1], n)
    BY <1>1, <1>8
<1> QED BY <1>9, <1>13, <1>14 DEF AreKept, N, One

(* What is before a directory is left alone unless it does not count       *)
(* either.                                                                 *)
LEMMA ModuleDirConcat ==
    ASSUME NEW S, NEW u \in Seq(S), NEW v \in Seq(S),
           \A i \in 1 .. Len(u) : u[i] \notin Uncounted
    PROVE  ModuleDir(u \o v) = u \o ModuleDir(v) /\ ModuleDir(v) \in Seq(S)
<1>1. PICK w : w = u \o v
    OBVIOUS
<1>2. PICK a, b, c : a = Len(u) /\ b = Len(v) /\ c = Len(w)
    OBVIOUS
<1>3. /\ w \in Seq(S) /\ c = a + b /\ a \in Nat /\ b \in Nat /\ c \in Nat
      /\ \A i \in 1 .. a + b : w[i] = IF i <= a THEN u[i] ELSE v[i - a]
    BY <1>1, <1>2, ConcatProperties, LenProperties
<1>4. PICK k : AreKept(k, S, v) /\ ModuleDir(v) = k[b]
    BY <1>2, ModuleDirDefined
<1>5. PICK l : AreKept(l, S, w) /\ ModuleDir(w) = l[c]
    BY <1>2, <1>3, ModuleDirDefined
<1>6. /\ k \in [0 .. b -> Seq(S)] /\ k[0] = <<>>
      /\ \A n \in 1 .. b : k[n] = IF v[n] \in Uncounted THEN k[n - 1] ELSE Append(k[n - 1], v[n])
    BY <1>2, <1>4 DEF AreKept
<1>7. /\ l[0] = <<>>
      /\ \A n \in 1 .. c : l[n] = IF w[n] \in Uncounted THEN l[n - 1] ELSE Append(l[n - 1], w[n])
    BY <1>2, <1>5 DEF AreKept
<1>8. ASSUME NEW n \in 1 .. a PROVE u[n] \in S /\ u[n] \notin Uncounted
    BY <1>2, ElementOfSeq
<1> DEFINE P == {n \in Nat : n <= a => l[n] = SubSeq(u, 1, n)}
<1>9. 0 \in P
    <2>1. SubSeq(u, 1, 0) = <<>>
        BY SubSeqEmpty
    <2> QED BY <1>7, <2>1
<1>10. ASSUME NEW n \in Nat, n \in P PROVE n + 1 \in P
    <2> SUFFICES ASSUME n + 1 <= a PROVE l[n + 1] = SubSeq(u, 1, n + 1)
        OBVIOUS
    <2>1. PICK m : m = n + 1
        OBVIOUS
    <2>2. /\ m \in 1 .. a /\ m \in 1 .. c /\ m - 1 = n /\ m <= a /\ 1 \in 1 .. a
          /\ m \in 1 .. a + b /\ m \in 1 .. m
        BY <1>3, <2>1
    <2>3. w[m] = u[m]
        BY <1>3, <2>2
    <2>4. l[m] = Append(SubSeq(u, 1, n), u[m])
        <3>1. l[n] = SubSeq(u, 1, n)
            BY <1>3, <1>10, <2>1, <2>2
        <3>2. l[m] = Append(l[n], u[m])
            BY <1>7, <1>8, <2>2, <2>3
        <3> QED BY <3>1, <3>2
    <2>5. SubSeq(u, 1, m) = SubSeq(u, 1, m - 1) \o <<u[m]>>
        BY <1>2, <2>2, SubSeqRecursiveSecond
    <2>6. SubSeq(u, 1, n) \in Seq(S)
        <3>1. \A i \in 1 .. n : u[i] \in S
            <4>1. \A i \in 1 .. n : i \in 1 .. a
                BY <1>3, <2>1, <2>2
            <4> QED BY <1>8, <4>1
        <3> QED BY <3>1, SubSeqProperties
    <2>7. Append(SubSeq(u, 1, n), u[m]) = SubSeq(u, 1, n) \o <<u[m]>>
        BY <1>8, <2>2, <2>6, AppendIsConcat
    <2> QED BY <2>1, <2>2, <2>4, <2>5, <2>7
<1> HIDE DEF P
<1>11. l[a] = u
    <2>1. a \in P
        BY <1>3, <1>9, <1>10, Induction
    <2>2. SubSeq(u, 1, a) = u
        BY <1>2, SubSeqFull
    <2> QED BY <1>3, <2>1, <2>2 DEF P
<1> DEFINE Q == {n \in Nat : n <= b => l[a + n] = u \o k[n]}
<1>12. 0 \in Q
    <2>1. u \o <<>> = u /\ a + 0 = a
        BY <1>3, ConcatEmptySeq
    <2> QED BY <1>6, <1>11, <2>1
<1>13. ASSUME NEW n \in Nat, n \in Q PROVE n + 1 \in Q
    <2> SUFFICES ASSUME n + 1 <= b PROVE l[a + (n + 1)] = u \o k[n + 1]
        OBVIOUS
    <2>1. PICK m, j : m = n + 1 /\ j = a + m
        OBVIOUS
    <2>2. /\ m \in 1 .. b /\ j \in 1 .. c /\ m - 1 = n /\ j - 1 = a + n /\ ~(j <= a)
          /\ j \in 1 .. a + b /\ j - a = m /\ n \in 0 .. b
        BY <1>3, <2>1
    <2>3. w[j] = v[m]
        BY <1>3, <2>2
    <2>4. l[a + n] = u \o k[n]
        BY <1>13, <2>1, <2>2
    <2>5. l[j] = IF v[m] \in Uncounted THEN u \o k[n] ELSE Append(u \o k[n], v[m])
        BY <1>7, <2>2, <2>3, <2>4
    <2>6. k[m] = IF v[m] \in Uncounted THEN k[n] ELSE Append(k[n], v[m])
        BY <1>6, <2>2
    <2>7. Append(u \o k[n], v[m]) = u \o Append(k[n], v[m])
        <3>1. PICK x, e : x = k[n] /\ e = v[m]
            OBVIOUS
        <3>2. x \in Seq(S) /\ e \in S
            BY <1>2, <1>6, <2>2, <3>1, ElementOfSeq
        <3>3. u \o x \in Seq(S)
            BY ONLY u \in Seq(S), <3>2, ConcatProperties
        <3>4. Append(u \o x, e) = (u \o x) \o <<e>> /\ Append(x, e) = x \o <<e>>
            BY <3>2, <3>3, AppendIsConcat
        <3>5. <<e>> \in Seq(S)
            BY <3>2
        <3>6. (u \o x) \o <<e>> = u \o (x \o <<e>>)
            BY ONLY u \in Seq(S), <3>2, <3>5, ConcatAssociative
        <3> QED BY <3>1, <3>4, <3>6
    <2> QED BY <2>1, <2>5, <2>6, <2>7
<1> HIDE DEF Q
<1>14. l[c] = u \o k[b]
    <2>1. b \in Q
        BY <1>3, <1>12, <1>13, Induction
    <2> QED BY <1>3, <2>1 DEF Q
<1>15. k[b] \in Seq(S)
    BY <1>3, <1>6
<1> QED BY <1>1, <1>4, <1>5, <1>14, <1>15

(* A path in a directory further up has the same text behind that.         *)
LEMMA TextBelow ==
    ASSUME NEW S, NEW p, p.dir \in Seq(S), p.base \in Seq(S), Signs \subseteq S, p.ext \in S,
           NEW u \in Seq(S), NEW r, r.dir = u \o p.dir, r.base = p.base, r.ext = p.ext
    PROVE  Text(r) = Separated(u, "/") \o Text(p)
<1>1. PICK x, y, z, t : /\ x = Separated(u, "/") /\ y = Separated(p.dir, "/")
                        /\ z = Front(Separated(p.base, "-")) /\ t = Extension(p.ext)
    OBVIOUS
<1>2. "/" \in S
    BY DEF Signs
<1>3. y \in Seq(S) /\ z \in Seq(S) /\ t \in Seq(S)
    <2>1. /\ Separated(p.dir, "/") \in Seq(S)
          /\ Front(Separated(p.base, "-")) \in Seq(S)
          /\ Extension(p.ext) \in Seq(S)
        BY TextIn, Zenon
    <2> QED BY <1>1, <2>1
<1>4. x \in Seq(S) /\ Separated(r.dir, "/") = x \o y
    <2>1. Separated(u, "/") \in Seq(S)
        BY <1>2, SeparatedAt, Zenon
    <2>2. Separated(u \o p.dir, "/") = Separated(u, "/") \o Separated(p.dir, "/")
        <3>1. PICK d, c : d = p.dir /\ c = "/"
            OBVIOUS
        <3>2. d \in Seq(S) /\ c \in S
            BY <1>2, <3>1
        <3>3. Separated(u \o d, c) = Separated(u, c) \o Separated(d, c)
            BY ONLY u \in Seq(S), <3>2, SeparatedConcat
        <3> QED BY <3>1, <3>3
    <2> QED BY <1>1, <2>1, <2>2
<1>5. Text(r) = ((x \o y) \o z) \o t /\ Text(p) = (y \o z) \o t
    BY <1>1, <1>4 DEF Text
<1>6. x \o y \in Seq(S) /\ y \o z \in Seq(S)
    BY <1>3, <1>4, ConcatProperties
<1>7. (x \o y) \o z = x \o (y \o z)
    BY ONLY SMTT(30), <1>3, <1>4, ConcatAssociative
<1>8. (x \o (y \o z)) \o t = x \o ((y \o z) \o t)
    <2>1. PICK w : w = y \o z
        OBVIOUS
    <2>2. w \in Seq(S)
        BY <1>6, <2>1
    <2>3. x \in Seq(S) /\ t \in Seq(S)
        BY <1>3, <1>4
    <2>4. (x \o w) \o t = x \o (w \o t)
        BY ONLY SMTT(30), <2>2, <2>3, ConcatAssociative
    <2> QED BY <2>1, <2>4
<1> QED BY <1>1, <1>5, <1>7, <1>8

(* A header of the module of a source file is found by its own name.       *)
LEMMA ModuleHeaderOpened ==
    ASSUME file \in IncludingFiles, file.path.ext \in NonHeaderExtensions,
           NEW q \in ModuleHeaders, q \in Paths
    PROVE  FilesBelongToSameModule(file.path, q) /\ q \in OpenedFor(q)
<1>1. PICK S : S = STRING \cup Signs \cup {q.ext, ""}
    OBVIOUS
<1>2. PICK d, b : d = q.dir /\ b = q.base
    OBVIOUS
<1>3. /\ q \in DOMAIN file.disk /\ q.ext \in HeaderExtensions
      /\ d = file.path.dir /\ b = WithoutLast(file.path.base, TestSuffixes)
      /\ b = WithoutLast(q.base, {"inl"})
      /\ \A e \in Range(Root) \cup Range(SubSeq(d, 1, 1)) : e \notin Uncounted
    BY <1>2 DEF ModuleHeaders, Uncounted
<1>4. Signs \subseteq S /\ q.ext \in S /\ "" \in S
    BY <1>1
<1>5. d \in Seq(S) /\ b \in Seq(S) /\ Root \in Seq(S) /\ Root # <<>>
    <2>1. d \in Seq(STRING) /\ b \in Seq(STRING) /\ Root \in Seq(STRING)
        BY <1>2, RootAssumption DEF Paths
    <2>2. STRING \subseteq S
        BY <1>1
    <2> QED BY <2>1, <2>2, SeqMonotonic, RootAssumption
<1>6. ModuleDir(Root \o d) = Root \o ModuleDir(d) /\ ModuleDir(d) \in Seq(S)
    <2>1. \A i \in 1 .. Len(Root) : Root[i] \notin Uncounted
        <3>1. DOMAIN Root = 1 .. Len(Root)
            BY <1>5, LenProperties
        <3> QED BY <1>3, <3>1 DEF Range
    <2> QED BY <1>5, <2>1, ModuleDirConcat
<1>7. (IF d = <<>> THEN <<>> ELSE <<Head(d)>> \o ModuleDir(Tail(d))) = ModuleDir(d)
    <2>1. CASE d = <<>>
        <3>1. PICK k : AreKept(k, S, d) /\ ModuleDir(d) = k[Len(d)]
            BY <1>5, ModuleDirDefined
        <3>2. Len(d) = 0
            BY <2>1
        <3> QED BY <2>1, <3>1, <3>2 DEF AreKept
    <2>2. CASE d # <<>>
        <3>1. PICK e, r : e = Head(d) /\ r = Tail(d)
            OBVIOUS
        <3>2. e \in S /\ r \in Seq(S) /\ Len(d) >= 1 /\ e = d[1]
            BY <1>5, <2>2, <3>1, HeadTailProperties, EmptySeq
        <3>3. d = <<e>> \o r
            <4>1. 1 \in 1 .. Len(d) /\ Len(d) \in 1 .. Len(d)
                BY <1>5, <3>2, LenProperties
            <4>2. SubSeq(d, 1, Len(d)) = <<d[1]>> \o SubSeq(d, 1 + 1, Len(d))
                BY <1>5, <4>1, SubSeqRecursiveFirst
            <4>3. SubSeq(d, 1, Len(d)) = d /\ r = SubSeq(d, 2, Len(d))
                BY <1>5, <2>2, <3>1, SubSeqFull, TailIsSubSeq
            <4> QED BY <3>2, <4>2, <4>3
        <3>4. e \notin Uncounted
            <4>1. SubSeq(d, 1, 1) = <<e>>
                <5>1. PICK y : y = SubSeq(d, 1, 1)
                    OBVIOUS
                <5>2. y \in Seq(S) /\ Len(y) = 1 /\ y[1] = e
                    <6>1. \A i \in 1 .. 1 : d[i] \in S
                        BY <3>2
                    <6>2. /\ SubSeq(d, 1, 1) \in Seq(S) /\ Len(SubSeq(d, 1, 1)) = 1
                          /\ \A i \in 1 .. 1 : SubSeq(d, 1, 1)[i] = d[1 + i - 1]
                        BY ONLY <6>1, SubSeqProperties
                    <6>3. 1 \in 1 .. 1 /\ 1 + 1 - 1 = 1
                        OBVIOUS
                    <6>4. y[1] = d[1]
                        BY <5>1, <6>2, <6>3
                    <6> QED BY <3>2, <5>1, <6>2, <6>4
                <5>3. <<e>> \in Seq(S) /\ Len(<<e>>) = 1 /\ <<e>>[1] = e
                    BY <3>2
                <5>4. \A i \in 1 .. 1 : y[i] = <<e>>[i]
                    BY <5>2, <5>3
                <5>5. y = <<e>>
                    BY ONLY <5>2, <5>3, <5>4, SeqEqual
                <5> QED BY <5>1, <5>5
            <4>2. e \in Range(<<e>>)
                BY DEF Range
            <4> QED BY <1>3, <4>1, <4>2
        <3>5. <<e>> \in Seq(S) /\ \A i \in 1 .. Len(<<e>>) : <<e>>[i] \notin Uncounted
            BY <3>2, <3>4
        <3>6. ModuleDir(<<e>> \o r) = <<e>> \o ModuleDir(r)
            BY <3>2, <3>5, ModuleDirConcat
        <3> QED BY <2>2, <3>1, <3>3, <3>6
    <2> QED BY <2>1, <2>2
<1>8. PICK h, s, x : /\ h = [dir |-> ModuleDir(d), ext |-> "", base |-> b]
                     /\ s = [dir |-> Root \o ModuleDir(d), ext |-> "", base |-> b]
                     /\ x = Separated(Root, "/")
    OBVIOUS
<1>9. ModuleOfHeader(q) = Text(h) /\ ModuleOfSource(file.path) = Text(s)
    BY <1>2, <1>3, <1>6, <1>7, <1>8 DEF ModuleOfHeader, ModuleOfSource
<1>10. /\ h.dir \in Seq(S) /\ h.base \in Seq(S) /\ h.ext \in S
       /\ s.dir = Root \o h.dir /\ s.base = h.base /\ s.ext = h.ext
    BY <1>4, <1>5, <1>6, <1>8
<1>11. Text(s) = x \o Text(h) /\ Text(h) \in Seq(S)
    BY <1>4, <1>5, <1>8, <1>10, TextBelow, TextIn
<1>12. x \in Seq(S) /\ Len(x) \in Nat /\ Len(x) >= 1
    <2>1. "/" \in S
        BY <1>4 DEF Signs
    <2>2. Len(Root) \in Nat \ {0}
        BY <1>5, EmptySeq
    <2>3. x \in Seq(S) /\ Len(x) = 2 * Len(Root)
        BY <1>5, <1>8, <2>1, SeparatedAt
    <2> QED BY <2>2, <2>3
<1>13. FilesBelongToSameModule(file.path, q)
    BY <1>3, <1>9, <1>11, <1>12, SuffixOfConcat DEF FilesBelongToSameModule
<1>14. CommonPath(file.path, q) = x
    <2>1. PICK t, m, n : t = Text(h) /\ m = Len(x) /\ n = Len(x \o t)
        OBVIOUS
    <2>2. n - Len(t) = m
        BY <1>11, <1>12, <2>1, ConcatProperties, LenProperties
    <2>3. SubSeq(x \o t, 1, m) = SubSeq(x, 1, m)
        <3>1. 1 \in 1 .. m /\ m \in 1 .. m
            BY <1>12, <2>1
        <3> QED BY <1>11, <1>12, <2>1, <3>1, SubSeqOfConcat1
    <2>4. SubSeq(x, 1, m) = x
        BY <1>12, <2>1, SubSeqFull
    <2> QED BY <1>9, <1>11, <2>1, <2>2, <2>3, <2>4 DEF CommonPath
<1>15. Text(FullName(q)) = x \o Text(q)
    <2>1. q.dir \in Seq(S) /\ q.base \in Seq(S)
        BY <1>2, <1>5
    <2>2. /\ FullName(q).dir = Root \o q.dir
          /\ FullName(q).base = q.base /\ FullName(q).ext = q.ext
        BY DEF FullName, Paths
    <2> QED BY <1>4, <1>5, <1>8, <2>1, <2>2, TextBelow
<1> QED BY <1>3, <1>13, <1>14, <1>15 DEF OpenedFor

-----------------------------------------------------------------------------
IsSource == file.path.ext \in NonHeaderExtensions

(* The files that may be opened for an include.                            *)
LEMMA SuffixEnds ==
    ASSUME NEW S, NEW u \in Seq(S), NEW v \in Seq(S), IsSuffix(u, v), u # <<>>
    PROVE  Len(u) <= Len(v) /\ Last(u) = Last(v)
<1>1. PICK a, b, x, y : a = Len(u) /\ b = Len(v) /\ x = Reverse(u) /\ y = Reverse(v)
    OBVIOUS
<1>2. a \in Nat /\ b \in Nat /\ a >= 1
    BY <1>1, LenProperties, EmptySeq
<1>3. /\ x \in Seq(S) /\ Len(x) = a /\ \A i \in 1 .. a : x[i] = u[(a - i) + 1]
      /\ y \in Seq(S) /\ Len(y) = b /\ \A i \in 1 .. b : y[i] = v[(b - i) + 1]
    BY <1>1, ReverseAt
<1>4. a <= b /\ SubSeq(x, 1, a) = SubSeq(y, 1, a)
    BY <1>1, <1>3 DEF IsSuffix, IsPrefix
<1>5. ASSUME NEW s, \A i \in 1 .. a : s[i] \in S
      PROVE  SubSeq(s, 1, a)[1] = s[1]
    <2>1. 1 \in Int /\ a \in Int
        BY <1>2
    <2>2. \A i \in 1 .. a - 1 + 1 : SubSeq(s, 1, a)[i] = s[1 + i - 1]
        BY ONLY <1>5, <2>1, SubSeqProperties
    <2>3. a - 1 + 1 = a /\ \A i \in 1 .. a : 1 + i - 1 = i
        BY <1>2
    <2>4. \A i \in 1 .. a : SubSeq(s, 1, a)[i] = s[i]
        BY ONLY <2>2, <2>3
    <2> QED BY <1>2, <2>4
<1>6. \A i \in 1 .. a : x[i] \in S /\ y[i] \in S
    <2>1. \A i \in 1 .. a : i \in 1 .. b
        BY <1>2, <1>4
    <2> QED BY <1>3, <2>1, ElementOfSeq
<1>7. x[1] = y[1]
    <2>1. SubSeq(x, 1, a)[1] = x[1] /\ SubSeq(y, 1, a)[1] = y[1]
        <3>1. \A i \in 1 .. a : x[i] \in S
            BY <1>6
        <3>2. \A i \in 1 .. a : y[i] \in S
            BY <1>6
        <3>3. SubSeq(x, 1, a)[1] = x[1]
            BY ONLY <1>5, <3>1
        <3>4. SubSeq(y, 1, a)[1] = y[1]
            BY ONLY <1>5, <3>2
        <3> QED BY <3>3, <3>4
    <2> QED BY <1>4, <2>1
<1>8. x[1] = u[a] /\ y[1] = v[b]
    <2>1. 1 \in 1 .. a /\ 1 \in 1 .. b /\ (a - 1) + 1 = a /\ (b - 1) + 1 = b
        BY <1>2, <1>4
    <2> QED BY <1>3, <2>1
<1> QED BY <1>1, <1>4, <1>7, <1>8 DEF Last

(* The name of a module ends in the last word of its base name.            *)
LEMMA TextEnds ==
    ASSUME NEW S, NEW p, p.dir \in Seq(S), p.base \in Seq(S), p.base # <<>>,
           Extension(p.ext) = <<>>, Signs \subseteq S
    PROVE  Text(p) \in Seq(S) /\ Text(p) # <<>> /\ Last(Text(p)) = Last(p.base)
<1>1. PICK d, b, t : d = p.dir /\ b = p.base /\ t = Text(p)
    OBVIOUS
<1>2. d \in Seq(S) /\ b \in Seq(S) /\ b # <<>>
    BY <1>1
<1>3. PICK x, y, z, n : /\ x = Separated(d, "/") /\ z = Separated(b, "-")
                        /\ y = Front(z) /\ n = Len(b)
    OBVIOUS
<1>4. "/" \in S /\ "-" \in S
    BY DEF Signs
<1>5. x \in Seq(S)
    BY <1>2, <1>3, <1>4, SeparatedAt
<1>6. n \in Nat /\ n >= 1
    BY <1>2, <1>3, LenProperties, EmptySeq
<1>7. z \in Seq(S) /\ Len(z) = 2 * n /\ z[2 * n - 1] = b[n]
    <2>1. /\ z \in Seq(S) /\ Len(z) = 2 * n
          /\ \A i \in 1 .. 2 * n : z[i] = IF i % 2 = 1 THEN b[(i + 1) \div 2] ELSE "-"
        <3>1. PICK c : c = "-"
            OBVIOUS
        <3>2. b \in Seq(S) /\ c \in S
            BY <1>2, <1>4, <3>1
        <3>3. /\ Separated(b, c) \in Seq(S) /\ Len(Separated(b, c)) = 2 * Len(b)
              /\ \A i \in 1 .. 2 * Len(b) :
                    Separated(b, c)[i] = IF i % 2 = 1 THEN b[(i + 1) \div 2] ELSE c
            BY ONLY <3>2, SeparatedAt, Zenon
        <3> QED BY <1>3, <3>1, <3>3
    <2>2. PICK i : i = 2 * n - 1
        OBVIOUS
    <2>3. i \in 1 .. 2 * n /\ i % 2 = 1
        BY <1>6, <2>2
    <2>4. (i + 1) \div 2 = n
        BY <1>6, <2>2
    <2>5. z[i] = b[(i + 1) \div 2]
        BY <2>1, <2>3
    <2> QED BY <2>1, <2>2, <2>4, <2>5
<1>8. PICK c : c = 2 * n - 1
    OBVIOUS
<1>9. c \in Int /\ c >= 1 /\ Len(z) - 1 = c /\ z[c] = b[n]
    BY <1>6, <1>7, <1>8
<1>10. y \in Seq(S) /\ Len(y) = c /\ y[c] = b[n]
    <2>1. y = SubSeq(z, 1, c)
        BY <1>3, <1>9 DEF Front
    <2>2. \A i \in 1 .. c : i \in 1 .. Len(z)
        BY <1>7, <1>6, <1>8
    <2>3. \A i \in 1 .. c : z[i] \in S
        BY <1>7, <2>2, ElementOfSeq
    <2>4. 1 \in Int
        OBVIOUS
    <2>5. /\ y \in Seq(S)
          /\ Len(y) = IF 1 <= c THEN c - 1 + 1 ELSE 0
          /\ \A i \in 1 .. c - 1 + 1 : y[i] = z[1 + i - 1]
        BY ONLY <1>9, <2>1, <2>3, <2>4, SubSeqProperties
    <2>6. c \in 1 .. c - 1 + 1 /\ 1 + c - 1 = c /\ c - 1 + 1 = c /\ 1 <= c
        BY <1>9
    <2> QED BY <1>9, <2>5, <2>6
<1>11. t = (x \o y) \o <<>>
    BY <1>1, <1>3 DEF Text
<1>12. PICK k, w : k = Len(x) /\ w = x \o y
    OBVIOUS
<1>13. /\ w \in Seq(S) /\ k \in Nat /\ Len(w) = k + c
       /\ \A i \in 1 .. k + c : w[i] = IF i <= k THEN x[i] ELSE y[i - k]
    BY <1>5, <1>10, <1>12, ConcatProperties, LenProperties
<1>14. t = w
    BY <1>11, <1>12, <1>13, ConcatEmptySeq
<1>15. w[k + c] = b[n]
    <2>1. PICK j : j = k + c
        OBVIOUS
    <2>2. j \in 1 .. k + c /\ ~(j <= k) /\ j - k = c
        BY <1>9, <1>13, <2>1
    <2> QED BY <1>10, <1>13, <2>1, <2>2
<1>16. w # <<>>
    <2>1. Len(w) >= 1
        BY <1>9, <1>13
    <2> QED BY <1>13, <2>1, EmptySeq
<1> QED BY <1>1, <1>3, <1>13, <1>14, <1>15, <1>16 DEF Last

LEMMA NoExtension ==
    Extension("") = <<>>
<1>1. "" \notin LongHeaderExtensions
    BY Zenon DEF LongHeaderExtensions
<1> QED BY <1>1, Zenon DEF Extension

LEMMA WithoutLastIn ==
    ASSUME NEW S, NEW b \in Seq(S), b # <<>>, NEW T
    PROVE  WithoutLast(b, T) \in Seq(S) /\ WithoutLast(b, T) # <<>>
<1>1. CASE Len(b) > 1
    <2>1. PICK n, y : n = Len(b) /\ y = Front(b)
        OBVIOUS
    <2>2. n \in Nat /\ n - 1 \in Int /\ n - 1 >= 1
        BY <1>1, <2>1, LenProperties
    <2>3. \A i \in 1 .. n - 1 : b[i] \in S
        <3>1. \A i \in 1 .. n - 1 : i \in 1 .. n
            BY <2>2
        <3> QED BY <2>1, <3>1, ElementOfSeq
    <2>4. PICK c : c = n - 1
        OBVIOUS
    <2>5. y \in Seq(S) /\ Len(y) = IF 1 <= c THEN c - 1 + 1 ELSE 0
        <3>1. 1 \in Int /\ c \in Int /\ \A i \in 1 .. c : b[i] \in S
            BY <2>2, <2>3, <2>4
        <3>2. y = SubSeq(b, 1, c)
            BY <2>1, <2>4 DEF Front
        <3> QED BY ONLY <3>1, <3>2, SubSeqProperties
    <2>6. Len(y) >= 1
        BY <2>2, <2>4, <2>5
    <2>7. y # <<>>
        BY <2>5, <2>6, EmptySeq
    <2> QED BY <2>1, <2>5, <2>7 DEF WithoutLast
<1>2. CASE ~(Len(b) > 1)
    BY <1>2 DEF WithoutLast
<1> QED BY <1>1, <1>2

LEMMA ModuleDirIn ==
    ASSUME NEW S, NEW w \in Seq(S)
    PROVE  ModuleDir(w) \in Seq(S)
<1>1. PICK k : AreKept(k, S, w) /\ ModuleDir(w) = k[Len(w)]
    BY ModuleDirDefined
<1>2. Len(w) \in 0 .. Len(w)
    BY LenProperties
<1> QED BY <1>1, <1>2 DEF AreKept

(* Only headers of which the name ends in the same word as that of the     *)
(* file are taken for headers of its module.                               *)
LEMMA OpenedIsCandidate ==
    ASSUME ListsInv
    PROVE  /\ Opened(includes) \subseteq Candidates
           /\ Opened(includes) # {} => IsSource
<1> SUFFICES ASSUME NEW e \in Entries(includes), FilesBelongToSameModule(file.path, e.of),
                    NEW q \in OpenedFor(e.of)
             PROVE  q \in Candidates /\ IsSource
    BY DEF Opened
<1>1. PICK p, h : p = file.path /\ h = e.of
    OBVIOUS
<1>2. file \in IncludingFiles /\ EntriesKept /\ linenum \in 0 .. Len(Lines)
    BY DEF ListsInv, ListsKept, IncludesInv
<1>3. e.line \in Included /\ h = Lines[e.line].of
    BY <1>1, <1>2 DEF EntriesKept
<1>4. p \in Paths /\ h \in Paths
    <2>1. p \in Paths
        BY <1>1, <1>2, FilesAssumption
    <2>2. Included \subseteq 1 .. Len(Lines)
        BY <1>2, FileFacts DEF Included
    <2>3. Lines[e.line] \in FileLines
        BY <1>2, <1>3, <2>2, FileFacts
    <2> QED BY <1>3, <2>1, <2>3 DEF FileLines
<1>5. PICK S : S = STRING \cup Signs \cup {h.ext}
    OBVIOUS
<1>6. STRING \subseteq S /\ Signs \subseteq S /\ h.ext \in S
    BY <1>5
<1>7. /\ p.dir \in Seq(S) /\ p.base \in Seq(S) /\ p.base # <<>>
      /\ h.dir \in Seq(S) /\ h.base \in Seq(S) /\ h.base # <<>>
      /\ Root \in Seq(S)
    <2>1. /\ p.dir \in Seq(STRING) /\ p.base \in Seq(STRING) /\ p.base # <<>>
          /\ h.dir \in Seq(STRING) /\ h.base \in Seq(STRING) /\ h.base # <<>>
          /\ Root \in Seq(STRING)
        BY <1>4, RootAssumption DEF Paths
    <2> QED BY <1>6, <2>1, SeqMonotonic
<1>8. PICK s, t, a, b :
          /\ s = ModuleOfSource(p) /\ t = ModuleOfHeader(h)
          /\ a = WithoutLast(p.base, TestSuffixes) /\ b = WithoutLast(h.base, {"inl"})
    OBVIOUS
<1>9. a \in Seq(S) /\ a # <<>> /\ b \in Seq(S) /\ b # <<>>
    BY <1>7, <1>8, WithoutLastIn
<1>10. s \in Seq(S) /\ Last(s) = Last(a)
    <2>1. PICK d : d = ModuleDir(Root \o p.dir)
        OBVIOUS
    <2>2. d \in Seq(S)
        <3>1. Root \o p.dir \in Seq(S)
            BY <1>7, ConcatProperties
        <3> QED BY <2>1, <3>1, ModuleDirIn
    <2>3. PICK r : r = [dir |-> d, ext |-> "", base |-> a]
        OBVIOUS
    <2>4. s = Text(r)
        BY <1>8, <2>1, <2>3 DEF ModuleOfSource
    <2>5. r.dir = d /\ r.base = a /\ Extension(r.ext) = <<>>
        <3>1. r.dir = d /\ r.base = a
            BY <2>3
        <3>2. r.ext = ""
            BY <2>3, Zenon
        <3> QED BY <3>1, <3>2, NoExtension
    <2> QED BY <1>6, <1>9, <2>2, <2>4, <2>5, TextEnds
<1>11. t \in Seq(S) /\ t # <<>> /\ Last(t) = Last(b)
    <2>1. PICK d : d = IF h.dir = <<>> THEN <<>> ELSE <<Head(h.dir)>> \o ModuleDir(Tail(h.dir))
        OBVIOUS
    <2>2. d \in Seq(S)
        <3>1. CASE h.dir = <<>>
            BY <2>1, <3>1
        <3>2. CASE h.dir # <<>>
            <4>1. PICK x, y : x = Head(h.dir) /\ y = Tail(h.dir)
                OBVIOUS
            <4>2. x \in S /\ y \in Seq(S)
                BY <1>7, <3>2, <4>1, HeadTailProperties
            <4>3. ModuleDir(y) \in Seq(S) /\ <<x>> \in Seq(S)
                BY <4>2, ModuleDirIn
            <4>4. <<x>> \o ModuleDir(y) \in Seq(S)
                BY <4>3, ConcatProperties
            <4> QED BY <2>1, <3>2, <4>1, <4>4
        <3> QED BY <3>1, <3>2
    <2>3. PICK r : r = [dir |-> d, ext |-> "", base |-> b]
        OBVIOUS
    <2>4. t = Text(r)
        BY <1>8, <2>1, <2>3 DEF ModuleOfHeader
    <2>5. r.dir = d /\ r.base = b /\ Extension(r.ext) = <<>>
        <3>1. r.dir = d /\ r.base = b
            BY <2>3
        <3>2. r.ext = ""
            BY <2>3, Zenon
        <3> QED BY <3>1, <3>2, NoExtension
    <2> QED BY <1>6, <1>9, <2>2, <2>4, <2>5, TextEnds
<1>12. IsSuffix(t, s) /\ h.ext \in HeaderExtensions /\ IsSource
    BY <1>1, <1>8 DEF FilesBelongToSameModule, IsSource
<1>13. Last(b) = Last(a) /\ Len(t) <= Len(s)
    BY <1>10, <1>11, <1>12, SuffixEnds
<1>14. CommonPath(p, h) \in Seq(S)
    <2>1. PICK m, n, c : m = Len(s) /\ n = Len(t) /\ c = m - n
        OBVIOUS
    <2>2. m \in Nat /\ n \in Nat /\ c \in Int /\ 1 \in Int
        BY <1>10, <1>11, <2>1, LenProperties
    <2>3. \A i \in 1 .. c : i \in 1 .. m
        BY <2>1, <2>2
    <2>4. \A i \in 1 .. c : s[i] \in S
        BY <1>10, <2>1, <2>3, ElementOfSeq
    <2>5. SubSeq(s, 1, c) \in Seq(S)
        BY ONLY <2>2, <2>4, SubSeqProperties
    <2> QED BY <1>8, <2>1, <2>5 DEF CommonPath
<1>15. q \in DOMAIN file.disk /\ Text(FullName(q)) = CommonPath(p, h) \o Text(h)
    BY <1>1 DEF OpenedFor
<1>16. Text(h) \in Seq(S)
    BY <1>6, <1>7, TextIn
<1>17. IsSuffix(Text(h), Text(FullName(q)))
    BY <1>14, <1>15, <1>16, SuffixOfConcat
<1> QED BY <1>1, <1>3, <1>8, <1>12, <1>13, <1>15, <1>17 DEF Candidates

-----------------------------------------------------------------------------
(* The headers a line needs.  The parts of UsesIncluded:                   *)
Kept == {n \in Included : Counts(Lines[n].of) /\ ~Replaced(n, Branches)}
Here == {Lines[n].of : n \in Kept}
Of(headers) == IF IsSource THEN UNION {Range(file.disk[q]) : q \in headers} ELSE {}
Needs(p) == {n \in 1 .. Len(Lines) : p \in Range(Lines[n].needs)}
Asked(p) == {e[1] : e \in {x \in errors : x[2] = "missing" /\ x[3] = p}}
AnyIncluded == {Lines[n].of : n \in Included}

UsesOk(p) ==
    /\ \A n \in Asked(p) : n = Max(Needs(p))
    /\ p \in Here \cup Of(ModuleHeaders \cap Here) => Asked(p) = {}
    /\ IsSource /\ Candidates = {} => Asked(p) = {}
    /\ (/\ Needs(p) # {}
        /\ p \notin AnyIncluded \cup Of(Candidates)
        /\ IsSource => ModuleHeaders \cap Here # {})
       => Asked(p) # {}

LEMMA UsesEach ==
    UsesIncluded <=> (phase = "done" => \A p \in CppHeaders : UsesOk(p))
BY DEF UsesIncluded, UsesOk, Kept, Here, IsSource, Of, Needs, Asked, AnyIncluded

LEMMA UsesUnmoved ==
    ASSUME file' = file, linenum' = linenum
    PROVE  /\ Here' = Here /\ AnyIncluded' = AnyIncluded /\ (IsSource' <=> IsSource)
           /\ \A p : Needs(p)' = Needs(p)
           /\ ModuleHeaders' = ModuleHeaders /\ Candidates' = Candidates
           /\ Of(ModuleHeaders \cap Here)' = Of(ModuleHeaders \cap Here)
           /\ Of(Candidates)' = Of(Candidates)
<1>1. Lines' = Lines /\ Branches' = Branches /\ (\A p : Counts(p)' <=> Counts(p))
    BY SameFile
<1>2. Included' = Included /\ (\A n : Replaced(n, Branches)' <=> Replaced(n, Branches))
    BY <1>1 DEF Included, Replaced, Alternative
<1>3. Kept' = Kept
    BY <1>1, <1>2 DEF Kept
<1>4. Here' = Here /\ AnyIncluded' = AnyIncluded
    BY <1>1, <1>2, <1>3 DEF Here, AnyIncluded
<1>5. ModuleHeaders' = ModuleHeaders
    BY DEF ModuleHeaders
<1>6. Candidates' = Candidates
    BY <1>1, <1>2 DEF Candidates
<1>7. IsSource' <=> IsSource
    BY DEF IsSource
<1>8. /\ Of(ModuleHeaders \cap Here)' = Of(ModuleHeaders \cap Here)
      /\ Of(Candidates)' = Of(Candidates)
    BY <1>4, <1>5, <1>6, <1>7 DEF Of
<1>9. \A p : Needs(p)' = Needs(p)
    BY <1>1 DEF Needs
<1> QED BY <1>4, <1>5, <1>6, <1>7, <1>8, <1>9

(* Nothing is asked for before CheckForIncludeWhatYouUse.                  *)
UsesKept ==
    /\ phase \in {"lines", "use"} => \A e \in errors : e[2] # "missing"
    /\ phase \in {"own", "done"} => \A p \in CppHeaders : UsesOk(p)

(* What CheckForIncludeWhatYouUse finds included and what it asks for.     *)
FoundIncluded ==
    {e.of : e \in Entries(includes)} \cup UNION {Range(file.disk[q]) : q \in Opened(includes)}

Missing(p) ==
    /\ ~(Opened(includes) = {} /\ IsSource)
    /\ Needs(p) # {}
    /\ p \notin FoundIncluded

LEMMA AskedNext ==
    ASSUME UsesKept, CheckForIncludeWhatYouUse, NEW p
    PROVE  Asked(p)' = IF Missing(p) THEN {Max(Needs(p))} ELSE {}
<1> DEFINE required == Required(file.lines)
           wanted == DOMAIN required \ FoundIncluded
           E == IF Opened(includes) = {} /\ IsSource THEN {}
                ELSE {<<required[q], "missing", q>> : q \in wanted}
<1>1. errors' = errors \cup E /\ \A e \in errors : e[2] # "missing"
    BY DEF CheckForIncludeWhatYouUse, FoundIncluded, IsSource, UsesKept
<1>2. /\ p \in DOMAIN required <=> Needs(p) # {}
      /\ p \in DOMAIN required => required[p] = Max(Needs(p))
    <2>1. PICK L : L = file.lines
        OBVIOUS
    <2>2. Needs(p) = {n \in 1 .. Len(L) : p \in Range(L[n].needs)}
        BY <2>1 DEF Needs, Lines
    <2>3. DOMAIN required = UNION {Range(L[n].needs) : n \in 1 .. Len(L)}
        BY <2>1 DEF Required
    <2>4. \A q \in DOMAIN required :
              required[q] = Max({n \in 1 .. Len(L) : q \in Range(L[n].needs)})
        BY <2>1 DEF Required
    <2> HIDE DEF required
    <2> QED BY <2>2, <2>3, <2>4
<1> HIDE DEF required
<1>3. Missing(p) <=> ~(Opened(includes) = {} /\ IsSource) /\ p \in wanted
    BY <1>2 DEF Missing
<1>4. \A e \in E : e[2] = "missing" /\ e = <<required[e[3]], "missing", e[3]>> /\ e[3] \in wanted
    <2>1. ASSUME NEW e \in E
          PROVE  e[2] = "missing" /\ e = <<required[e[3]], "missing", e[3]>> /\ e[3] \in wanted
        <3>1. PICK q \in wanted : e = <<required[q], "missing", q>>
            BY <2>1
        <3> HIDE DEF wanted
        <3> QED BY <3>1
    <2> QED BY <2>1
<1>5. Missing(p) => <<required[p], "missing", p>> \in E
    BY <1>3
<1> HIDE DEF E, wanted
<1>6. Asked(p)' = {e[1] : e \in {x \in E : x[3] = p}}
    <2>1. Asked(p)' = {e[1] : e \in {x \in errors' : x[2] = "missing" /\ x[3] = p}}
        BY DEF Asked
    <2>2. {x \in errors' : x[2] = "missing" /\ x[3] = p} = {x \in E : x[3] = p}
        BY <1>1, <1>4
    <2> QED BY <2>1, <2>2
<1>7. CASE Missing(p)
    <2>1. \A e \in E : e[3] = p => e[1] = required[p]
        BY <1>4
    <2>2. PICK e : e = <<required[p], "missing", p>>
        OBVIOUS
    <2>3. e \in E /\ e[3] = p /\ e[1] = required[p]
        BY <1>5, <1>7, <2>2
    <2>4. Asked(p)' = {required[p]}
        BY <1>6, <2>1, <2>3
    <2> QED BY <1>2, <1>7, <2>4 DEF Missing
<1>8. CASE ~Missing(p)
    <2>1. \A e \in E : e[3] # p
        <3>1. ASSUME NEW e \in E, e[3] = p PROVE FALSE
            <4>1. p \in wanted
                BY <1>4, <3>1
            <4>2. Opened(includes) = {} /\ IsSource
                BY <1>3, <1>8, <4>1
            <4> QED BY <3>1, <4>2 DEF E
        <3> QED BY <3>1
    <2>2. {x \in E : x[3] = p} = {}
        BY <2>1
    <2> QED BY <1>6, <1>8, <2>2
<1> QED BY <1>7, <1>8

(* What is included is found, directly or through the headers of the       *)
(* module.                                                                 *)
LEMMA HereFound ==
    ASSUME ListsInv
    PROVE  /\ IsSource => ModuleHeaders \cap Here \subseteq Opened(includes)
           /\ Here \cup Of(ModuleHeaders \cap Here) \subseteq FoundIncluded
<1>1. file \in IncludingFiles /\ Included \subseteq 1 .. Len(Lines) /\ Listed
    BY FileFacts DEF ListsInv, IncludesInv, ListsKept, Included
<1>2. ASSUME NEW p \in Here PROVE p \in Paths /\ \E e \in Entries(includes) : e.of = p
    <2>1. PICK n \in Kept : p = Lines[n].of
        BY DEF Here
    <2>2. n \in Included /\ Counts(Lines[n].of) /\ ~Replaced(n, Branches)
        BY DEF Kept
    <2>3. Lines[n] \in FileLines
        BY <1>1, <2>2, FileFacts
    <2> QED BY <1>1, <2>1, <2>2, <2>3 DEF Listed, FileLines
<1>3. ASSUME IsSource, NEW q \in ModuleHeaders \cap Here PROVE q \in Opened(includes)
    <2>1. FilesBelongToSameModule(file.path, q) /\ q \in OpenedFor(q)
        BY <1>1, <1>2, <1>3, ModuleHeaderOpened DEF IsSource
    <2>2. PICK e \in Entries(includes) : e.of = q
        BY <1>2
    <2> QED BY <2>1, <2>2 DEF Opened
<1>4. Here \subseteq FoundIncluded
    BY <1>2 DEF FoundIncluded
<1>5. Of(ModuleHeaders \cap Here) \subseteq FoundIncluded
    BY <1>3 DEF Of, FoundIncluded
<1> QED BY <1>3, <1>4, <1>5

(* And nothing is found but what the file, in some branch, or a candidate  *)
(* includes.                                                               *)
LEMMA FoundAnywhere ==
    ASSUME ListsInv
    PROVE  FoundIncluded \subseteq AnyIncluded \cup Of(Candidates)
<1>1. EntriesKept
    BY DEF ListsInv, ListsKept
<1>2. {e.of : e \in Entries(includes)} \subseteq AnyIncluded
    BY <1>1 DEF EntriesKept, AnyIncluded
<1>3. ASSUME NEW q \in Opened(includes) PROVE Range(file.disk[q]) \subseteq Of(Candidates)
    BY <1>3, OpenedIsCandidate DEF Of
<1> QED BY <1>2, <1>3 DEF FoundIncluded

LEMMA UsesStep ==
    ASSUME ListsInv, UsesKept, CheckForIncludeWhatYouUse, NEW p
    PROVE  UsesOk(p)'
<1>1. Asked(p)' = IF Missing(p) THEN {Max(Needs(p))} ELSE {}
    BY AskedNext
<1>2. /\ Here' = Here /\ AnyIncluded' = AnyIncluded /\ (IsSource' <=> IsSource)
      /\ Needs(p)' = Needs(p) /\ ModuleHeaders' = ModuleHeaders /\ Candidates' = Candidates
      /\ Of(ModuleHeaders \cap Here)' = Of(ModuleHeaders \cap Here)
      /\ Of(Candidates)' = Of(Candidates)
    BY UsesUnmoved DEF CheckForIncludeWhatYouUse
<1>3. p \in Here \cup Of(ModuleHeaders \cap Here) => ~Missing(p)
    BY HereFound DEF Missing
<1>4. IsSource /\ Candidates = {} => ~Missing(p)
    BY OpenedIsCandidate DEF Missing
<1>5. ASSUME Needs(p) # {}, p \notin AnyIncluded \cup Of(Candidates),
             IsSource => ModuleHeaders \cap Here # {}
      PROVE  Missing(p)
    <2>1. p \notin FoundIncluded
        BY <1>5, FoundAnywhere
    <2>2. ~(Opened(includes) = {} /\ IsSource)
        BY <1>5, HereFound
    <2> QED BY <1>5, <2>1, <2>2 DEF Missing
<1> QED BY <1>1, <1>2, <1>3, <1>4, <1>5 DEF UsesOk

LEMMA UsesInit ==
    ASSUME Init
    PROVE  UsesKept
BY DEF Init, UsesKept

LEMMA UsesKeptNext ==
    ASSUME ListsInv, UsesKept, [Next]_vars
    PROVE  UsesKept'
<1>1. IncludesInv
    BY DEF ListsInv
<1>2. CASE Include \/ Directive \/ OtherLine
    <2>1. /\ phase = "lines" /\ phase' = "lines"
          /\ \A e \in errors' : e \in errors \/ e[2] \in Raised
        BY <1>1, <1>2, IncludeAt, QuietLine DEF NewLine
    <2>2. "missing" \notin Raised
        BY DEF Raised
    <2>3. \A e \in errors : e[2] # "missing"
        BY <2>1 DEF UsesKept
    <2> QED BY <2>1, <2>2, <2>3 DEF UsesKept
<1>3. CASE LastLine
    BY <1>3 DEF LastLine, UsesKept
<1>4. CASE CheckForIncludeWhatYouUse
    <2>1. phase' \in {"own", "done"}
        BY <1>4 DEF CheckForIncludeWhatYouUse
    <2> QED BY <1>4, <2>1, UsesStep DEF UsesKept
<1>5. ASSUME file' = file, linenum' = linenum, phase' = phase \/ (phase = "own" /\ phase' = "done"),
             \A e \in errors' : e \in errors \/ e[2] = "own header",
             errors \subseteq errors'
      PROVE  UsesKept'
    <2>1. \A e \in errors' : e[2] = "missing" => e \in errors
        BY <1>5
    <2>2. ASSUME NEW p PROVE Asked(p)' = Asked(p)
        <3>1. {x \in errors' : x[2] = "missing" /\ x[3] = p}
                  = {x \in errors : x[2] = "missing" /\ x[3] = p}
            BY <1>5, <2>1
        <3> QED BY <3>1 DEF Asked
    <2>3. \A p : UsesOk(p) => UsesOk(p)'
        BY <1>5, <2>2, UsesUnmoved DEF UsesOk
    <2> QED BY <1>5, <2>1, <2>3 DEF UsesKept
<1>6. CASE CheckHeaderFileIncluded
    <2>1. UNCHANGED <<file, linenum>> /\ phase = "own" /\ phase' = "done"
        BY <1>6 DEF CheckHeaderFileIncluded
    <2>2. errors \subseteq errors' /\ \A e \in errors' : e \in errors \/ e[2] = "own header"
        <3> DEFINE missing == {q \in OwnHeaders : ~IsIncluded(q, includes)}
                   first   == IF Entries(includes) = {} THEN 0
                              ELSE Min({e.line : e \in Entries(includes)})
        <3>1. PICK before \in SUBSET missing :
                  errors' = errors \cup
                        IF IsTestFile(file.path) THEN {}
                        ELSE {<<first, "own header", q>> : q \in before}
            BY <1>6 DEF CheckHeaderFileIncluded
        <3> HIDE DEF missing, first
        <3>2. ASSUME NEW e \in errors', e \notin errors PROVE e[2] = "own header"
            <4>1. PICK q \in before : e = <<first, "own header", q>>
                BY <3>1, <3>2
            <4> QED BY <4>1
        <3> QED BY <3>1, <3>2
    <2> QED BY <1>5, <2>1, <2>2
<1>7. CASE UNCHANGED vars
    BY <1>5, <1>7 DEF vars
<1> QED BY <1>2, <1>3, <1>4, <1>6, <1>7 DEF Next

(* A standard header is asked for at the last line that needs it only; not *)
(* if the file includes it, or a header of its module that the file        *)
(* includes does, where no other branch follows, and not in a source file  *)
(* that found no header of its module; and always if neither the file nor  *)
(* any file that may be taken for such a header includes it and, in a      *)
(* source file, one is found (CheckForIncludeWhatYouUse).                  *)
THEOREM UsesAlwaysIncluded ==
    Spec => []UsesIncluded
<1>1. Init => UsesKept
    BY UsesInit
<1>2. ListsInv /\ UsesKept /\ [Next]_vars => UsesKept'
    BY UsesKeptNext
<1>3. UsesKept => UsesIncluded
    BY UsesEach DEF UsesKept
<1> QED BY <1>1, <1>2, <1>3, ListsInvariant, PTL DEF Spec
=============================================================================
