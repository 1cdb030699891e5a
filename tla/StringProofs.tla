---------------------------- MODULE StringProofs ----------------------------
(***************************************************************************)
(* Proofs about the storage of strings: StorageInv (StringInvariant) is an *)
(* invariant, and the properties of StringProperties follow from it.       *)
(***************************************************************************)
EXTENDS StringInvariant, NaturalLemmas, SequenceTheorems, FiniteSetTheorems

-----------------------------------------------------------------------------
(***************************************************************************)
(* What the operators on texts of StringStorage return: the places where   *)
(* the loops of Trim, Strip and strlen() stop, prefixes and suffixes, and  *)
(* how they compare with the definitions of StringValue.  The proofs about *)
(* strings cite these lemmas and never expand Leading, Trailing or SubSeq. *)
(***************************************************************************)

(* Prefixes and suffixes.                                                  *)

(* Drop(text, n) is the text without its first n characters.               *)
LEMMA DropProperties ==
    ASSUME NEW S, NEW text \in Seq(S), NEW n \in 0..Len(text)
    PROVE  /\ Drop(text, n) \in Seq(S)
           /\ Len(Drop(text, n)) = Len(text) - n
           /\ \A i \in 1..(Len(text) - n) : Drop(text, n)[i] = text[n + i]
<1>1. Len(text) \in Nat /\ n \in Nat /\ n <= Len(text)
    BY LenProperties
<1>2. \A i \in (n + 1)..Len(text) : text[i] \in S
    BY <1>1, ElementOfSeq
<1>3. n + 1 \in Int /\ Len(text) \in Int
    BY <1>1
<1>4. /\ SubSeq(text, n + 1, Len(text)) \in Seq(S)
      /\ Len(SubSeq(text, n + 1, Len(text))) =
            IF n + 1 <= Len(text) THEN Len(text) - (n + 1) + 1 ELSE 0
      /\ \A i \in 1..(Len(text) - (n + 1) + 1) :
            SubSeq(text, n + 1, Len(text))[i] = text[(n + 1) + i - 1]
    BY <1>2, <1>3, SubSeqProperties
<1>5. \A i \in 1..(Len(text) - n) :
         i \in 1..(Len(text) - (n + 1) + 1) /\ (n + 1) + i - 1 = n + i
    BY <1>1
<1> QED BY <1>1, <1>4, <1>5 DEF Drop

(* Prefix(text, n) is the first n characters of the text.                  *)
LEMMA PrefixProperties ==
    ASSUME NEW S, NEW text \in Seq(S), NEW n \in 0..Len(text)
    PROVE  /\ Prefix(text, n) \in Seq(S)
           /\ Len(Prefix(text, n)) = n
           /\ \A i \in 1..n : Prefix(text, n)[i] = text[i]
<1>1. Len(text) \in Nat /\ n \in Nat /\ n <= Len(text)
    BY LenProperties
<1>2. \A i \in 1..n : text[i] \in S
    BY <1>1, ElementOfSeq
<1>3. 1 \in Int /\ n \in Int
    BY <1>1
<1>4. /\ SubSeq(text, 1, n) \in Seq(S)
      /\ Len(SubSeq(text, 1, n)) = IF 1 <= n THEN n - 1 + 1 ELSE 0
      /\ \A i \in 1..(n - 1 + 1) : SubSeq(text, 1, n)[i] = text[1 + i - 1]
    BY <1>2, <1>3, SubSeqProperties
<1>5. \A i \in 1..n : i \in 1..(n - 1 + 1) /\ 1 + i - 1 = i
    BY <1>1
<1> QED BY <1>1, <1>4, <1>5 DEF Prefix

-----------------------------------------------------------------------------
(* Where the loops stop.                                                   *)

(* Leading(text, C) is the number of characters before the first one that  *)
(* is not in C.                                                            *)
LEMMA LeadingProperties ==
    ASSUME NEW S, NEW text \in Seq(S), NEW C
    PROVE  /\ Leading(text, C) \in 0..Len(text)
           /\ \A i \in 1..Leading(text, C) : text[i] \in C
           /\ Leading(text, C) < Len(text) => text[Leading(text, C) + 1] \notin C
<1> DEFINE L == Len(text)
           T == {n \in 0..L : n < L => text[n + 1] \notin C}
<1>1. L \in Nat
    BY LenProperties
<1>2. T \subseteq Nat /\ L \in T
    BY <1>1
<1>3. PICK n \in T : \A m \in T : n <= m
    BY <1>2, LeastElement
<1>4. \A i \in 1..n : text[i] \in C
    <2> TAKE i \in 1..n
    <2>1. i - 1 \in 0..L /\ i - 1 < n /\ n <= L /\ (i - 1) + 1 = i
        BY <1>1
    <2>2. i - 1 \notin T
        BY <1>3, <2>1
    <2> QED BY <2>1, <2>2
<1>5. /\ n \in 0..Len(text)
      /\ \A i \in 1..n : text[i] \in C
      /\ n < Len(text) => text[n + 1] \notin C
    BY <1>4
<1> QED BY <1>5 DEF Leading

(* Trailing(text, C) is the number of characters after the last one that   *)
(* is not in C.                                                            *)
LEMMA TrailingProperties ==
    ASSUME NEW S, NEW text \in Seq(S), NEW C
    PROVE  /\ Trailing(text, C) \in 0..Len(text)
           /\ \A i \in (Len(text) - Trailing(text, C) + 1)..Len(text) :
                 text[i] \in C
           /\ Trailing(text, C) < Len(text) =>
                 text[Len(text) - Trailing(text, C)] \notin C
<1> DEFINE L == Len(text)
           T == {n \in 0..L : n < L => text[L - n] \notin C}
<1>1. L \in Nat
    BY LenProperties
<1>2. T \subseteq Nat /\ L \in T
    BY <1>1
<1>3. PICK n \in T : \A m \in T : n <= m
    BY <1>2, LeastElement
<1>4. \A i \in (L - n + 1)..L : text[i] \in C
    <2> TAKE i \in (L - n + 1)..L
    <2>1. L - i \in 0..L /\ L - i < n /\ n <= L /\ L - (L - i) = i
        BY <1>1
    <2>2. L - i \notin T
        BY <1>3, <2>1
    <2> QED BY <2>1, <2>2
<1>5. /\ n \in 0..Len(text)
      /\ \A i \in Len(text) - n + 1 .. Len(text) : text[i] \in C
      /\ n < Len(text) => text[Len(text) - n] \notin C
    BY <1>4
<1> QED BY <1>5 DEF Trailing

AsCString(m, off) ==
    Prefix(Drop(m, off), Leading(Drop(m, off), Chars \ {Nul}))

(* strlen(): a C string that starts at m + off ends before any '\0' that   *)
(* follows, and right before a '\0'.                                       *)
LEMMA CStringProperties ==
    ASSUME NEW m \in Seq(Chars), NEW off \in Nat, NEW k \in Nat,
           off + k + 1 <= Len(m), m[off + k + 1] = Nul
    PROVE  /\ AsCString(m, off) \in Seq(Chars)
           /\ Len(AsCString(m, off)) \in Nat /\ Len(AsCString(m, off)) <= k
           /\ \A i \in 1..Len(AsCString(m, off)) :
                 AsCString(m, off)[i] = m[off + i] /\ m[off + i] # Nul
           /\ m[off + Len(AsCString(m, off)) + 1] = Nul
<1> PICK rest, n : rest = Drop(m, off) /\ n = Leading(rest, Chars \ {Nul})
    OBVIOUS
<1>1. Len(m) \in Nat
    BY LenProperties
<1>2. off \in 0..Len(m)
    BY <1>1
<1>3. /\ rest \in Seq(Chars) /\ Len(rest) = Len(m) - off
      /\ \A i \in 1..(Len(m) - off) : rest[i] = m[off + i]
    BY <1>2, DropProperties
<1>4. /\ n \in 0..Len(rest)
      /\ \A i \in 1..n : rest[i] \in Chars \ {Nul}
      /\ n < Len(rest) => rest[n + 1] \notin Chars \ {Nul}
    BY <1>3, LeadingProperties
<1>5. n \in Nat /\ n <= Len(m) - off
    BY <1>1, <1>2, <1>3, <1>4
<1>6. n <= k
    <2>1. k + 1 \in 1..(Len(m) - off) /\ off + (k + 1) = off + k + 1
        BY <1>1
    <2>2. rest[k + 1] = Nul
        BY <2>1, <1>3
    <2>3. k + 1 \notin 1..n
        BY <2>2, <1>4
    <2> QED BY <2>3, <1>5
<1>7. m[off + n + 1] = Nul
    <2>1. /\ n + 1 \in 1..(Len(m) - off) /\ off + (n + 1) = off + n + 1
          /\ n < Len(m) - off
        BY <1>1, <1>5, <1>6
    <2>2. rest[n + 1] = m[off + n + 1] /\ rest[n + 1] \notin Chars \ {Nul}
        BY <2>1, <1>3, <1>4
    <2>3. off + n + 1 \in 1..Len(m)
        BY <2>1, <1>1, <1>5
    <2>4. m[off + n + 1] \in Chars
        BY <2>3, ElementOfSeq
    <2> QED BY <2>2, <2>4
<1>8. /\ Prefix(rest, n) \in Seq(Chars) /\ Len(Prefix(rest, n)) = n
      /\ \A i \in 1..n : Prefix(rest, n)[i] = rest[i]
    <2>1. rest \in Seq(Chars) /\ n \in 0..Len(rest)
        BY <1>3, <1>4
    <2> QED BY ONLY <2>1, PrefixProperties
<1>9. \A i \in 1..n : i \in 1..(Len(m) - off)
    BY <1>1, <1>5
<1>10. AsCString(m, off) = Prefix(rest, n)
    BY DEF AsCString
<1>11. \A i \in 1..n : Prefix(rest, n)[i] = m[off + i] /\ m[off + i] # Nul
    BY ZenonT(60), <1>3, <1>4, <1>8, <1>9
<1>12. PICK text : text = AsCString(m, off)
    OBVIOUS
<1>13. /\ text \in Seq(Chars) /\ Len(text) = n
       /\ \A i \in 1..n : text[i] = m[off + i] /\ m[off + i] # Nul
    BY ZenonT(60), <1>8, <1>10, <1>11, <1>12
<1>14. /\ Len(text) \in Nat /\ Len(text) <= k
       /\ \A i \in 1..Len(text) : text[i] = m[off + i] /\ m[off + i] # Nul
       /\ m[off + Len(text) + 1] = Nul
    BY ONLY <1>5, <1>6, <1>7, <1>13
<1> QED BY ONLY <1>12, <1>13, <1>14

(* The k characters from m + off on.                                       *)
LEMMA SliceProperties ==
    ASSUME NEW S, NEW m \in Seq(S), NEW off \in Nat, NEW k \in Nat,
           off + k <= Len(m)
    PROVE  /\ Prefix(Drop(m, off), k) \in Seq(S)
           /\ Len(Prefix(Drop(m, off), k)) = k
           /\ \A i \in 1..k : Prefix(Drop(m, off), k)[i] = m[off + i]
<1> PICK d : d = Drop(m, off)
    OBVIOUS
<1>1. Len(m) \in Nat /\ off \in 0..Len(m)
    BY LenProperties
<1>2. /\ d \in Seq(S) /\ Len(d) = Len(m) - off
      /\ \A i \in 1..(Len(m) - off) : d[i] = m[off + i]
    BY <1>1, DropProperties
<1>3. k \in 0..Len(d) /\ \A i \in 1..k : i \in 1..(Len(m) - off)
    BY <1>1, <1>2
<1>4. /\ Prefix(d, k) \in Seq(S) /\ Len(Prefix(d, k)) = k
      /\ \A i \in 1..k : Prefix(d, k)[i] = d[i]
    BY <1>2, <1>3, PrefixProperties
<1> QED BY <1>2, <1>3, <1>4

(* A text with the characters of the slice is the slice.                   *)
LEMMA SliceIs ==
    ASSUME NEW S, NEW m \in Seq(S), NEW off \in Nat, NEW k \in Nat,
           off + k <= Len(m), NEW text \in Seq(S), Len(text) = k,
           \A i \in 1..k : text[i] = m[off + i]
    PROVE  Prefix(Drop(m, off), k) = text
<1> PICK t : t = Prefix(Drop(m, off), k)
    OBVIOUS
<1>1. t \in Seq(S) /\ Len(t) = k /\ \A i \in 1..k : t[i] = m[off + i]
    BY SliceProperties
<1>2. t = text
    BY <1>1, SeqEqual
<1> QED BY <1>2

(* strlen() of the text of an object that has no '\0' inside is its        *)
(* length.                                                                 *)
LEMMA CStringIsText ==
    ASSUME NEW m \in Seq(Chars), NEW off \in Nat, NEW k \in Nat,
           off + k + 1 <= Len(m), m[off + k + 1] = Nul,
           \A i \in 1..k : m[off + i] # Nul
    PROVE  AsCString(m, off) = Prefix(Drop(m, off), k)
<1> PICK t : t = AsCString(m, off)
    OBVIOUS
<1> PICK n : n = Len(t)
    OBVIOUS
<1>1. /\ t \in Seq(Chars) /\ n \in Nat /\ n <= k
      /\ \A i \in 1..n : t[i] = m[off + i]
      /\ m[off + n + 1] = Nul
    <2>1. /\ AsCString(m, off) \in Seq(Chars)
          /\ Len(AsCString(m, off)) \in Nat /\ Len(AsCString(m, off)) <= k
          /\ \A i \in 1..Len(AsCString(m, off)) :
                AsCString(m, off)[i] = m[off + i] /\ m[off + i] # Nul
          /\ m[off + Len(AsCString(m, off)) + 1] = Nul
        BY CStringProperties
    <2> QED BY <2>1
<1>2. n = k
    <2> SUFFICES ASSUME n # k PROVE FALSE
        OBVIOUS
    <2>1. n + 1 \in 1..k /\ off + (n + 1) = off + n + 1
        BY ONLY <1>1, n # k, off \in Nat, k \in Nat
    <2>2. m[off + (n + 1)] # Nul
        BY <2>1
    <2> QED BY <2>1, <2>2, <1>1
<1>3. off + k <= Len(m)
    BY LenProperties
<1>4. Len(t) = k /\ \A i \in 1..k : t[i] = m[off + i]
    BY <1>1, <1>2
<1>5. Prefix(Drop(m, off), k) = t
    <2>1. /\ m \in Seq(Chars) /\ off \in Nat /\ k \in Nat /\ off + k <= Len(m)
          /\ t \in Seq(Chars)
        BY <1>1, <1>3
    <2> QED BY ONLY ZenonT(60), <2>1, <1>4, SliceIs
<1> QED BY <1>5

(* A C string of a caller ends where its text does, or at a '\0' before.   *)
LEMMA CStringOfCaller ==
    ASSUME NEW t \in Seq(Chars)
    PROVE  AsCString(Append(t, Nul), 0) = Prefix(t, Leading(t, Chars \ {Nul}))
<1> PICK m, n, k : m = Append(t, Nul) /\ n = Leading(t, Chars \ {Nul}) /\ k = Len(t)
    OBVIOUS
<1>1. /\ m \in Seq(Chars) /\ k \in Nat /\ Len(m) = k + 1
      /\ m[k + 1] = Nul /\ \A i \in 1..k : m[i] = t[i]
    BY CharsAssumption, AppendProperties, LenProperties
<1>2. /\ n \in 0..k /\ \A i \in 1..n : t[i] \in Chars \ {Nul}
      /\ n < k => t[n + 1] \notin Chars \ {Nul}
    BY LeadingProperties
<1>3. n \in Nat /\ 0 + n + 1 <= Len(m) /\ 0 + n <= Len(m) /\ n <= k
      /\ 0 + n + 1 = n + 1 /\ n + 1 \in 1..Len(m)
    BY <1>1, <1>2
<1>4. m[0 + n + 1] = Nul
    <2>1. CASE n = k
        <3>1. m[n + 1] = Nul
            BY <2>1, <1>1
        <3> QED BY <3>1, <1>3
    <2>2. CASE n # k
        <3>1. n < k /\ n + 1 \in 1..k
            BY <2>2, <1>1, <1>2
        <3>2. t[n + 1] \in Chars
            BY <3>1, ElementOfSeq
        <3> QED BY <3>1, <3>2, <1>1, <1>2, <1>3
    <2> QED BY <2>1, <2>2
<1>5. \A i \in 1..n : 0 + i = i /\ i \in 1..k
    BY <1>1, <1>2
<1>6. \A i \in 1..n : m[0 + i] # Nul
    BY <1>1, <1>2, <1>5
<1>7. AsCString(m, 0) = Prefix(Drop(m, 0), n)
    BY <1>1, <1>3, <1>4, <1>6, CStringIsText
<1>8. /\ Prefix(t, n) \in Seq(Chars) /\ Len(Prefix(t, n)) = n
      /\ \A i \in 1..n : Prefix(t, n)[i] = t[i]
    BY <1>2, PrefixProperties
<1>9. \A i \in 1..n : Prefix(t, n)[i] = m[0 + i]
    BY <1>1, <1>5, <1>8
<1>10. Prefix(Drop(m, 0), n) = Prefix(t, n)
    <2>1. 0 \in Nat /\ n \in Nat /\ m \in Seq(Chars) /\ 0 + n <= Len(m)
        BY <1>1, <1>3
    <2> QED BY ZenonT(60), <2>1, <1>8, <1>9, SliceIs
<1> QED BY <1>7, <1>10

(* The loop of StripLeading() does not look past the text: the '\0' after  *)
(* it is no white space.                                                   *)
LEMMA LeadingIs ==
    ASSUME NEW S, NEW text \in Seq(S), NEW C, NEW n \in 0..Len(text),
           \A i \in 1..n : text[i] \in C,
           n < Len(text) => text[n + 1] \notin C
    PROVE  Leading(text, C) = n
<1> PICK k : k = Leading(text, C)
    OBVIOUS
<1>1. /\ k \in 0..Len(text) /\ \A i \in 1..k : text[i] \in C
      /\ k < Len(text) => text[k + 1] \notin C
    BY LeadingProperties
<1>2. Len(text) \in Nat
    BY LenProperties
<1>3. ~(k < n)
    <2> SUFFICES ASSUME k < n PROVE FALSE
        OBVIOUS
    <2>1. k + 1 \in 1..n /\ k < Len(text)
        BY <1>1, <1>2
    <2> QED BY <2>1, <1>1
<1>4. ~(n < k)
    <2> SUFFICES ASSUME n < k PROVE FALSE
        OBVIOUS
    <2>1. n + 1 \in 1..k /\ n < Len(text)
        BY <1>1, <1>2
    <2> QED BY <2>1, <1>1
<1> QED BY <1>1, <1>2, <1>3, <1>4

LEMMA LeadingInRest ==
    ASSUME NEW m \in Seq(Chars), NEW off \in Nat, NEW k \in Nat,
           off + k + 1 <= Len(m), m[off + k + 1] = Nul
    PROVE  Leading(Drop(m, off), White) = Leading(Prefix(Drop(m, off), k), White)
<1> PICK d, t, n : d = Drop(m, off) /\ t = Prefix(d, k) /\ n = Leading(t, White)
    OBVIOUS
<1>1. Len(m) \in Nat /\ off \in 0..Len(m) /\ off + k <= Len(m)
    BY LenProperties
<1>2. /\ d \in Seq(Chars) /\ Len(d) = Len(m) - off
      /\ \A i \in 1..(Len(m) - off) : d[i] = m[off + i]
    BY <1>1, DropProperties
<1>3. k \in 0..Len(d) /\ k + 1 \in 1..(Len(m) - off) /\ off + (k + 1) = off + k + 1
      /\ k < Len(d)
    BY <1>1, <1>2
<1>4. /\ t \in Seq(Chars) /\ Len(t) = k /\ \A i \in 1..k : t[i] = d[i]
    BY <1>2, <1>3, PrefixProperties
<1>5. /\ n \in 0..k /\ \A i \in 1..n : t[i] \in White
      /\ n < k => t[n + 1] \notin White
    BY <1>4, LeadingProperties
<1>6. \A i \in 1..n : i \in 1..k
    BY <1>5
<1>7. \A i \in 1..n : d[i] \in White
    BY <1>4, <1>5, <1>6
<1>8. d[n + 1] \notin White
    <2>1. CASE n = k
        BY <2>1, <1>2, <1>3, CharsAssumption
    <2>2. CASE n # k
        <3>1. n < k /\ n + 1 \in 1..k
            BY <2>2, <1>5
        <3> QED BY <3>1, <1>4, <1>5
    <2> QED BY <2>1, <2>2
<1>9. n \in 0..Len(d)
    BY <1>3, <1>5
<1> QED BY <1>2, <1>7, <1>8, <1>9, LeadingIs

-----------------------------------------------------------------------------
(* The definitions of StringValue say what the loops compute.              *)

LEMMA FromIsDrop ==
    ASSUME NEW S, NEW text \in Seq(S), NEW C
    PROVE  Value!From(text, C) = Drop(text, Leading(text, C))
<1> DEFINE I == Value!Others(text, C)
<1> PICK L, n : L = Len(text) /\ n = Leading(text, C)
    OBVIOUS
<1>1. /\ L \in Nat /\ n \in 0 .. L
      /\ \A i \in 1 .. n : text[i] \in C
      /\ n < L => text[n + 1] \notin C
    BY LeadingProperties, LenProperties
<1>2. I = {i \in 1 .. L : text[i] \notin C}
    BY DEF Value!Others
<1> HIDE DEF I
<1>3. CASE n = L
    <2>1. I = {}
        BY <1>1, <1>2, <1>3
    <2>2. Drop(text, L) = <<>>
        <3>1. Drop(text, L) \in Seq(S) /\ Len(Drop(text, L)) = L - L
            BY <1>1, DropProperties
        <3>2. Len(Drop(text, L)) = 0
            BY <1>1, <3>1
        <3> QED BY ONLY <3>1, <3>2, EmptySeq
    <2> QED BY <2>1, <2>2, <1>3 DEF Value!From, Value!Empty, I
<1>4. CASE n # L
    <2>1. n \in Nat /\ n < L /\ n + 1 \in 1 .. L
        BY <1>1, <1>4
    <2>2. n + 1 \in I
        BY <1>1, <1>2, <2>1
    <2>3. \A i \in I : i \in Nat /\ n + 1 <= i
        <3> TAKE i \in I
        <3>1. i \in 1 .. L /\ i \notin 1 .. n
            BY <1>1, <1>2
        <3> QED BY <3>1, <2>1, <1>1
    <2>4. Value!Min(I) = n + 1
        <3>1. \A x \in I : (\A y \in I : x <= y) => x = n + 1
            BY <2>1, <2>2, <2>3
        <3> QED BY <2>1, <2>2, <2>3, <3>1 DEF Value!Min
    <2>5. Value!From(text, C) = SubSeq(text, n + 1, L)
        BY <2>2, <2>4 DEF Value!From, I
    <2> QED BY <2>5 DEF Drop
<1> QED BY <1>3, <1>4

LEMMA UpToIsPrefix ==
    ASSUME NEW S, NEW text \in Seq(S), NEW C
    PROVE  Value!UpTo(text, C) = Prefix(text, Len(text) - Trailing(text, C))
<1> DEFINE I == Value!Others(text, C)
<1> PICK L, n, k : L = Len(text) /\ n = Trailing(text, C) /\ k = L - n
    OBVIOUS
<1>1. /\ L \in Nat /\ n \in 0 .. L /\ k \in 0 .. L /\ L - n = k
      /\ \A i \in (L - n + 1) .. L : text[i] \in C
      /\ n < L => text[L - n] \notin C
    BY TrailingProperties, LenProperties
<1>2. I = {i \in 1 .. L : text[i] \notin C}
    BY DEF Value!Others
<1> HIDE DEF I
<1>3. CASE k = 0
    <2>1. I = {}
        BY <1>1, <1>2, <1>3
    <2>2. Prefix(text, 0) = <<>>
        <3>1. Prefix(text, 0) \in Seq(S) /\ Len(Prefix(text, 0)) = 0
            BY <1>1, PrefixProperties
        <3> QED BY ONLY <3>1, EmptySeq
    <2> QED BY <2>1, <2>2, <1>3 DEF Value!UpTo, Value!Empty, I
<1>4. CASE k # 0
    <2>1. k \in Nat /\ n < L /\ k \in 1 .. L
        BY <1>1, <1>4
    <2>2. k \in I
        BY <1>1, <1>2, <2>1
    <2>3. \A i \in I : i \in Nat /\ k >= i
        <3> TAKE i \in I
        <3>1. i \in 1 .. L /\ i \notin (k + 1) .. L
            BY <1>1, <1>2
        <3> QED BY <3>1, <2>1, <1>1
    <2>4. Value!Max(I) = k
        <3>1. \A x \in I : (\A y \in I : x >= y) => x = k
            BY <2>1, <2>2, <2>3
        <3> QED BY <2>1, <2>2, <2>3, <3>1 DEF Value!Max
    <2>5. Value!UpTo(text, C) = SubSeq(text, 1, k)
        BY <2>2, <2>4 DEF Value!UpTo, I
    <2> QED BY <2>5 DEF Prefix
<1> QED BY <1>3, <1>4

(* What stays of a text between its ends, and what it is like.             *)
LEMMA FromIsText ==
    ASSUME NEW S, NEW text \in Seq(S), NEW C
    PROVE  /\ Value!From(text, C) \in Seq(S)
           /\ Len(Value!From(text, C)) = Len(text) - Leading(text, C)
           /\ \A i \in 1 .. Len(Value!From(text, C)) :
                 Value!From(text, C)[i] = text[Leading(text, C) + i]
<1> PICK n, f, L :
        n = Leading(text, C) /\ f = Value!From(text, C) /\ L = Len(text)
    OBVIOUS
<1>1. n \in 0 .. L
    BY LeadingProperties
<1>2. f = Drop(text, n)
    BY FromIsDrop
<1>3. /\ f \in Seq(S) /\ Len(f) = L - n
      /\ \A i \in 1 .. (L - n) : f[i] = text[n + i]
    <2>1. /\ Drop(text, n) \in Seq(S) /\ Len(Drop(text, n)) = Len(text) - n
          /\ \A i \in 1 .. (Len(text) - n) : Drop(text, n)[i] = text[n + i]
        BY <1>1, DropProperties
    <2> QED BY <2>1, <1>2
<1> QED BY <1>3

LEMMA UpToIsText ==
    ASSUME NEW S, NEW text \in Seq(S), NEW C
    PROVE  /\ Value!UpTo(text, C) \in Seq(S)
           /\ Len(Value!UpTo(text, C)) = Len(text) - Trailing(text, C)
           /\ \A i \in 1 .. Len(Value!UpTo(text, C)) :
                 Value!UpTo(text, C)[i] = text[i]
<1>1. Trailing(text, C) \in 0 .. Len(text) /\ Len(text) \in Nat
    BY TrailingProperties, LenProperties
<1>2. Len(text) - Trailing(text, C) \in 0 .. Len(text)
    BY <1>1
<1> QED BY <1>2, UpToIsPrefix, PrefixProperties

LEMMA StaticTrimIsTrim ==
    ASSUME NEW text \in Seq(Chars)
    PROVE  StaticTrimText(text) =
               IF Value!Between(text, Low) = text THEN <<>>
               ELSE Value!Between(text, Low)
<1> PICK n, t, k, b :
        /\ n = Leading(text, Low) /\ t = Value!From(text, Low)
        /\ k = Len(t) - Trailing(t, Low) /\ b = Value!Between(text, Low)
    OBVIOUS
<1>1. /\ t = Drop(text, n) /\ t \in Seq(Chars) /\ Len(t) = Len(text) - n
      /\ \A i \in 1 .. Len(t) : t[i] = text[n + i]
    BY FromIsDrop, FromIsText
<1>2. /\ b = Prefix(t, k) /\ b \in Seq(Chars) /\ Len(b) = k
      /\ \A i \in 1 .. k : b[i] = t[i]
    <2>1. b = Value!UpTo(t, Low)
        BY DEF Value!Between
    <2> QED BY <2>1, <1>1, UpToIsPrefix, UpToIsText
<1>3. /\ n \in 0 .. Len(text) /\ Len(text) \in Nat
      /\ Trailing(t, Low) \in 0 .. Len(t)
    BY <1>1, LeadingProperties, LenProperties, TrailingProperties
<1>4. StaticTrimText(text) = IF k < Len(text) THEN b ELSE <<>>
    BY <1>1, <1>2 DEF StaticTrimText
<1>5. CASE k < Len(text)
    <2>1. b # text
        BY <1>2, <1>3, <1>5
    <2> QED BY <2>1, <1>2, <1>4, <1>5
<1>6. CASE ~(k < Len(text))
    <2>1. k = Len(text) /\ n = 0 /\ Len(t) = Len(text)
        <3>1. PICK x, y, z : x = Len(text) /\ y = Len(t) /\ z = Trailing(t, Low)
            OBVIOUS
        <3>2. /\ n \in 0 .. x /\ x \in Nat /\ y = x - n /\ z \in 0 .. y
              /\ k = y - z /\ ~(k < x)
            BY <3>1, <1>1, <1>3, <1>6
        <3>3. k = x /\ n = 0 /\ y = x
            BY ONLY <3>2
        <3> QED BY <3>1, <3>3
    <2>2. t = text
        <3>1. \A i \in 1 .. Len(text) : t[i] = text[i]
            <4>1. \A i \in 1 .. Len(text) : n + i = i
                BY <2>1, <1>3
            <4> QED BY <4>1, <2>1, <1>1
        <3> QED BY ONLY <3>1, <2>1, <1>1, SeqEqual, text \in Seq(Chars)
    <2>3. b = text
        <3>1. \A i \in 1 .. Len(text) : b[i] = t[i]
            BY <2>1, <1>2
        <3> QED BY <3>1, <2>1, <2>2, <1>2, SeqEqual
    <2> QED BY <2>3, <1>2, <1>4, <1>6
<1> QED BY <1>5, <1>6

LEMMA StaticStripIsStrip ==
    ASSUME NEW text \in Seq(Chars)
    PROVE  /\ StaticStripLeadingText(text) = Value!From(text, White)
           /\ StaticStripTrailingText(text) = Value!UpTo(text, White)
           /\ StaticStripText(text) = Value!Between(text, White)
<1>1. StaticStripLeadingText(text) = Value!From(text, White)
    BY FromIsDrop DEF StaticStripLeadingText
<1>2. ASSUME NEW t \in Seq(Chars)
      PROVE  StaticStripTrailingText(t) = Value!UpTo(t, White)
    BY UpToIsPrefix DEF StaticStripTrailingText
<1>3. Value!From(text, White) \in Seq(Chars)
    BY FromIsText
<1> QED BY <1>1, <1>2, <1>3 DEF StaticStripText, Value!Between

-----------------------------------------------------------------------------
(* What each function does to a world, field by field.                     *)

LEMMA WorldFields ==
    ASSUME NEW w \in Worlds
    PROVE  /\ w.obj \in [Objects -> Fields] /\ w.live \in SUBSET Strings
           /\ w.mem \in [Buffers -> Seq(Chars)]
           /\ w.heap \in [Blocks -> {"unused", "allocated", "freed"}]
           /\ w.lost \in SUBSET Blocks
           /\ w.fate \in {"ok", "bad_alloc", "null_read", "invalid_free"}
BY DEF Worlds

(* An object with these fields; cap is read by nothing that changes state. *)
HasFields(o, len, buf, off, head) ==
    /\ o.len = len /\ o.buf = buf /\ o.off = off /\ o.head = head

OthersKept(r, w, T) == \A x \in Objects \ T : r.obj[x] = w.obj[x]

(* Between w and r nothing changes but the objects in T, their own         *)
(* characters and the blocks in B, and no other object of A uses those.    *)
Touches(r, w, A, T, B) ==
    /\ OthersKept(r, w, T)
    /\ \A b \in Buffers \ (T \cup B) : r.mem[b] = w.mem[b]
    /\ \A b \in Blocks \ B : r.heap[b] = w.heap[b]
    /\ \A u \in A \ T : w.obj[u].buf \notin B

OthersIntact(r, w, A, T) ==
    \A u \in A \ T : r.obj[u] = w.obj[u] /\ Intact(r, u)

IsWorld(r) == r = [obj |-> r.obj, live |-> r.live, mem |-> r.mem,
                   heap |-> r.heap, lost |-> r.lost, fate |-> r.fate]

LEMMA WorldMade ==
    ASSUME NEW r, IsWorld(r),
           r.obj \in [Objects -> Fields], r.live \in SUBSET Strings,
           r.mem \in [Buffers -> Seq(Chars)],
           r.heap \in [Blocks -> {"unused", "allocated", "freed"}],
           r.lost \in SUBSET Blocks,
           r.fate \in {"ok", "bad_alloc", "null_read", "invalid_free"}
    PROVE  r \in Worlds
BY DEF Worlds, IsWorld

Defaults(d, w, s) ==
    /\ d \in Worlds
    /\ d.obj[s].own /\ HasFields(d.obj[s], 0, s, 0, Null)
    /\ OthersKept(d, w, {s})
    /\ d.mem = [w.mem EXCEPT ![s] = <<Nul>>]
    /\ d.live = w.live /\ d.heap = w.heap /\ d.lost = w.lost
    /\ d.fate = w.fate

LEMMA DefaultEffect ==
    ASSUME NEW w \in Worlds, NEW s \in Objects
    PROVE  Defaults(Default(w, s), w, s)
<1>1. <<Nul>> \in Seq(Chars)
    BY CharsAssumption
<1> QED BY <1>1, StorageAssumption
        DEF Defaults, Default, Worlds, Fields, Buffers, Objects, HasFields,
            OthersKept

Frees(f, w, b) ==
    /\ f \in Worlds
    /\ f.obj = w.obj /\ f.live = w.live
    /\ f.mem = [w.mem EXCEPT ![b] = <<Nul>>]
    /\ f.heap = [w.heap EXCEPT ![b] = "freed"]
    /\ f.lost = w.lost /\ f.fate = w.fate

LEMMA FreeEffect ==
    ASSUME NEW w \in Worlds, NEW b \in Blocks, w.heap[b] = "allocated"
    PROVE  Frees(Free(w, b, 0), w, b)
<1>1. <<Nul>> \in Seq(Chars)
    BY CharsAssumption
<1>2. b # Null
    BY StorageAssumption
<1> QED BY <1>1, <1>2 DEF Frees, Free, Worlds, Buffers

Constructs(r, w, s, text) ==
    /\ r \in Worlds
    /\ r.live = w.live /\ r.lost = w.lost /\ r.fate = w.fate
    /\ OthersKept(r, w, {s})
    /\ \/ /\ Len(text) < LocalCapacity
          /\ r.obj[s].own /\ HasFields(r.obj[s], Len(text), s, 0, Null)
          /\ r.mem = [w.mem EXCEPT ![s] = Append(text, Nul)]
          /\ r.heap = w.heap
       \/ \E b \in Blocks :
             /\ w.heap[b] = "unused"
             /\ r.obj[s].own /\ HasFields(r.obj[s], Len(text), b, 0, b)
             /\ r.mem = [w.mem EXCEPT ![s] = <<Nul>>,
                                      ![b] = Append(text, Nul)]
             /\ r.heap = [w.heap EXCEPT ![b] = "allocated"]

LEMMA ConstructEffect ==
    ASSUME NEW w \in Worlds, NEW s \in Objects, NEW text \in Seq(Chars),
           Construct(w, s, text).fate # "bad_alloc"
    PROVE  Constructs(Construct(w, s, text), w, s, text)
<1> SUFFICES ASSUME NEW r, r = Construct(w, s, text)
             PROVE  Constructs(r, w, s, text)
    OBVIOUS
<1>1. Append(text, Nul) \in Seq(Chars) /\ Len(text) \in Nat /\ Len(text) + 1 \in Nat
    BY CharsAssumption, AppendProperties, LenProperties
<1>0. /\ w.obj \in [Objects -> Fields] /\ w.mem \in [Buffers -> Seq(Chars)]
      /\ s \in Buffers /\ Blocks \subseteq Buffers
    BY WorldFields DEF Buffers
<1> DEFINE d == Default(w, s)
<1>2. /\ d \in Worlds
      /\ d.obj[s].own /\ HasFields(d.obj[s], 0, s, 0, Null)
      /\ OthersKept(d, w, {s})
      /\ d.mem = [w.mem EXCEPT ![s] = <<Nul>>]
      /\ d.live = w.live /\ d.heap = w.heap /\ d.lost = w.lost
      /\ d.fate = w.fate
    BY DefaultEffect DEF Defaults
<1> HIDE DEF d
<1>5. /\ d.obj \in [Objects -> Fields]
      /\ d.mem \in [Buffers -> Seq(Chars)]
    BY <1>2, WorldFields
<1>3. CASE Short(text)
    <2>1. r = [d EXCEPT !.obj[s].len = Len(text), !.mem[s] = Append(text, Nul)]
        BY <1>3 DEF Construct, d
    <2>2. /\ r.live = d.live /\ r.lost = d.lost /\ r.fate = d.fate
          /\ r.heap = d.heap
          /\ r.obj = [d.obj EXCEPT ![s].len = Len(text)]
          /\ r.mem = [d.mem EXCEPT ![s] = Append(text, Nul)]
        BY <2>1, <1>2 DEF Worlds
    <2>3. /\ r.obj[s].own /\ HasFields(r.obj[s], Len(text), s, 0, Null)
          /\ OthersKept(r, w, {s})
          /\ r.obj \in [Objects -> Fields]
        <3>1. r.obj = [d.obj EXCEPT ![s] = [d.obj[s] EXCEPT !.len = Len(text)]]
            BY <2>2, <1>5
        <3>2. d.obj[s] \in Fields
            BY <1>5
        <3> DEFINE new == [d.obj[s] EXCEPT !.len = Len(text)]
        <3>3. new \in Fields /\ new.own /\ HasFields(new, Len(text), s, 0, Null)
            BY <3>2, <1>1, <1>2 DEF Fields, HasFields
        <3>4. r.obj = [d.obj EXCEPT ![s] = new]
            BY <3>1
        <3> HIDE DEF new
        <3>5. /\ r.obj[s] = new /\ r.obj \in [Objects -> Fields]
              /\ \A x \in Objects \ {s} : r.obj[x] = d.obj[x]
            BY <3>3, <3>4, <1>5
        <3> QED BY <3>3, <3>5, <1>2 DEF OthersKept
    <2>4. /\ r.mem = [w.mem EXCEPT ![s] = Append(text, Nul)]
          /\ r.mem \in [Buffers -> Seq(Chars)]
        <3>1. r.mem \in [Buffers -> Seq(Chars)]
            BY <2>2, <1>1, <1>5
        <3>2. r.mem = [w.mem EXCEPT ![s] = Append(text, Nul)]
            <4> DEFINE a == Append(text, Nul)
            <4>1. r.mem = [d.mem EXCEPT ![s] = a]
                BY <2>2
            <4> HIDE DEF a
            <4>2. r.mem = [w.mem EXCEPT ![s] = a]
                BY <4>1, <1>0, <1>2
            <4> QED BY <4>2 DEF a
        <3> QED BY <3>1, <3>2
    <2>5. r \in Worlds
        <3>1. IsWorld(r)
            BY <2>1, <1>2 DEF Worlds, IsWorld
        <3>2. /\ r.live \in SUBSET Strings /\ r.lost \in SUBSET Blocks
              /\ r.heap \in [Blocks -> {"unused", "allocated", "freed"}]
              /\ r.fate \in {"ok", "bad_alloc", "null_read", "invalid_free"}
            BY <2>2, <1>2, WorldFields
        <3>3. r.obj \in [Objects -> Fields] /\ r.mem \in [Buffers -> Seq(Chars)]
            BY <2>3, <2>4
        <3> QED BY ONLY <3>1, <3>2, <3>3, WorldMade
    <2> QED BY <2>2, <2>3, <2>4, <2>5, <1>2, <1>3 DEF Short, Constructs
<1>4. CASE ~Short(text)
    <2> DEFINE room == {x \in Blocks : w.heap[x] = "unused"}
               b == CHOOSE x \in room : TRUE
    <2>1. room # {}
        BY <1>4 DEF Construct, Fault, Worlds
    <2>2. b \in Blocks /\ w.heap[b] = "unused"
        BY <2>1
    <2>3. r = [d EXCEPT !.obj[s] = [own |-> TRUE, len |-> Len(text), buf |-> b,
                                    off |-> 0, cap |-> Len(text) + 1, head |-> b],
                        !.mem[b] = Append(text, Nul),
                        !.heap[b] = "allocated"]
        BY <2>1, <1>4 DEF Construct, d
    <2> HIDE DEF b
    <2>4. /\ r.live = d.live /\ r.lost = d.lost /\ r.fate = d.fate
          /\ r.heap = [d.heap EXCEPT ![b] = "allocated"]
          /\ r.obj = [d.obj EXCEPT ![s] =
                 [own |-> TRUE, len |-> Len(text), buf |-> b,
                  off |-> 0, cap |-> Len(text) + 1, head |-> b]]
          /\ r.mem = [d.mem EXCEPT ![b] = Append(text, Nul)]
        BY <2>3, <1>2 DEF Worlds
    <2>5. /\ r.obj[s].own /\ HasFields(r.obj[s], Len(text), b, 0, b)
          /\ OthersKept(r, w, {s})
          /\ r.obj \in [Objects -> Fields]
        BY <2>2, <2>4, <1>0, <1>1, <1>2, <1>5
        DEF Fields, HasFields, OthersKept, Buffers
    <2>6. /\ r.mem = [w.mem EXCEPT ![s] = <<Nul>>, ![b] = Append(text, Nul)]
          /\ r.mem \in [Buffers -> Seq(Chars)]
        <3>1. r.mem \in [Buffers -> Seq(Chars)]
            BY <2>2, <2>4, <1>1, <1>5
        <3>2. r.mem = [w.mem EXCEPT ![s] = <<Nul>>, ![b] = Append(text, Nul)]
            BY <2>4, <1>2
        <3> QED BY <3>1, <3>2
    <2>7. r \in Worlds
        <3>1. IsWorld(r)
            BY <2>3, <1>2 DEF Worlds, IsWorld
        <3>2. /\ r.live \in SUBSET Strings /\ r.lost \in SUBSET Blocks
              /\ r.heap \in [Blocks -> {"unused", "allocated", "freed"}]
              /\ r.fate \in {"ok", "bad_alloc", "null_read", "invalid_free"}
            BY <2>2, <2>4, <1>2, WorldFields
        <3>3. r.obj \in [Objects -> Fields] /\ r.mem \in [Buffers -> Seq(Chars)]
            BY <2>5, <2>6
        <3> QED BY ONLY <3>1, <3>2, <3>3, WorldMade
    <2>8. /\ r.live = w.live /\ r.lost = w.lost /\ r.fate = w.fate
          /\ r.heap = [w.heap EXCEPT ![b] = "allocated"]
        BY <2>4, <1>2
    <2> HIDE DEF room
    <2> QED BY <2>2, <2>5, <2>6, <2>7, <2>8 DEF Constructs
<1> QED BY <1>3, <1>4

Moves(r, w, s, u) ==
    /\ r \in Worlds
    /\ r.obj[s].own = w.obj[u].own
    /\ HasFields(r.obj[s], w.obj[u].len,
                 IF w.obj[u].buf = u THEN s ELSE w.obj[u].buf,
                 w.obj[u].off, Null)
    /\ ~r.obj[u].own /\ HasFields(r.obj[u], 0, Null, 0, Null)
    /\ OthersKept(r, w, {s, u})
    /\ r.mem = [w.mem EXCEPT
                  ![s] = IF w.obj[u].buf = u THEN w.mem[u] ELSE <<Nul>>,
                  ![u] = <<Nul>>]
    /\ r.lost = w.lost \cup ({w.obj[u].head} \ {Null})
    /\ r.live = w.live /\ r.heap = w.heap /\ r.fate = w.fate

LEMMA MoveEffect ==
    ASSUME NEW w \in Worlds, NEW s \in Objects, NEW u \in Objects, s # u
    PROVE  Moves(MoveInto(w, s, u), w, s, u)
<1> SUFFICES ASSUME NEW r, r = MoveInto(w, s, u)
             PROVE  Moves(r, w, s, u)
    OBVIOUS
<1>1. <<Nul>> \in Seq(Chars)
    BY CharsAssumption
<1>2. /\ w.obj \in [Objects -> Fields] /\ w.mem \in [Buffers -> Seq(Chars)]
      /\ Objects \subseteq Buffers
    BY WorldFields DEF Buffers
<1> DEFINE o == w.obj[u]
           at == IF o.buf = u THEN s ELSE o.buf
           new == [o EXCEPT !.buf = at, !.cap = 0, !.head = Null]
           txt == IF o.buf = u THEN w.mem[u] ELSE <<Nul>>
<1>3. o \in Fields /\ at \in Buffers \cup {Null}
    BY <1>2 DEF Fields, Buffers
<1>4. new \in Fields /\ new.own = o.own /\ HasFields(new, o.len, at, o.off, Null)
    <2> HIDE DEF o, at
    <2> QED BY <1>3 DEF Fields, HasFields
<1>5. txt \in Seq(Chars)
    BY <1>1, <1>2
<1>6. r = [w EXCEPT !.obj[s] = new, !.mem[s] = txt, !.obj[u] = MovedFrom,
                    !.mem[u] = <<Nul>>, !.lost = @ \cup ({o.head} \ {Null})]
    BY DEF MoveInto, IsLocal
<1>7. MovedFrom \in Fields /\ ~MovedFrom.own /\ HasFields(MovedFrom, 0, Null, 0, Null)
    BY DEF MovedFrom, Fields, HasFields
<1>8. {o.head} \ {Null} \subseteq Blocks
    BY <1>2 DEF Fields
<1> HIDE DEF new, txt, o, at
<1>9. /\ r.obj = [w.obj EXCEPT ![s] = new, ![u] = MovedFrom]
      /\ r.mem = [w.mem EXCEPT ![s] = txt, ![u] = <<Nul>>]
      /\ r.lost = w.lost \cup ({o.head} \ {Null})
      /\ r.live = w.live /\ r.heap = w.heap /\ r.fate = w.fate
    BY <1>6 DEF Worlds
<1>10. /\ r.obj \in [Objects -> Fields]
       /\ r.mem \in [Buffers -> Seq(Chars)]
       /\ r.lost \in SUBSET Blocks
       /\ r.obj[s] = new /\ r.obj[u] = MovedFrom
       /\ OthersKept(r, w, {s, u})
    <2>1. s \in Buffers /\ u \in Buffers /\ w.lost \in SUBSET Blocks
        BY <1>2, WorldFields
    <2>2. r.mem \in [Buffers -> Seq(Chars)] /\ r.lost \in SUBSET Blocks
        BY <2>1, <1>1, <1>2, <1>5, <1>8, <1>9
    <2> QED BY ZenonT(60), <2>2, <1>2, <1>4, <1>7, <1>9 DEF OthersKept
<1>11. r \in Worlds
    <2>1. IsWorld(r)
        BY <1>6 DEF Worlds, IsWorld
    <2>2. /\ r.live \in SUBSET Strings
          /\ r.heap \in [Blocks -> {"unused", "allocated", "freed"}]
          /\ r.fate \in {"ok", "bad_alloc", "null_read", "invalid_free"}
        BY <1>9, WorldFields
    <2> QED BY <2>1, <2>2, <1>10, WorldMade
<1> QED BY <1>4, <1>7, <1>9, <1>10, <1>11 DEF o, at, txt, Moves

-----------------------------------------------------------------------------
(* Each function takes a sound world to a sound world, in which an object  *)
(* that was destroyed no longer counts and one that was constructed does.  *)

Takes(r, w, A) == Sound(r, A) /\ r.fate = w.fate /\ r.live = w.live

(* The texts of the objects in T are the same in r and w.                  *)
Keeps(r, w, T) == \A u \in T : Text(r, u) = Text(w, u)

LEMMA Disjoint ==
    /\ Objects \cap Blocks = {} /\ Objects \cap Callers = {}
    /\ Blocks \cap Callers = {}
    /\ Null \notin Objects /\ Null \notin Blocks /\ Null \notin Callers
    /\ Buffers = Objects \cup Blocks \cup Callers
BY StorageAssumption DEF Objects, Buffers

(* What a function does to the objects in T, to their own characters and   *)
(* to the blocks in B leaves alone every object that uses none of them.    *)
LEMMA Untouched ==
    ASSUME NEW w, NEW A \in SUBSET Objects, Sound(w, A), NEW r \in Worlds,
           NEW T \in SUBSET Objects, NEW B \in SUBSET Blocks,
           Touches(r, w, A, T, B)
    PROVE  OthersIntact(r, w, A, T) /\ CallersKept(r) /\ Keeps(r, w, A \ T)
<1>1. ASSUME NEW u \in A \ T
      PROVE  r.obj[u] = w.obj[u] /\ Intact(r, u) /\ Text(r, u) = Text(w, u)
    <2>1. r.obj[u] = w.obj[u]
        BY DEF Touches, OthersKept
    <2>2. Intact(w, u)
        BY DEF Sound
    <2>3. w.obj[u].own \in BOOLEAN
        BY WorldFields DEF Sound, Fields
    <2>4. w.obj[u].buf \in {u, Null} \cup Blocks \cup Callers
        BY <2>2, <2>3 DEF Intact, Placed
    <2>5. w.obj[u].buf # Null => r.mem[w.obj[u].buf] = w.mem[w.obj[u].buf]
        BY <2>4, Disjoint DEF Touches
    <2>6. w.obj[u].buf \in Blocks =>
              r.heap[w.obj[u].buf] = w.heap[w.obj[u].buf]
        BY DEF Touches
    <2>7. r.mem[u] = w.mem[u]
        BY Disjoint DEF Touches
    <2>8. Intact(r, u)
        BY <2>1, <2>2, <2>5, <2>6, <2>7 DEF Intact, Ends
    <2>9. Text(r, u) = Text(w, u)
        BY <2>1, <2>5 DEF Text
    <2> QED BY <2>1, <2>8, <2>9
<1>2. CallersKept(r)
    BY Disjoint DEF Sound, CallersKept, Touches
<1> QED BY <1>1, <1>2 DEF OthersIntact, Keeps

(* ~String() frees at most what only this object uses.                     *)
LEMMA DestructedSound ==
    ASSUME NEW w, NEW A \in SUBSET Objects, Sound(w, A), NEW s \in A
    PROVE  /\ Takes(Destructed(w, s), w, A \ {s})
           /\ Destructed(w, s).obj = w.obj
           /\ Keeps(Destructed(w, s), w, A \ {s})
<1> SUFFICES ASSUME NEW r, r = Destructed(w, s)
             PROVE  Takes(r, w, A \ {s}) /\ r.obj = w.obj /\ Keeps(r, w, A \ {s})
    OBVIOUS
<1>1. /\ w \in Worlds /\ Intact(w, s) /\ s \in Objects
      /\ Separate(w, A) /\ Accounted(w, A)
    BY DEF Sound
<1>2. /\ w.obj[s].own \in BOOLEAN
      /\ w.obj[s].head \in Blocks \cup {Null}
    BY <1>1, WorldFields DEF Fields
<1> DEFINE h == w.obj[s].head
<1>3. CASE h = Null
    <2>1. r = w
        BY <1>3 DEF Destructed, Free
    <2>2. Accounted(w, A \ {s})
        BY <1>1, <1>3, Disjoint DEF Accounted
    <2>3. Separate(w, A \ {s})
        BY <1>1 DEF Separate
    <2>4. Keeps(r, w, A \ {s})
        BY <2>1 DEF Keeps
    <2> QED BY <2>1, <2>2, <2>3, <2>4 DEF Sound, Takes
<1>4. CASE h # Null
    <2>1. h \in Blocks /\ w.obj[s].own /\ w.obj[s].buf = h
        BY <1>1, <1>2, <1>4 DEF Intact, Placed
    <2>2. w.heap[h] = "allocated" /\ h # s
        BY <2>1, <1>1, Disjoint DEF Intact
    <2>3. r = Free(w, h, 0)
        BY <2>1, <2>2 DEF Destructed, IsLocal
    <2> HIDE DEF h
    <2>4. Frees(r, w, h)
        BY <2>1, <2>2, <2>3, <1>1, FreeEffect
    <2> USE DEF Frees
    <2>5. \A u \in A \ {s} : w.obj[u].buf \notin {h}
        BY <2>1, <1>1 DEF Separate, h
    <2>6. /\ \A b \in Buffers \ ({s} \cup {h}) : r.mem[b] = w.mem[b]
          /\ \A b \in Blocks \ {h} : r.heap[b] = w.heap[b]
          /\ r.heap[h] = "freed"
        BY <2>1, <2>4, <1>1, WorldFields
    <2>7. Touches(r, w, A, {s}, {h})
        BY <2>4, <2>5, <2>6 DEF Touches, OthersKept
    <2>8. OthersIntact(r, w, A, {s}) /\ CallersKept(r) /\ Keeps(r, w, A \ {s})
        <3>1. {s} \in SUBSET Objects /\ {h} \in SUBSET Blocks /\ r \in Worlds
            BY <2>1, <2>4, <1>1
        <3> QED BY <3>1, <2>7, Untouched, Zenon
    <2>9. Separate(r, A \ {s})
        BY <1>1, <2>4 DEF Separate
    <2>10. Accounted(r, A \ {s})
        BY <1>1, <2>1, <2>4, <2>6 DEF Accounted, h
    <2> QED BY <2>4, <2>8, <2>9, <2>10 DEF Sound, OthersIntact, Takes
<1> QED BY <1>3, <1>4

LEMMA DefaultSound ==
    ASSUME NEW w, NEW A \in SUBSET Objects, Sound(w, A),
           NEW s \in Objects, s \notin A
    PROVE  Takes(Default(w, s), w, A \cup {s}) /\ Keeps(Default(w, s), w, A)
<1> SUFFICES ASSUME NEW r, r = Default(w, s)
             PROVE  Takes(r, w, A \cup {s}) /\ Keeps(r, w, A)
    OBVIOUS
<1>1. /\ w \in Worlds /\ Separate(w, A) /\ Accounted(w, A)
      /\ s \in Objects /\ s \notin A
    BY DEF Sound
<1>2. Defaults(r, w, s)
    BY <1>1, DefaultEffect
<1> USE DEF Defaults
<1>3. r.mem[s] = <<Nul>>
    BY <1>1, <1>2, WorldFields, Disjoint
<1>4. OthersIntact(r, w, A, {s}) /\ CallersKept(r) /\ Keeps(r, w, A)
    <2>1. Touches(r, w, A, {s}, {})
        BY <1>1, <1>2, WorldFields, Disjoint DEF Touches
    <2>2. {s} \in SUBSET Objects /\ {} \in SUBSET Blocks /\ r \in Worlds
        BY <1>1, <1>2
    <2>3. /\ OthersIntact(r, w, A, {s}) /\ CallersKept(r)
          /\ Keeps(r, w, A \ {s})
        BY <2>1, <2>2, Untouched, Zenon
    <2> QED BY <2>3 DEF Keeps
<1>5. Intact(r, s)
    <2>1. r.obj[s].own /\ HasFields(r.obj[s], 0, s, 0, Null)
        BY <1>2
    <2>2. Placed(r.obj[s], s)
        BY <2>1 DEF Placed, HasFields
    <2>3. r.obj[s].buf \notin Blocks
        BY <2>1, <1>1, Disjoint DEF HasFields
    <2>4. Len(<<Nul>>) = 1 /\ <<Nul>>[1] = Nul
        OBVIOUS
    <2>5. Ends(r, r.obj[s]) /\ Len(r.mem[s]) <= LocalCapacity
        BY <2>1, <2>4, <1>3, StorageAssumption DEF Ends, HasFields
    <2> QED BY <2>2, <2>3, <2>5 DEF Intact
<1>6. Separate(r, A \cup {s})
    BY <1>1, <1>2, <1>4, Disjoint DEF Separate, HasFields, OthersIntact
<1>7. Accounted(r, A \cup {s})
    BY <1>1, <1>2, <1>4, Disjoint DEF Accounted, HasFields, OthersIntact
<1> QED BY <1>2, <1>4, <1>5, <1>6, <1>7 DEF Sound, OthersIntact, Takes

LEMMA ConstructSound ==
    ASSUME NEW w, NEW A \in SUBSET Objects, Sound(w, A),
           NEW s \in Objects, s \notin A, NEW text \in Seq(Chars),
           Construct(w, s, text).fate # "bad_alloc"
    PROVE  /\ Takes(Construct(w, s, text), w, A \cup {s})
           /\ Keeps(Construct(w, s, text), w, A)
<1> SUFFICES ASSUME NEW r, r = Construct(w, s, text)
             PROVE  Takes(r, w, A \cup {s}) /\ Keeps(r, w, A)
    OBVIOUS
<1>1. w \in Worlds /\ Separate(w, A) /\ Accounted(w, A)
    BY DEF Sound
<1>2. Constructs(r, w, s, text)
    BY <1>1, ConstructEffect
<1>3. /\ r \in Worlds
      /\ r.live = w.live /\ r.lost = w.lost /\ r.fate = w.fate
      /\ OthersKept(r, w, {s})
      /\ {s} \in SUBSET Objects
    BY <1>2 DEF Constructs
<1>4. /\ w.mem \in [Buffers -> Seq(Chars)]
      /\ w.heap \in [Blocks -> {"unused", "allocated", "freed"}]
      /\ s \in Buffers
    BY <1>1, WorldFields, Disjoint
<1>5. /\ Len(text) \in Nat /\ Append(text, Nul) \in Seq(Chars)
      /\ Len(Append(text, Nul)) = Len(text) + 1
      /\ Append(text, Nul)[Len(text) + 1] = Nul
    BY CharsAssumption, AppendProperties, LenProperties
<1>6. LocalCapacity \in Nat /\ LocalCapacity >= 1
    BY StorageAssumption
<1>7. Len(<<Nul>>) = 1
    OBVIOUS
<1>8. CASE /\ Len(text) < LocalCapacity
           /\ r.obj[s].own /\ HasFields(r.obj[s], Len(text), s, 0, Null)
           /\ r.mem = [w.mem EXCEPT ![s] = Append(text, Nul)]
           /\ r.heap = w.heap
    <2>1. /\ r.mem[s] = Append(text, Nul)
          /\ \A x \in Buffers \ {s} : r.mem[x] = w.mem[x]
        BY <1>4, <1>8
    <2>2. OthersIntact(r, w, A, {s}) /\ CallersKept(r) /\ Keeps(r, w, A)
        <3>1. Touches(r, w, A, {s}, {})
            BY <1>3, <1>8, <2>1 DEF Touches
        <3>2. {} \in SUBSET Blocks
            OBVIOUS
        <3>3. /\ OthersIntact(r, w, A, {s}) /\ CallersKept(r)
              /\ Keeps(r, w, A \ {s})
            BY <3>1, <3>2, <1>3, Untouched, Zenon
        <3> QED BY <3>3 DEF Keeps
    <2>3. Intact(r, s)
        <3>1. Placed(r.obj[s], s) /\ r.obj[s].buf \notin Blocks
            BY <1>8, Disjoint DEF Placed, HasFields
        <3>2. r.obj[s].buf = s /\ r.obj[s].off = 0 /\ r.obj[s].len = Len(text)
            BY <1>8 DEF HasFields
        <3>3. Ends(r, r.obj[s])
            BY <1>5, <2>1, <3>2 DEF Ends
        <3>4. Len(r.mem[s]) <= LocalCapacity
            BY <1>5, <1>6, <1>8, <2>1
        <3> QED BY <3>1, <3>3, <3>4 DEF Intact
    <2>4. Separate(r, A \cup {s})
        BY <1>1, <1>8, <2>2, Disjoint DEF Separate, HasFields, OthersIntact
    <2>5. Accounted(r, A \cup {s})
        <3>1. r.obj[s].head = Null /\ \A u \in A : r.obj[u] = w.obj[u]
            BY <1>8, <2>2 DEF HasFields, OthersIntact
        <3>2. r.heap = w.heap /\ r.lost = w.lost
            BY <1>3, <1>8
        <3>3. Accounted(w, A) /\ Null \notin Blocks
            BY <1>1, Disjoint
        <3>4. ASSUME NEW b \in Blocks
              PROVE  /\ r.heap[b] = "allocated" /\ b \notin r.lost =>
                            \E x \in A \cup {s} : r.obj[x].head = b
                     /\ b \in r.lost => /\ r.heap[b] # "unused"
                                        /\ \A x \in A \cup {s} : r.obj[x].head # b
            BY <3>1, <3>2, <3>3 DEF Accounted
        <3> QED BY <3>4 DEF Accounted
    <2> QED BY <1>3, <2>2, <2>3, <2>4, <2>5 DEF Sound, OthersIntact, Takes
<1>9. ASSUME NEW b \in Blocks,
             w.heap[b] = "unused",
             r.obj[s].own, HasFields(r.obj[s], Len(text), b, 0, b),
             r.mem = [w.mem EXCEPT ![s] = <<Nul>>, ![b] = Append(text, Nul)],
             r.heap = [w.heap EXCEPT ![b] = "allocated"]
      PROVE  Sound(r, A \cup {s}) /\ Keeps(r, w, A)
    <2>1. b \in Buffers /\ b # s
        BY Disjoint
    <2>2. /\ r.mem[b] = Append(text, Nul) /\ r.mem[s] = <<Nul>>
          /\ \A x \in Buffers \ {s, b} : r.mem[x] = w.mem[x]
        BY <1>4, <1>9, <2>1
    <2>3. /\ r.heap[b] = "allocated"
          /\ \A x \in Blocks \ {b} : r.heap[x] = w.heap[x]
        BY <1>4, <1>9
    <2>4. \A u \in A : w.obj[u].buf # b
        BY <1>9 DEF Sound, Intact
    <2>5. OthersIntact(r, w, A, {s}) /\ CallersKept(r) /\ Keeps(r, w, A)
        <3>1. Touches(r, w, A, {s}, {b})
            BY <1>3, <2>2, <2>3, <2>4 DEF Touches
        <3>2. {b} \in SUBSET Blocks
            OBVIOUS
        <3>3. /\ OthersIntact(r, w, A, {s}) /\ CallersKept(r)
              /\ Keeps(r, w, A \ {s})
            BY <3>1, <3>2, <1>3, Untouched, Zenon
        <3> QED BY <3>3 DEF Keeps
    <2>6. Intact(r, s)
        <3>1. Placed(r.obj[s], s)
            BY <1>9, Disjoint DEF Placed, HasFields
        <3>2. r.obj[s].buf = b /\ r.obj[s].off = 0 /\ r.obj[s].len = Len(text)
            BY <1>9 DEF HasFields
        <3>4. Ends(r, r.obj[s])
            BY <1>5, <2>2, <3>2 DEF Ends
        <3>5. Len(r.mem[s]) <= LocalCapacity
            BY <1>6, <1>7, <2>2
        <3>3. r.heap[r.obj[s].buf] = "allocated"
            BY <1>9, <2>3 DEF HasFields
        <3> QED BY <3>1, <3>3, <3>4, <3>5 DEF Intact
    <2>7. Separate(r, A \cup {s})
        BY <1>1, <1>9, <2>4, <2>5 DEF Separate, HasFields, OthersIntact
    <2>8. Accounted(r, A \cup {s})
        <3>1. r.obj[s].head = b /\ b \notin w.lost
            BY <1>1, <1>9 DEF HasFields, Accounted
        <3> QED BY <1>1, <1>3, <2>3, <2>5, <3>1 DEF Accounted, OthersIntact
    <2> QED BY <1>3, <2>5, <2>6, <2>7, <2>8 DEF Sound, OthersIntact
<1> QED BY <1>2, <1>3, <1>8, <1>9 DEF Constructs, Takes

(* The text of u has become the text of s.                                 *)
TextMoves(r, w, s, u) == Text(r, s) = Text(w, u) /\ Text(r, u) = <<>>

(* A move leaves the head of what it moves behind.                         *)
LEMMA MoveSound ==
    ASSUME NEW w, NEW A \in SUBSET Objects, Sound(w, A),
           NEW s \in Objects, s \notin A, NEW u \in A
    PROVE  /\ Takes(MoveInto(w, s, u), w, A \cup {s})
           /\ Keeps(MoveInto(w, s, u), w, A \ {u})
           /\ TextMoves(MoveInto(w, s, u), w, s, u)
<1> SUFFICES ASSUME NEW r, r = MoveInto(w, s, u)
             PROVE  /\ Takes(r, w, A \cup {s}) /\ Keeps(r, w, A \ {u})
                    /\ TextMoves(r, w, s, u)
    OBVIOUS
<1>1. /\ w \in Worlds /\ Separate(w, A) /\ Accounted(w, A) /\ Intact(w, u)
      /\ u \in Objects /\ s # u
    BY DEF Sound
<1>2. Moves(r, w, s, u)
    BY <1>1, MoveEffect
<1> DEFINE o == w.obj[u]
           p == r.obj[s]
           at == IF o.buf = u THEN s ELSE o.buf
<1>3. /\ r \in Worlds
      /\ r.lost = w.lost \cup ({o.head} \ {Null})
      /\ r.live = w.live /\ r.heap = w.heap /\ r.fate = w.fate
      /\ p.own = o.own /\ p.len = o.len /\ p.buf = at
      /\ p.off = o.off /\ p.head = Null
      /\ ~r.obj[u].own /\ HasFields(r.obj[u], 0, Null, 0, Null)
    <2>1. HasFields(r.obj[s], w.obj[u].len,
                    IF w.obj[u].buf = u THEN s ELSE w.obj[u].buf,
                    w.obj[u].off, Null)
        BY <1>2 DEF Moves
    <2>2. /\ p.len = o.len /\ p.buf = at /\ p.off = o.off /\ p.head = Null
        BY <2>1 DEF HasFields
    <2> QED BY <1>2, <2>2 DEF Moves
<1>4. /\ w.mem \in [Buffers -> Seq(Chars)] /\ s \in Buffers /\ u \in Buffers
      /\ o.own \in BOOLEAN /\ o.head \in Blocks \cup {Null}
    <2>1. w.mem \in [Buffers -> Seq(Chars)] /\ s \in Buffers /\ u \in Buffers
        BY <1>1, WorldFields, Disjoint
    <2>2. o \in Fields
        BY <1>1, WorldFields
    <2> QED BY <2>1, <2>2 DEF Fields
<1>5. /\ r.mem[s] = IF o.buf = u THEN w.mem[u] ELSE <<Nul>>
      /\ r.mem[u] = <<Nul>>
      /\ \A x \in Buffers \ {s, u} : r.mem[x] = w.mem[x]
    BY <1>1, <1>2, <1>4 DEF Moves
<1>6. LocalCapacity \in Nat /\ LocalCapacity >= 1 /\ Len(<<Nul>>) = 1
    BY StorageAssumption
<1>7. /\ o.own => o.buf \in {u} \cup Blocks
      /\ ~o.own => o.buf \in {u, Null} \cup Callers
      /\ o.head # Null => o.own /\ o.buf = o.head
      /\ o.buf = Null => o.len = 0
      /\ o.buf # Null => /\ o.off + o.len + 1 <= Len(w.mem[o.buf])
                         /\ w.mem[o.buf][o.off + o.len + 1] = Nul
      /\ o.buf \in Blocks => w.heap[o.buf] = "allocated"
      /\ Len(w.mem[u]) <= LocalCapacity
    BY <1>1 DEF Intact, Placed, Ends
<1>8. OthersIntact(r, w, A, {s, u}) /\ CallersKept(r) /\ Keeps(r, w, A \ {u})
    <2>1. Touches(r, w, A, {s, u}, {})
        BY <1>2, <1>3, <1>5 DEF Touches, Moves
    <2>2. {s, u} \in SUBSET Objects /\ {} \in SUBSET Blocks
          /\ A \ {s, u} = A \ {u}
        BY <1>1
    <2> QED BY <2>1, <2>2, <1>3, Untouched, Zenon
<1>9. Intact(r, u)
    BY <1>3, <1>5, <1>6, Disjoint, <1>1 DEF Intact, Placed, Ends, HasFields
<1>10. at # Null => r.mem[at] = w.mem[o.buf]
    <2>1. CASE o.buf = u
        BY <2>1, <1>5
    <2>2. CASE o.buf # u
        <3>1. o.buf \in {Null} \cup Blocks \cup Callers
            BY <2>2, <1>4, <1>7
        <3> QED BY <3>1, <2>2, <1>5, <1>1, Disjoint
    <2> QED BY <2>1, <2>2
<1>11. (at = Null) = (o.buf = Null)
    BY Disjoint, <1>1
<1>12. TextMoves(r, w, s, u)
    <2>1. Text(r, s) = IF at = Null THEN <<>>
                       ELSE Prefix(Drop(r.mem[at], o.off), o.len)
        BY <1>3 DEF Text
    <2>2. Text(w, u) = IF o.buf = Null THEN <<>>
                       ELSE Prefix(Drop(w.mem[o.buf], o.off), o.len)
        BY DEF Text
    <2>3. r.obj[u].buf = Null
        BY <1>3 DEF HasFields
    <2>4. Text(r, u) = <<>>
        BY <2>3 DEF Text
    <2> HIDE DEF at, o, p
    <2> QED BY <2>1, <2>2, <2>4, <1>10, <1>11 DEF TextMoves
<1>13. Intact(r, s)
    <2>1. Placed(p, s)
        BY <1>3, <1>7, Disjoint, <1>1 DEF Placed
    <2>4. Ends(r, p)
        <3> HIDE DEF o, p, at
        <3>1. at # Null => /\ o.off + o.len + 1 <= Len(r.mem[at])
                           /\ r.mem[at][o.off + o.len + 1] = Nul
            BY <1>7, <1>10, <1>11
        <3> QED BY <3>1, <1>3 DEF Ends
    <2>5. p.buf \in Blocks => r.heap[p.buf] = "allocated"
        BY <1>3, <1>7, Disjoint
    <2>6. Len(r.mem[s]) <= LocalCapacity
        BY <1>5, <1>6, <1>7
    <2> QED BY <2>1, <2>4, <2>5, <2>6 DEF Intact
<1>14. Separate(r, A \cup {s})
    <2>1. r.obj[u].buf \notin Blocks
        BY <1>3, Disjoint DEF HasFields
    <2>2. p.buf \in Blocks => p.buf = o.buf
        BY <1>3, Disjoint
    <2>3. \A x \in A \ {u} : r.obj[x] = w.obj[x]
        BY <1>8 DEF OthersIntact
    <2> QED BY <2>1, <2>2, <2>3, <1>1 DEF Separate
<1>15. Accounted(r, A \cup {s})
    <2>1. r.obj[u].head = Null /\ p.head = Null
        BY <1>3 DEF HasFields
    <2>2. \A x \in A \ {u} : r.obj[x] = w.obj[x]
        BY <1>8 DEF OthersIntact
    <2>3. o.head \in Blocks => /\ w.heap[o.head] = "allocated"
                               /\ \A x \in A \ {u} : w.obj[x].head # o.head
        <3>1. \A x \in A \ {u} : w.obj[x].head = o.head /\ o.head \in Blocks
                                     => w.obj[x].buf = o.head
            BY Disjoint DEF Sound, Intact, Placed
        <3> QED BY <3>1, <1>1, <1>7, Disjoint DEF Separate
    <2>4. ASSUME NEW b \in Blocks
          PROVE  /\ r.heap[b] = "allocated" /\ b \notin r.lost =>
                        \E x \in A \cup {s} : r.obj[x].head = b
                 /\ b \in r.lost => /\ r.heap[b] # "unused"
                                    /\ \A x \in A \cup {s} : r.obj[x].head # b
        BY <2>1, <2>2, <2>3, <1>1, <1>3, Disjoint DEF Accounted
    <2> QED BY <2>4 DEF Accounted
<1>16. Sound(r, A \cup {s})
    BY <1>3, <1>8, <1>9, <1>13, <1>14, <1>15 DEF Sound, OthersIntact
<1> QED BY <1>3, <1>8, <1>12, <1>16 DEF Takes

-----------------------------------------------------------------------------
(* Editing in place.                                                       *)

(* The text of an object is read inside its buffer.                        *)
LEMMA TextProperties ==
    ASSUME NEW w, NEW A \in SUBSET Objects, Sound(w, A), NEW s \in A
    PROVE  /\ Text(w, s) \in Seq(Chars)
           /\ Len(Text(w, s)) = w.obj[s].len
           /\ w.obj[s].len \in Nat /\ w.obj[s].off \in Nat
           /\ w.obj[s].buf # Null =>
                 \A i \in 1..w.obj[s].len :
                    Text(w, s)[i] = w.mem[w.obj[s].buf][w.obj[s].off + i]
<1> DEFINE o == w.obj[s]
<1>1. w \in Worlds /\ Intact(w, s) /\ s \in Objects
    BY DEF Sound
<1>2. o \in Fields /\ w.mem \in [Buffers -> Seq(Chars)]
    BY <1>1, WorldFields
<1>3. o.len \in Nat /\ o.off \in Nat /\ o.buf \in Buffers \cup {Null}
    BY <1>2 DEF Fields
<1>4. CASE o.buf = Null
    <2>1. o.len = 0
        BY <1>1, <1>4 DEF Intact, Placed
    <2>2. Text(w, s) = <<>>
        BY <1>4 DEF Text
    <2> QED BY <2>1, <2>2, <1>3, <1>4
<1>5. CASE o.buf # Null
    <2> DEFINE m == w.mem[o.buf]
    <2>1. m \in Seq(Chars) /\ Len(m) \in Nat
        BY <1>2, <1>3, <1>5, LenProperties
    <2>2. o.off + o.len + 1 <= Len(m)
        BY <1>1, <1>5 DEF Intact, Ends
    <2>3. Text(w, s) = Prefix(Drop(m, o.off), o.len)
        BY <1>5 DEF Text
    <2> HIDE DEF m
    <2>4. o.off \in 0..Len(m)
        BY <2>1, <2>2, <1>3
    <2>5. /\ Drop(m, o.off) \in Seq(Chars)
          /\ Len(Drop(m, o.off)) = Len(m) - o.off
          /\ \A i \in 1..(Len(m) - o.off) : Drop(m, o.off)[i] = m[o.off + i]
        BY <2>1, <2>4, DropProperties
    <2> DEFINE d == Drop(m, o.off)
    <2> HIDE DEF d
    <2>6. /\ d \in Seq(Chars) /\ Len(d) = Len(m) - o.off
          /\ \A i \in 1..(Len(m) - o.off) : d[i] = m[o.off + i]
          /\ Text(w, s) = Prefix(d, o.len)
        BY <2>3, <2>5 DEF d
    <2>7. o.len \in 0..Len(d)
        BY SMTT(30), <2>1, <2>2, <2>6, <1>3
    <2>8. /\ Prefix(d, o.len) \in Seq(Chars)
          /\ Len(Prefix(d, o.len)) = o.len
          /\ \A i \in 1..o.len : Prefix(d, o.len)[i] = d[i]
        BY <2>6, <2>7, PrefixProperties
    <2>9. \A i \in 1..o.len : d[i] = m[o.off + i]
        <3>1. \A i \in 1..o.len : i \in 1..(Len(m) - o.off)
            BY <2>1, <2>2, <1>3
        <3> QED BY <3>1, <2>6
    <2> QED BY <2>6, <2>8, <2>9, <1>3 DEF m
<1> QED BY <1>4, <1>5

(* An object that shows these characters has this text.                    *)
LEMMA ShowsText ==
    ASSUME NEW w, NEW A \in SUBSET Objects, Sound(w, A), NEW s \in A,
           NEW text \in Seq(Chars), w.obj[s].len = Len(text),
           w.obj[s].buf # Null =>
              \A i \in 1..Len(text) : w.mem[w.obj[s].buf][w.obj[s].off + i] = text[i]
    PROVE  Text(w, s) = text
<1> PICK t, n : t = Text(w, s) /\ n = Len(text)
    OBVIOUS
<1>1. /\ t \in Seq(Chars) /\ Len(t) = n /\ n \in Nat
      /\ w.obj[s].buf # Null =>
            \A i \in 1..n : t[i] = w.mem[w.obj[s].buf][w.obj[s].off + i]
    BY TextProperties
<1>2. w.obj[s].buf = Null => n = 0
    BY DEF Sound, Intact, Placed
<1>3. \A i \in 1..n : t[i] = text[i]
    <2>1. CASE n = 0
        BY <2>1
    <2>2. CASE n # 0
        BY <2>2, <1>1, <1>2
    <2> QED BY <2>1, <2>2
<1>4. t = text
    <2>1. t \in Seq(Chars) /\ text \in Seq(Chars) /\ Len(t) = Len(text)
          /\ \A i \in 1..Len(t) : t[i] = text[i]
        BY <1>1, <1>3
    <2> QED BY ONLY <2>1, SeqEqual
<1> QED BY <1>4

LEMMA ConstructText ==
    ASSUME NEW w, NEW A \in SUBSET Objects, Sound(w, A),
           NEW s \in Objects, s \notin A, NEW text \in Seq(Chars),
           Construct(w, s, text).fate # "bad_alloc"
    PROVE  Text(Construct(w, s, text), s) = text
<1> SUFFICES ASSUME NEW r, r = Construct(w, s, text)
             PROVE  Text(r, s) = text
    OBVIOUS
<1>1. w \in Worlds
    BY DEF Sound
<1>2. Constructs(r, w, s, text) /\ Takes(r, w, A \cup {s})
    BY <1>1, ConstructEffect, ConstructSound
<1>3. /\ w.mem \in [Buffers -> Seq(Chars)] /\ s \in Buffers
      /\ Blocks \subseteq Buffers /\ s \notin Blocks /\ Null \notin Buffers
    BY <1>1, WorldFields, Disjoint
<1>4. \E b \in Buffers : /\ HasFields(r.obj[s], Len(text), b, 0, r.obj[s].head)
                          /\ r.mem[b] = Append(text, Nul)
    <2>1. CASE /\ HasFields(r.obj[s], Len(text), s, 0, Null)
               /\ r.mem = [w.mem EXCEPT ![s] = Append(text, Nul)]
        BY <2>1, <1>3 DEF HasFields
    <2>2. ASSUME NEW b \in Blocks,
                 HasFields(r.obj[s], Len(text), b, 0, b),
                 r.mem = [w.mem EXCEPT ![s] = <<Nul>>, ![b] = Append(text, Nul)]
          PROVE  /\ b \in Buffers
                 /\ HasFields(r.obj[s], Len(text), b, 0, r.obj[s].head)
                 /\ r.mem[b] = Append(text, Nul)
        BY <2>2, <1>3 DEF HasFields
    <2> QED BY <2>1, <2>2, <1>2 DEF Constructs
<1>5. \A i \in 1..Len(text) : 0 + i = i /\ Append(text, Nul)[i] = text[i]
    BY CharsAssumption, AppendProperties, LenProperties
<1>6. /\ r.obj[s].len = Len(text)
      /\ \A i \in 1..Len(text) : r.mem[r.obj[s].buf][r.obj[s].off + i] = text[i]
    BY <1>4, <1>5 DEF HasFields
<1>7. Sound(r, A \cup {s}) /\ s \in A \cup {s} /\ A \cup {s} \in SUBSET Objects
    BY <1>2 DEF Takes
<1> QED BY <1>6, <1>7, ShowsText

(* r is w after the text of s was cut to the len characters at off, with   *)
(* a '\0' written after them if the buffer is the object's own.            *)
Edits(r, w, s, off, len) ==
    /\ r \in Worlds
    /\ r.obj[s].own = w.obj[s].own
    /\ HasFields(r.obj[s], len, w.obj[s].buf, off, w.obj[s].head)
    /\ OthersKept(r, w, {s})
    /\ r.live = w.live /\ r.heap = w.heap /\ r.lost = w.lost /\ r.fate = w.fate
    /\ \A x \in Buffers : r.mem[x] # w.mem[x] => w.obj[s].own /\ x = w.obj[s].buf
    /\ Len(r.mem[w.obj[s].buf]) = Len(w.mem[w.obj[s].buf])
    /\ off + len <= w.obj[s].off + w.obj[s].len
    /\ r.mem[w.obj[s].buf][off + len + 1] = Nul
    /\ \A i \in 1..len : r.mem[w.obj[s].buf][off + i] = w.mem[w.obj[s].buf][off + i]

LEMMA EditSound ==
    ASSUME NEW w, NEW A \in SUBSET Objects, Sound(w, A), NEW s \in A,
           w.obj[s].buf # Null, NEW off \in Nat, NEW len \in Nat,
           NEW r, Edits(r, w, s, off, len)
    PROVE  Takes(r, w, A) /\ Keeps(r, w, A \ {s})
<1>1. /\ w \in Worlds /\ Separate(w, A) /\ Accounted(w, A) /\ Intact(w, s)
      /\ s \in Objects
    BY DEF Sound
<1> DEFINE o == w.obj[s]
<1>2. /\ r \in Worlds /\ r.obj[s].own = o.own
      /\ r.obj[s].len = len /\ r.obj[s].buf = o.buf
      /\ r.obj[s].off = off /\ r.obj[s].head = o.head
      /\ OthersKept(r, w, {s})
      /\ r.live = w.live /\ r.heap = w.heap /\ r.lost = w.lost
      /\ r.fate = w.fate
    BY DEF Edits, HasFields
<1>3. /\ \A x \in Buffers : r.mem[x] # w.mem[x] => o.own /\ x = o.buf
      /\ Len(r.mem[o.buf]) = Len(w.mem[o.buf])
      /\ off + len <= o.off + o.len
      /\ r.mem[o.buf][off + len + 1] = Nul
    BY DEF Edits
<1>4. Placed(o, s) /\ Ends(w, o)
    BY <1>1 DEF Intact
<1>5. o \in Fields /\ w.mem \in [Buffers -> Seq(Chars)]
    BY <1>1, WorldFields
<1>6. o.own => o.buf \in {s} \cup Blocks
    BY <1>4 DEF Placed
<1>7. o.len \in Nat /\ o.off \in Nat /\ o.buf \in Buffers
    BY <1>5 DEF Fields
<1>8. OthersIntact(r, w, A, {s}) /\ CallersKept(r) /\ Keeps(r, w, A \ {s})
    <2>1. PICK B : B = {o.buf} \cap Blocks
        OBVIOUS
    <2>2. \A x \in Buffers \ ({s} \cup B) : r.mem[x] = w.mem[x]
        BY <1>3, <1>6, <2>1
    <2>3. \A u \in A \ {s} : w.obj[u].buf \notin B
        BY <1>1, <2>1 DEF Separate
    <2>4. Touches(r, w, A, {s}, B)
        BY <1>2, <2>2, <2>3 DEF Touches
    <2>5. {s} \in SUBSET Objects /\ B \in SUBSET Blocks
        BY <1>1, <2>1
    <2> QED BY <2>4, <2>5, <1>2, Untouched
<1>9. Intact(r, s)
    <2>1. Placed(r.obj[s], s)
        <3>1. /\ o.own => o.buf \in {s} \cup Blocks
              /\ ~o.own => o.buf \in {s, Null} \cup Callers
              /\ o.head # Null => o.own /\ o.buf = o.head
            BY <1>4 DEF Placed
        <3> QED BY <3>1, <1>2 DEF Placed
    <2>2. Ends(r, r.obj[s])
        <3> DEFINE m == r.mem[o.buf]
        <3>0. /\ Len(m) = Len(w.mem[o.buf]) /\ off + len <= o.off + o.len
              /\ m[off + len + 1] = Nul
            BY <1>3
        <3>1. o.off + o.len + 1 <= Len(w.mem[o.buf])
            BY <1>4 DEF Ends
        <3>2. Len(w.mem[o.buf]) \in Nat
            BY <1>5, <1>7, LenProperties
        <3>3. off + len + 1 <= Len(m)
            <4> HIDE DEF m, o
            <4>1. PICK a, l, n : /\ a = o.off /\ l = o.len /\ n = Len(m)
                OBVIOUS
            <4>2. a \in Nat /\ l \in Nat /\ n \in Nat
                BY <4>1, <3>0, <3>2, <1>7
            <4>3. off + len <= a + l /\ a + l + 1 <= n
                BY <4>1, <3>0, <3>1
            <4>4. off + len + 1 <= n
                BY ONLY <4>2, <4>3, off \in Nat, len \in Nat
            <4> QED BY <4>1, <4>4
        <3>4. /\ r.obj[s].off = off /\ r.obj[s].len = len
              /\ r.mem[r.obj[s].buf] = m
            BY <1>2
        <3> HIDE DEF m, o
        <3> QED BY ONLY <3>0, <3>3, <3>4 DEF Ends
    <2>3. r.obj[s].buf \in Blocks => r.heap[r.obj[s].buf] = "allocated"
        BY <1>1, <1>2 DEF Intact
    <2>4. Len(r.mem[s]) <= LocalCapacity
        <3>1. Len(r.mem[s]) = Len(w.mem[s])
            BY <1>1, <1>3, Disjoint
        <3> QED BY <3>1, <1>1 DEF Intact
    <2> QED BY <2>1, <2>2, <2>3, <2>4 DEF Intact
<1>10. \A x \in A : r.obj[x].buf = w.obj[x].buf /\ r.obj[x].head = w.obj[x].head
    BY <1>2, <1>8 DEF OthersIntact
<1>11. Separate(r, A) /\ Accounted(r, A)
    BY <1>1, <1>2, <1>10 DEF Separate, Accounted
<1> QED BY <1>2, <1>8, <1>9, <1>11 DEF Sound, OthersIntact, Takes

LEMMA EditMade ==
    ASSUME NEW w \in Worlds, NEW s \in Objects, w.obj[s].buf \in Buffers,
           NEW off \in Nat, NEW len \in Nat,
           off + len <= w.obj[s].off + w.obj[s].len,
           w.obj[s].off + w.obj[s].len + 1 <= Len(w.mem[w.obj[s].buf]),
           NEW r, IsWorld(r), r.obj \in [Objects -> Fields],
           r.obj[s].own = w.obj[s].own,
           HasFields(r.obj[s], len, w.obj[s].buf, off, w.obj[s].head),
           OthersKept(r, w, {s}),
           r.live = w.live, r.heap = w.heap, r.lost = w.lost, r.fate = w.fate,
           \/ /\ r.mem = w.mem
              /\ w.mem[w.obj[s].buf][off + len + 1] = Nul
           \/ /\ w.obj[s].own
              /\ r.mem = [w.mem EXCEPT ![w.obj[s].buf] =
                            [w.mem[w.obj[s].buf] EXCEPT ![off + len + 1] = Nul]]
    PROVE  Edits(r, w, s, off, len)
<1>1. PICK b : b = w.obj[s].buf
    OBVIOUS
<1>2. PICK m, k, a, l :
         m = w.mem[b] /\ k = off + len + 1 /\ a = w.obj[s].off /\ l = w.obj[s].len
    OBVIOUS
<1>3. /\ w.mem \in [Buffers -> Seq(Chars)] /\ b \in Buffers
      /\ m \in Seq(Chars) /\ Len(m) \in Nat
    BY SMTT(60), <1>1, <1>2, WorldFields, LenProperties
<1>4. a \in Nat /\ l \in Nat
    <2>1. w.obj[s] \in Fields
        BY WorldFields
    <2> QED BY <2>1, <1>2 DEF Fields
<1>5. off + len <= a + l /\ a + l + 1 <= Len(m)
    BY <1>1, <1>2
<1>6. k \in 1..Len(m) /\ \A i \in 1..len : off + i # k
    <2>1. PICK x : x = Len(m)
        OBVIOUS
    <2>2. x \in Nat /\ off + len <= a + l /\ a + l + 1 <= x /\ k = off + len + 1
        BY ONLY <2>1, <1>2, <1>3, <1>5
    <2>3. k \in 1..x
        BY ONLY <2>2, <1>4, off \in Nat, len \in Nat
    <2>4. \A i \in 1..len : off + i # k
        BY ONLY <2>2, off \in Nat, len \in Nat
    <2> QED BY <2>1, <2>3, <2>4
<1>7. Nul \in Chars
    BY CharsAssumption
<1> DEFINE n == [m EXCEPT ![k] = Nul]
<1>8. n \in Seq(Chars) /\ Len(n) = Len(m) /\ n[k] = Nul
    BY ONLY <1>3, <1>6, <1>7, ExceptSeq
<1>9. \A i \in 1..len : n[off + i] = m[off + i]
    <2> TAKE i \in 1..len
    <2>1. off + i \in 1..Len(m) /\ off + i # k
        <3>1. PICK x : x = Len(m)
            OBVIOUS
        <3>2. x \in Nat /\ off + len <= a + l /\ a + l + 1 <= x
            BY ONLY <3>1, <1>3, <1>5
        <3>3. off + i \in 1..x
            BY ONLY <3>2, <1>4, off \in Nat, len \in Nat, i \in 1..len
        <3> QED BY <3>1, <3>3, <1>6
    <2> QED BY ONLY <2>1, <1>3, <1>6, <1>7, ExceptSeq
<1> HIDE DEF n
<1>10. /\ r.mem \in [Buffers -> Seq(Chars)]
       /\ \A x \in Buffers : r.mem[x] # w.mem[x] => w.obj[s].own /\ x = b
       /\ Len(r.mem[b]) = Len(m)
       /\ r.mem[b][k] = Nul
       /\ (r.mem[b] = m) \/ (r.mem[b] = n)
    <2>1. CASE r.mem = w.mem /\ m[k] = Nul
        BY <2>1, <1>2, <1>3
    <2>2. CASE w.obj[s].own /\ r.mem = [w.mem EXCEPT ![b] = n]
        BY <2>2, <1>3, <1>8
    <2> QED BY <2>1, <2>2, <1>1, <1>2 DEF n
<1>11. \A i \in 1..len : r.mem[b][off + i] = m[off + i]
    <2>1. CASE r.mem[b] = m
        BY ONLY <2>1
    <2>2. CASE r.mem[b] = n
        BY ONLY <2>2, <1>9
    <2>3. (r.mem[b] = m) \/ (r.mem[b] = n)
        BY <1>10
    <2> QED BY ONLY <2>1, <2>2, <2>3
<1>12. r \in Worlds
    <2>1. /\ r.live \in SUBSET Strings /\ r.lost \in SUBSET Blocks
          /\ r.heap \in [Blocks -> {"unused", "allocated", "freed"}]
          /\ r.fate \in {"ok", "bad_alloc", "null_read", "invalid_free"}
        BY WorldFields
    <2>2. r.mem \in [Buffers -> Seq(Chars)]
        BY <1>10
    <2>3. IsWorld(r) /\ r.obj \in [Objects -> Fields]
        OBVIOUS
    <2> QED BY ONLY <2>1, <2>2, <2>3, WorldMade
<1> DEFINE at == w.obj[s].buf
<1>13. /\ \A x \in Buffers : r.mem[x] # w.mem[x] => w.obj[s].own /\ x = at
       /\ Len(r.mem[at]) = Len(w.mem[at])
       /\ r.mem[at][off + len + 1] = Nul
       /\ \A i \in 1..len : r.mem[at][off + i] = w.mem[at][off + i]
    <2>1. at = b /\ w.mem[at] = m /\ off + len + 1 = k
        BY ONLY <1>1, <1>2
    <2> HIDE DEF at
    <2> QED BY ONLY <2>1, <1>10, <1>11
<1>14. /\ r.obj[s].own = w.obj[s].own
       /\ HasFields(r.obj[s], len, at, off, w.obj[s].head)
       /\ OthersKept(r, w, {s})
       /\ r.live = w.live /\ r.heap = w.heap /\ r.lost = w.lost
       /\ r.fate = w.fate /\ off + len <= w.obj[s].off + w.obj[s].len
    OBVIOUS
<1> QED BY ONLY <1>12, <1>13, <1>14 DEF Edits

(* The text that is left of s.                                             *)
LEMMA EditText ==
    ASSUME NEW w, NEW A \in SUBSET Objects, Sound(w, A), NEW s \in A,
           w.obj[s].buf # Null, NEW st \in Nat, NEW len \in Nat,
           NEW r, Edits(r, w, s, w.obj[s].off + st, len)
    PROVE  Text(r, s) = Prefix(Drop(Text(w, s), st), len)
<1> PICK off, b, l, t :
        off = w.obj[s].off /\ b = w.obj[s].buf /\ l = w.obj[s].len /\ t = Text(w, s)
    OBVIOUS
<1>1. /\ off \in Nat /\ l \in Nat /\ t \in Seq(Chars) /\ Len(t) = l /\ b # Null
      /\ \A i \in 1..l : t[i] = w.mem[b][off + i]
    BY TextProperties
<1>2. /\ HasFields(r.obj[s], len, b, off + st, w.obj[s].head)
      /\ (off + st) + len <= off + l
      /\ \A i \in 1..len : r.mem[b][(off + st) + i] = w.mem[b][(off + st) + i]
    BY DEF Edits
<1>3. off + st \in Nat /\ st + len <= Len(t)
    BY ONLY <1>1, <1>2, st \in Nat, len \in Nat
<1>4. Sound(r, A)
    BY <1>3, EditSound DEF Takes
<1> PICK p : p = Prefix(Drop(t, st), len)
    OBVIOUS
<1>5. /\ p \in Seq(Chars) /\ Len(p) = len
      /\ \A i \in 1..len : p[i] = t[st + i]
    <2>1. /\ Prefix(Drop(t, st), len) \in Seq(Chars)
          /\ Len(Prefix(Drop(t, st), len)) = len
          /\ \A i \in 1..len : Prefix(Drop(t, st), len)[i] = t[st + i]
        BY ONLY <1>1, <1>3, st \in Nat, len \in Nat, SliceProperties
    <2> QED BY <2>1
<1>6. \A i \in 1..len : r.mem[b][(off + st) + i] = p[i]
    <2> TAKE i \in 1..len
    <2>1. st + i \in 1..l /\ off + (st + i) = (off + st) + i
        BY ONLY <1>1, <1>3, st \in Nat, len \in Nat, i \in 1..len
    <2>2. t[st + i] = w.mem[b][off + (st + i)]
        BY <2>1, <1>1
    <2> QED BY <2>1, <2>2, <1>2, <1>5
<1>7. /\ r.obj[s].len = Len(p) /\ r.obj[s].buf = b /\ r.obj[s].off = off + st
      /\ \A i \in 1..Len(p) : r.mem[b][(off + st) + i] = p[i]
    BY <1>2, <1>5, <1>6 DEF HasFields
<1>8. Text(r, s) = p
    <2>1. \A i \in 1..Len(p) : r.mem[r.obj[s].buf][r.obj[s].off + i] = p[i]
        BY <1>7
    <2>2. r.obj[s].len = Len(p) /\ p \in Seq(Chars)
        BY <1>5, <1>7
    <2> QED BY <2>1, <2>2, <1>4, ShowsText, Zenon
<1> QED BY <1>8

(* Cutting nothing.                                                        *)
LEMMA NoCut ==
    ASSUME NEW S, NEW text \in Seq(S)
    PROVE  Drop(text, 0) = text /\ Prefix(text, Len(text)) = text
<1> PICK n : n = Len(text)
    OBVIOUS
<1>1. n \in Nat /\ 0 \in 0..n /\ n \in 0..n /\ n - 0 = n
      /\ \A i \in 1..n : 0 + i = i
    BY LenProperties
<1> PICK d, p : d = Drop(text, 0) /\ p = Prefix(text, n)
    OBVIOUS
<1>2. d \in Seq(S) /\ Len(d) = n /\ \A i \in 1..n : d[i] = text[i]
    BY <1>1, DropProperties
<1>3. p \in Seq(S) /\ Len(p) = n /\ \A i \in 1..n : p[i] = text[i]
    BY ZenonT(60), <1>1, PrefixProperties
<1>4. d = text
    BY ONLY <1>2, SeqEqual, text \in Seq(S), n = Len(text)
<1>5. p = text
    BY ONLY <1>3, SeqEqual, text \in Seq(S), n = Len(text)
<1> QED BY <1>4, <1>5

(* What an operation on s that may need memory makes of a sound world.     *)
Edited(r, w, A, s, text) ==
    \/ r.fate = "bad_alloc"
    \/ /\ Sound(r, A) /\ r.fate = "ok" /\ r.live = w.live
       /\ Text(r, s) = text /\ Keeps(r, w, A \ {s})

(* The temporary is destroyed without its text, which was moved out.       *)
LEMMA AssignTemporarySound ==
    ASSUME NEW w, NEW A \in SUBSET Strings, Sound(w, A), w.fate = "ok",
           NEW s \in A, NEW text \in Seq(Chars)
    PROVE  Edited(AssignTemporary(w, s, text), w, A, s, text)
<1>1. /\ A \in SUBSET Objects /\ Temp \in Objects /\ Temp \notin A
      /\ s \in Objects /\ s # Temp
    BY StorageAssumption DEF Objects
<1> DEFINE t == Construct(w, Temp, text)
           d == Destructed(t, s)
           m == MoveInto(d, s, Temp)
           r == Destructed(m, Temp)
<1>2. CASE t.fate = "ok"
    <2>1. AssignTemporary(w, s, text) = r
        BY <1>1, <1>2 DEF AssignTemporary, MoveAssigned
    <2>2. t.fate # "bad_alloc"
        BY <1>2
    <2>3. Takes(t, w, A \cup {Temp}) /\ Keeps(t, w, A) /\ Text(t, Temp) = text
        BY <2>2, <1>1, ConstructSound, ConstructText
    <2> HIDE DEF t
    <2>4. /\ Takes(d, t, (A \cup {Temp}) \ {s})
          /\ Keeps(d, t, (A \cup {Temp}) \ {s})
        <3>1. /\ s \in A \cup {Temp} /\ A \cup {Temp} \in SUBSET Objects
              /\ Sound(t, A \cup {Temp})
            BY <1>1, <2>3 DEF Takes
        <3> QED BY <3>1, DestructedSound
    <2> HIDE DEF d
    <2>5. /\ Takes(m, d, ((A \cup {Temp}) \ {s}) \cup {s})
          /\ Keeps(m, d, ((A \cup {Temp}) \ {s}) \ {Temp})
          /\ TextMoves(m, d, s, Temp)
        <3>1. /\ s \notin (A \cup {Temp}) \ {s} /\ Temp \in (A \cup {Temp}) \ {s}
              /\ (A \cup {Temp}) \ {s} \in SUBSET Objects
              /\ Sound(d, (A \cup {Temp}) \ {s})
            BY <1>1, <2>4 DEF Takes
        <3> QED BY <3>1, <1>1, MoveSound
    <2>6. ((A \cup {Temp}) \ {s}) \cup {s} = A \cup {Temp}
        OBVIOUS
    <2> HIDE DEF m
    <2>7. /\ Takes(r, m, (A \cup {Temp}) \ {Temp})
          /\ Keeps(r, m, (A \cup {Temp}) \ {Temp})
        <3>1. /\ Temp \in A \cup {Temp} /\ A \cup {Temp} \in SUBSET Objects
              /\ Sound(m, A \cup {Temp})
            BY <1>1, <2>5, <2>6 DEF Takes
        <3> QED BY <3>1, DestructedSound
    <2> HIDE DEF r
    <2>8. (A \cup {Temp}) \ {Temp} = A
        BY <1>1
    <2>9. Text(r, s) = text
        BY <1>1, <2>3, <2>4, <2>5, <2>7 DEF Keeps, TextMoves
    <2>10. Keeps(r, w, A \ {s})
        BY <1>1, <2>3, <2>4, <2>5, <2>7 DEF Keeps
    <2>11. Sound(r, A) /\ r.fate = "ok" /\ r.live = w.live
        BY <2>3, <2>4, <2>5, <2>7, <2>8, <1>2 DEF Takes
    <2> QED BY <2>1, <2>9, <2>10, <2>11 DEF Edited
<1>3. CASE t.fate # "ok"
    <2>1. AssignTemporary(w, s, text) = t
        BY <1>3 DEF AssignTemporary
    <2>2. t.fate # "bad_alloc" => Takes(t, w, A \cup {Temp})
        BY <1>1, ConstructSound
    <2> QED BY <2>1, <2>2, <1>3 DEF Edited, Takes
<1> QED BY <1>2, <1>3

(* What a function that edits s sees of it.                                *)
LEMMA ObjectFields ==
    ASSUME NEW w, NEW A \in SUBSET Objects, Sound(w, A), NEW s \in A
    PROVE  /\ w \in Worlds /\ s \in Objects
           /\ w.obj[s].own \in BOOLEAN
           /\ w.obj[s].len \in Nat /\ w.obj[s].off \in Nat /\ w.obj[s].cap \in Nat
           /\ w.obj[s].buf \in Buffers \cup {Null}
           /\ w.obj[s].head \in Blocks \cup {Null}
           /\ w.obj[s].own => w.obj[s].buf \in {s} \cup Blocks
           /\ ~w.obj[s].own => w.obj[s].buf \in {s, Null} \cup Callers
           /\ w.obj[s].buf = Null => w.obj[s].len = 0
           /\ w.obj[s].buf \in Blocks => w.heap[w.obj[s].buf] = "allocated"
           /\ w.obj[s].buf # Null =>
                 /\ w.obj[s].buf \in Buffers
                 /\ w.mem[w.obj[s].buf] \in Seq(Chars)
                 /\ Len(w.mem[w.obj[s].buf]) \in Nat
                 /\ w.obj[s].off + w.obj[s].len + 1 <= Len(w.mem[w.obj[s].buf])
                 /\ w.mem[w.obj[s].buf][w.obj[s].off + w.obj[s].len + 1] = Nul
<1>1. w \in Worlds /\ s \in Objects /\ Intact(w, s)
    BY DEF Sound
<1> DEFINE o == w.obj[s]
<1>2. o \in Fields /\ w.mem \in [Buffers -> Seq(Chars)]
    BY <1>1, WorldFields
<1>3. /\ o.own \in BOOLEAN /\ o.len \in Nat /\ o.off \in Nat /\ o.cap \in Nat
      /\ o.buf \in Buffers \cup {Null} /\ o.head \in Blocks \cup {Null}
    BY <1>2 DEF Fields
<1>4. Placed(o, s) /\ Ends(w, o) /\ (o.buf \in Blocks => w.heap[o.buf] = "allocated")
    BY <1>1 DEF Intact
<1>5. /\ o.own => o.buf \in {s} \cup Blocks
      /\ ~o.own => o.buf \in {s, Null} \cup Callers
      /\ o.buf = Null => o.len = 0
    BY <1>4 DEF Placed
<1>6. o.buf # Null => /\ o.buf \in Buffers
                      /\ w.mem[o.buf] \in Seq(Chars)
                      /\ Len(w.mem[o.buf]) \in Nat
    BY <1>2, <1>3, LenProperties
<1>7. o.buf # Null => /\ o.off + o.len + 1 <= Len(w.mem[o.buf])
                      /\ w.mem[o.buf][o.off + o.len + 1] = Nul
    BY <1>4 DEF Ends
<1> QED BY <1>1, <1>3, <1>4, <1>5, <1>6, <1>7

LEMMA EditOf ==
    ASSUME NEW w, NEW A \in SUBSET Objects, Sound(w, A), NEW s \in A,
           w.obj[s].buf # Null, NEW off \in Nat, NEW len \in Nat,
           off + len <= w.obj[s].off + w.obj[s].len,
           NEW r, IsWorld(r), r.obj \in [Objects -> Fields],
           r.obj[s].own = w.obj[s].own,
           HasFields(r.obj[s], len, w.obj[s].buf, off, w.obj[s].head),
           OthersKept(r, w, {s}),
           r.live = w.live, r.heap = w.heap, r.lost = w.lost, r.fate = w.fate,
           \/ /\ r.mem = w.mem
              /\ w.mem[w.obj[s].buf][off + len + 1] = Nul
           \/ /\ w.obj[s].own
              /\ r.mem = [w.mem EXCEPT ![w.obj[s].buf] =
                            [w.mem[w.obj[s].buf] EXCEPT ![off + len + 1] = Nul]]
    PROVE  Edits(r, w, s, off, len)
<1>1. /\ w \in Worlds /\ s \in Objects /\ w.obj[s].buf \in Buffers
      /\ w.obj[s].off + w.obj[s].len + 1 <= Len(w.mem[w.obj[s].buf])
    BY ObjectFields
<1> QED BY <1>1, EditMade

(* The object keeps what is between the two cuts.                          *)
LEMMA EditsLeave ==
    ASSUME NEW w, NEW A \in SUBSET Objects, Sound(w, A), w.fate = "ok",
           NEW s \in A, w.obj[s].buf # Null, NEW st \in Nat, NEW len \in Nat,
           NEW r, Edits(r, w, s, w.obj[s].off + st, len)
    PROVE  Edited(r, w, A, s, Prefix(Drop(Text(w, s), st), len))
<1>1. w.obj[s].off + st \in Nat
    <2>1. w.obj[s].off \in Nat
        BY ObjectFields
    <2> QED BY <2>1
<1>2. Takes(r, w, A) /\ Keeps(r, w, A \ {s})
    BY <1>1, EditSound
<1>3. Text(r, s) = Prefix(Drop(Text(w, s), st), len)
    BY EditText
<1> QED BY <1>2, <1>3 DEF Takes, Edited

Moved(g, f, s, off, len) ==
    /\ g \in [Objects -> Fields]
    /\ g[s].own = f[s].own
    /\ HasFields(g[s], len, f[s].buf, off, f[s].head)
    /\ \A x \in Objects \ {s} : g[x] = f[x]

LEMMA OffAndLen ==
    ASSUME NEW f \in [Objects -> Fields], NEW s \in Objects,
           NEW off \in Nat, NEW len \in Nat
    PROVE  Moved([f EXCEPT ![s].off = off, ![s].len = len], f, s, off, len)
BY DEF Fields, HasFields, Moved

LEMMA OffLenAndCap ==
    ASSUME NEW f \in [Objects -> Fields], NEW s \in Objects,
           NEW off \in Nat, NEW len \in Nat
    PROVE  Moved([f EXCEPT ![s].off = off, ![s].len = len, ![s].cap = len + 1],
                 f, s, off, len)
<1>1. PICK g : g = [f EXCEPT ![s].off = off, ![s].len = len]
    OBVIOUS
<1>2. Moved(g, f, s, off, len)
    BY <1>1, OffAndLen
<1>3. Moved([g EXCEPT ![s].cap = len + 1], f, s, off, len)
    BY <1>2 DEF Fields, HasFields, Moved
<1> QED BY <1>1, <1>3

LEMMA LenAlone ==
    ASSUME NEW f \in [Objects -> Fields], NEW s \in Objects, NEW len \in Nat
    PROVE  Moved([f EXCEPT ![s].len = len], f, s, f[s].off, len)
BY DEF Fields, HasFields, Moved

(* Trim() shortens the text in place, or makes a new one.                  *)
LEMMA TrimmedSound ==
    ASSUME NEW w, NEW A \in SUBSET Strings, Sound(w, A), w.fate = "ok",
           NEW s \in A
    PROVE  Edited(Trimmed(w, s), w, A, s, Value!Between(Text(w, s), Low))
<1>1. A \in SUBSET Objects
    BY DEF Objects
<1> DEFINE o    == w.obj[s]
           text == Text(w, s)
           st   == Leading(text, Low)
           tail == Drop(text, st)
           len  == Len(tail) - Trailing(tail, Low)
           r    == Trimmed(w, s)
<1>2. /\ text \in Seq(Chars) /\ Len(text) = o.len
      /\ o.len \in Nat /\ o.off \in Nat
    BY <1>1, TextProperties
<1>3. st \in 0..o.len
    BY <1>2, LeadingProperties
<1>4. tail \in Seq(Chars) /\ Len(tail) = o.len - st
    BY <1>2, <1>3, DropProperties
<1>5. Trailing(tail, Low) \in 0..Len(tail)
    BY <1>4, TrailingProperties
<1>6. len \in 0..Len(tail) /\ st \in Nat /\ len \in Nat
      /\ st + len <= o.len
    <2> HIDE DEF text, tail, st, o
    <2> QED BY <1>2, <1>3, <1>4, <1>5
<1>7. Value!Between(text, Low) = Prefix(Drop(text, st), len)
    <2>1. Value!From(text, Low) = tail
        BY <1>2, FromIsDrop
    <2>2. Value!UpTo(tail, Low) = Prefix(tail, len)
        BY <1>4, UpToIsPrefix
    <2> QED BY <2>1, <2>2 DEF Value!Between
<1>8. CASE len = 0
    <2>1. r = AssignTemporary(w, s, <<>>)
        BY <1>8 DEF Trimmed
    <2>2. <<>> \in Seq(Chars)
        BY EmptySeq
    <2>3. Prefix(tail, len) = <<>>
        <3>1. Prefix(tail, len) \in Seq(Chars) /\ Len(Prefix(tail, len)) = 0
            BY <1>4, <1>6, <1>8, PrefixProperties
        <3> QED BY ONLY <3>1, EmptySeq
    <2> HIDE DEF r
    <2>4. Edited(r, w, A, s, <<>>)
        BY <2>1, <2>2, AssignTemporarySound
    <2> QED BY <2>3, <2>4, <1>7 DEF r
<1>9. CASE len # 0 /\ o.own
    <2>1. r = [w EXCEPT !.obj[s].off = o.off + st, !.obj[s].len = len,
                        !.mem[o.buf][o.off + st + len + 1] = Nul]
        BY <1>9 DEF Trimmed
    <2> HIDE DEF r, text, tail, st, len
    <2>2. /\ w \in Worlds /\ s \in Objects /\ o.buf # Null
          /\ o \in Fields
        BY <1>1, <1>9, ObjectFields, Disjoint, WorldFields
    <2>3. o.off + st \in Nat
        BY <1>2, <1>6
    <2>4. IsWorld(r)
        BY <2>1, <2>2 DEF IsWorld, Worlds
    <2>5. /\ r.obj = [w.obj EXCEPT ![s].off = o.off + st, ![s].len = len]
          /\ r.mem = [w.mem EXCEPT ![o.buf][o.off + st + len + 1] = Nul]
          /\ r.live = w.live /\ r.heap = w.heap /\ r.lost = w.lost
          /\ r.fate = w.fate
        BY <2>1, <2>2 DEF Worlds
    <2>6. Moved(r.obj, w.obj, s, o.off + st, len)
        <3>1. w.obj \in [Objects -> Fields]
            BY <2>2, WorldFields
        <3>2. Moved([w.obj EXCEPT ![s].off = o.off + st, ![s].len = len],
                    w.obj, s, o.off + st, len)
            BY <3>1, <2>2, <2>3, <1>6, OffAndLen
        <3> QED BY <3>2, <2>5
    <2>7. o.off + st + len <= o.off + o.len
        BY SMTT(30), <1>2, <1>6
    <2>8. Edits(r, w, s, o.off + st, len)
        BY <2>2, <2>3, <2>4, <2>5, <2>6, <2>7, <1>1, <1>6, <1>9, EditOf
        DEF Moved, OthersKept
    <2>9. Edited(r, w, A, s, Prefix(Drop(text, st), len))
        BY <2>2, <2>8, <1>1, <1>6, EditsLeave DEF text
    <2> QED BY <2>9, <1>7 DEF r, text
<1>10. CASE len # 0 /\ ~o.own /\ st + len < o.len
    <2>1. r = AssignTemporary(w, s, Prefix(tail, len))
        BY <1>10 DEF Trimmed
    <2>2. Prefix(tail, len) \in Seq(Chars)
        BY <1>4, <1>6, PrefixProperties
    <2> HIDE DEF r
    <2>3. Edited(r, w, A, s, Prefix(tail, len))
        BY <2>1, <2>2, AssignTemporarySound
    <2> QED BY <2>3, <1>7 DEF r
<1>11. CASE len # 0 /\ ~o.own /\ ~(st + len < o.len)
    <2>1. r = [w EXCEPT !.obj[s].off = o.off + st, !.obj[s].len = len,
                        !.obj[s].cap = len + 1]
        BY <1>11 DEF Trimmed
    <2> HIDE DEF r, text, tail, st, len
    <2>2. /\ w \in Worlds /\ s \in Objects /\ o.buf # Null
          /\ w.mem[o.buf][o.off + o.len + 1] = Nul
        <3>1. o.len # 0
            BY <1>2, <1>6, <1>11
        <3> QED BY <3>1, <1>1, ObjectFields
    <2>3. o.off + st \in Nat /\ o.off + st + len = o.off + o.len
        <3>1. PICK a, l : a = o.off /\ l = o.len
            OBVIOUS
        <3>2. /\ a \in Nat /\ l \in Nat /\ st \in Nat /\ len \in Nat
              /\ st + len <= l /\ ~(st + len < l)
            BY <3>1, <1>2, <1>6, <1>11
        <3>3. a + st \in Nat /\ a + st + len = a + l
            BY ONLY <3>2
        <3> QED BY <3>1, <3>3
    <2>4. IsWorld(r)
        BY <2>1, <2>2 DEF IsWorld, Worlds
    <2>5. /\ r.obj = [w.obj EXCEPT ![s].off = o.off + st, ![s].len = len,
                                   ![s].cap = len + 1]
          /\ r.mem = w.mem
          /\ r.live = w.live /\ r.heap = w.heap /\ r.lost = w.lost
          /\ r.fate = w.fate
        BY <2>1, <2>2 DEF Worlds
    <2>6. Moved(r.obj, w.obj, s, o.off + st, len)
        <3>1. w.obj \in [Objects -> Fields]
            BY <2>2, WorldFields
        <3>2. Moved([w.obj EXCEPT ![s].off = o.off + st, ![s].len = len,
                                  ![s].cap = len + 1],
                    w.obj, s, o.off + st, len)
            BY <3>1, <2>2, <2>3, <1>6, OffLenAndCap
        <3> QED BY <3>2, <2>5
    <2>7. o.off + st + len <= o.off + o.len
        BY SMTT(30), <1>2, <1>6
    <2>8. Edits(r, w, s, o.off + st, len)
        BY <2>2, <2>3, <2>4, <2>5, <2>6, <2>7, <1>1, <1>6, EditOf
        DEF Moved, OthersKept
    <2>9. Edited(r, w, A, s, Prefix(Drop(text, st), len))
        BY <2>2, <2>8, <1>1, <1>6, EditsLeave DEF text
    <2> QED BY <2>9, <1>7 DEF r, text
<1> QED BY <1>8, <1>9, <1>10, <1>11

(* The loop of StripLeading() stops at the '\0' after the text at the      *)
(* latest, so the length does not wrap.                                    *)
LEMMA LeadingStrippedSound ==
    ASSUME NEW w, NEW A \in SUBSET Objects, Sound(w, A), w.fate = "ok",
           NEW s \in A
    PROVE  \/ /\ w.obj[s].buf = Null
              /\ LeadingStripped(w, s) = Fault(w, "null_read")
           \/ Edited(LeadingStripped(w, s), w, A, s,
                     Value!From(Text(w, s), White))
<1> DEFINE o == w.obj[s]
           m == w.mem[o.buf]
           d == Drop(m, o.off)
           n == Leading(d, White)
           r == LeadingStripped(w, s)
<1>1. CASE o.buf = Null
    BY <1>1 DEF LeadingStripped
<1>2. CASE o.buf # Null
    <2>1. /\ w \in Worlds /\ s \in Objects
          /\ o.len \in Nat /\ o.off \in Nat /\ m \in Seq(Chars) /\ Len(m) \in Nat
          /\ o.off + o.len + 1 <= Len(m) /\ m[o.off + o.len + 1] = Nul
        BY <1>2, ObjectFields
    <2>2. PICK a, l : a = o.off /\ l = o.len
        OBVIOUS
    <2>3. /\ a \in Nat /\ l \in Nat /\ a + l + 1 <= Len(m)
          /\ m[a + l + 1] = Nul /\ d = Drop(m, a)
        BY <2>1, <2>2
    <2> HIDE DEF m
    <2>4. a \in 0..Len(m) /\ l + 1 \in 1..(Len(m) - a)
        BY <2>1, <2>3
    <2>5. d \in Seq(Chars) /\ Len(d) = Len(m) - a /\ d[l + 1] = m[a + (l + 1)]
        BY <2>1, <2>3, <2>4, DropProperties
    <2>6. a + (l + 1) = a + l + 1
        BY <2>3
    <2> HIDE DEF d
    <2>7. n \in 0..Len(d) /\ \A i \in 1..n : d[i] \in White
        BY <2>5, LeadingProperties
    <2> HIDE DEF n
    <2>8. n <= l
        <3>1. l + 1 \notin 1..n
            BY <2>3, <2>5, <2>6, <2>7, CharsAssumption
        <3>2. n \in Nat
            BY <2>1, <2>3, <2>5, <2>7
        <3> QED BY ONLY <3>1, <3>2, <2>3
    <2>9. n \in Nat /\ a + n \in Nat /\ l - n \in Nat
          /\ (a + n) + (l - n) = a + l
        <3>1. n \in Nat
            BY <2>1, <2>3, <2>5, <2>7
        <3> QED BY ONLY <3>1, <2>3, <2>8
    <2>10. r = [w EXCEPT !.obj[s].off = a + n, !.obj[s].len = l - n]
        BY SMTT(30), <1>2, <2>2, <2>3, <2>8, <2>9 DEF LeadingStripped, n, d, m
    <2> HIDE DEF r
    <2>11. IsWorld(r)
        BY <2>10, <2>1 DEF IsWorld, Worlds
    <2>12. /\ r.obj = [w.obj EXCEPT ![s].off = a + n, ![s].len = l - n]
           /\ r.mem = w.mem
           /\ r.live = w.live /\ r.heap = w.heap /\ r.lost = w.lost
           /\ r.fate = w.fate
        BY <2>10, <2>1 DEF Worlds
    <2>13. Moved(r.obj, w.obj, s, a + n, l - n)
        <3>1. w.obj \in [Objects -> Fields]
            BY <2>1, WorldFields
        <3>2. Moved([w.obj EXCEPT ![s].off = a + n, ![s].len = l - n],
                    w.obj, s, a + n, l - n)
            BY <3>1, <2>1, <2>9, OffAndLen
        <3> QED BY <3>2, <2>12
    <2>14. (a + n) + (l - n) <= o.off + o.len
        BY <2>2, <2>3, <2>9
    <2>15. w.mem[w.obj[s].buf][(a + n) + (l - n) + 1] = Nul
        BY <2>2, <2>3, <2>9 DEF m
    <2>16. Edits(r, w, s, a + n, l - n)
        BY <1>2, <2>9, <2>11, <2>12, <2>13, <2>14, <2>15, EditOf
        DEF Moved, OthersKept
    <2>17. PICK t : t = Text(w, s)
        OBVIOUS
    <2>18. Edited(r, w, A, s, Prefix(Drop(t, n), l - n))
        BY <1>2, <2>2, <2>9, <2>16, <2>17, EditsLeave
    <2>19. Prefix(Drop(t, n), l - n) = Value!From(t, White)
        <3>1. t \in Seq(Chars) /\ Len(t) = l
            BY <2>2, <2>17, TextProperties
        <3>2. t = Prefix(d, l)
            BY <1>2, <2>2, <2>17 DEF Text, d, m
        <3>3. n = Leading(t, White)
            BY <2>1, <2>3, <3>2, LeadingInRest DEF n, d
        <3>4. n \in 0..Len(t)
            BY <3>1, <2>3, <2>8, <2>9
        <3>5. Drop(t, n) \in Seq(Chars) /\ Len(Drop(t, n)) = l - n
            BY <3>1, <3>4, DropProperties
        <3>6. Prefix(Drop(t, n), l - n) = Drop(t, n)
            BY <3>5, NoCut
        <3> QED BY <3>1, <3>3, <3>6, FromIsDrop
    <2> QED BY <2>17, <2>18, <2>19 DEF r
<1> QED BY <1>1, <1>2

(* StripTrailing() on characters of its own.                               *)
LEMMA TrailingCutSound ==
    ASSUME NEW w, NEW A \in SUBSET Objects, Sound(w, A), w.fate = "ok",
           NEW s \in A, w.obj[s].own
    PROVE  Edited(TrailingStripped(w, s), w, A, s, Value!UpTo(Text(w, s), White))
<1> DEFINE o    == w.obj[s]
           text == Text(w, s)
           len  == Len(text) - Trailing(text, White)
           r    == TrailingStripped(w, s)
<1>1. /\ text \in Seq(Chars) /\ Len(text) = o.len
      /\ o.len \in Nat /\ o.off \in Nat
    BY TextProperties
<1>2. Trailing(text, White) \in 0..Len(text)
    BY <1>1, TrailingProperties
<1>3. len \in Nat /\ len <= o.len
    <2> HIDE DEF text, o
    <2> QED BY <1>1, <1>2
<1>4. r = [w EXCEPT !.obj[s].len = len, !.mem[o.buf][o.off + len + 1] = Nul]
    BY DEF TrailingStripped
<1> HIDE DEF r, text, len
<1>5. w \in Worlds /\ s \in Objects /\ o.buf # Null
    BY ObjectFields, Disjoint
<1>6. IsWorld(r)
    BY <1>4, <1>5 DEF IsWorld, Worlds
<1>7. /\ r.obj = [w.obj EXCEPT ![s].len = len]
      /\ r.mem = [w.mem EXCEPT ![o.buf][o.off + len + 1] = Nul]
      /\ r.live = w.live /\ r.heap = w.heap /\ r.lost = w.lost
      /\ r.fate = w.fate
    BY <1>4, <1>5 DEF Worlds
<1>8. Moved(r.obj, w.obj, s, o.off, len)
    <2>1. w.obj \in [Objects -> Fields]
        BY <1>5, WorldFields
    <2>2. Moved([w.obj EXCEPT ![s].len = len], w.obj, s, w.obj[s].off, len)
        BY <2>1, <1>3, <1>5, LenAlone
    <2> QED BY <2>2, <1>7
<1>9. o.off + len <= o.off + o.len
    BY <1>1, <1>3
<1>10. Edits(r, w, s, o.off, len)
    BY <1>1, <1>3, <1>5, <1>6, <1>7, <1>8, <1>9, EditOf DEF Moved, OthersKept
<1>11. Edited(r, w, A, s, Prefix(Drop(Text(w, s), 0), len))
    <2>1. Edits(r, w, s, o.off + 0, len)
        BY <1>1, <1>10
    <2> QED BY <2>1, <1>3, <1>5, EditsLeave
<1>12. Prefix(Drop(text, 0), len) = Value!UpTo(text, White)
    BY <1>1, NoCut, UpToIsPrefix DEF len
<1> QED BY <1>11, <1>12 DEF r, text

(* StripTrailing() in general: characters of a caller are copied.          *)
LEMMA TrailingStrippedSound ==
    ASSUME NEW w, NEW A \in SUBSET Objects, Sound(w, A), w.fate = "ok",
           NEW s \in A
    PROVE  Edited(TrailingStripped(w, s), w, A, s, Value!UpTo(Text(w, s), White))
<1>1. CASE w.obj[s].own
    BY <1>1, TrailingCutSound
<1>2. CASE ~w.obj[s].own
    <2> DEFINE text == Text(w, s)
               len  == Len(text) - Trailing(text, White)
               d    == Destructed(w, s)
               p    == Prefix(text, len)
               r    == Construct(d, s, p)
    <2>1. text \in Seq(Chars) /\ Len(text) \in Nat
        BY TextProperties
    <2>2. Trailing(text, White) \in 0..Len(text)
        BY <2>1, TrailingProperties
    <2>3. len \in 0..Len(text)
        <3> HIDE DEF text
        <3> QED BY <2>1, <2>2
    <2>4. p \in Seq(Chars)
        BY <2>1, <2>3, PrefixProperties
    <2>5. TrailingStripped(w, s) = r
        BY <1>2 DEF TrailingStripped
    <2>6. Takes(d, w, A \ {s}) /\ Keeps(d, w, A \ {s})
        BY DestructedSound
    <2>7. Value!UpTo(text, White) = p
        BY <2>1, UpToIsPrefix
    <2> HIDE DEF d, p, len
    <2>8. r.fate # "bad_alloc" =>
              /\ Takes(r, d, (A \ {s}) \cup {s}) /\ Keeps(r, d, A \ {s})
              /\ Text(r, s) = p
        <3>1. /\ s \in Objects /\ s \notin A \ {s} /\ A \ {s} \in SUBSET Objects
              /\ Sound(d, A \ {s})
            BY <2>6 DEF Takes
        <3> QED BY <3>1, <2>4, ConstructSound, ConstructText
    <2>9. (A \ {s}) \cup {s} = A
        OBVIOUS
    <2> HIDE DEF r, text
    <2>10. Keeps(d, w, A \ {s}) /\ Keeps(r, d, A \ {s}) => Keeps(r, w, A \ {s})
        BY DEF Keeps
    <2>11. Edited(r, w, A, s, p)
        BY <2>6, <2>8, <2>9, <2>10 DEF Edited, Takes
    <2> QED BY <2>5, <2>7, <2>11 DEF text
<1> QED BY <1>1, <1>2

Referring(w, s, o) == [Default(w, s) EXCEPT !.obj[s] = o]

(* The text an object with the fields o would have.                        *)
Shown(w, o) ==
    IF o.buf = Null THEN <<>> ELSE Prefix(Drop(w.mem[o.buf], o.off), o.len)

(* A string that refers to the characters of a caller.                     *)
LEMMA ReferenceSound ==
    ASSUME NEW w, NEW A \in SUBSET Objects, Sound(w, A),
           NEW s \in Objects, s \notin A,
           NEW o \in Fields, ~o.own, o.head = Null, o.buf \in {Null} \cup Callers,
           o.buf = Null => o.len = 0, Ends(w, o)
    PROVE  /\ Takes(Referring(w, s, o), w, A \cup {s})
           /\ Keeps(Referring(w, s, o), w, A)
           /\ Text(Referring(w, s, o), s) = Shown(w, o)
<1> DEFINE d == Default(w, s)
           r == [d EXCEPT !.obj[s] = o]
           B == A \cup {s}
<1>1. w \in Worlds
    BY DEF Sound
<1>2. Takes(d, w, B) /\ Keeps(d, w, A) /\ Defaults(d, w, s)
    BY <1>1, DefaultSound, DefaultEffect
<1> HIDE DEF d
<1>3. d \in Worlds /\ Separate(d, B) /\ Accounted(d, B) /\ Sound(d, B)
    BY <1>2 DEF Takes, Sound
<1>4. /\ r.obj = [d.obj EXCEPT ![s] = o] /\ IsWorld(r)
      /\ r.mem = d.mem /\ r.live = d.live /\ r.heap = d.heap
      /\ r.lost = d.lost /\ r.fate = d.fate
    <2>1. d \in Worlds
        BY <1>3
    <2>2. /\ r.obj = [d.obj EXCEPT ![s] = o]
          /\ r.mem = d.mem /\ r.live = d.live /\ r.heap = d.heap
          /\ r.lost = d.lost /\ r.fate = d.fate
        BY ONLY <2>1 DEF Worlds
    <2>3. IsWorld(r)
        BY ONLY <2>1 DEF Worlds, IsWorld
    <2> QED BY <2>2, <2>3
<1> HIDE DEF r
<1>5. /\ d.obj \in [Objects -> Fields] /\ d.mem \in [Buffers -> Seq(Chars)]
      /\ w.mem \in [Buffers -> Seq(Chars)]
    BY <1>1, <1>3, WorldFields
<1>6. /\ r.obj \in [Objects -> Fields] /\ r.obj[s] = o
      /\ \A x \in Objects \ {s} : r.obj[x] = d.obj[x]
    BY <1>4, <1>5
<1>7. r \in Worlds
    <2>1. /\ r.live \in SUBSET Strings /\ r.lost \in SUBSET Blocks
          /\ r.heap \in [Blocks -> {"unused", "allocated", "freed"}]
          /\ r.fate \in {"ok", "bad_alloc", "null_read", "invalid_free"}
          /\ r.mem \in [Buffers -> Seq(Chars)]
        BY <1>3, <1>4, WorldFields
    <2> QED BY ONLY <2>1, <1>4, <1>6, WorldMade
<1>8. OthersIntact(r, d, B, {s}) /\ CallersKept(r) /\ Keeps(r, d, B \ {s})
    <2>1. Touches(r, d, B, {s}, {})
        BY <1>4, <1>6 DEF Touches, OthersKept
    <2>2. {s} \in SUBSET Objects /\ {} \in SUBSET Blocks /\ B \in SUBSET Objects
        OBVIOUS
    <2> HIDE DEF B
    <2> QED BY <2>1, <2>2, <1>3, <1>7, Untouched, Zenon
<1>9. o.buf # Null => r.mem[o.buf] = w.mem[o.buf]
    <2>1. o.buf # Null => o.buf \in Buffers /\ o.buf # s
        BY Disjoint
    <2> QED BY <2>1, <1>2, <1>4, <1>5 DEF Defaults
<1>10. Intact(r, s)
    <2>1. Placed(r.obj[s], s)
        BY <1>6 DEF Placed
    <2>3. Ends(r, r.obj[s])
        BY <1>6, <1>9 DEF Ends
    <2>4. r.obj[s].buf \notin Blocks
        BY <1>6, Disjoint
    <2>5. Len(r.mem[s]) <= LocalCapacity
        BY <1>3, <1>4 DEF Sound, Intact
    <2> QED BY <2>1, <2>3, <2>4, <2>5 DEF Intact
<1>11. /\ r.obj[s].head = Null /\ d.obj[s].head = Null
       /\ r.obj[s].buf \notin Blocks
       /\ \A x \in A : r.obj[x] = d.obj[x]
    BY <1>2, <1>6, Disjoint DEF Defaults, HasFields
<1>12. Separate(r, B)
    BY <1>3, <1>11 DEF Separate
<1>13. Accounted(r, B)
    BY <1>3, <1>4, <1>11 DEF Accounted
<1>14. \A x \in B : Intact(r, x)
    BY <1>8, <1>10 DEF OthersIntact
<1>15. Sound(r, B)
    BY <1>7, <1>8, <1>12, <1>13, <1>14 DEF Sound
<1>16. Text(r, s) = Shown(w, o)
    BY <1>6, <1>9 DEF Text, Shown
<1>17. Keeps(r, w, A)
    <2>1. \A u \in A : u \in B \ {s}
        OBVIOUS
    <2> HIDE DEF B
    <2> QED BY <2>1, <1>2, <1>8 DEF Keeps
<1>18. Takes(r, w, B)
    BY <1>2, <1>4, <1>15 DEF Takes
<1> QED BY <1>16, <1>17, <1>18 DEF Referring, r, d

(* r is w with a new object s that has this text.                          *)
Made(r, w, A, s, text) ==
    Takes(r, w, A \cup {s}) /\ Keeps(r, w, A) /\ Text(r, s) = text

(* String(const char *, bool ref), on a C string in a buffer.              *)
LEMMA FromCharsSound ==
    ASSUME NEW w, NEW A \in SUBSET Objects, Sound(w, A),
           NEW s \in Objects, s \notin A,
           NEW buf \in Buffers, buf # s, NEW off \in Nat, NEW k \in Nat,
           off + k + 1 <= Len(w.mem[buf]), w.mem[buf][off + k + 1] = Nul,
           NEW ref, ref => buf \in Callers,
           FromChars(w, s, buf, off, ref).fate # "bad_alloc"
    PROVE  Made(FromChars(w, s, buf, off, ref), w, A, s, AsCString(w.mem[buf], off))
<1>1. w \in Worlds
    BY DEF Sound
<1>2. PICK m : m = w.mem[buf]
    OBVIOUS
<1>3. m \in Seq(Chars)
    BY <1>1, <1>2, WorldFields
<1>4. Default(w, s).mem[buf] = m
    <2>1. w.mem \in [Buffers -> Seq(Chars)]
        BY <1>1, WorldFields
    <2>2. Defaults(Default(w, s), w, s)
        BY <1>1, DefaultEffect
    <2> QED BY <2>1, <2>2, <1>2 DEF Defaults
<1> DEFINE text == AsCString(m, off)
           n    == Len(text)
<1>5. CString(Default(w, s), buf, off) = text
    BY <1>4 DEF CString, AsCString
<1>6. /\ off + k + 1 <= Len(m) /\ m[off + k + 1] = Nul
    BY <1>2
<1>7. /\ text \in Seq(Chars) /\ n \in Nat /\ n <= k
      /\ m[off + n + 1] = Nul
      /\ \A i \in 1..n : text[i] = m[off + i]
    BY <1>3, <1>6, CStringProperties
<1>8. off + n <= Len(m)
    <2>1. Len(m) \in Nat
        BY <1>3, LenProperties
    <2> QED BY ONLY <2>1, <1>6, <1>7, off \in Nat, k \in Nat
<1>9. Prefix(Drop(m, off), n) = text
    <2> HIDE DEF text
    <2> PICK t, h : t = text /\ h = n
        OBVIOUS
    <2>1. /\ t \in Seq(Chars) /\ h \in Nat /\ Len(t) = h /\ off + h <= Len(m)
          /\ \A i \in 1..h : t[i] = m[off + i]
        BY <1>7, <1>8
    <2>2. Prefix(Drop(m, off), h) = t
        BY ONLY ZenonT(60), <2>1, <1>3, off \in Nat, SliceIs
    <2> QED BY <2>2
<1> HIDE DEF text
<1>10. CASE ~ref
    <2>1. FromChars(w, s, buf, off, ref) = Construct(w, s, text)
        BY <1>5, <1>10 DEF FromChars
    <2>2. Construct(w, s, text).fate # "bad_alloc"
        BY <2>1
    <2>3. Made(Construct(w, s, text), w, A, s, text)
        BY <2>2, <1>7, ConstructSound, ConstructText DEF Made
    <2> QED BY <2>1, <2>3, <1>2 DEF text
<1>11. CASE ref
    <2> DEFINE o == [own |-> FALSE, len |-> n, buf |-> buf,
                     off |-> off, cap |-> n + 1, head |-> Null]
    <2>1. FromChars(w, s, buf, off, ref) = Referring(w, s, o)
        BY <1>5, <1>11 DEF FromChars, Referring
    <2>2. /\ o \in Fields /\ ~o.own /\ o.head = Null /\ o.buf = buf
          /\ o.len = n /\ o.off = off
        BY <1>7 DEF Fields
    <2> HIDE DEF o
    <2>3. Ends(w, o)
        <3>1. off + n + 1 <= Len(m)
            <4>1. Len(m) \in Nat
                BY <1>3, LenProperties
            <4> HIDE DEF n
            <4> QED BY ONLY <4>1, <1>6, <1>7, off \in Nat, k \in Nat
        <3> QED BY <3>1, <2>2, <1>2, <1>7 DEF Ends
    <2>4. o.buf \in {Null} \cup Callers /\ o.buf # Null
        BY <2>2, <1>11, Disjoint
    <2>5. /\ Takes(Referring(w, s, o), w, A \cup {s})
          /\ Keeps(Referring(w, s, o), w, A)
          /\ Text(Referring(w, s, o), s) = Shown(w, o)
        BY <2>2, <2>3, <2>4, ReferenceSound
    <2>6. Shown(w, o) = text
        BY <2>2, <2>4, <1>2, <1>9 DEF Shown
    <2>7. Made(Referring(w, s, o), w, A, s, text)
        BY <2>5, <2>6 DEF Made
    <2> QED BY <2>1, <2>7, <1>2 DEF text
<1> QED BY <1>10, <1>11

(* String(const String &): a copy of an object that was not Reset.         *)
LEMMA CopySound ==
    ASSUME NEW w, NEW A \in SUBSET Objects, Sound(w, A),
           NEW s \in Objects, s \notin A, NEW u \in A,
           w.obj[u].own \/ w.obj[u].buf # u,
           CopyInto(w, s, u).fate # "bad_alloc"
    PROVE  Made(CopyInto(w, s, u), w, A, s, Text(w, u))
<1> PICK o : o = w.obj[u]
    OBVIOUS
<1>1. CASE o.own
    <2>1. CopyInto(w, s, u) = Construct(w, s, Text(w, u))
        BY <1>1 DEF CopyInto
    <2>2. Text(w, u) \in Seq(Chars)
        BY TextProperties
    <2>3. PICK t : t = Text(w, u)
        OBVIOUS
    <2>4. Construct(w, s, t).fate # "bad_alloc" /\ t \in Seq(Chars)
        BY <2>1, <2>2, <2>3
    <2>5. Made(Construct(w, s, t), w, A, s, t)
        BY <2>4, ConstructSound, ConstructText DEF Made
    <2> QED BY <2>1, <2>3, <2>5
<1>2. CASE ~o.own
    <2>1. CopyInto(w, s, u) = Referring(w, s, o)
        BY <1>2 DEF CopyInto, Referring
    <2>2. w \in Worlds /\ u \in Objects /\ Intact(w, u)
        BY DEF Sound
    <2>3. o \in Fields /\ Placed(o, u) /\ Ends(w, o)
        BY <2>2, WorldFields DEF Intact
    <2>4. o.head = Null /\ o.buf \in {Null} \cup Callers /\ (o.buf = Null => o.len = 0)
        BY <2>3, <1>2 DEF Placed
    <2>5. /\ Takes(Referring(w, s, o), w, A \cup {s})
          /\ Keeps(Referring(w, s, o), w, A)
          /\ Text(Referring(w, s, o), s) = Shown(w, o)
        BY <2>3, <2>4, <1>2, ReferenceSound
    <2>6. Shown(w, o) = Text(w, u)
        BY DEF Shown, Text
    <2>7. Made(Referring(w, s, o), w, A, s, Text(w, u))
        BY <2>5, <2>6 DEF Made
    <2> QED BY <2>1, <2>7
<1> QED BY <1>1, <1>2

(* A copy through a C string, of a text that has no '\0' inside.           *)
CopyOf(copy, text) == (\A i \in 1..Len(text) : text[i] # Nul) => copy = text

(* operator=(const String &): destroying the target does not touch the     *)
(* source.                                                                 *)
LEMMA CopyAssignedSound ==
    ASSUME NEW w, NEW A \in SUBSET Objects, Sound(w, A), w.fate = "ok",
           NEW s \in A, NEW u \in A, w.obj[u].own \/ w.obj[u].buf # u
    PROVE  \/ /\ w.obj[u].buf = Null
              /\ CopyAssigned(w, s, u) = Fault(w, "null_read")
           \/ \E text : /\ Edited(CopyAssigned(w, s, u), w, A, s, text)
                        /\ CopyOf(text, Text(w, u))
<1> PICK o : o = w.obj[u]
    OBVIOUS
<1> DEFINE d == Destructed(w, s)
           r == FromChars(d, s, o.buf, o.off, ~o.own)
<1>1. CASE s = u
    <2>1. CopyAssigned(w, s, u) = w /\ CopyOf(Text(w, u), Text(w, u))
        BY <1>1 DEF CopyAssigned, CopyOf
    <2>2. Edited(w, w, A, s, Text(w, u))
        BY <1>1 DEF Edited, Keeps
    <2> QED BY <2>1, <2>2
<1>2. CASE s # u /\ o.buf = Null
    BY <1>2 DEF CopyAssigned
<1>3. CASE s # u /\ o.buf # Null
    <2>1. /\ Takes(d, w, A \ {s}) /\ d.obj = w.obj
          /\ Keeps(d, w, A \ {s})
        BY DestructedSound
    <2> HIDE DEF d
    <2>2. /\ Sound(d, A \ {s}) /\ d.obj[u] = o /\ u \in A \ {s}
          /\ A \ {s} \in SUBSET Objects
        BY <2>1, <1>3 DEF Takes
    <2>3. /\ o.own \in BOOLEAN /\ o.len \in Nat /\ o.off \in Nat
          /\ o.own => o.buf \in {u} \cup Blocks
          /\ ~o.own => o.buf \in {u, Null} \cup Callers
          /\ o.buf \in Blocks => d.heap[o.buf] = "allocated"
          /\ o.buf \in Buffers
          /\ o.off + o.len + 1 <= Len(d.mem[o.buf])
          /\ d.mem[o.buf][o.off + o.len + 1] = Nul
        <3>1. /\ d.obj[u].own \in BOOLEAN
              /\ d.obj[u].len \in Nat /\ d.obj[u].off \in Nat
              /\ d.obj[u].own => d.obj[u].buf \in {u} \cup Blocks
              /\ ~d.obj[u].own => d.obj[u].buf \in {u, Null} \cup Callers
              /\ d.obj[u].buf \in Blocks => d.heap[d.obj[u].buf] = "allocated"
              /\ d.obj[u].buf # Null =>
                    /\ d.obj[u].buf \in Buffers
                    /\ d.obj[u].off + d.obj[u].len + 1 <= Len(d.mem[d.obj[u].buf])
                    /\ d.mem[d.obj[u].buf][d.obj[u].off + d.obj[u].len + 1] = Nul
            <4> PICK B : B = A \ {s}
                OBVIOUS
            <4>1. B \in SUBSET Objects /\ Sound(d, B) /\ u \in B
                BY <2>2
            <4> QED BY ONLY SMTT(30), <4>1, ObjectFields
        <3> QED BY <3>1, <2>2, <1>3
    <2>4. ~IsDangling(d, u)
        BY <2>2, <2>3 DEF IsDangling
    <2>5. CopyAssigned(w, s, u) = r
        BY <2>4, <1>3 DEF CopyAssigned, d
    <2>6. o.buf # s /\ (~o.own => o.buf \in Callers)
        <3>1. s \in Objects /\ u \in Objects
            OBVIOUS
        <3> QED BY <3>1, <2>3, <1>3, Disjoint
    <2>7. r.fate # "bad_alloc" =>
              /\ Takes(r, d, (A \ {s}) \cup {s}) /\ Keeps(r, d, A \ {s})
              /\ Text(r, s) = AsCString(d.mem[o.buf], o.off)
        <3>1. s \in Objects /\ s \notin A \ {s}
            OBVIOUS
        <3>2. PICK ref, b, off, k :
                 ref = ~o.own /\ b = o.buf /\ off = o.off /\ k = o.len
            OBVIOUS
        <3>3. /\ b \in Buffers /\ b # s /\ off \in Nat /\ k \in Nat
              /\ off + k + 1 <= Len(d.mem[b]) /\ d.mem[b][off + k + 1] = Nul
              /\ ref => b \in Callers
            BY <3>2, <2>3, <2>6
        <3>4. r = FromChars(d, s, b, off, ref)
            BY <3>2
        <3> HIDE DEF r
        <3>5. r.fate # "bad_alloc" =>
                  /\ Takes(r, d, (A \ {s}) \cup {s}) /\ Keeps(r, d, A \ {s})
                  /\ Text(r, s) = AsCString(d.mem[b], off)
            <4> SUFFICES ASSUME r.fate # "bad_alloc"
                         PROVE  /\ Takes(r, d, (A \ {s}) \cup {s})
                                /\ Keeps(r, d, A \ {s})
                                /\ Text(r, s) = AsCString(d.mem[b], off)
                OBVIOUS
            <4>1. PICK C : C = A \ {s}
                OBVIOUS
            <4>2. /\ C \in SUBSET Objects /\ Sound(d, C) /\ s \notin C
                  /\ FromChars(d, s, b, off, ref).fate # "bad_alloc"
                BY <4>1, <3>1, <3>4, <2>2
            <4>3. /\ Takes(FromChars(d, s, b, off, ref), d, C \cup {s})
                  /\ Keeps(FromChars(d, s, b, off, ref), d, C)
                  /\ Text(FromChars(d, s, b, off, ref), s) = AsCString(d.mem[b], off)
                <5>1. Made(FromChars(d, s, b, off, ref), d, C, s,
                           AsCString(d.mem[b], off))
                    BY <4>2, <3>1, <3>3, FromCharsSound
                <5> QED BY <5>1 DEF Made
            <4> QED BY <4>1, <4>3, <3>4
        <3> QED BY <3>2, <3>5
    <2>8. (A \ {s}) \cup {s} = A
        OBVIOUS
    <2> HIDE DEF r
    <2>9. CopyOf(AsCString(d.mem[o.buf], o.off), Text(w, u))
        <3> PICK t, b, off, k :
               t = Text(w, u) /\ b = d.mem[o.buf] /\ off = o.off /\ k = o.len
            OBVIOUS
        <3>1. Text(d, u) = t
            BY <2>1, <2>2 DEF Keeps
        <3>2. /\ t \in Seq(Chars) /\ Len(t) = k /\ t = Prefix(Drop(b, off), k)
              /\ \A i \in 1..k : t[i] = b[off + i]
            <4>1. /\ Text(d, u) \in Seq(Chars)
                  /\ Len(Text(d, u)) = d.obj[u].len
                  /\ d.obj[u].buf # Null =>
                        \A i \in 1..d.obj[u].len :
                           Text(d, u)[i] = d.mem[d.obj[u].buf][d.obj[u].off + i]
                BY ZenonT(150), <2>2, TextProperties
            <4>2. Text(d, u) = Shown(d, o)
                BY <2>2 DEF Text, Shown
            <4>3. Shown(d, o) = Prefix(Drop(d.mem[o.buf], o.off), o.len)
                BY <1>3 DEF Shown
            <4>4. t = Prefix(Drop(b, off), k)
                BY <3>1, <4>2, <4>3
            <4>5. /\ t \in Seq(Chars) /\ Len(t) = k
                  /\ \A i \in 1..k : t[i] = b[off + i]
                BY <3>1, <4>1, <2>2, <1>3
            <4> QED BY <4>4, <4>5
        <3>3. /\ b \in Seq(Chars) /\ off \in Nat /\ k \in Nat
              /\ off + k + 1 <= Len(b) /\ b[off + k + 1] = Nul
            <4>1. d \in Worlds
                BY <2>2 DEF Sound
            <4>2. b \in Seq(Chars)
                BY <4>1, <2>3, WorldFields
            <4> QED BY <4>2, <2>3
        <3>4. ASSUME \A i \in 1..Len(t) : t[i] # Nul
              PROVE  AsCString(b, off) = t
            <4>1. \A i \in 1..k : b[off + i] # Nul
                BY <3>2, <3>4
            <4>2. AsCString(b, off) = Prefix(Drop(b, off), k)
                BY ONLY <3>3, <4>1, CStringIsText
            <4> QED BY <4>2, <3>2
        <3> QED BY <3>4 DEF CopyOf
    <2> DEFINE text == AsCString(d.mem[o.buf], o.off)
    <2> HIDE DEF text, r
    <2>10. Keeps(d, w, A \ {s}) /\ Keeps(r, d, A \ {s}) => Keeps(r, w, A \ {s})
        BY DEF Keeps
    <2>11. Edited(r, w, A, s, text)
        BY <2>1, <2>7, <2>8, <2>10 DEF Edited, Takes, text
    <2> QED BY <2>5, <2>9, <2>11 DEF text
<1> QED BY <1>1, <1>2, <1>3

(* Reset() frees the buffer, which starts where the block starts.          *)
LEMMA ResetSound ==
    ASSUME NEW w, NEW A \in SUBSET Objects, Sound(w, A), w.fate = "ok",
           NEW s \in A,
           w.obj[s].own /\ w.obj[s].buf # s => w.obj[s].off = 0
    PROVE  Edited(ResetDone(w, s), w, A, s, <<>>)
<1>1. /\ w \in Worlds /\ Separate(w, A) /\ Accounted(w, A) /\ Intact(w, s)
      /\ s \in Objects /\ A \in SUBSET Objects
    BY DEF Sound
<1> PICK o : o = w.obj[s]
    OBVIOUS
<1> DEFINE f == IF ~IsLocal(w, s) /\ o.own THEN Free(w, o.buf, o.off) ELSE w
           new == [own |-> FALSE, len |-> 0, buf |-> s, off |-> 0,
                   cap |-> 0, head |-> Null]
           r == ResetDone(w, s)
           B == IF ~IsLocal(w, s) /\ o.own THEN {o.buf} ELSE {}
<1>2. /\ o.own => o.buf \in {s} \cup Blocks
      /\ o.head # Null => o.own /\ o.buf = o.head
      /\ o.buf \in Blocks => w.heap[o.buf] = "allocated"
    BY <1>1 DEF Intact, Placed
<1>3. /\ f \in Worlds /\ f.obj = w.obj /\ f.live = w.live
      /\ f.lost = w.lost /\ f.fate = w.fate
      /\ \A x \in Buffers \ B : f.mem[x] = w.mem[x]
      /\ \A x \in Blocks \ B : f.heap[x] = w.heap[x]
      /\ \A x \in B : x \in Blocks /\ f.heap[x] = "freed"
    <2>1. CASE ~IsLocal(w, s) /\ o.own
        <3>1. o.off = 0 /\ o.buf \in Blocks
            BY <2>1, <1>2 DEF IsLocal
        <3>2. f = Free(w, o.buf, 0)
            BY <2>1, <3>1
        <3>3. Frees(f, w, o.buf)
            BY <3>1, <3>2, <1>1, <1>2, FreeEffect
        <3>4. B = {o.buf}
            BY <2>1
        <3> HIDE DEF f, B
        <3> QED BY <3>1, <3>3, <3>4, <1>1, WorldFields DEF Frees
    <2>2. CASE ~(~IsLocal(w, s) /\ o.own)
        <3>1. f = w /\ B = {}
            BY <2>2
        <3> HIDE DEF f, B
        <3> QED BY <3>1, <1>1
    <2> QED BY <2>1, <2>2
<1>4. r = [f EXCEPT !.obj[s] = new, !.mem[s] = <<Nul>>]
    BY DEF ResetDone
<1>5. new \in Fields /\ ~new.own /\ HasFields(new, 0, s, 0, Null)
    BY <1>1, Disjoint DEF Fields, HasFields
<1>6. B \subseteq {o.buf} \cap Blocks
    BY <1>3
<1>7. o.buf \in Blocks /\ o.head # Null => B = {o.buf}
    BY <1>1, <1>2, Disjoint DEF IsLocal
<1> HIDE DEF f, new, r, B
<1>8. /\ r.obj = [f.obj EXCEPT ![s] = new]
      /\ r.mem = [f.mem EXCEPT ![s] = <<Nul>>]
      /\ r.live = f.live /\ r.heap = f.heap /\ r.lost = f.lost
      /\ r.fate = f.fate /\ IsWorld(r)
    BY <1>3, <1>4 DEF Worlds, IsWorld
<1>9. /\ f.obj \in [Objects -> Fields] /\ f.mem \in [Buffers -> Seq(Chars)]
      /\ s \in Buffers
    BY <1>1, <1>3, WorldFields, Disjoint
<1>10. /\ <<Nul>> \in Seq(Chars) /\ Len(<<Nul>>) = 1 /\ <<Nul>>[1] = Nul
       /\ 1 <= LocalCapacity
    BY CharsAssumption, StorageAssumption
<1>11. /\ r.obj \in [Objects -> Fields] /\ r.mem \in [Buffers -> Seq(Chars)]
       /\ r.obj[s] = new /\ r.mem[s] = <<Nul>>
       /\ \A x \in Objects \ {s} : r.obj[x] = f.obj[x]
       /\ \A x \in Buffers \ {s} : r.mem[x] = f.mem[x]
    BY <1>5, <1>8, <1>9, <1>10
<1>12. r \in Worlds
    <2>1. /\ r.live \in SUBSET Strings /\ r.lost \in SUBSET Blocks
          /\ r.heap \in [Blocks -> {"unused", "allocated", "freed"}]
          /\ r.fate \in {"ok", "bad_alloc", "null_read", "invalid_free"}
        BY <1>3, <1>8, WorldFields
    <2> QED BY ONLY <2>1, <1>8, <1>11, WorldMade
<1>13. OthersIntact(r, w, A, {s}) /\ CallersKept(r) /\ Keeps(r, w, A \ {s})
    <2>1. \A u \in A \ {s} : w.obj[u].buf \notin B
        BY <1>1, <1>6 DEF Separate
    <2>2. Touches(r, w, A, {s}, B)
        BY <2>1, <1>3, <1>8, <1>11 DEF Touches, OthersKept
    <2>3. {s} \in SUBSET Objects /\ B \in SUBSET Blocks
        BY <1>1, <1>6
    <2> QED BY <2>2, <2>3, <1>1, <1>12, Untouched
<1>14. Intact(r, s)
    <2>1. /\ ~r.obj[s].own /\ r.obj[s].buf = s /\ r.obj[s].head = Null
          /\ r.obj[s].len = 0 /\ r.obj[s].off = 0
        BY <1>5, <1>11 DEF HasFields
    <2>2. Placed(r.obj[s], s) /\ r.obj[s].buf \notin Blocks
        BY <2>1, <1>1, Disjoint DEF Placed
    <2>3. Ends(r, r.obj[s])
        BY <2>1, <1>10, <1>11 DEF Ends
    <2> QED BY <2>2, <2>3, <1>10, <1>11 DEF Intact
<1>15. /\ r.obj[s].head = Null /\ r.obj[s].buf \notin Blocks
       /\ \A x \in A \ {s} : r.obj[x] = w.obj[x]
    BY <1>1, <1>5, <1>11, <1>13, Disjoint DEF HasFields, OthersIntact
<1>16. Separate(r, A)
    BY <1>1, <1>15 DEF Separate
<1>17. Accounted(r, A)
    <2> SUFFICES ASSUME NEW b \in Blocks
                 PROVE  /\ r.heap[b] = "allocated" /\ b \notin r.lost =>
                               \E x \in A : r.obj[x].head = b
                        /\ b \in r.lost => /\ r.heap[b] # "unused"
                                           /\ \A x \in A : r.obj[x].head # b
        BY DEF Accounted
    <2>1. b \in B => r.heap[b] = "freed"
        BY <1>3, <1>8
    <2>2. b \notin B => r.heap[b] = w.heap[b]
        BY <1>3, <1>8
    <2>3. b \notin B => w.obj[s].head # b
        BY <1>2, <1>7, Disjoint
    <2>4. r.lost = w.lost
        BY <1>3, <1>8
    <2>5. /\ w.heap[b] = "allocated" /\ b \notin w.lost =>
               \E x \in A : w.obj[x].head = b
          /\ b \in w.lost => /\ w.heap[b] # "unused"
                             /\ \A x \in A : w.obj[x].head # b
        BY <1>1 DEF Accounted
    <2> QED BY <2>1, <2>2, <2>3, <2>4, <2>5, <1>15, Disjoint
<1>18. \A x \in A : Intact(r, x)
    BY <1>13, <1>14 DEF OthersIntact
<1>19. Sound(r, A)
    BY <1>12, <1>13, <1>16, <1>17, <1>18 DEF Sound
<1>20. Text(r, s) = <<>>
    <2>1. Text(r, s) \in Seq(Chars) /\ Len(Text(r, s)) = r.obj[s].len
        BY <1>19, TextProperties
    <2>2. r.obj[s].len = 0
        BY <1>5, <1>11 DEF HasFields
    <2>3. PICK t : t = Text(r, s)
        OBVIOUS
    <2>4. t \in Seq(Chars) /\ Len(t) = 0
        BY <2>1, <2>2, <2>3
    <2>5. t = <<>>
        BY ONLY <2>4, EmptySeq
    <2> QED BY <2>3, <2>5
<1> QED BY <1>3, <1>8, <1>13, <1>19, <1>20 DEF Edited, r

(* Only the objects, the buffers and the heap decide whether a world is    *)
(* sound.                                                                  *)
LEMMA SameStorage ==
    ASSUME NEW w, NEW A, Sound(w, A), NEW r \in Worlds,
           r.obj = w.obj, r.mem = w.mem, r.heap = w.heap, r.lost = w.lost
    PROVE  Sound(r, A)
BY DEF Sound, Intact, Ends, Separate, Accounted, CallersKept

(* ~String(), and storage without an object again.                         *)
Emptied(w, s) ==
    [w EXCEPT !.live = @ \ {s}, !.mem[s] = <<Nul>>, !.obj[s] = MovedFrom]

LEMMA EmptiedSound ==
    ASSUME NEW w, NEW A \in SUBSET Objects, Sound(w, A),
           NEW s \in Objects, s \notin A
    PROVE  /\ Sound(Emptied(w, s), A)
           /\ Emptied(w, s).live = w.live \ {s} /\ Emptied(w, s).fate = w.fate
           /\ Keeps(Emptied(w, s), w, A)
<1> SUFFICES ASSUME NEW r, r = Emptied(w, s)
             PROVE  /\ Sound(r, A) /\ r.live = w.live \ {s} /\ r.fate = w.fate
                    /\ Keeps(r, w, A)
    OBVIOUS
<1>1. w \in Worlds /\ Separate(w, A) /\ Accounted(w, A)
    BY DEF Sound
<1>2. <<Nul>> \in Seq(Chars) /\ s \in Buffers /\ MovedFrom \in Fields
    BY CharsAssumption DEF Buffers, MovedFrom, Fields
<1>3. /\ r.obj = [w.obj EXCEPT ![s] = MovedFrom]
      /\ r.mem = [w.mem EXCEPT ![s] = <<Nul>>]
      /\ r.live = w.live \ {s} /\ r.heap = w.heap /\ r.lost = w.lost
      /\ r.fate = w.fate /\ IsWorld(r)
    BY <1>1 DEF Emptied, Worlds, IsWorld
<1>4. /\ w.obj \in [Objects -> Fields] /\ w.live \in SUBSET Strings
      /\ w.mem \in [Buffers -> Seq(Chars)]
      /\ w.heap \in [Blocks -> {"unused", "allocated", "freed"}]
      /\ w.lost \in SUBSET Blocks
      /\ w.fate \in {"ok", "bad_alloc", "null_read", "invalid_free"}
    BY <1>1, WorldFields
<1>5. /\ r.obj \in [Objects -> Fields]
      /\ r.mem \in [Buffers -> Seq(Chars)]
      /\ r.live \in SUBSET Strings
    BY <1>2, <1>3, <1>4
<1>6. r \in Worlds
    BY <1>3, <1>4, <1>5, WorldMade
<1>7. Touches(r, w, A, {s}, {})
    BY <1>2, <1>3, <1>4 DEF Touches, OthersKept
<1>8. {s} \in SUBSET Objects /\ {} \in SUBSET Blocks
    OBVIOUS
<1>9. OthersIntact(r, w, A, {s}) /\ CallersKept(r) /\ Keeps(r, w, A)
    <2>1. /\ OthersIntact(r, w, A, {s}) /\ CallersKept(r)
          /\ Keeps(r, w, A \ {s})
        BY <1>6, <1>7, <1>8, Untouched, Zenon
    <2> QED BY <2>1 DEF Keeps
<1>10. \A u \in A : r.obj[u] = w.obj[u] /\ Intact(r, u)
    BY <1>9 DEF OthersIntact
<1>11. Separate(r, A) /\ Accounted(r, A)
    BY <1>1, <1>3, <1>10 DEF Separate, Accounted
<1> QED BY <1>3, <1>6, <1>9, <1>10, <1>11 DEF Sound

-----------------------------------------------------------------------------
(* The steps.                                                              *)

(* A step makes the texts f, or it ends the behaviour for want of memory.  *)
Gives(f) ==
    /\ fate' \in {"ok", "bad_alloc"}
    /\ Texts' = IF fate' = "ok" THEN f ELSE Texts

(* Or it ends the behaviour with a fault.                                  *)
Faults(e) == fate' = e /\ Texts' = Texts

(* Of a living object s the step makes this text.                          *)
Gave(s, text) == Gives([Texts EXCEPT ![s] = text])

(* A function of the class leaves a sound world behind, or there is no     *)
(* memory.                                                                 *)
Fits(w, f) ==
    \/ w.fate = "bad_alloc"
    \/ w.fate = "ok" /\ Sound(w, w.live) /\ TextsOf(w) = f

LEMMA BecomesEnded ==
    ASSUME StorageInv, NEW w, Becomes(w),
           w.fate \in {"bad_alloc", "null_read", "invalid_free"}
    PROVE  StorageInv' /\ Faults(w.fate)
<1>1. Sound(Now, live)
    BY DEF StorageInv
<1>2. /\ obj' = obj /\ live' = live /\ mem' = mem
      /\ heap' = heap /\ lost' = lost /\ fate' = w.fate
    BY DEF Becomes
<1>3. Now \in Worlds
    BY <1>1 DEF Sound
<1>4. /\ Now' \in Worlds
      /\ Now'.obj = Now.obj /\ Now'.mem = Now.mem
      /\ Now'.heap = Now.heap /\ Now'.lost = Now.lost
    BY <1>2, <1>3 DEF Worlds, Now
<1>5. Sound(Now', live)
    BY <1>1, <1>4, SameStorage
<1>6. Sound(Now', live')
    BY <1>2, <1>5
<1>7. Texts' = Texts
    BY <1>2 DEF Texts, TextsOf, Text, Now
<1> QED BY <1>2, <1>6, <1>7 DEF StorageInv, Faults

LEMMA BecomesSound ==
    ASSUME StorageInv, NEW w, NEW f, Fits(w, f), Becomes(w)
    PROVE  StorageInv' /\ Gives(f)
<1>2. CASE w.fate = "ok"
    <2>1. w \in Worlds /\ Sound(w, w.live) /\ TextsOf(w) = f
        BY <1>2 DEF Fits, Sound
    <2>2. w = [obj |-> w.obj, live |-> w.live, mem |-> w.mem,
               heap |-> w.heap, lost |-> w.lost, fate |-> w.fate]
        BY <2>1 DEF Worlds
    <2>3. /\ obj' = w.obj /\ live' = w.live /\ mem' = w.mem
          /\ heap' = w.heap /\ lost' = w.lost /\ fate' = w.fate
        BY <1>2 DEF Becomes
    <2>4. Now' = w
        BY <2>2, <2>3 DEF Now
    <2>5. Sound(Now', live')
        BY <2>1, <2>3, <2>4
    <2>6. Texts' = f
        <3>1. Texts' = TextsOf(w)
            BY <2>4 DEF Texts, TextsOf, Text
        <3> QED BY <3>1, <2>1
    <2>7. StorageInv'
        BY <2>3, <2>5, <1>2 DEF StorageInv
    <2> QED BY <2>3, <2>6, <2>7, <1>2 DEF Gives
<1>3. CASE w.fate # "ok"
    <2>1. w.fate = "bad_alloc"
        BY <1>3 DEF Fits
    <2> QED BY <2>1, BecomesEnded DEF Faults, Gives
<1> QED BY <1>2, <1>3

(* What an operation finds.                                                *)
LEMMA AtRest ==
    ASSUME StorageInv
    PROVE  /\ Sound(Now, live) /\ Now \in Worlds
           /\ live \in SUBSET Strings /\ live \in SUBSET Objects
           /\ Now.obj = obj /\ Now.live = live /\ Now.mem = mem
           /\ Now.fate = fate
<1>1. Sound(Now, live)
    BY DEF StorageInv
<1>2. Now \in Worlds
    BY <1>1 DEF Sound
<1>3. Now.live = live /\ Now.obj = obj /\ Now.mem = mem /\ Now.fate = fate
    BY DEF Now
<1>4. live \in SUBSET Strings
    BY <1>2, <1>3, WorldFields
<1> QED BY <1>1, <1>2, <1>3, <1>4 DEF Objects

LEMMA Births ==
    ASSUME StorageInv, NEW s \in Strings, Absent(s)
    PROVE  /\ Sound(Born(s), live) /\ s \in Objects /\ s \notin live
           /\ Born(s).live = live \cup {s} /\ Born(s).fate = "ok"
           /\ Born(s).obj = obj /\ Born(s).mem = mem
           /\ \A u \in Objects : Text(Born(s), u) = Text(Now, u)
<1>1. Sound(Now, live) /\ Now \in Worlds
    BY AtRest
<1>2. /\ Born(s) \in Worlds
      /\ Born(s).obj = Now.obj /\ Born(s).mem = Now.mem
      /\ Born(s).heap = Now.heap /\ Born(s).lost = Now.lost
      /\ Born(s).live = live \cup {s} /\ Born(s).fate = fate
    BY <1>1 DEF Born, Now, Worlds
<1>3. Sound(Born(s), live)
    BY <1>1, <1>2, SameStorage
<1>4. \A u \in Objects : Text(Born(s), u) = Text(Now, u)
    BY <1>2 DEF Text
<1> QED BY <1>2, <1>3, <1>4 DEF Absent, Objects, Now

(* Worlds in which only the text of s differs.                             *)
LEMMA TextsAre ==
    ASSUME StorageInv, NEW s \in Strings, NEW text, NEW r,
           r.live = live \/ r.live = live \cup {s}, s \in r.live,
           Text(r, s) = text, Keeps(r, Now, live \ {s})
    PROVE  TextsOf(r) = [Texts EXCEPT ![s] = text]
<1>1. Now.live = live
    BY AtRest
<1>2. \A u \in Strings \ {s} :
         (IF u \in r.live THEN Text(r, u) ELSE Null) =
         (IF u \in live THEN Text(Now, u) ELSE Null)
    BY DEF Keeps
<1> QED BY <1>1, <1>2 DEF TextsOf, Texts

LEMMA MadeFits ==
    ASSUME StorageInv, NEW s \in Strings, Absent(s), NEW text, NEW r,
           r.fate # "bad_alloc" => Made(r, Born(s), live, s, text)
    PROVE  Fits(r, [Texts EXCEPT ![s] = text])
<1> SUFFICES ASSUME r.fate # "bad_alloc"
             PROVE  Fits(r, [Texts EXCEPT ![s] = text])
    BY DEF Fits
<1>1. /\ Takes(r, Born(s), live \cup {s}) /\ Keeps(r, Born(s), live)
      /\ Text(r, s) = text
    BY DEF Made
<1>2. /\ r.live = live \cup {s} /\ r.fate = "ok" /\ Sound(r, live \cup {s})
    BY <1>1, Births DEF Takes
<1>3. Keeps(r, Now, live \ {s})
    BY <1>1, Births, AtRest DEF Keeps
<1>4. TextsOf(r) = [Texts EXCEPT ![s] = text]
    BY <1>1, <1>2, <1>3, TextsAre
<1> QED BY <1>2, <1>4 DEF Fits

LEMMA EditFits ==
    ASSUME StorageInv, fate = "ok", NEW s \in live, NEW text, NEW r,
           Edited(r, Now, live, s, text)
    PROVE  Fits(r, [Texts EXCEPT ![s] = text])
<1> SUFFICES ASSUME r.fate # "bad_alloc"
             PROVE  Fits(r, [Texts EXCEPT ![s] = text])
    BY DEF Fits
<1>1. /\ Sound(r, live) /\ r.fate = "ok" /\ r.live = live
      /\ Text(r, s) = text /\ Keeps(r, Now, live \ {s})
      /\ s \in Strings
    BY AtRest DEF Edited
<1>2. TextsOf(r) = [Texts EXCEPT ![s] = text]
    BY <1>1, TextsAre
<1> QED BY <1>1, <1>2 DEF Fits

LEMMA NullRead ==
    ASSUME StorageInv, Becomes(Fault(Now, "null_read"))
    PROVE  StorageInv' /\ Faults("null_read")
<1>1. Fault(Now, "null_read").fate = "null_read"
    BY AtRest DEF Fault, Worlds
<1> QED BY <1>1, BecomesEnded

(* A living object never points into a block that is not allocated.        *)
LEMMA ReadsSafely ==
    ASSUME StorageInv, NEW s \in live, NEW w, Reads(s, w)
    PROVE  Becomes(w)
<1>1. Intact(Now, s)
    BY AtRest DEF Sound
<1>2. ~IsDangling(Now, s)
    BY <1>1 DEF IsDangling, Intact
<1> QED BY <1>2 DEF Reads

LEMMA MadeFromText ==
    ASSUME StorageInv, NEW s \in Strings, Absent(s), NEW text \in Seq(Chars),
           Becomes(Construct(Born(s), s, text))
    PROVE  StorageInv' /\ Gave(s, text)
<1> DEFINE r == Construct(Born(s), s, text)
<1>1. r.fate # "bad_alloc" => Made(r, Born(s), live, s, text)
    <2> SUFFICES ASSUME r.fate # "bad_alloc"
                 PROVE  Made(r, Born(s), live, s, text)
        OBVIOUS
    <2>1. /\ Sound(Born(s), live) /\ s \in Objects /\ s \notin live
          /\ live \in SUBSET Objects
        BY Births, AtRest
    <2>2. /\ Takes(r, Born(s), live \cup {s}) /\ Keeps(r, Born(s), live)
        BY <2>1, ConstructSound
    <2>3. Text(r, s) = text
        BY <2>1, ConstructText
    <2> QED BY <2>2, <2>3 DEF Made
<1> HIDE DEF r
<1>2. Fits(r, [Texts EXCEPT ![s] = text])
    BY <1>1, MadeFits
<1> QED BY <1>2, BecomesSound DEF r, Gave

(* The characters of a caller end with the '\0' after its text.            *)
LEMMA CallersText ==
    ASSUME StorageInv, NEW c \in Callers
    PROVE  /\ CallerText[c] \in Seq(Chars)
           /\ Len(CallerText[c]) \in Nat
           /\ Len(CallerText[c]) + 1 = Len(mem[c])
           /\ mem[c][Len(CallerText[c]) + 1] = Nul
           /\ mem[c] = Append(CallerText[c], Nul)
<1>1. PICK t : t = CallerText[c]
    OBVIOUS
<1>2. t \in Seq(Chars) /\ Len(t) \in Nat
    BY <1>1, CharsAssumption
<1>3. mem[c] = Append(t, Nul)
    BY <1>1, AtRest DEF Sound, CallersKept
<1>4. Nul \in Chars
    BY CharsAssumption
<1>5. Len(mem[c]) = Len(t) + 1 /\ mem[c][Len(t) + 1] = Nul
    BY <1>2, <1>3, <1>4
<1> QED BY <1>1, <1>2, <1>3, <1>5

LEMMA ConstructDefaultStep ==
    ASSUME StorageInv, NEW s \in Strings, ConstructDefault(s)
    PROVE  StorageInv' /\ Gave(s, <<>>)
<1> DEFINE r == Default(Born(s), s)
<1>1. Absent(s) /\ Becomes(r)
    BY DEF ConstructDefault
<1>2. Takes(r, Born(s), live \cup {s}) /\ Keeps(r, Born(s), live)
    BY <1>1, Births, AtRest, DefaultSound
<1>3. Defaults(r, Born(s), s)
    BY <1>1, Births, DefaultEffect DEF Sound
<1> HIDE DEF r
<1>4. Text(r, s) = <<>>
    <2>1. /\ Sound(r, live \cup {s}) /\ s \in live \cup {s}
          /\ live \cup {s} \in SUBSET Objects
        BY <1>1, <1>2, Births, AtRest DEF Takes
    <2>2. r.obj[s].len = 0
        BY <1>3 DEF Defaults, HasFields
    <2>3. <<>> \in Seq(Chars) /\ Len(<<>>) = 0
        OBVIOUS
    <2>4. \A i \in 1..Len(<<>>) : r.mem[r.obj[s].buf][r.obj[s].off + i] = <<>>[i]
        BY <2>3
    <2> QED BY <2>1, <2>2, <2>3, <2>4, ShowsText
<1>5. Fits(r, [Texts EXCEPT ![s] = <<>>])
    BY <1>1, <1>2, <1>4, MadeFits DEF Made
<1> QED BY <1>1, <1>5, BecomesSound DEF Gave

LEMMA ConstructBytesStep ==
    ASSUME StorageInv, NEW s \in Strings, NEW c \in Callers, ConstructBytes(s, c)
    PROVE  StorageInv' /\ Gave(s, CallerText[c])
BY CallersText, MadeFromText DEF ConstructBytes

LEMMA ConstructCharsStep ==
    ASSUME StorageInv, NEW s \in Strings, NEW c \in Callers, NEW ref \in BOOLEAN,
           ConstructChars(s, c, ref)
    PROVE  /\ StorageInv'
           /\ Gave(s, Prefix(CallerText[c], Leading(CallerText[c], Chars \ {Nul})))
<1> DEFINE r == FromChars(Born(s), s, c, 0, ref)
<1>1. Absent(s) /\ Becomes(r)
    BY DEF ConstructChars
<1>2. PICK k : k = Len(CallerText[c])
    OBVIOUS
<1>3. /\ k \in Nat /\ 0 \in Nat /\ 0 + k + 1 <= Len(mem[c])
      /\ mem[c][0 + k + 1] = Nul
    BY <1>2, CallersText
<1>4. c \in Buffers /\ c # s /\ s \in Objects
    BY Disjoint DEF Objects
<1>5. /\ Sound(Born(s), live) /\ s \notin live /\ Born(s).mem = mem
      /\ live \in SUBSET Objects
    BY <1>1, Births, AtRest
<1>6. r.fate # "bad_alloc" =>
          Made(r, Born(s), live, s, AsCString(Born(s).mem[c], 0))
    BY <1>3, <1>4, <1>5, FromCharsSound
<1> PICK text : text = AsCString(Born(s).mem[c], 0)
    OBVIOUS
<1>7. text = Prefix(CallerText[c], Leading(CallerText[c], Chars \ {Nul}))
    <2>1. /\ Born(s).mem[c] = Append(CallerText[c], Nul)
          /\ CallerText[c] \in Seq(Chars)
        BY <1>5, CallersText
    <2> QED BY <2>1, CStringOfCaller
<1> HIDE DEF r
<1>8. Fits(r, [Texts EXCEPT ![s] = text])
    BY <1>1, <1>6, MadeFits
<1>9. StorageInv' /\ Gave(s, text)
    BY <1>1, <1>8, BecomesSound DEF Gave
<1> QED BY <1>7, <1>9

LEMMA CopyConstructStep ==
    ASSUME Contract, StorageInv, NEW s \in Strings, NEW u \in Strings,
           CopyConstruct(s, u)
    PROVE  StorageInv' /\ Gave(s, Text(Now, u))
<1> DEFINE r == CopyInto(Born(s), s, u)
<1>1. Absent(s) /\ u \in live /\ MayCopy(u) /\ Becomes(r)
    BY ReadsSafely DEF CopyConstruct, Alive
<1>2. /\ Sound(Born(s), live) /\ s \in Objects /\ s \notin live
      /\ live \in SUBSET Objects
      /\ Born(s).obj[u].own \/ Born(s).obj[u].buf # u
    <2>1. obj[u].own \/ obj[u].buf # u
        BY <1>1, AtRest DEF Contract, MayCopy, IsLocal
    <2> QED BY <2>1, <1>1, Births, AtRest
<1>3. r.fate # "bad_alloc" => Made(r, Born(s), live, s, Text(Born(s), u))
    BY <1>1, <1>2, CopySound
<1>4. Text(Born(s), u) = Text(Now, u)
    BY <1>1, AtRest, Births
<1> HIDE DEF r
<1>5. Fits(r, [Texts EXCEPT ![s] = Text(Now, u)])
    BY <1>1, <1>3, <1>4, MadeFits
<1> QED BY <1>1, <1>5, BecomesSound DEF Gave

(* What a move makes of the texts.                                         *)
MovedTexts(s, u) == [Texts EXCEPT ![s] = Text(Now, u), ![u] = <<>>]

LEMMA MoveFits ==
    ASSUME StorageInv, NEW s \in Strings, NEW u \in live, s # u, NEW r,
           r.fate = "ok", r.live = live \cup {s}, Sound(r, r.live),
           Text(r, s) = Text(Now, u), Text(r, u) = <<>>,
           Keeps(r, Now, (live \ {s}) \ {u})
    PROVE  Fits(r, MovedTexts(s, u))
<1>1. Now.live = live /\ u \in Strings
    BY AtRest
<1>2. \A x \in (Strings \ {s}) \ {u} :
         (IF x \in r.live THEN Text(r, x) ELSE Null) =
         (IF x \in live THEN Text(Now, x) ELSE Null)
    BY DEF Keeps
<1>3. TextsOf(r) = MovedTexts(s, u)
    BY <1>1, <1>2 DEF TextsOf, Texts, MovedTexts
<1> QED BY <1>3 DEF Fits

LEMMA MoveConstructStep ==
    ASSUME StorageInv, NEW s \in Strings, NEW u \in Strings, MoveConstruct(s, u)
    PROVE  StorageInv' /\ s # u /\ Gives(MovedTexts(s, u))
<1> DEFINE r == MoveInto(Born(s), s, u)
<1>1. Absent(s) /\ u \in live /\ Becomes(r) /\ s # u
    BY DEF MoveConstruct, Alive, Absent
<1>2. /\ Takes(r, Born(s), live \cup {s}) /\ Keeps(r, Born(s), live \ {u})
      /\ TextMoves(r, Born(s), s, u)
    BY <1>1, Births, AtRest, MoveSound
<1> HIDE DEF r
<1>3. /\ r.fate = "ok" /\ r.live = live \cup {s} /\ Sound(r, r.live)
    BY <1>1, <1>2, Births DEF Takes
<1>4. Text(r, s) = Text(Now, u) /\ Text(r, u) = <<>>
    BY <1>1, <1>2, Births, AtRest DEF TextMoves
<1>5. Keeps(r, Now, (live \ {s}) \ {u})
    BY <1>1, <1>2, Births, AtRest DEF Keeps
<1>6. Fits(r, MovedTexts(s, u))
    BY <1>1, <1>3, <1>4, <1>5, MoveFits
<1> QED BY <1>1, <1>6, BecomesSound

LEMMA DestroyStep ==
    ASSUME StorageInv, NEW s \in Strings, Destroy(s)
    PROVE  StorageInv' /\ Gave(s, Null)
<1> DEFINE d == Destructed(Now, s)
           r == Emptied(d, s)
           B == live \ {s}
<1>1. s \in live /\ fate = "ok" /\ Becomes(r)
    BY DEF Destroy, Alive, Emptied
<1>2. Takes(d, Now, B) /\ Keeps(d, Now, B)
    BY <1>1, AtRest, DestructedSound
<1> HIDE DEF d
<1>3. /\ B \in SUBSET Objects /\ s \notin B /\ s \in Objects
      /\ Sound(d, B) /\ d.fate = "ok" /\ d.live = live
    BY <1>1, <1>2, AtRest DEF Takes
<1>4. /\ Sound(r, B) /\ r.live = d.live \ {s} /\ r.fate = d.fate
      /\ Keeps(r, d, B)
    BY <1>3, EmptiedSound
<1> HIDE DEF r
<1>5. TextsOf(r) = [Texts EXCEPT ![s] = Null]
    <2>1. Now.live = live
        BY AtRest
    <2>2. \A u \in Strings \ {s} :
             (IF u \in r.live THEN Text(r, u) ELSE Null) =
             (IF u \in live THEN Text(Now, u) ELSE Null)
        BY <1>2, <1>3, <1>4 DEF Keeps
    <2>3. s \notin r.live
        BY <1>4
    <2> QED BY <2>1, <2>2, <2>3 DEF TextsOf, Texts
<1>6. Fits(r, [Texts EXCEPT ![s] = Null])
    BY <1>3, <1>4, <1>5 DEF Fits
<1> QED BY <1>1, <1>6, BecomesSound DEF Gave

LEMMA CopyAssignStep ==
    ASSUME Contract, StorageInv, NEW s \in Strings, NEW u \in Strings,
           CopyAssign(s, u)
    PROVE  /\ StorageInv'
           /\ \/ obj[u].buf = Null /\ Faults("null_read")
              \/ \E text : Gave(s, text) /\ CopyOf(text, Text(Now, u))
<1> DEFINE r == CopyAssigned(Now, s, u)
<1>1. s \in live /\ u \in live /\ fate = "ok" /\ MayCopy(u) /\ Becomes(r)
    BY DEF CopyAssign, Alive
<1>2. Now.obj[u].own \/ Now.obj[u].buf # u
    BY <1>1, AtRest DEF Contract, MayCopy, IsLocal
<1>3. \/ obj[u].buf = Null /\ r = Fault(Now, "null_read")
      \/ \E text : Edited(r, Now, live, s, text) /\ CopyOf(text, Text(Now, u))
    BY <1>1, <1>2, AtRest, CopyAssignedSound
<1> HIDE DEF r
<1>4. ASSUME NEW text, Edited(r, Now, live, s, text), CopyOf(text, Text(Now, u))
      PROVE  StorageInv' /\ Gave(s, text)
    <2>1. Fits(r, [Texts EXCEPT ![s] = text])
        BY <1>1, <1>4, EditFits
    <2> QED BY <2>1, <1>1, BecomesSound DEF Gave
<1> QED BY <1>1, <1>3, <1>4, NullRead

LEMMA MoveAssignStep ==
    ASSUME StorageInv, NEW s \in Strings, NEW u \in Strings, MoveAssign(s, u)
    PROVE  StorageInv' /\ Gives(IF s = u THEN Texts ELSE MovedTexts(s, u))
<1> DEFINE d == Destructed(Now, s)
           m == MoveInto(d, s, u)
           r == MoveAssigned(Now, s, u)
           B == live \ {s}
<1>1. s \in live /\ u \in live /\ fate = "ok" /\ Becomes(r)
    BY DEF MoveAssign, Alive
<1>2. CASE s = u
    <2>1. r = Now
        BY <1>2 DEF MoveAssigned
    <2>2. Fits(r, Texts)
        BY <2>1, <1>1, AtRest DEF Fits, Texts
    <2> HIDE DEF r
    <2> QED BY <2>2, <1>1, <1>2, BecomesSound
<1>3. CASE s # u
    <2>1. r = m
        BY <1>3 DEF MoveAssigned
    <2>2. Takes(d, Now, B) /\ Keeps(d, Now, B)
        BY <1>1, AtRest, DestructedSound
    <2> HIDE DEF d
    <2>3. /\ B \in SUBSET Objects /\ s \notin B /\ s \in Objects /\ u \in B
          /\ Sound(d, B) /\ d.fate = "ok" /\ d.live = live
          /\ B \cup {s} = live
        BY <1>1, <1>3, <2>2, AtRest DEF Takes
    <2>4. /\ Takes(m, d, B \cup {s}) /\ Keeps(m, d, B \ {u})
          /\ TextMoves(m, d, s, u)
        BY <2>3, MoveSound
    <2> HIDE DEF m, r
    <2>5. /\ r.fate = "ok" /\ r.live = live \cup {s} /\ Sound(r, r.live)
        BY <2>1, <2>3, <2>4 DEF Takes
    <2>6. Text(r, s) = Text(Now, u) /\ Text(r, u) = <<>>
        BY <2>1, <2>2, <2>3, <2>4 DEF TextMoves, Keeps
    <2>7. Keeps(r, Now, (live \ {s}) \ {u})
        BY <2>1, <2>2, <2>4 DEF Keeps
    <2>8. Fits(r, MovedTexts(s, u))
        BY <1>1, <1>3, <2>5, <2>6, <2>7, MoveFits
    <2> QED BY <2>8, <1>1, <1>3, BecomesSound
<1> QED BY <1>2, <1>3

LEMMA TrimStep ==
    ASSUME StorageInv, NEW s \in Strings, Trim(s)
    PROVE  StorageInv' /\ Gave(s, Value!Between(Text(Now, s), Low))
<1> DEFINE r == Trimmed(Now, s)
           text == Value!Between(Text(Now, s), Low)
<1>1. s \in live /\ fate = "ok" /\ Becomes(r)
    BY ReadsSafely DEF Trim, Alive
<1>2. Edited(r, Now, live, s, text)
    BY <1>1, AtRest, TrimmedSound
<1> HIDE DEF r, text
<1>3. Fits(r, [Texts EXCEPT ![s] = text])
    BY <1>1, <1>2, EditFits
<1> QED BY <1>1, <1>3, BecomesSound DEF Gave, text

LEMMA StripTrailingStep ==
    ASSUME StorageInv, NEW s \in Strings, StripTrailing(s)
    PROVE  StorageInv' /\ Gave(s, Value!UpTo(Text(Now, s), White))
<1> DEFINE r == TrailingStripped(Now, s)
           text == Value!UpTo(Text(Now, s), White)
<1>1. s \in live /\ fate = "ok" /\ Becomes(r)
    BY ReadsSafely DEF StripTrailing, Alive
<1>2. Edited(r, Now, live, s, text)
    BY <1>1, AtRest, TrailingStrippedSound
<1> HIDE DEF r, text
<1>3. Fits(r, [Texts EXCEPT ![s] = text])
    BY <1>1, <1>2, EditFits
<1> QED BY <1>1, <1>3, BecomesSound DEF Gave, text

LEMMA StripLeadingStep ==
    ASSUME StorageInv, NEW s \in Strings, StripLeading(s)
    PROVE  /\ StorageInv'
           /\ \/ obj[s].buf = Null /\ Faults("null_read")
              \/ Gave(s, Value!From(Text(Now, s), White))
<1> DEFINE r == LeadingStripped(Now, s)
           text == Value!From(Text(Now, s), White)
<1>1. s \in live /\ fate = "ok" /\ Becomes(r)
    BY ReadsSafely DEF StripLeading, Alive
<1>2. \/ obj[s].buf = Null /\ r = Fault(Now, "null_read")
      \/ Edited(r, Now, live, s, text)
    BY <1>1, AtRest, LeadingStrippedSound
<1> HIDE DEF r, text
<1>3. ASSUME Edited(r, Now, live, s, text)
      PROVE  StorageInv' /\ Gave(s, text)
    <2>1. Fits(r, [Texts EXCEPT ![s] = text])
        BY <1>1, <1>3, EditFits
    <2> QED BY <2>1, <1>1, BecomesSound DEF Gave
<1> QED BY <1>1, <1>2, <1>3, NullRead DEF text

LEMMA StripStep ==
    ASSUME StorageInv, NEW s \in Strings, Strip(s)
    PROVE  /\ StorageInv'
           /\ \/ obj[s].buf = Null /\ Faults("null_read")
              \/ Gave(s, Value!Between(Text(Now, s), White))
<1> DEFINE w == LeadingStripped(Now, s)
           r == IF w.fate = "ok" THEN TrailingStripped(w, s) ELSE w
           start == Value!From(Text(Now, s), White)
           text == Value!UpTo(start, White)
<1>1. s \in live /\ fate = "ok" /\ Becomes(r)
    BY ReadsSafely DEF Strip, Alive
<1>2. \/ obj[s].buf = Null /\ w = Fault(Now, "null_read")
      \/ Edited(w, Now, live, s, start)
    BY <1>1, AtRest, LeadingStrippedSound
<1>3. text = Value!Between(Text(Now, s), White)
    BY DEF Value!Between
<1> HIDE DEF w, start
<1>4. CASE w.fate # "ok"
    <2>1. r = w
        BY <1>4
    <2> HIDE DEF r, text
    <2>2. CASE obj[s].buf = Null /\ w = Fault(Now, "null_read")
        BY <2>1, <2>2, <1>1, NullRead
    <2>3. CASE Edited(w, Now, live, s, start)
        <3>1. Fits(r, [Texts EXCEPT ![s] = text])
            BY <2>1, <2>3, <1>4 DEF Edited, Fits
        <3>2. StorageInv' /\ Gave(s, text)
            BY <3>1, <1>1, BecomesSound DEF Gave
        <3> QED BY <3>2, <1>3
    <2> QED BY <2>2, <2>3, <1>2
<1>5. CASE w.fate = "ok"
    <2>1. ~(w = Fault(Now, "null_read"))
        BY <1>5, AtRest DEF Fault, Worlds
    <2>2. /\ Sound(w, live) /\ w.live = live
          /\ Text(w, s) = start /\ Keeps(w, Now, live \ {s})
        <3>1. Edited(w, Now, live, s, start) /\ w.fate # "bad_alloc"
            BY <1>2, <1>5, <2>1
        <3>2. Now.live = live
            BY AtRest
        <3> QED BY <3>1, <3>2 DEF Edited
    <2>3. r = TrailingStripped(w, s)
        BY <1>5
    <2>4. Edited(r, w, live, s, text)
        BY <2>2, <2>3, <1>1, <1>5, AtRest, TrailingStrippedSound
    <2> HIDE DEF r, text
    <2>5. Edited(r, Now, live, s, text)
        BY <2>2, <2>4, AtRest DEF Edited, Keeps
    <2>6. Fits(r, [Texts EXCEPT ![s] = text])
        BY <2>5, <1>1, EditFits
    <2>7. StorageInv' /\ Gave(s, text)
        BY <2>6, <1>1, BecomesSound DEF Gave
    <2> QED BY <2>7, <1>3
<1> QED BY <1>4, <1>5

(* What free() says of a buffer whose head was cut, Reset passes on.       *)
LEMMA ResetOfCut ==
    ASSUME StorageInv, NEW s \in live, HeadCut(s)
    PROVE  ResetDone(Now, s).fate = "invalid_free"
<1> PICK o : o = Now.obj[s]
    OBVIOUS
<1> DEFINE f == IF ~IsLocal(Now, s) /\ o.own THEN Free(Now, o.buf, o.off) ELSE Now
<1>1. o.own /\ o.buf # s /\ o.off # 0 /\ ~IsLocal(Now, s)
    BY AtRest DEF HeadCut, IsLocal
<1>2. o.buf # Null
    <2>1. Intact(Now, s) /\ s \in Objects
        BY AtRest DEF Sound
    <2> QED BY <2>1, <1>1, Disjoint DEF Intact, Placed
<1>3. f = Fault(Now, "invalid_free")
    BY <1>1, <1>2 DEF Free
<1>4. f.fate = "invalid_free" /\ f \in Worlds
    BY <1>3, AtRest DEF Fault, Worlds
<1> HIDE DEF f
<1> QED BY <1>4 DEF ResetDone, f, Worlds

LEMMA ResetStep ==
    ASSUME StorageInv, NEW s \in Strings, Reset(s)
    PROVE  /\ StorageInv'
           /\ \/ HeadCut(s) /\ Faults("invalid_free")
              \/ Gave(s, <<>>)
<1> DEFINE r == ResetDone(Now, s)
<1>1. s \in live /\ fate = "ok" /\ Becomes(r)
    BY DEF Reset, Alive
<1>2. CASE HeadCut(s)
    <2>1. r.fate = "invalid_free"
        BY <1>1, <1>2, ResetOfCut
    <2> HIDE DEF r
    <2> QED BY <2>1, <1>1, <1>2, BecomesEnded
<1>3. CASE ~HeadCut(s)
    <2>1. Now.obj[s].own /\ Now.obj[s].buf # s => Now.obj[s].off = 0
        BY <1>3, AtRest DEF HeadCut
    <2>2. Edited(r, Now, live, s, <<>>)
        BY <1>1, <2>1, AtRest, ResetSound
    <2> HIDE DEF r
    <2>3. Fits(r, [Texts EXCEPT ![s] = <<>>])
        BY <1>1, <2>2, EditFits
    <2> QED BY <1>1, <2>3, BecomesSound DEF Gave
<1> QED BY <1>2, <1>3

(* What the static functions hand to the constructor is a text.            *)
LEMMA StaticTexts ==
    ASSUME NEW text \in Seq(Chars)
    PROVE  /\ StaticTrimText(text) \in Seq(Chars)
           /\ StaticStripTrailingText(text) \in Seq(Chars)
           /\ StaticStripLeadingText(text) \in Seq(Chars)
           /\ StaticStripText(text) \in Seq(Chars)
<1>1. ASSUME NEW t \in Seq(Chars)
      PROVE  StaticStripTrailingText(t) \in Seq(Chars)
    <2>1. Trailing(t, White) \in 0..Len(t) /\ Len(t) \in Nat
        BY TrailingProperties
    <2>2. PICK n : n = Len(t) - Trailing(t, White)
        OBVIOUS
    <2>3. n \in 0..Len(t)
        BY <2>1, <2>2
    <2>4. Prefix(t, n) \in Seq(Chars)
        BY <2>3, PrefixProperties
    <2> QED BY <2>2, <2>4 DEF StaticStripTrailingText
<1>2. StaticStripLeadingText(text) \in Seq(Chars)
    <2>1. Leading(text, White) \in 0..Len(text)
        BY LeadingProperties
    <2> QED BY <2>1, DropProperties DEF StaticStripLeadingText
<1>3. StaticTrimText(text) \in Seq(Chars)
    <2>1. PICK n : n = Leading(text, Low)
        OBVIOUS
    <2>2. n \in 0..Len(text)
        BY <2>1, LeadingProperties
    <2>3. PICK t : t = Drop(text, n)
        OBVIOUS
    <2>4. t \in Seq(Chars)
        BY <2>2, <2>3, DropProperties
    <2>5. PICK k : k = Len(t) - Trailing(t, Low)
        OBVIOUS
    <2>6. k \in 0..Len(t)
        <3>1. Trailing(t, Low) \in 0..Len(t) /\ Len(t) \in Nat
            BY <2>4, TrailingProperties
        <3> QED BY <3>1, <2>5
    <2>7. Prefix(t, k) \in Seq(Chars)
        BY <2>4, <2>6, PrefixProperties
    <2>8. <<>> \in Seq(Chars)
        OBVIOUS
    <2> QED BY <2>1, <2>3, <2>5, <2>7, <2>8 DEF StaticTrimText
<1> QED BY <1>1, <1>2, <1>3 DEF StaticStripText

LEMMA StaticStep ==
    ASSUME StorageInv, NEW s \in Strings, NEW u \in Strings
    PROVE  LET text == Text(Now, u)
           IN  /\ StaticTrim(s, u) =>
                     StorageInv' /\ Gave(s, StaticTrimText(text))
               /\ StaticStrip(s, u) =>
                     StorageInv' /\ Gave(s, StaticStripText(text))
               /\ StaticStripLeading(s, u) =>
                     StorageInv' /\ Gave(s, StaticStripLeadingText(text))
               /\ StaticStripTrailing(s, u) =>
                     StorageInv' /\ Gave(s, StaticStripTrailingText(text))
<1> DEFINE text == Text(Now, u)
<1>1. ASSUME NEW t \in Seq(Chars), Absent(s), u \in live,
             Reads(u, Construct(Born(s), s, t))
      PROVE  StorageInv' /\ Gave(s, t)
    <2>1. Becomes(Construct(Born(s), s, t))
        BY <1>1, ReadsSafely
    <2> QED BY <2>1, <1>1, MadeFromText
<1>2. u \in live =>
         /\ StaticTrimText(text) \in Seq(Chars)
         /\ StaticStripText(text) \in Seq(Chars)
         /\ StaticStripLeadingText(text) \in Seq(Chars)
         /\ StaticStripTrailingText(text) \in Seq(Chars)
    <2>1. u \in live => text \in Seq(Chars)
        BY AtRest, TextProperties
    <2> HIDE DEF text
    <2> QED BY <2>1, StaticTexts
<1>3. StaticTrim(s, u) => StorageInv' /\ Gave(s, StaticTrimText(text))
    BY <1>1, <1>2 DEF StaticTrim, Alive
<1>4. StaticStrip(s, u) => StorageInv' /\ Gave(s, StaticStripText(text))
    BY <1>1, <1>2 DEF StaticStrip, Alive
<1>5. StaticStripLeading(s, u) =>
          StorageInv' /\ Gave(s, StaticStripLeadingText(text))
    BY <1>1, <1>2 DEF StaticStripLeading, Alive
<1>6. StaticStripTrailing(s, u) =>
          StorageInv' /\ Gave(s, StaticStripTrailingText(text))
    BY <1>1, <1>2 DEF StaticStripTrailing, Alive
<1> QED BY <1>3, <1>4, <1>5, <1>6

LEMMA StorageInvStep ==
    ASSUME Contract, StorageInv, [Next]_vars
    PROVE  StorageInv'
<1>1. ASSUME NEW s \in Strings,
             \/ ConstructDefault(s) \/ Destroy(s) \/ Reset(s)
             \/ Trim(s) \/ Strip(s) \/ StripLeading(s) \/ StripTrailing(s)
      PROVE  StorageInv'
    BY <1>1, ConstructDefaultStep, DestroyStep, ResetStep, TrimStep, StripStep,
       StripLeadingStep, StripTrailingStep
<1>2. ASSUME NEW s \in Strings, NEW c \in Callers,
             \/ ConstructBytes(s, c)
             \/ \E ref \in BOOLEAN : ConstructChars(s, c, ref)
      PROVE  StorageInv'
    BY <1>2, ConstructBytesStep, ConstructCharsStep
<1>3. ASSUME NEW s \in Strings, NEW u \in Strings,
             \/ CopyConstruct(s, u) \/ MoveConstruct(s, u)
             \/ CopyAssign(s, u) \/ MoveAssign(s, u)
      PROVE  StorageInv'
    BY <1>3, CopyConstructStep, MoveConstructStep, CopyAssignStep, MoveAssignStep
<1>4. ASSUME NEW s \in Strings, NEW u \in Strings,
             \/ StaticTrim(s, u) \/ StaticStrip(s, u)
             \/ StaticStripLeading(s, u) \/ StaticStripTrailing(s, u)
      PROVE  StorageInv'
    BY <1>4, StaticStep
<1>5. CASE UNCHANGED vars
    BY <1>5 DEF vars, StorageInv, Now
<1> QED BY <1>1, <1>2, <1>3, <1>4, <1>5 DEF Next, Ended

LEMMA StorageInvInit == Init => StorageInv
<1> SUFFICES ASSUME Init PROVE StorageInv
    OBVIOUS
<1>1. Now \in Worlds
    <2>1. <<Nul>> \in Seq(Chars) /\ MovedFrom \in Fields
        BY CharsAssumption DEF MovedFrom, Fields
    <2>2. \A c \in Callers : Append(CallerText[c], Nul) \in Seq(Chars)
        BY CharsAssumption
    <2> QED BY <2>1, <2>2 DEF Init, Now, Worlds
<1>2. CallersKept(Now)
    BY Disjoint DEF Init, Now, CallersKept
<1>3. live = {} /\ lost = {} /\ \A b \in Blocks : heap[b] = "unused"
    BY DEF Init
<1>4. Separate(Now, live) /\ Accounted(Now, live)
    BY <1>3 DEF Separate, Accounted, Now
<1>5. fate = "ok"
    BY DEF Init
<1> QED BY <1>1, <1>2, <1>3, <1>4, <1>5 DEF StorageInv, Sound

-----------------------------------------------------------------------------
(* What follows.                                                           *)

(* The buffers of string objects are sound between two operations.         *)
THEOREM StorageSound ==
    ASSUME Contract
    PROVE  Spec => []StorageInv
<1>1. Init => StorageInv
    BY StorageInvInit
<1>2. StorageInv /\ [Next]_vars => StorageInv'
    BY StorageInvStep
<1> QED BY <1>1, <1>2, PTL DEF Spec

LEMMA StorageTypes ==
    ASSUME StorageInv
    PROVE  TypeOK
<1>1. Now \in Worlds
    BY AtRest
<1> QED BY <1>1 DEF Worlds, Now, TypeOK, Undefined

(* Every variable of StringStorage keeps its type.                         *)
THEOREM StorageTypeCorrect ==
    ASSUME Contract
    PROVE  Spec => []TypeOK
<1>1. StorageInv => TypeOK
    BY StorageTypes
<1> QED BY <1>1, StorageSound, PTL

(* A string reads through a null pointer only where StripLeading, Strip or *)
(* a copy assignment meets an object that was moved from, and frees what   *)
(* malloc did not return only in Reset of an object whose start was cut    *)
(* off; it never uses or frees freed memory and no length wraps.           *)
THEOREM OnlyKnownFaultsCorrect ==
    ASSUME Contract
    PROVE  Spec => OnlyKnownFaults
<1> DEFINE
      Known ==
        \/ fate' \in {"ok", "bad_alloc"}
        \/ fate' = "null_read" /\ \E s \in live : obj[s].buf = Null /\ ReadsFrom(s)
        \/ fate' = "invalid_free" /\ \E s \in live : HeadCut(s) /\ Reset(s)
<1>1. ASSUME StorageInv, NEW s \in Strings,
             \/ ConstructDefault(s) \/ Destroy(s) \/ Reset(s)
             \/ Trim(s) \/ Strip(s) \/ StripLeading(s) \/ StripTrailing(s)
      PROVE  Known
    <2>1. CASE ConstructDefault(s) \/ Destroy(s) \/ Trim(s) \/ StripTrailing(s)
        BY <1>1, <2>1, ConstructDefaultStep, DestroyStep, TrimStep,
           StripTrailingStep DEF Gave, Gives
    <2>2. CASE Strip(s) \/ StripLeading(s)
        <3>1. s \in live /\ ReadsFrom(s)
            BY <2>2 DEF Strip, StripLeading, Alive, ReadsFrom
        <3> QED BY <1>1, <2>2, <3>1, StripStep, StripLeadingStep
                DEF Gave, Gives, Faults
    <2>3. CASE Reset(s)
        <3>1. s \in live
            BY <2>3 DEF Reset, Alive
        <3> QED BY <1>1, <2>3, <3>1, ResetStep DEF Gave, Gives, Faults
    <2> QED BY <1>1, <2>1, <2>2, <2>3
<1>2. ASSUME StorageInv, NEW s \in Strings, NEW c \in Callers,
             \/ ConstructBytes(s, c)
             \/ \E ref \in BOOLEAN : ConstructChars(s, c, ref)
      PROVE  Known
    BY <1>2, ConstructBytesStep, ConstructCharsStep DEF Gave, Gives
<1>3. ASSUME StorageInv, NEW s \in Strings, NEW u \in Strings,
             \/ CopyConstruct(s, u) \/ MoveConstruct(s, u)
             \/ CopyAssign(s, u) \/ MoveAssign(s, u)
      PROVE  Known
    <2>1. CASE CopyConstruct(s, u) \/ MoveConstruct(s, u) \/ MoveAssign(s, u)
        BY <1>3, <2>1, CopyConstructStep, MoveConstructStep, MoveAssignStep
           DEF Gave, Gives
    <2>2. CASE CopyAssign(s, u)
        <3>1. u \in live /\ ReadsFrom(u)
            BY <2>2 DEF CopyAssign, Alive, ReadsFrom
        <3> QED BY <1>3, <2>2, <3>1, CopyAssignStep DEF Gave, Gives, Faults
    <2> QED BY <1>3, <2>1, <2>2
<1>4. ASSUME StorageInv, NEW s \in Strings, NEW u \in Strings,
             \/ StaticTrim(s, u) \/ StaticStrip(s, u)
             \/ StaticStripLeading(s, u) \/ StaticStripTrailing(s, u)
      PROVE  Known
    BY <1>4, StaticStep DEF Gave, Gives
<1>5. ASSUME StorageInv, Next
      PROVE  Known \/ UNCHANGED vars
    BY <1>1, <1>2, <1>3, <1>4, <1>5 DEF Next, Ended
<1> HIDE DEF Known
<1>6. StorageInv /\ [Next]_vars => [Known]_vars
    BY <1>5
<1>7. Spec => [][Known]_vars
    BY <1>6, StorageSound, PTL DEF Spec
<1> QED BY <1>7 DEF OnlyKnownFaults, Known

(* After every operation the characters of an object end with '\0' inside  *)
(* their buffer, and local_buf_ holds no more than its capacity.           *)
THEOREM TerminatedCorrect ==
    ASSUME Contract
    PROVE  Spec => []Terminated
<1>1. StorageInv => Terminated
    BY AtRest DEF Sound, Intact, Ends, Terminated
<1> QED BY <1>1, StorageSound, PTL

(* No block of the heap is the buffer of two objects, and none that is not *)
(* allocated is the buffer or the head of any.                             *)
THEOREM SoleUserCorrect ==
    ASSUME Contract
    PROVE  Spec => []SoleUser
<1>1. ASSUME StorageInv, NEW b \in Blocks
      PROVE  /\ Cardinality(Users(b)) <= 1
             /\ Users(b) \cup Heads(b) # {} => heap[b] = "allocated"
    <2>1. \A s, t \in Users(b) : s = t
        BY <1>1, AtRest DEF Sound, Separate, Users
    <2>2. Users(b) = {} \/ \E s : Users(b) = {s}
        BY <2>1
    <2>3. Cardinality(Users(b)) = 0 \/ Cardinality(Users(b)) = 1
        BY <2>2, FS_EmptySet, FS_Singleton
    <2>4. ASSUME NEW s \in live
          PROVE  /\ obj[s].head = b => obj[s].buf = b
                 /\ obj[s].buf = b => heap[b] = "allocated"
        BY <1>1, AtRest, Disjoint DEF Sound, Intact, Placed, Now
    <2>5. Cardinality(Users(b)) <= 1
        BY <2>3
    <2> QED BY <2>4, <2>5 DEF Users, Heads
<1>2. StorageInv => SoleUser
    BY <1>1 DEF SoleUser
<1> QED BY <1>2, StorageSound, PTL

(* An allocated block has exactly one object that will free it, and that   *)
(* object alone uses it, unless a move left its head behind.               *)
THEOREM LostOnlyByMoveCorrect ==
    ASSUME Contract
    PROVE  Spec => []LostOnlyByMove
<1>1. ASSUME StorageInv, NEW b \in Blocks, heap[b] = "allocated"
      PROVE  IF b \in lost THEN Heads(b) = {}
             ELSE Cardinality(Heads(b)) = 1 /\ Users(b) = Heads(b)
    <2>1. Separate(Now, live) /\ Accounted(Now, live)
        BY <1>1, AtRest DEF Sound
    <2>2. CASE b \in lost
        BY <2>1, <2>2 DEF Accounted, Now, Heads
    <2>3. CASE b \notin lost
        <3>1. PICK s \in live : obj[s].head = b
            BY <1>1, <2>1, <2>3 DEF Accounted, Now
        <3>2. \A t \in live : obj[t].head = b => obj[t].buf = b
            BY <1>1, AtRest, Disjoint DEF Sound, Intact, Placed, Now
        <3>3. \A t \in live : obj[t].buf = b => t = s
            BY <2>1, <3>1, <3>2 DEF Separate, Now
        <3>4. Heads(b) = {s} /\ Users(b) = {s}
            BY <3>1, <3>2, <3>3 DEF Heads, Users
        <3> QED BY <3>4, <2>3, FS_Singleton
    <2> QED BY <2>2, <2>3
<1>2. StorageInv => LostOnlyByMove
    BY <1>1 DEF LostOnlyByMove
<1> QED BY <1>2, StorageSound, PTL

-----------------------------------------------------------------------------
(***************************************************************************)
(* The storage of strings implements strings as values: every operation    *)
(* does to the texts of the objects what StringValue says, as long as no   *)
(* caller's text has a '\0' inside.  Copy assignment needs that of every   *)
(* text an object ever has, so it is carried along as an invariant.        *)
(***************************************************************************)

(* No caller's text has a '\0' inside.                                     *)
NulFree == \A c \in Callers : CallerText[c] \in Seq(Chars \ {Nul})

(* Nor has the text of an object.                                          *)
Clean == \A s \in Strings : Texts[s] # Null => Texts[s] \in Seq(Chars \ {Nul})

ValueInv == StorageInv /\ Clean

LEMMA TextsHeld ==
    ASSUME StorageInv, NEW s \in Strings
    PROVE  /\ s \in live => /\ Texts[s] = Text(Now, s)
                            /\ Texts[s] \in Seq(Chars)
           /\ s \in live <=> Value!Exists(s)
<1>1. /\ s \in live => Texts[s] = Text(Now, s)
      /\ s \notin live => Texts[s] = Null
    BY AtRest DEF Texts, TextsOf
<1>2. s \in live => Text(Now, s) \in Seq(Chars)
    BY AtRest, TextProperties
<1> QED BY <1>1, <1>2, NullAssumption DEF Value!Exists

(* The empty text stays empty.                                             *)
LEMMA EmptyText == <<>> = Value!Empty
BY DEF Value!Empty

-----------------------------------------------------------------------------
(* Each operation, by what its name says of texts.                         *)

LEMMA GetsValue ==
    ASSUME NEW s, NEW text, Gave(s, text), fate' = "ok"
    PROVE  Value!Gets(s, text)
BY DEF Gave, Gives, Value!Gets

LEMMA ConstructsValue ==
    ASSUME StorageInv, NEW s \in Strings, fate' = "ok",
           \/ ConstructDefault(s)
           \/ \E c \in Callers : \/ ConstructBytes(s, c)
                                 \/ \E ref \in BOOLEAN : ConstructChars(s, c, ref)
    PROVE  Value!Construct(s)
<1>1. ~Value!Exists(s)
    BY TextsHeld DEF ConstructDefault, ConstructBytes, ConstructChars, Absent
<1>2. \E text \in CallerInputs \cup {Value!Empty} : Value!Gets(s, text)
    <2>1. CASE ConstructDefault(s)
        BY <2>1, ConstructDefaultStep, GetsValue, EmptyText
    <2>2. ASSUME NEW c \in Callers, ConstructBytes(s, c)
          PROVE  \E text \in CallerInputs : Value!Gets(s, text)
        <3>1. CallerText[c] \in CallerInputs
            BY DEF CallerInputs
        <3>2. Value!Gets(s, CallerText[c])
            BY <2>2, ConstructBytesStep, GetsValue
        <3> QED BY <3>1, <3>2
    <2>3. ASSUME NEW c \in Callers, NEW ref \in BOOLEAN, ConstructChars(s, c, ref)
          PROVE  \E text \in CallerInputs : Value!Gets(s, text)
        <3> DEFINE t == Prefix(CallerText[c], Leading(CallerText[c], Chars \ {Nul}))
        <3>1. t \in CallerInputs
            BY DEF CallerInputs
        <3>2. Value!Gets(s, t)
            BY <2>3, ConstructCharsStep, GetsValue
        <3> QED BY <3>1, <3>2
    <2> QED BY <2>1, <2>2, <2>3
<1> QED BY <1>1, <1>2 DEF Value!Construct

LEMMA MovesValue ==
    ASSUME StorageInv, NEW s \in Strings, NEW u \in live, fate' = "ok",
           Gives(IF s = u THEN Texts ELSE MovedTexts(s, u))
    PROVE  Value!Move(s, u)
<1>1. u \in Strings
    BY AtRest
<1>2. Texts[u] = Text(Now, u) /\ Value!Exists(u)
    BY <1>1, TextsHeld
<1> QED BY <1>2, EmptyText DEF Gives, MovedTexts, Value!Move

LEMMA CopiesAssigned ==
    ASSUME Contract, StorageInv, NEW s \in Strings, NEW u \in Strings,
           fate' = "ok", CopyAssign(s, u), ~HasNul(u)
    PROVE  Value!CopyAssign(s, u)
<1>1. s \in live /\ u \in live
    BY DEF CopyAssign, Alive
<1>2. /\ Value!Exists(s) /\ Value!Exists(u) /\ Texts[u] = Text(Now, u)
    BY <1>1, TextsHeld
<1>3. PICK text : Gave(s, text) /\ CopyOf(text, Text(Now, u))
    BY CopyAssignStep DEF Faults
<1>4. \A i \in 1..Len(Text(Now, u)) : Text(Now, u)[i] # Nul
    BY <1>2 DEF HasNul
<1>5. text = Texts[u]
    BY <1>2, <1>3, <1>4 DEF CopyOf
<1>6. Value!Gets(s, Texts[u])
    BY <1>3, <1>5, GetsValue
<1> QED BY <1>2, <1>6 DEF Value!CopyAssign

LEMMA EditsValue ==
    ASSUME Contract, StorageInv, NEW s \in Strings, fate' = "ok"
    PROVE  EditsAsPromised(s)
<1>1. StorageInv
    OBVIOUS
<1>2. s \in live => Value!Exists(s) /\ Texts[s] = Text(Now, s)
    BY <1>1, TextsHeld
<1>3. Trim(s) => Value!Trim(s)
    BY <1>1, <1>2, TrimStep, GetsValue DEF Trim, Alive, Value!Trim
<1>4. Strip(s) => Value!Strip(s)
    BY <1>1, <1>2, StripStep, GetsValue DEF Strip, Alive, Value!Strip, Faults
<1>5. StripLeading(s) => Value!StripLeading(s)
    BY <1>1, <1>2, StripLeadingStep, GetsValue
       DEF StripLeading, Alive, Value!StripLeading, Faults
<1>6. StripTrailing(s) => Value!StripTrailing(s)
    BY <1>1, <1>2, StripTrailingStep, GetsValue
       DEF StripTrailing, Alive, Value!StripTrailing
<1>7. Reset(s) => Value!Reset(s)
    BY <1>1, <1>2, ResetStep, GetsValue, EmptyText
       DEF Reset, Alive, Value!Reset, Faults
<1>8. ASSUME NEW u \in Strings
      PROVE  /\ CopyAssign(s, u) /\ ~HasNul(u) => Value!CopyAssign(s, u)
             /\ MoveAssign(s, u) => Value!Move(s, u)
    <2>1. CopyAssign(s, u) /\ ~HasNul(u) => Value!CopyAssign(s, u)
        BY CopiesAssigned
    <2>2. MoveAssign(s, u) => Value!Move(s, u)
        BY <1>1, MoveAssignStep, MovesValue DEF MoveAssign, Alive
    <2> QED BY <2>1, <2>2
<1> QED BY <1>3, <1>4, <1>5, <1>6, <1>7, <1>8 DEF EditsAsPromised

LEMMA Derivations ==
    ASSUME StorageInv, NEW s \in Strings, NEW u \in Strings, fate' = "ok",
           Absent(s), Alive(u)
    PROVE  /\ StaticTrim(s, u) =>
                 IF Trims(u) THEN Value!StaticTrim(s, u) ELSE Value!Gets(s, <<>>)
           /\ StaticStrip(s, u)         => Value!StaticStrip(s, u)
           /\ StaticStripLeading(s, u)  => Value!StaticStripLeading(s, u)
           /\ StaticStripTrailing(s, u) => Value!StaticStripTrailing(s, u)
<1>1. ~Value!Exists(s) /\ Value!Exists(u)
    BY TextsHeld DEF Absent, Alive
<1> PICK text : text = Texts[u]
    OBVIOUS
<1>2. text = Text(Now, u) /\ text \in Seq(Chars)
    BY TextsHeld DEF Alive
<1>3. StaticTrim(s, u) =>
          IF Trims(u) THEN Value!StaticTrim(s, u) ELSE Value!Gets(s, <<>>)
    <2>1. StaticTrim(s, u) => Gave(s, StaticTrimText(text))
        BY <1>2, StaticStep
    <2>2. StaticTrimText(text) =
              IF Trims(u) THEN Value!Between(text, Low) ELSE <<>>
        BY <1>2, StaticTrimIsTrim DEF Trims
    <2> QED BY <2>1, <2>2, <1>1, GetsValue DEF Value!StaticTrim, Value!Derives
<1>4. StaticStrip(s, u) => Value!StaticStrip(s, u)
    <2>1. StaticStrip(s, u) => Gave(s, StaticStripText(text))
        BY <1>2, StaticStep
    <2>2. StaticStripText(text) = Value!Between(text, White)
        BY <1>2, StaticStripIsStrip
    <2> QED BY <2>1, <2>2, <1>1, GetsValue DEF Value!StaticStrip, Value!Derives
<1>5. StaticStripLeading(s, u) => Value!StaticStripLeading(s, u)
    <2>1. StaticStripLeading(s, u) => Gave(s, StaticStripLeadingText(text))
        BY <1>2, StaticStep
    <2>2. StaticStripLeadingText(text) = Value!From(text, White)
        BY <1>2, StaticStripIsStrip
    <2> QED BY <2>1, <2>2, <1>1, GetsValue DEF Value!StaticStripLeading, Value!Derives
<1>6. StaticStripTrailing(s, u) => Value!StaticStripTrailing(s, u)
    <2>1. StaticStripTrailing(s, u) => Gave(s, StaticStripTrailingText(text))
        BY <1>2, StaticStep
    <2>2. StaticStripTrailingText(text) = Value!UpTo(text, White)
        BY <1>2, StaticStripIsStrip
    <2> QED BY <2>1, <2>2, <1>1, GetsValue DEF Value!StaticStripTrailing, Value!Derives
<1> QED BY <1>3, <1>4, <1>5, <1>6

LEMMA MakesValue ==
    ASSUME Contract, StorageInv, NEW s \in Strings, fate' = "ok"
    PROVE  MadeAsPromised(s)
<1>1. Destroy(s) => Value!Destroy(s)
    BY TextsHeld, DestroyStep, GetsValue DEF Destroy, Alive, Value!Destroy
<1>2. ASSUME NEW u \in Strings, CopyConstruct(s, u)
      PROVE  Value!Copy(s, u)
    <2>1. ~Value!Exists(s) /\ Value!Exists(u) /\ Texts[u] = Text(Now, u)
        BY <1>2, TextsHeld DEF CopyConstruct, Absent, Alive
    <2>2. Value!Gets(s, Text(Now, u))
        BY <1>2, CopyConstructStep, GetsValue
    <2> QED BY <2>1, <2>2 DEF Value!Copy, Value!Derives
<1>3. ASSUME NEW u \in Strings, MoveConstruct(s, u)
      PROVE  Value!Move(s, u)
    <2>1. s # u /\ Gives(MovedTexts(s, u)) /\ u \in live
        BY <1>3, MoveConstructStep DEF MoveConstruct, Alive
    <2> QED BY <2>1, MovesValue
<1>4. ASSUME NEW u \in Strings
      PROVE  /\ StaticTrim(s, u) /\ Trims(u) => Value!StaticTrim(s, u)
             /\ StaticStrip(s, u)         => Value!StaticStrip(s, u)
             /\ StaticStripLeading(s, u)  => Value!StaticStripLeading(s, u)
             /\ StaticStripTrailing(s, u) => Value!StaticStripTrailing(s, u)
    <2>1. (StaticTrim(s, u) \/ StaticStrip(s, u) \/ StaticStripLeading(s, u)
              \/ StaticStripTrailing(s, u)) => Absent(s) /\ Alive(u)
        BY DEF StaticTrim, StaticStrip, StaticStripLeading, StaticStripTrailing
    <2> QED BY <2>1, Derivations
<1> QED BY <1>1, <1>2, <1>3, <1>4 DEF MadeAsPromised

-----------------------------------------------------------------------------
(* No operation puts a '\0' into a text.                                   *)

LEMMA PrefixClean ==
    ASSUME NulFree, NEW text \in CallerInputs \cup {Value!Empty}
    PROVE  text \in Seq(Chars \ {Nul})
<1>1. ASSUME NEW c \in Callers
      PROVE  Prefix(CallerText[c], Leading(CallerText[c], Chars \ {Nul}))
                 \in Seq(Chars \ {Nul})
    <2> PICK t, n : t = CallerText[c] /\ n = Leading(t, Chars \ {Nul})
        OBVIOUS
    <2>1. t \in Seq(Chars \ {Nul})
        BY DEF NulFree
    <2>2. n \in 0..Len(t)
        BY <2>1, LeadingProperties
    <2>3. Prefix(t, n) \in Seq(Chars \ {Nul})
        BY <2>1, <2>2, PrefixProperties
    <2> QED BY <2>3
<1>2. Value!Empty \in Seq(Chars \ {Nul})
    BY DEF Value!Empty
<1> QED BY <1>1, <1>2 DEF CallerInputs, NulFree

LEMMA CutsClean ==
    ASSUME NEW text \in Seq(Chars \ {Nul}), NEW C
    PROVE  /\ Value!From(text, C) \in Seq(Chars \ {Nul})
           /\ Value!UpTo(text, C) \in Seq(Chars \ {Nul})
           /\ Value!Between(text, C) \in Seq(Chars \ {Nul})
<1>1. Value!From(text, C) \in Seq(Chars \ {Nul})
    BY FromIsText
<1>2. Value!UpTo(text, C) \in Seq(Chars \ {Nul})
    BY UpToIsText
<1> PICK t : t = Value!From(text, C)
    OBVIOUS
<1>3. Value!UpTo(t, C) \in Seq(Chars \ {Nul})
    BY <1>1, UpToIsText
<1> QED BY <1>1, <1>2, <1>3 DEF Value!Between

LEMMA GetsClean ==
    ASSUME Clean, NEW s \in Strings, NEW text, Value!Gets(s, text),
           text = Null \/ text \in Seq(Chars \ {Nul})
    PROVE  Clean'
BY DEF Clean, Value!Gets

LEMMA ValueCleanStep ==
    ASSUME NulFree, Clean, Value!Next
    PROVE  Clean'
<1>1. ASSUME NEW s \in Strings, Value!Exists(s)
      PROVE  Texts[s] \in Seq(Chars \ {Nul})
    BY <1>1 DEF Clean, Value!Exists
<1>2. ASSUME NEW s \in Strings, Value!Construct(s)
      PROVE  Clean'
    BY <1>2, PrefixClean, GetsClean DEF Value!Construct
<1>3. ASSUME NEW s \in Strings, Value!Destroy(s)
      PROVE  Clean'
    BY <1>3, GetsClean DEF Value!Destroy
<1>4. ASSUME NEW s \in Strings,
             \/ Value!Reset(s) \/ Value!Trim(s) \/ Value!Strip(s)
             \/ Value!StripLeading(s) \/ Value!StripTrailing(s)
      PROVE  Clean'
    <2>1. Value!Exists(s)
        BY <1>4 DEF Value!Reset, Value!Trim, Value!Strip, Value!StripLeading,
           Value!StripTrailing
    <2>2. PICK t : t = Texts[s]
        OBVIOUS
    <2>3. /\ Value!Empty \in Seq(Chars \ {Nul})
          /\ \A C : /\ Value!From(t, C) \in Seq(Chars \ {Nul})
                    /\ Value!UpTo(t, C) \in Seq(Chars \ {Nul})
                    /\ Value!Between(t, C) \in Seq(Chars \ {Nul})
        BY <2>1, <2>2, <1>1, CutsClean DEF Value!Empty
    <2>4. CASE Value!Reset(s)
        BY <2>4, <2>3, GetsClean DEF Value!Reset
    <2>5. CASE Value!Trim(s)
        BY <2>5, <2>2, <2>3, GetsClean DEF Value!Trim
    <2>6. CASE Value!Strip(s)
        BY <2>6, <2>2, <2>3, GetsClean DEF Value!Strip
    <2>7. CASE Value!StripLeading(s)
        BY <2>7, <2>2, <2>3, GetsClean DEF Value!StripLeading
    <2>8. CASE Value!StripTrailing(s)
        BY <2>8, <2>2, <2>3, GetsClean DEF Value!StripTrailing
    <2> QED BY <1>4, <2>4, <2>5, <2>6, <2>7, <2>8
<1>5. ASSUME NEW s \in Strings, NEW u \in Strings, Value!Move(s, u)
      PROVE  Clean'
    <2>1. Texts[u] \in Seq(Chars \ {Nul}) /\ <<>> \in Seq(Chars \ {Nul})
        BY <1>5, <1>1 DEF Value!Move
    <2>2. DOMAIN Texts = Strings
        BY DEF Texts, TextsOf
    <2>3. CASE s = u
        BY <2>3, <1>5 DEF Value!Move, Clean
    <2>4. CASE s # u
        <3>1. Texts' = [Texts EXCEPT ![s] = Texts[u], ![u] = <<>>]
            BY <2>4, <1>5 DEF Value!Move, Value!Empty
        <3>2. \A x \in Strings : Texts'[x] \in {Texts[x], Texts[u], <<>>}
            BY <3>1, <2>2
        <3> QED BY <3>2, <2>1 DEF Clean
    <2> QED BY <2>3, <2>4
<1>6. ASSUME NEW s \in Strings, NEW u \in Strings, Value!CopyAssign(s, u)
      PROVE  Clean'
    BY <1>6, <1>1, GetsClean DEF Value!CopyAssign
<1>7. ASSUME NEW s \in Strings, NEW u \in Strings,
             \/ Value!Copy(s, u) \/ Value!StaticTrim(s, u)
             \/ Value!StaticStrip(s, u) \/ Value!StaticStripLeading(s, u)
             \/ Value!StaticStripTrailing(s, u)
      PROVE  Clean'
    <2>1. PICK t : t = Texts[u]
        OBVIOUS
    <2>2. Value!Exists(u)
        BY <1>7 DEF Value!Copy, Value!StaticTrim, Value!StaticStrip,
           Value!StaticStripLeading, Value!StaticStripTrailing, Value!Derives
    <2>3. t \in Seq(Chars \ {Nul})
        BY <2>1, <2>2, <1>1
    <2>4. /\ \A C : /\ Value!From(t, C) \in Seq(Chars \ {Nul})
                    /\ Value!UpTo(t, C) \in Seq(Chars \ {Nul})
                    /\ Value!Between(t, C) \in Seq(Chars \ {Nul})
        BY <2>3, CutsClean
    <2>5. PICK text : Value!Gets(s, text) /\ text \in Seq(Chars \ {Nul})
        BY <1>7, <2>1, <2>3, <2>4 DEF Value!Copy, Value!StaticTrim, Value!StaticStrip,
           Value!StaticStripLeading, Value!StaticStripTrailing, Value!Derives
    <2> QED BY <2>5, GetsClean
<1> QED BY <1>2, <1>3, <1>4, <1>5, <1>6, <1>7 DEF Value!Next

-----------------------------------------------------------------------------
(* Every step of the storage is a step of the values or leaves them alone. *)

LEMMA EndedGives ==
    ASSUME Contract, StorageInv, Next, fate' # "ok"
    PROVE  Texts' = Texts
<1>1. ASSUME NEW s \in Strings,
             \/ ConstructDefault(s) \/ Destroy(s) \/ Reset(s)
             \/ Trim(s) \/ Strip(s) \/ StripLeading(s) \/ StripTrailing(s)
      PROVE  Texts' = Texts
    BY <1>1, ConstructDefaultStep, DestroyStep, ResetStep, TrimStep, StripStep,
       StripLeadingStep, StripTrailingStep DEF Gave, Gives, Faults
<1>2. ASSUME NEW s \in Strings, NEW c \in Callers,
             \/ ConstructBytes(s, c)
             \/ \E ref \in BOOLEAN : ConstructChars(s, c, ref)
      PROVE  Texts' = Texts
    BY <1>2, ConstructBytesStep, ConstructCharsStep DEF Gave, Gives
<1>3. ASSUME NEW s \in Strings, NEW u \in Strings,
             \/ CopyConstruct(s, u) \/ MoveConstruct(s, u)
             \/ CopyAssign(s, u) \/ MoveAssign(s, u)
      PROVE  Texts' = Texts
    BY <1>3, CopyConstructStep, MoveConstructStep, CopyAssignStep, MoveAssignStep
       DEF Gave, Gives, Faults
<1>4. ASSUME NEW s \in Strings, NEW u \in Strings,
             \/ StaticTrim(s, u) \/ StaticStrip(s, u)
             \/ StaticStripLeading(s, u) \/ StaticStripTrailing(s, u)
      PROVE  Texts' = Texts
    BY <1>4, StaticStep DEF Gave, Gives
<1>5. CASE UNCHANGED vars
    BY <1>5 DEF vars, Texts, TextsOf, Text, Now
<1> QED BY <1>1, <1>2, <1>3, <1>4, <1>5 DEF Next, Ended

(* Where the static Trim has nothing to trim it makes the empty string.    *)
LEMMA OkGives ==
    ASSUME Contract, ValueInv, Next, fate' = "ok"
    PROVE  Value!Next
<1>1. StorageInv
    BY DEF ValueInv
<1>2. ASSUME NEW s \in Strings,
             \/ ConstructDefault(s)
             \/ \E c \in Callers : \/ ConstructBytes(s, c)
                                   \/ \E ref \in BOOLEAN : ConstructChars(s, c, ref)
      PROVE  Value!Next
    <2>1. Value!Construct(s)
        BY <1>1, <1>2, ConstructsValue
    <2> QED BY <2>1 DEF Value!Next
<1>3. ASSUME NEW s \in Strings,
             \/ Destroy(s) \/ Reset(s)
             \/ Trim(s) \/ Strip(s) \/ StripLeading(s) \/ StripTrailing(s)
      PROVE  Value!Next
    <2>1. \/ Value!Destroy(s) \/ Value!Reset(s) \/ Value!Trim(s)
          \/ Value!Strip(s) \/ Value!StripLeading(s) \/ Value!StripTrailing(s)
        BY <1>1, <1>3, EditsValue, MakesValue DEF EditsAsPromised, MadeAsPromised
    <2> QED BY <2>1 DEF Value!Next
<1>4. ASSUME NEW s \in Strings, NEW u \in Strings,
             \/ CopyConstruct(s, u) \/ MoveConstruct(s, u)
             \/ CopyAssign(s, u) \/ MoveAssign(s, u)
             \/ StaticTrim(s, u) \/ StaticStrip(s, u)
             \/ StaticStripLeading(s, u) \/ StaticStripTrailing(s, u)
      PROVE  Value!Next
    <2>1. CopyAssign(s, u) => ~HasNul(u)
        <3>1. CopyAssign(s, u) => /\ Texts[u] \in Seq(Chars \ {Nul})
            BY <1>1, TextsHeld DEF CopyAssign, Alive, ValueInv, Clean, Value!Exists
        <3>2. Texts[u] \in Seq(Chars \ {Nul}) => ~HasNul(u)
            BY DEF HasNul
        <3> QED BY <3>1, <3>2
    <2>2. StaticTrim(s, u) /\ ~Trims(u) => Value!Construct(s)
        <3> SUFFICES ASSUME StaticTrim(s, u), ~Trims(u)
                     PROVE  Value!Construct(s)
            OBVIOUS
        <3>1. Absent(s) /\ Alive(u)
            BY DEF StaticTrim
        <3>2. Value!Gets(s, <<>>) /\ ~Value!Exists(s)
            BY <3>1, <1>1, Derivations, TextsHeld DEF Absent
        <3> QED BY <3>2, EmptyText DEF Value!Construct
    <2>3. \/ Value!Copy(s, u) \/ Value!Move(s, u) \/ Value!CopyAssign(s, u)
          \/ Value!StaticTrim(s, u) \/ Value!StaticStrip(s, u)
          \/ Value!StaticStripLeading(s, u) \/ Value!StaticStripTrailing(s, u)
          \/ Value!Construct(s)
        BY <1>1, <1>4, <2>1, <2>2, EditsValue, MakesValue
           DEF EditsAsPromised, MadeAsPromised
    <2> QED BY <2>3 DEF Value!Next
<1>5. ~Ended
    BY DEF Ended, vars
<1> QED BY <1>2, <1>3, <1>4, <1>5 DEF Next

LEMMA ValueStep ==
    ASSUME Contract, NulFree, ValueInv, [Next]_vars
    PROVE  /\ [Value!Next]_Texts
           /\ ValueInv'
<1>1. StorageInv /\ Clean
    BY DEF ValueInv
<1>2. StorageInv'
    BY <1>1, StorageInvStep
<1>3. Texts' = Texts \/ Value!Next
    <2>1. CASE UNCHANGED vars
        BY <2>1 DEF vars, Texts, TextsOf, Text, Now
    <2>2. CASE Next
        BY <2>2, <1>1, EndedGives, OkGives
    <2> QED BY <2>1, <2>2
<1>4. Clean'
    <2>1. CASE Texts' = Texts
        BY <2>1, <1>1 DEF Clean
    <2>2. CASE Value!Next
        BY <2>2, <1>1, ValueCleanStep
    <2> QED BY <2>1, <2>2, <1>3
<1> QED BY <1>2, <1>3, <1>4 DEF ValueInv

LEMMA ValueInit ==
    ASSUME Init
    PROVE  Value!Init /\ ValueInv
<1>1. StorageInv
    BY StorageInvInit
<1>2. Texts = [s \in Strings |-> Null]
    BY DEF Init, Texts, TextsOf, Now
<1> QED BY <1>1, <1>2 DEF Value!Init, ValueInv, Clean

(* Strings are values: wherever their characters are stored, every         *)
(* operation changes the text of the object it is called on, of the source *)
(* of a move, and of no other (string.cc 20-242).                          *)
THEOREM ValueImplemented ==
    ASSUME Contract, NulFree
    PROVE  Spec => ValueSpec
<1>1. Init => Value!Init /\ ValueInv
    BY ValueInit
<1>2. ValueInv /\ [Next]_vars => [Value!Next]_Texts /\ ValueInv'
    BY ValueStep
<1> QED BY <1>1, <1>2, PTL DEF Spec, ValueSpec, Value!Spec

(* And it changes that text into the one its name promises: trimmed,       *)
(* stripped, copied, moved or empty (string.cc 20-82, 114-242), texts with *)
(* a '\0' inside included, but for the copy assignment of such a text and  *)
(* the static Trim of one with nothing to trim.                            *)
THEOREM EachCorrect ==
    ASSUME Contract
    PROVE  Spec => EachAsPromised
<1> DEFINE P == fate' = "ok" => \A s \in Strings :
                   IF live' = live THEN EditsAsPromised(s) ELSE MadeAsPromised(s)
<1>1. StorageInv => P
    BY EditsValue, MakesValue
<1> HIDE DEF P
<1>2. StorageInv /\ [Next]_vars => [P]_vars
    BY <1>1
<1>3. Spec => [][P]_vars
    BY <1>2, StorageSound, PTL DEF Spec
<1> QED BY <1>3 DEF EachAsPromised, P
=============================================================================
