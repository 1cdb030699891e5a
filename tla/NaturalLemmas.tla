--------------------------- MODULE NaturalLemmas ---------------------------
(***************************************************************************)
(* Natural numbers: the least element of a set, induction, and functions   *)
(* defined by recursion on an interval.  All of it is stated with sets and *)
(* functions, so that every prover can use it.                             *)
(***************************************************************************)
EXTENDS Integers, FiniteSetsExt, WellFoundedInduction, TLAPS

(* < is a well-founded relation on Nat.                                    *)
LEMMA LessThan ==
    \E R : /\ IsWellFoundedOn(R, Nat)
           /\ \A x, y \in Nat : x < y => <<x, y>> \in R
<1>1. IsWellFoundedOn(OpToRel(<, Nat), Nat)
    BY NatLessThanWellFounded, Zenon
<1>2. \A x, y \in Nat : x < y => <<x, y>> \in OpToRel(<, Nat)
    BY Zenon DEF OpToRel
<1> QED BY <1>1, <1>2, Zenon

(* A set of natural numbers has a least element.                           *)
LEMMA LeastElement ==
    ASSUME NEW T, T \subseteq Nat, T # {}
    PROVE  \E n \in T : \A m \in T : n <= m
<1>1. PICK R : /\ IsWellFoundedOn(R, Nat)
               /\ \A x, y \in Nat : x < y => <<x, y>> \in R
    BY LessThan, Zenon
<1>2. IsWellFoundedOn(R, Nat)
    BY <1>1
<1>3. \E x \in T : \A y \in T : ~(<<y, x>> \in R)
    BY ONLY <1>2, T \subseteq Nat, T # {}, WFMin
<1>4. PICK x \in T : \A y \in T : ~(<<y, x>> \in R)
    BY <1>3
<1>5. ASSUME NEW y \in T PROVE x <= y
    <2>1. x \in Nat /\ y \in Nat
        OBVIOUS
    <2>2. ~(y < x)
        BY <1>1, <1>4, <2>1, Zenon
    <2> QED BY <2>1, <2>2
<1> QED BY <1>5

(* Max of a set of numbers up to some bound, and Min of any.               *)
LEMMA LargestOf ==
    ASSUME NEW T, NEW b \in Nat, T \subseteq 0 .. b, T # {}
    PROVE  Max(T) \in T /\ \A x \in T : x <= Max(T)
<1> DEFINE D == {d \in Nat : b - d \in T}
<1>1. D # {}
    <2>1. PICK x \in T : TRUE
        OBVIOUS
    <2>2. x \in Int /\ b - x \in Nat /\ b - (b - x) = x
        BY <2>1
    <2> QED BY <2>1, <2>2
<1>2. PICK d \in D : \A c \in D : d <= c
    BY <1>1, LeastElement
<1>3. ASSUME NEW x \in T PROVE b - d >= x
    <2>1. x \in Int /\ b - x \in Nat /\ b - (b - x) = x
        OBVIOUS
    <2>2. b - x \in D
        BY <2>1
    <2>3. d <= b - x
        BY <1>2, <2>2
    <2> QED BY <2>1, <2>3
<1>4. \E x \in T : \A y \in T : x >= y
    BY <1>3
<1>5. Max(T) \in T /\ \A y \in T : Max(T) >= y
    BY <1>4 DEF Max
<1> QED BY <1>5

LEMMA SmallestOf ==
    ASSUME NEW T, T \subseteq Nat, T # {}
    PROVE  Min(T) \in T /\ \A x \in T : Min(T) <= x
<1>1. \E x \in T : \A y \in T : x <= y
    BY LeastElement
<1> QED BY <1>1 DEF Min

(* Induction: a set of natural numbers that has 0 and with every number    *)
(* the next one has them all.                                              *)
LEMMA Induction ==
    ASSUME NEW P, 0 \in P, \A n \in Nat : n \in P => n + 1 \in P
    PROVE  Nat \subseteq P
<1> DEFINE T == Nat \ P
<1> SUFFICES ASSUME T # {} PROVE FALSE
    OBVIOUS
<1>1. PICK n \in T : \A m \in T : n <= m
    BY LeastElement
<1>2. n \in Nat /\ n # 0
    OBVIOUS
<1>3. n - 1 \in Nat /\ ~(n <= n - 1)
    BY <1>2
<1>4. n - 1 \in P
    BY <1>1, <1>3
<1> QED BY <1>3, <1>4

(* A function on 0..n can be defined from its value at 0 and, at i, from   *)
(* the value before.                                                       *)
IsRecursion(g, S, a, n, step) ==
    /\ g \in [0..n -> S]
    /\ g[0] = a /\ \A i \in 1..n : g[i] = step[i][g[i - 1]]

LEMMA Recursion ==
    ASSUME NEW S, NEW a \in S, NEW n \in Nat, NEW step \in [1..n -> [S -> S]]
    PROVE  \E g : IsRecursion(g, S, a, n, step)
<1> DEFINE Fits(g, k) ==
               g[0] = a /\ \A i \in 1..k : g[i] = step[i][g[i - 1]]
           P == {k \in Nat : k <= n => \E g \in [0..k -> S] : Fits(g, k)}
<1>1. 0 \in P
    <2>1. [i \in 0..0 |-> a] \in [0..0 -> S] /\ Fits([i \in 0..0 |-> a], 0)
        OBVIOUS
    <2> QED BY <2>1
<1>2. ASSUME NEW k \in Nat, k \in P PROVE k + 1 \in P
    <2> SUFFICES ASSUME k + 1 <= n
                 PROVE  \E g \in [0..(k + 1) -> S] : Fits(g, k + 1)
        OBVIOUS
    <2>1. PICK g \in [0..k -> S] : Fits(g, k)
        BY <1>2
    <2> DEFINE h == [i \in 0..(k + 1) |-> IF i <= k THEN g[i]
                                          ELSE step[k + 1][g[k]]]
    <2>2. g[k] \in S /\ step[k + 1] \in [S -> S]
        OBVIOUS
    <2>3. h \in [0..(k + 1) -> S]
        BY <2>2
    <2>4. \A i \in 0..k : h[i] = g[i]
        OBVIOUS
    <2>5. h[k + 1] = step[k + 1][h[k]]
        BY <2>4
    <2>6. h[0] = a
        BY <2>1, <2>4
    <2> HIDE DEF h
    <2>7. ASSUME NEW i \in 1..(k + 1) PROVE h[i] = step[i][h[i - 1]]
        <3>1. CASE i = k + 1
            <4>1. i - 1 = k
                BY <3>1
            <4> QED BY <3>1, <4>1, <2>5
        <3>2. CASE i # k + 1
            <4>1. i \in 1..k /\ i \in 0..k /\ i - 1 \in 0..k
                BY <3>2
            <4> QED BY <4>1, <2>1, <2>4
        <3> QED BY <3>1, <3>2
    <2> QED BY <2>3, <2>6, <2>7
<1> HIDE DEF P
<1>3. Nat \subseteq P
    BY <1>1, <1>2, Induction
<1>4. n \in P
    BY <1>3
<1> QED BY <1>4 DEF P, IsRecursion
=============================================================================
