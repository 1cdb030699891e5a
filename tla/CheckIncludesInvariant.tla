----------------------- MODULE CheckIncludesInvariant -----------------------
(***************************************************************************)
(* Why what CheckIncludeLine says of a line follows from the lines alone:  *)
(* how the section, the last header and the lists of include_state are     *)
(* related to the lines before (CheckIncludes).                            *)
(***************************************************************************)
EXTENDS CheckIncludesProperties

IncludeStates ==
    [lists   : Seq(Seq([of : Paths, line : Nat])) \ {<<>>},
     section : INITIAL_SECTION .. OTHER_H_SECTION,
     last    : Nat]

CanonOf(n) == CanonicalizeAlphabeticalOrder(Lines[n].of)

(* The accepted includes since the last directive.                         *)
Recent ==
    {k \in Accepted :
        \A j \in k .. linenum : Lines[j].kind \notin {"if", "else", "endif"}}

(* The section is the last place of a recent include.                      *)
SectionKept ==
    /\ \A k \in Recent : Place(k) <= includes.section
    /\ includes.section # INITIAL_SECTION =>
          \E k \in Recent : Place(k) = includes.section

(* The last header is that of the latest recent include.                   *)
LastKept ==
    /\ includes.last # 0 => Recent # {}
    /\ \A k \in Recent :
          (\A j \in Recent : j <= k) => includes.last = CanonOf(k)

(* Sorted by place, which for those that are not the file's own is more    *)
(* than sorted by class: the file's own come last if others are before.    *)
SortedByPlace ==
    \A n, m \in Included :
        /\ n < m
        /\ \A k \in n .. m : Clean(k)
        /\ Place(n) = Place(m)
        => CanonOf(n) <= CanonOf(m)

OrderKept == SectionKept /\ LastKept /\ SortedByPlace

-----------------------------------------------------------------------------
(* What is reported of lines is of lines that were processed.              *)
ErrorsKept ==
    /\ \A e \in errors : e[2] \notin {"missing", "own header"} => e[1] \in 1 .. linenum
    /\ phase # "done" => \A e \in errors : e[2] # "own header"

IncludesInv ==
    /\ file \in IncludingFiles
    /\ linenum \in 0 .. Len(Lines)
    /\ phase \in {"lines", "use", "own", "done"}
    /\ phase # "lines" => linenum = Len(Lines)
    /\ includes \in IncludeStates
    /\ ErrorsKept
    /\ OrderKept

-----------------------------------------------------------------------------
(* What is on the lists was included, and is of a kind that goes there.    *)
EntriesKept ==
    \A e \in Entries(includes) :
        e.line \in Included /\ e.of = Lines[e.line].of /\ Counts(e.of)

(* After an include that is on the last list no conditional began: the     *)
(* branches that were open then and are open now are the same ones, but    *)
(* for the innermost of now.                                               *)
LastListKept ==
    LET branches == Branches
    IN  \A e \in Range(Last(includes.lists)) : \A k \in e.line .. linenum :
            /\ Len(branches[linenum]) <= Len(branches[k])
            /\ \A i \in 1 .. Len(branches[linenum]) - 1 :
                  branches[k][i] = branches[linenum][i]

(* After one on another list a conditional did.                            *)
OtherListsKept ==
    \A i \in 1 .. Len(includes.lists) - 1 : \A e \in Range(includes.lists[i]) :
        \E k \in e.line + 1 .. linenum : Lines[k].kind = "if"

(* An include that outlived its branch did so by a nested conditional.     *)
OutlivedByNested ==
    LET branches == Branches
    IN  \A e \in Entries(includes) : \A d \in 1 .. Len(branches[e.line]) :
            /\ \A k \in e.line .. linenum : d <= Len(branches[k])
            /\ branches[linenum][d] # branches[e.line][d]
            => \E k \in e.line .. linenum :
                  Lines[k].kind = "if" /\ d < Len(branches[k])

(* Until its branch is followed by another one, a header is on the lists.  *)
Listed ==
    LET branches == Branches
    IN  \A n \in Included :
            /\ Counts(Lines[n].of)
            /\ ~Replaced(n, branches)
            => \E e \in Entries(includes) : e.of = Lines[n].of /\ e.line <= n

(* A branch that has ended does not begin again.                           *)
NeverAgain ==
    LET branches == Branches
    IN  \A n \in Included :
            Covers(n, linenum, branches) =>
                \A k \in n .. linenum : Covers(n, k, branches)

ListsKept ==
    /\ EntriesKept
    /\ LastListKept
    /\ OtherListsKept
    /\ OutlivedByNested
    /\ Listed
    /\ NeverAgain
=============================================================================
