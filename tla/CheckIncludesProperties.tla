---------------------- MODULE CheckIncludesProperties ----------------------
(***************************************************************************)
(* What the include checks promise about the lines of a file, in terms of  *)
(* the lines alone: where the include lists of cpplint.py are one list per *)
(* #if that is never popped, here each line is in the branches of the      *)
(* conditionals that are open at it, as a preprocessor sees them.          *)
(***************************************************************************)
EXTENDS CheckIncludes

Lines == file.lines
Included == {n \in 1 .. linenum : Lines[n].kind = "include"}

(* The lines where the open branches begin, after one more line.           *)
Branched(was, kind, n) ==
    CASE kind = "if"    -> Append(was, n)
      [] kind = "else"  -> Append(Front(was), n)
      [] kind = "endif" -> Front(was)
      [] OTHER          -> was

BranchesOf(lines) ==
    LET f[n \in 0 .. Len(lines)] ==
            IF n = 0 THEN <<>> ELSE Branched(f[n - 1], lines[n].kind, n)
    IN  f

Branches == BranchesOf(Lines)

(* A preprocessor refuses a file with an #else outside of a conditional.   *)
ASSUME BranchesAssumption ==
    \A f \in IncludingFiles : \A branches \in {BranchesOf(f.lines)} :
        \A n \in 1 .. Len(f.lines) :
            f.lines[n].kind = "else" => branches[n - 1] # <<>>

(* At each line where line m is included, line n is included too.          *)
Covers(n, m, branches) == IsPrefix(branches[n], branches[m])

(* The depth at which two lines are in different branches of the same      *)
(* conditional, of which only one is compiled.                             *)
Alternative(n, m, branches) ==
    {d \in 1 .. Len(branches[n]) :
        /\ Len(branches[m]) >= d
        /\ branches[n][d] # branches[m][d]
        /\ \A k \in n .. m : Len(branches[k]) >= d
        /\ SubSeq(branches[n], 1, d - 1) = SubSeq(branches[m], 1, d - 1)}

(* A name that goes on the lists.                                          *)
Counts(p) ==
    /\ ~OfOtherPackage(file, p)
    /\ IsThirdParty(p) => IsOfThisFile(file, p)

(* An include that is on the list when it has been processed.              *)
Accepted ==
    {n \in Included : /\ Counts(Lines[n].of)
                      /\ \A e \in errors : ~(e[1] = n /\ e[2] = "duplicate")}

-----------------------------------------------------------------------------
(* A second include of a header is reported when the first one is compiled *)
(* wherever the second is (FindHeader over the lists of ResetSection, which *)
(* may drop a list only when its branch has ended).                        *)
RepeatsFound ==
    LET branches == Branches
    IN  \A n, m \in Included :
            /\ n < m
            /\ Lines[n].of = Lines[m].of
            /\ Counts(Lines[n].of)
            /\ Covers(n, m, branches)
            => \E e \in errors : e[1] = m /\ e[2] = "duplicate" /\ e[3] <= n

(* An include in the other branch of a conditional is not a second include *)
(* (the comment in CheckLanguage: resetting is meant to silence warnings   *)
(* for conditional includes), unless a nested conditional began after it:  *)
(* then #else drops the list of that one.                                  *)
AlternativesSpared ==
    LET branches == Branches
    IN  \A e \in errors :
            e[2] = "duplicate" =>
                /\ e[3] < e[1]
                /\ Lines[e[3]].of = Lines[e[1]].of
                /\ \A d \in Alternative(e[3], e[1], branches) :
                      \E k \in e[3] .. e[1] :
                          Lines[k].kind = "if" /\ Len(branches[k]) > d

(* Both: a repeat is reported where the first one is in force, and what is *)
(* reported repeats an include, though not always one that is in force:    *)
(* after its #if has ended it still counts.                                *)
DuplicatesReported == RepeatsFound /\ AlternativesSpared

Type(n) == ClassifyInclude(file, Lines[n].of, Lines[n].angle)
IsMine(n) == Type(n) \in {"likely_my", "possible_my"}

(* The accepted includes before a line, since the last directive.          *)
Since(n) ==
    {k \in Accepted :
        k < n /\ \A j \in k .. n : Lines[j].kind \notin {"if", "else", "endif"}}

(* A header of the file's own counts as such if only such are before it.   *)
Place(n) ==
    CASE IsMine(n) /\ (\A k \in Since(n) : IsMine(k)) -> MY_H_SECTION
      [] Type(n) \in DOMAIN SystemSection -> SystemSection[Type(n)]
      [] OTHER -> OTHER_H_SECTION

(* Between two directives, a header is reported as misplaced exactly if an *)
(* earlier one has a later place: the file's own header, then C, then C++, *)
(* then other system headers, then all others (CheckNextIncludeOrder keeps *)
(* one section, which a misplaced header does not move).                   *)
OrderFollowsSections ==
    \A n \in Accepted :
        <<n, "order">> \in errors <=> \E k \in Since(n) : Place(k) > Place(n)

(* An include of which nothing is reported but that it has no directory.   *)
Clean(n) == n \in Accepted /\ \A e \in errors : e[1] = n => e[2] = "subdir"

(* Adjacent include lines of which none is reported are sorted within each *)
(* class, whatever is between two of the class (last_header is compared    *)
(* with the next header only and forgotten where a section begins).        *)
SortedIfClean ==
    \A n, m \in Included :
        /\ n < m
        /\ \A k \in n .. m : Clean(k)
        /\ Type(n) = Type(m)
        /\ ~IsMine(n)
        => CanonicalizeAlphabeticalOrder(Lines[n].of)
             <= CanonicalizeAlphabeticalOrder(Lines[m].of)

(* An include is reported as unsorted only if the line before is one too   *)
(* and the last accepted include sorts behind it and is in the same place, *)
(* unless that one was reported as misplaced: the order begins anew with   *)
(* each section, after a directive and after a blank line.                 *)
ReportedIfUnsorted ==
    \A n \in Included :
        <<n, "alpha">> \in errors =>
            /\ n - 1 \in Included
            /\ Since(n) # {}
            /\ LET k == Max(Since(n))
               IN  /\ CanonicalizeAlphabeticalOrder(Lines[k].of)
                        > CanonicalizeAlphabeticalOrder(Lines[n].of)
                   /\ Place(k) = Place(n) \/ <<k, "order">> \in errors

(* Both together: what is not reported is sorted, what is was not.         *)
UnsortedReported == SortedIfClean /\ ReportedIfUnsorted

(* The branch an include is in was followed by another one of the same     *)
(* conditional: its list may be gone.                                      *)
Replaced(n, branches) ==
    \E m \in n .. linenum : Lines[m].kind = "else" /\ Alternative(n, m, branches) # {}

(* A source file is never asked to include a header of its own that it     *)
(* includes, unless only in branches of conditionals that other branches   *)
(* follow; and it is asked for every one if it includes nothing with a     *)
(* name that is part of the name of one, or the other way round, and is no *)
(* test (CheckHeaderFileIncluded).  Of a header that is not included       *)
(* where another one is, nothing is said.                                  *)
OwnHeaderAsked ==
    LET branches == Branches
        AskedFor == {e[3] : e \in {x \in errors : x[2] = "own header"}}
        Similar  == {n \in Included : \E q \in OwnHeaders : Overlap(q, Lines[n].of)}
    IN  (phase = "done" /\ file.path.ext \in NonHeaderExtensions) =>
            \A q \in OwnHeaders :
                /\ (\E n \in Included : Lines[n].of = q /\ ~Replaced(n, branches))
                   => q \notin AskedFor
                /\ (Similar = {} /\ ~IsTestFile(file.path)) => q \in AskedFor

(* The headers beside a source file that belong to the same module as the  *)
(* docstring of FilesBelongToSameModule has it: foo.h of foo.cc and of     *)
(* foo_test.cc.  Only those are found for which the names of directories   *)
(* that do not count do so in both of the names that are compared.         *)
ModuleHeaders ==
    {q \in DOMAIN file.disk :
        /\ q.ext \in HeaderExtensions
        /\ q.dir = file.path.dir
        /\ q.base = WithoutLast(file.path.base, TestSuffixes)
        /\ q.base = WithoutLast(q.base, {"inl"})
        /\ \A d \in Range(Root) \cup Range(SubSeq(q.dir, 1, 1)) :
              d \notin {"public", "internal"}}

(* The headers that may be taken for one of the module: an include of      *)
(* which the name ends in the same word is the end of their name.          *)
Candidates ==
    LET Similar(p) ==
            /\ p.ext \in HeaderExtensions
            /\ Last(WithoutLast(p.base, {"inl"}))
                 = Last(WithoutLast(file.path.base, TestSuffixes))
    IN  {q \in DOMAIN file.disk : \E n \in Included :
            Similar(Lines[n].of) /\ IsSuffix(Text(Lines[n].of), Text(FullName(q)))}

(* A standard header is asked for at the last line that needs it and       *)
(* nowhere else (CheckForIncludeWhatYouUse).  It is not asked for if the   *)
(* file includes it, or one of the ModuleHeaders the file includes does,   *)
(* unless only in branches of conditionals that other branches follow; and *)
(* nothing is in a source file that found none of the Candidates (cpplint  *)
(* gives up).  What neither the file, in any branch, nor a candidate       *)
(* includes is asked for, in a source file provided that it includes one   *)
(* of its ModuleHeaders.                                                   *)
UsesIncluded ==
    LET branches == Branches
        Kept     == {n \in Included : Counts(Lines[n].of) /\ ~Replaced(n, branches)}
        Here     == {Lines[n].of : n \in Kept}
        IsSource == file.path.ext \in NonHeaderExtensions
        Of(headers) == IF IsSource THEN UNION {Range(file.disk[q]) : q \in headers} ELSE {}
        Needs(p) == {n \in 1 .. Len(Lines) : p \in Range(Lines[n].needs)}
        Asked(p) == {e[1] : e \in {x \in errors : x[2] = "missing" /\ x[3] = p}}
    IN  phase = "done" =>
            \A p \in CppHeaders :
                /\ \A n \in Asked(p) : n = Max(Needs(p))
                /\ p \in Here \cup Of(ModuleHeaders \cap Here) => Asked(p) = {}
                /\ IsSource /\ Candidates = {} => Asked(p) = {}
                /\ (/\ Needs(p) # {}
                    /\ p \notin {Lines[n].of : n \in Included} \cup Of(Candidates)
                    /\ IsSource => ModuleHeaders \cap Here # {})
                   => Asked(p) # {}
=============================================================================
