--------------------------- MODULE IncludeState ---------------------------
(***************************************************************************)
(* What tools/cpplint/cpplint.py knows of the #include lines of a file:    *)
(* _IncludeState, _ClassifyInclude and CheckIncludeLine.                   *)
(*                                                                         *)
(* A path is [dir, base, ext]: its directories, the words of its base name *)
(* and its extension, "" if it has none.  A word is what "-" or "_"        *)
(* separates; which of the two it was is not kept, a test suffix having a  *)
(* "_" and inl a "-".  Texts are compared word by word.                    *)
(*                                                                         *)
(* A line is [kind, of, angle, needs]: an "include" of a path, a directive *)
(* ("if", "else" or "endif", which also stand for ifdef, ifndef and elif), *)
(* "code" with the standard headers it needs, or "blank".  A file is       *)
(* [path, standardcfirst, lines, disk], disk giving for each file there is *)
(* the paths it includes.                                                  *)
(***************************************************************************)
EXTENDS Integers, SequencesExt, FiniteSetsExt

CONSTANTS
    Root,                 \* the directories above the repository
    HeaderExtensions,     \* GetHeaderExtensions()
    NonHeaderExtensions,  \* GetNonHeaderExtensions()
    CppHeaders,           \* _CPP_HEADERS
    CHeaders,             \* _C_HEADERS and the folders that count with them
    Lowered,              \* words with a capital, and the same in lower case
    Sorted                \* canonical paths in the order of strings

ASSUME RootAssumption == Root \in Seq(STRING) /\ Root # <<>>

Paths == [dir : Seq(STRING), base : Seq(STRING) \ {<<>>}, ext : STRING]

FileLines ==
    [kind  : {"include", "if", "else", "endif", "code", "blank"},
     of    : Paths,
     angle : BOOLEAN,
     needs : Seq(Paths)]

TestSuffixes == {"test", "regtest", "unittest"}
InlineSuffixes == {"inl", "imp", "internal"}

WithoutLast(base, suffixes) ==
    IF Len(base) > 1 /\ Last(base) \in suffixes THEN Front(base) ELSE base

Lower(word) == IF word \in DOMAIN Lowered THEN Lowered[word] ELSE word

-----------------------------------------------------------------------------
(* Paths.                                                                  *)
Separated(words, separator) ==
    [i \in 1 .. 2 * Len(words) |->
        IF i % 2 = 1 THEN words[(i + 1) \div 2] ELSE separator]

(* Extensions of which h is the beginning.                                 *)
LongHeaderExtensions == {"hh", "hpp", "hxx", "h++"}

Extension(ext) ==
    CASE ext = "" -> <<>>
      [] ext \in LongHeaderExtensions -> <<".", "h", ext>>
      [] OTHER -> <<".", ext>>

Text(p) ==
    Separated(p.dir, "/") \o Front(Separated(p.base, "-")) \o Extension(p.ext)

InText(s, t) ==
    \E i \in 0 .. Len(t) - Len(s) : SubSeq(t, i + 1, i + Len(s)) = s

FullName(p) == [p EXCEPT !.dir = Root \o p.dir]

(* A file that does not exist keeps its full name.                         *)
RepositoryName(file, p) ==
    IF p \in DOMAIN file.disk \cup {file.path} THEN p ELSE FullName(p)

Overlap(p, q) == InText(Text(p), Text(q)) \/ InText(Text(q), Text(p))

(* lua.h and any header named with a capital, outside of a directory.      *)
IsThirdParty(p) ==
    /\ p.dir = <<>>
    /\ p.ext = "h"
    /\ \/ p.base \in {<<"lua">>, <<"lauxlib">>, <<"lualib">>}
       \/ \E i \in 1 .. Len(p.base) : Lower(p.base[i]) # p.base[i]

-----------------------------------------------------------------------------
(* _ClassifyInclude.                                                       *)
DropCommonSuffixes(p) ==
    CASE p.ext \in NonHeaderExtensions -> WithoutLast(p.base, TestSuffixes)
      [] p.ext \in HeaderExtensions    -> WithoutLast(p.base, InlineSuffixes)
      [] OTHER                         -> p.base

Public(dir) == IF dir = <<>> THEN {} ELSE {Append(Front(dir), "public")}

IsSystem(p, angle) == angle /\ p.ext \notin LongHeaderExtensions

ClassifyInclude(file, p, angle) ==
    LET mine  == DropCommonSuffixes(file.path)
        other == DropCommonSuffixes(p)
    IN  CASE IsSystem(p, angle) /\ p \in CppHeaders -> "cpp_sys"
          [] IsSystem(p, angle) /\ p \notin CppHeaders
               /\ (~file.standardcfirst \/ p \in CHeaders) -> "c_sys"
          [] IsSystem(p, angle) /\ p \notin CppHeaders
               /\ file.standardcfirst /\ p \notin CHeaders -> "other_sys"
          [] ~IsSystem(p, angle) /\ mine = other
               /\ p.dir \in {file.path.dir} \cup Public(file.path.dir) -> "likely_my"
          [] OTHER -> IF mine[1] = other[1] THEN "possible_my" ELSE "other"

-----------------------------------------------------------------------------
(* _IncludeState: [lists, section, last], an entry of a list being         *)
(* [of, line] and last the place of the last header, 0 for none.           *)
INITIAL_SECTION == 0
MY_H_SECTION    == 1
OTHER_H_SECTION == 5
SystemSection   == [c_sys |-> 2, cpp_sys |-> 3, other_sys |-> 4]

ResetSection(s, directive) ==
    [lists   |-> CASE directive = "if" -> Append(s.lists, <<>>)
                   [] directive = "else" -> [s.lists EXCEPT ![Len(s.lists)] = <<>>]
                   [] OTHER -> s.lists,
     section |-> INITIAL_SECTION,
     last    |-> 0]

NewIncludeState == ResetSection([lists |-> <<<<>>>>], "")

Entries(s) == UNION {Range(s.lists[i]) : i \in 1 .. Len(s.lists)}

(* The lines of the header, of which FindHeader returns the first.         *)
FindHeader_FaultyLast(s, p) == {e.line : e \in {x \in Range(Last(s.lists)) : x.of = p}}

FindHeader(s, p) == {e.line : e \in {x \in Entries(s) : x.of = p}}

(* "-inl" goes before any extension that begins with h.                    *)
Canonical(p) ==
    LET Lowers(words) == [i \in 1 .. Len(words) |-> Lower(words[i])]
        base == IF p.ext \in LongHeaderExtensions \cup {"h"}
                THEN WithoutLast(p.base, {"inl"}) ELSE p.base
    IN  [dir |-> Lowers(p.dir), base |-> Lowers(base), ext |-> Lower(p.ext)]

CanonicalizeAlphabeticalOrder(p) ==
    CHOOSE i \in 1 .. Len(Sorted) : Sorted[i] = Canonical(p)

IsInAlphabeticalOrder(s, lines, n, place) ==
    ~(s.last > place /\ n > 1 /\ lines[n - 1].kind = "include")

(* The section a header is in, at this point of the file.                  *)
SectionOf(s, type) ==
    CASE type \in DOMAIN SystemSection -> SystemSection[type]
      [] type \in {"likely_my", "possible_my"} /\ s.section <= MY_H_SECTION -> MY_H_SECTION
      [] OTHER -> OTHER_H_SECTION

CheckNextIncludeOrder_FaultyBack(s, type) ==
    LET section == SectionOf(s, type)
    IN  [inOrder |-> section >= s.section,
         state   |-> [s EXCEPT !.section = section,
                               !.last = IF section = s.section THEN @ ELSE 0]]

CheckNextIncludeOrder_FaultyForgets(s, type) ==
    LET section == SectionOf(s, type)
    IN  [inOrder |-> section >= s.section,
         state   |-> [s EXCEPT !.section = Max({section, s.section}), !.last = 0]]

CheckNextIncludeOrder(s, type) ==
    LET section == SectionOf(s, type)
    IN  [inOrder |-> section >= s.section,
         state   |-> [s EXCEPT !.section = Max({section, s.section}),
                               !.last = IF section = s.section THEN @ ELSE 0]]

-----------------------------------------------------------------------------
(* CheckIncludeLine.  An error is <<line, what>>, or for a duplicate       *)
(* <<line, "duplicate", line of the first>>.                               *)
WithoutDirectory(line) ==
    /\ ~line.angle
    /\ line.of.dir = <<>>
    /\ line.of.ext \in HeaderExtensions
    /\ ~IsThirdParty(line.of)

OfOtherPackage(file, p) ==
    p.ext \in NonHeaderExtensions /\ p.dir # file.path.dir

(* A third-party name is recorded if it may be the header of this file.    *)
IsOfThisFile(file, p) ==
    \E ext \in HeaderExtensions :
        Overlap(RepositoryName(file, [file.path EXCEPT !.ext = ext]), p)

Recorded(file, n, s) ==
    LET p       == file.lines[n].of
        entered == [s EXCEPT !.lists[Len(s.lists)] = Append(@, [of |-> p, line |-> n])]
        order   == CheckNextIncludeOrder(entered, ClassifyInclude(file, p, file.lines[n].angle))
        place   == CanonicalizeAlphabeticalOrder(p)
    IN  [state  |-> [order.state EXCEPT !.last = place],
         errors |-> (IF order.inOrder THEN {} ELSE {<<n, "order">>})
                      \cup IF IsInAlphabeticalOrder(order.state, file.lines, n, place)
                           THEN {} ELSE {<<n, "alpha">>}]

CheckIncludeLine(file, n, s) ==
    LET line     == file.lines[n]
        subdir   == IF WithoutDirectory(line) THEN {<<n, "subdir">>} ELSE {}
        earlier  == FindHeader(s, line.of)
        recorded == Recorded(file, n, s)
    IN  CASE earlier # {} ->
               [state |-> s, errors |-> subdir \cup {<<n, "duplicate", Min(earlier)>>}]
          [] earlier = {} /\ OfOtherPackage(file, line.of) ->
               [state |-> s, errors |-> subdir \cup {<<n, "other package">>}]
          [] earlier = {} /\ ~OfOtherPackage(file, line.of)
               /\ (IsThirdParty(line.of) => IsOfThisFile(file, line.of)) ->
               [state |-> recorded.state, errors |-> subdir \cup recorded.errors]
          [] OTHER -> [state |-> s, errors |-> subdir]
=============================================================================
