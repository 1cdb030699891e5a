--------------------------- MODULE CheckIncludes ---------------------------
(***************************************************************************)
(* The passes of tools/cpplint/cpplint.py over one file that are about its *)
(* includes: CheckLanguage line by line as far as it keeps the include     *)
(* state, then CheckForIncludeWhatYouUse and CheckHeaderFileIncluded, which *)
(* read it, and the files beside the one that is linted.                   *)
(***************************************************************************)
EXTENDS IncludeState

CONSTANT
    IncludingFiles  \* the files to lint

(* The headers that are included have a place in the order of strings.     *)
ASSUME FilesAssumption ==
    \A f \in IncludingFiles :
        /\ f.path \in Paths
        /\ f.lines \in Seq(FileLines)
        /\ IsFiniteSet(DOMAIN f.disk)
        /\ \A n \in 1 .. Len(f.lines) :
              f.lines[n].kind = "include" =>
                  \E i \in 1 .. Len(Sorted) : Sorted[i] = Canonical(f.lines[n].of)

VARIABLES
    file,      \* what is linted, with the files there are; does not change
    linenum,   \* the last line processed
    includes,  \* include_state
    errors,    \* the errors raised so far
    phase      \* "lines", then "use", "own" and "done"

vars == <<file, linenum, includes, errors, phase>>

Init ==
    /\ file \in IncludingFiles
    /\ linenum = 0
    /\ includes = NewIncludeState
    /\ errors = {}
    /\ phase = "lines"

-----------------------------------------------------------------------------
(* CheckLanguage.                                                          *)
At(kinds) ==
    /\ phase = "lines"
    /\ linenum < Len(file.lines)
    /\ file.lines[linenum + 1].kind \in kinds
    /\ linenum' = linenum + 1

Include ==
    LET checked == CheckIncludeLine(file, linenum + 1, includes)
    IN  /\ At({"include"})
        /\ includes' = checked.state
        /\ errors' = errors \cup checked.errors
        /\ UNCHANGED <<file, phase>>

Directive ==
    /\ At({"if", "else", "endif"})
    /\ includes' = ResetSection(includes, file.lines[linenum + 1].kind)
    /\ UNCHANGED <<file, errors, phase>>

OtherLine ==
    /\ At({"code", "blank"})
    /\ UNCHANGED <<file, includes, errors, phase>>

LastLine ==
    /\ phase = "lines"
    /\ linenum = Len(file.lines)
    /\ phase' = "use"
    /\ UNCHANGED <<file, linenum, includes, errors>>

-----------------------------------------------------------------------------
(* FilesBelongToSameModule: what is before the name of the header in the   *)
(* name of the source file, without the suffixes and directories that do   *)
(* not count.                                                              *)
ModuleDir(dir) ==
    LET kept[n \in 0 .. Len(dir)] ==
            IF n = 0 THEN <<>>
            ELSE IF dir[n] \in {"public", "internal"} THEN kept[n - 1]
            ELSE Append(kept[n - 1], dir[n])
    IN  kept[Len(dir)]

ModuleOfSource(p) ==
    Text([dir  |-> ModuleDir(Root \o p.dir), ext |-> "",
          base |-> WithoutLast(p.base, TestSuffixes)])

ModuleOfHeader(p) ==
    Text([dir  |-> IF p.dir = <<>> THEN <<>> ELSE <<Head(p.dir)>> \o ModuleDir(Tail(p.dir)),
          ext  |-> "",
          base |-> WithoutLast(p.base, {"inl"})])

FilesBelongToSameModule(p, header) ==
    /\ p.ext \in NonHeaderExtensions
    /\ header.ext \in HeaderExtensions
    /\ IsSuffix(ModuleOfHeader(header), ModuleOfSource(p))

CommonPath(p, header) ==
    SubSeq(ModuleOfSource(p), 1,
           Len(ModuleOfSource(p)) - Len(ModuleOfHeader(header)))

(* UpdateIncludeState: the files that are opened for the header.           *)
OpenedFor(header) ==
    {q \in DOMAIN file.disk :
        Text(FullName(q)) = CommonPath(file.path, header) \o Text(header)}

Opened_FaultyNone(s) == {}

Opened(s) ==
    UNION {OpenedFor(e.of) :
           e \in {x \in Entries(s) : FilesBelongToSameModule(file.path, x.of)}}

(* The last line that needs a header, for each one that is needed.         *)
Required(lines) ==
    LET Needing(p) == {n \in 1 .. Len(lines) : p \in Range(lines[n].needs)}
        Needed     == UNION {Range(lines[n].needs) : n \in 1 .. Len(lines)}
    IN  [p \in Needed |-> Max(Needing(p))]

CheckForIncludeWhatYouUse ==
    LET opened   == Opened(includes)
        included == {e.of : e \in Entries(includes)}
                      \cup UNION {Range(file.disk[q]) : q \in opened}
        givesUp  == opened = {} /\ file.path.ext \in NonHeaderExtensions
        required == Required(file.lines)
    IN  /\ phase = "use"
        /\ errors' = errors \cup
              IF givesUp THEN {}
              ELSE {<<required[p], "missing", p>> : p \in DOMAIN required \ included}
        /\ phase' = IF file.path.ext \in NonHeaderExtensions THEN "own" ELSE "done"
        /\ UNCHANGED <<file, linenum, includes>>

-----------------------------------------------------------------------------
(* CheckHeaderFileIncluded, of source files only.  The extensions are a    *)
(* set of strings, whose order is another one in each run of Python: the   *)
(* headers that come before the first included one are reported.           *)
OwnHeaders ==
    {q \in DOMAIN file.disk : /\ q.ext \in HeaderExtensions
                              /\ q = [file.path EXCEPT !.ext = q.ext]}

IsIncluded_FaultyLast(header, s) ==
    \E e \in Range(Last(s.lists)) : Overlap(RepositoryName(file, header), e.of)

IsIncluded(header, s) ==
    \E e \in Entries(s) : Overlap(RepositoryName(file, header), e.of)

IsTestFile(p) == Last(p.base) \in TestSuffixes /\ Len(p.base) > 1

CheckHeaderFileIncluded ==
    LET missing == {q \in OwnHeaders : ~IsIncluded(q, includes)}
        first   == IF Entries(includes) = {} THEN 0
                   ELSE Min({e.line : e \in Entries(includes)})
    IN  /\ phase = "own"
        /\ \E before \in SUBSET missing :
              /\ missing = OwnHeaders => before = missing
              /\ errors' = errors \cup
                    IF IsTestFile(file.path) THEN {}
                    ELSE {<<first, "own header", q>> : q \in before}
        /\ phase' = "done"
        /\ UNCHANGED <<file, linenum, includes>>

Next ==
    \/ Include \/ Directive \/ OtherLine \/ LastLine
    \/ CheckForIncludeWhatYouUse \/ CheckHeaderFileIncluded

Spec == Init /\ [][Next]_vars
=============================================================================
