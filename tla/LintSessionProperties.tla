----------------------- MODULE LintSessionProperties -----------------------
(***************************************************************************)
(* What a user may expect of a run of cpplint.py, whatever was linted      *)
(* before: stated on the arguments, the configurations and the files       *)
(* alone, without the state the run keeps.                                 *)
(***************************************************************************)
EXTENDS LintSession

-----------------------------------------------------------------------------
Args == session.args

CommandLine == DefaultFilters \o Args.filters

(* The configuration in the directory of component d of a path.            *)
In(p, d) == session.configs[SubSeq(p, 1, d - 1)]

Options(p, d) == In(p, d).options

Said(p, d, name) ==
    {i \in 1 .. Len(Options(p, d)) : Options(p, d)[i].name = name}

(* The configurations that have a say about a path, the nearest first: up  *)
(* to one that says "set noparent" or cannot be read.                      *)
Stops(p, d) ==
    In(p, d).exists /\ (In(p, d).readable => Said(p, d, "set noparent") # {})

Directories(p) ==
    {d \in 1 .. Len(p) : /\ In(p, d).exists /\ In(p, d).readable
                         /\ \A e \in d + 1 .. Len(p) : ~Stops(p, e)}

(* The nearest configuration with a filter that names the category         *)
(* decides, of its lines the first that does, then the command line.       *)
Matches(filters, category) ==
    \E i \in 1 .. Len(filters) : StartsWith(category, filters[i].of)

Naming(p, d, category) ==
    {i \in Said(p, d, "filter") : Matches(Options(p, d)[i].value, category)}

Filtered(p, category) ==
    LET Deciding == {d \in Directories(p) : Naming(p, d, category) # {}}
        d == Max(Deciding)
    IN  IF Deciding = {} THEN IsFiltered(CommandLine, category)
        ELSE IsFiltered(Options(p, d)[Min(Naming(p, d, category))].value, category)

Excluded(p) ==
    \E d \in Directories(p) :
        \E i \in Said(p, d, "exclude_files") : Options(p, d)[i].value = p[d]

LengthOf(p) ==
    LET Deciding == {d \in Directories(p) : Said(p, d, "linelength") # {}}
        d == Max(Deciding)
    IN  IF Deciding = {} THEN Args.length
        ELSE Options(p, d)[Max(Said(p, d, "linelength"))].value

(* The paths a user named, and those of them that are linted.              *)
Named(p) ==
    /\ \E d \in Args.named : IsPrefix(d, p) /\ (Args.recursive \/ d = p)
    /\ Args.recursive => p \in ValidNames
    /\ ~\E e \in Args.excludes : IsPrefix(e, p)

Linted(p) ==
    Named(p) /\ ~Excluded(p) /\ session.files[p].readable /\ p \in ValidNames

(* NOLINT, with a category or without, on one of some lines of the file    *)
(* stands for a line.                                                      *)
Suppresses(f, m, n, category) ==
    /\ f.lines[m].nolint \in {<<"any">>, category}
    /\ n = IF f.lines[m].next THEN m + 1 ELSE m

HasNolint(f, lines, n, category) == \E m \in lines : Suppresses(f, m, n, category)

(* The lines whose NOLINT counts when an error is raised: those looked at  *)
(* for the header guard so far, and when line n is processed also those up *)
(* to n.                                                                   *)
GuardLines(f, i) == {f.guard[j].line : j \in 1 .. i} \ {0}

LinesUpTo(f, n) == GuardLines(f, Len(f.guard)) \cup 1 .. n

(* The errors there are at a look for the header guard and while line n of *)
(* a file is processed.                                                    *)
BadNolintAt(f, n) ==
    IF n > 0 /\ f.lines[n].nolint = <<"unknown">> THEN {LineError(BadNolint, 5, n)} ELSE {}

RaisedByGuard(p, i) ==
    LET f == session.files[p]
    IN  Range(f.guard[i].raises) \cup BadNolintAt(f, f.guard[i].line)

RaisedAt(p, n) ==
    LET f == session.files[p]
    IN  Range(f.lines[n].raises) \cup BadNolintAt(f, n)
          \cup (IF f.lines[n].length > LengthOf(p) THEN {LineError(LineLength, 2, n)} ELSE {})

(* What is printed of some errors, and of a file that is linted: of        *)
(* copyright and before, of the guard and of the lines.                    *)
Message(p, e) == [path |-> p, line |-> e.line, category |-> e.category]

Passes(p, e) == e.confidence >= Args.verbose /\ ~Filtered(p, e.category)

Left(p, errors, lines) ==
    LET f == session.files[p]
    IN  {Message(p, e) : e \in
            {x \in errors : /\ Passes(p, x) /\ x.category \notin f.global
                            /\ ~HasNolint(f, lines, x.line, x.category)}}

ExpectedFirst(p) ==
    LET f == session.files[p]
    IN  {Message(p, e) : e \in {x \in Range(f.copyright) : Passes(p, x)}}
          \cup Left(p, Range(f.before), {})

ExpectedOfGuard(p, i) ==
    LET f == session.files[p]
    IN  UNION {Left(p, RaisedByGuard(p, j), GuardLines(f, j)) : j \in i .. Len(f.guard)}

ExpectedFrom(p, n) ==
    LET f == session.files[p]
    IN  Left(p, Range(f.after), LinesUpTo(f, Len(f.lines)))
          \cup (UNION {Left(p, RaisedAt(p, m), LinesUpTo(f, m)) : m \in n .. Len(f.lines)})

Expected(p) == ExpectedFirst(p) \cup ExpectedOfGuard(p, 1) \cup ExpectedFrom(p, 1)

-----------------------------------------------------------------------------
(* Between files the filters are those of the command line, by whichever   *)
(* way ProcessFile was left.                                               *)
FiltersRestored == phase \in {"idle", "exit"} => lint.filters = CommandLine

(* No length is set for one file that is not that of the file itself and   *)
(* of those that are linted later (README, "Findings").                    *)
Precedes(p, q) ==
    \E i, j \in 1 .. Len(Paths) : i < j /\ p = Paths[i] /\ q = Paths[j]

OneLength ==
    \A p, q \in Range(Paths) : (p = q \/ Precedes(p, q)) =>
        \A d \in Directories(p) : \A i \in Said(p, d, "linelength") :
            Options(p, d)[i].value = LengthOf(q)

(* In the end exactly the errors that pass verbosity, filters and the      *)
(* suppressions of their own file are printed, of the files that are       *)
(* linted: nothing of one file changes what is printed of another.  A      *)
(* NOLINT counts for what is reported once its line was looked at, which   *)
(* NolintHonoured, below, does not grant.                                  *)
PrintedExactly ==
    (phase = "exit" /\ OneLength) =>
        Range(printed) = UNION {Expected(p) : p \in {q \in Range(Paths) : Linted(q)}}

(* A table has each of the names, and no other, and how often it occurs.   *)
IsTally(table, names) ==
    /\ DOMAIN table = Range(names)
    /\ \A c \in DOMAIN table :
          table[c] = Cardinality({i \in 1 .. Len(names) : names[i] = c})

(* The total is the number of errors printed.  By category there is a      *)
(* count for each category of an error printed, in full or up to its "/",  *)
(* and for no other, and it is the number of its errors.  The program      *)
(* fails if anything was printed.                                          *)
CountsAgree ==
    /\ lint.errorCount = Len(printed)
    /\ lint.counting = "toplevel" =>
          IsTally(lint.byCategory,
                  [i \in 1 .. Len(printed) |-> <<printed[i].category[1]>>])
    /\ lint.counting = "detailed" =>
          IsTally(lint.byCategory, [i \in 1 .. Len(printed) |-> printed[i].category])
    /\ phase = "exit" => (exitCode = 1 <=> printed # <<>>)

-----------------------------------------------------------------------------
(* What the usage text says, but the code does not keep to.                *)
(* "To suppress false-positive errors of a certain category, add a         *)
(* 'NOLINT(category)' comment to the line": no error is printed for a line *)
(* that has one.                                                           *)
NolintHonoured ==
    \A i \in 1 .. Len(printed) :
        LET e == printed[i]
            f == session.files[e.path]
        IN  ~HasNolint(f, 1 .. Len(f.lines), e.line, e.category)

(* "CPPLINT.cfg has an effect on files in the same directory and all       *)
(* sub-directories, unless overridden by a nested configuration file": the *)
(* lines of a file are held against the length of its nearest              *)
(* configuration, or of the command line.                                  *)
NearestLengthCounts ==
    phase \in {"open", "guard", "lines"} => lineLength = LengthOf(path)
=============================================================================
