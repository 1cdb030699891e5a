------------------------ MODULE LintSessionInvariant ------------------------
(***************************************************************************)
(* Why a run of cpplint.py counts what it prints and keeps the filters of  *)
(* its command line (LintSession): what is true of _cpplint_state between  *)
(* two steps, and between two errors of one step.                          *)
(***************************************************************************)
EXTENDS LintSessionProperties

(* The keys of errors_by_category, and errors_by_category.                 *)
Names == (Parts \X Parts) \cup {<<c>> : c \in Parts}

Tables == UNION {[D -> Nat] : D \in SUBSET Names}

(* _cpplint_state with the options of l.                                   *)
States(l) ==
    [filters : {l.filters}, backup : {l.backup}, verbose : {l.verbose},
     counting : {l.counting}, errorCount : Nat, byCategory : Tables]

Messages == [path : ValidNames, line : Nat, category : Parts \X Parts]

Of(counting, shown, c) ==
    {i \in 1 .. Len(shown) : CountedAs(counting, shown[i].category) = c}

(* A state has counted the messages shown: every one in the total, and     *)
(* under one name, unless nothing is counted by category.                  *)
Tallied(state, shown) ==
    /\ state.errorCount = Len(shown)
    /\ state.counting \in {"total", "toplevel", "detailed"}
    /\ state.counting # "total" =>
          /\ \A i \in 1 .. Len(shown) :
                CountedAs(state.counting, shown[i].category) \in DOMAIN state.byCategory
          /\ \A c \in DOMAIN state.byCategory :
                /\ state.byCategory[c] = Cardinality(Of(state.counting, shown, c))
                /\ Of(state.counting, shown, c) # {}

(* What Error starts from and ends with, as long as no option changes.     *)
Tolds(l) ==
    {t \in [state : States(l), shown : Seq(Messages)] : Tallied(t.state, t.shown)}

(* Where ProcessFile is between the two places where it copies filters.    *)
Processing == {"config", "open", "guard", "lines", "done"}

SessionInv ==
    /\ session \in Sessions
    /\ phase \in {"start", "idle", "exit"} \cup Processing
    /\ Told \in Tolds(lint)
    /\ phase = "start" => printed = <<>> /\ lint.byCategory = <<>>
    /\ phase \in {"idle", "exit"} => lint.filters = CommandLine
    /\ phase \in Processing => lint.backup = CommandLine
    /\ phase \in {"guard", "lines"} => path \in ValidNames
    /\ line \in Nat
    /\ phase = "exit" => exitCode = IF lint.errorCount > 0 THEN 1 ELSE 0

-----------------------------------------------------------------------------
(* What is printed of the files that were linted, and what will be of the  *)
(* others.                                                                 *)

(* The paths come in their order, and each was named.                      *)
PathsInv ==
    /\ lint.verbose = Args.verbose
    /\ todo \in Seq(Range(Paths))
    /\ \A i \in 1 .. Len(todo) : Named(todo[i])
    /\ \A i, j \in 1 .. Len(todo) : i < j => Precedes(todo[i], todo[j])
    /\ phase \in Processing =>
          /\ path \in Range(Paths) /\ Named(path)
          /\ \A i \in 1 .. Len(todo) : Precedes(path, todo[i])
    /\ phase = "exit" => todo = <<>>

(* The directories whose configurations were read.                         *)
Visited == {d \in Directories(path) : d > depth}

(* Of the lists in cfg_filters the first that names a category is the one  *)
(* of the nearest configuration that does.                                 *)
FirstNaming(lists, k, category) ==
    /\ Matches(lists[k], category)
    /\ \A i \in 1 .. k - 1 : ~Matches(lists[i], category)

Decides(filters, lists, category) ==
    \E k \in 1 .. Len(lists) : FirstNaming(lists, k, category) /\ lists[k] = filters

NoneMatches(lists, category) ==
    \A i \in 1 .. Len(lists) : ~Matches(lists[i], category)

Nearest(d, category) ==
    /\ Naming(path, d, category) # {}
    /\ \A e \in Visited : e > d => Naming(path, e, category) = {}

GatheredInv ==
    /\ cfgFilters \in Seq(Seq(Filters))
    /\ \A c \in Categories :
          /\ (\A d \in Visited : Naming(path, d, c) = {}) => NoneMatches(cfgFilters, c)
          /\ \A d \in Visited : Nearest(d, c) =>
                Decides(Options(path, d)[Min(Naming(path, d, c))].value, cfgFilters, c)

ConfigInv ==
    /\ depth \in 0 .. Len(path)
    /\ depth > 0 => \A e \in depth + 1 .. Len(path) : ~Stops(path, e)
    /\ \A d \in Visited : \A i \in Said(path, d, "exclude_files") :
          Options(path, d)[i].value # path[d]
    /\ lint.filters = CommandLine
    /\ GatheredInv

OpenInv ==
    /\ ~Excluded(path)
    /\ \A c \in Categories : IsFiltered(lint.filters, c) <=> Filtered(path, c)

(* The NOLINT comments of some lines, and the suppressions when these      *)
(* lines were looked at.                                                   *)
Noted(f, lines) ==
    {<<f.lines[m].nolint, IF f.lines[m].next THEN m + 1 ELSE m>> :
        m \in {i \in lines : f.lines[i].nolint \in Categories \cup {<<"any">>}}}

Knows(s, f, lines) == s = [global |-> f.global, lines |-> Noted(f, lines)]

ReadInv ==
    /\ Linted(path)
    /\ phase = "guard" =>
          line \in 0 .. Len(File.guard) /\ Knows(suppressed, File, GuardLines(File, line))
    /\ phase = "lines" =>
          line \in 0 .. Len(File.lines) /\ Knows(suppressed, File, LinesUpTo(File, line))

(* The length is that of the command line until a configuration is read    *)
(* that sets it, and then it is the one.                                   *)
LengthInv ==
    OneLength =>
        /\ \A i \in 1 .. Len(todo) : lineLength \in {Args.length, LengthOf(todo[i])}
        /\ phase = "config" =>
              /\ lineLength \in {Args.length, LengthOf(path)}
              /\ (\E d \in Visited : Said(path, d, "linelength") # {}) =>
                    lineLength = LengthOf(path)
        /\ phase \in {"open", "guard", "lines"} => lineLength = LengthOf(path)

(* What is to be printed in the end, and of it what is still to come.      *)
Wanted == UNION {Expected(p) : p \in {q \in Range(Paths) : Linted(q)}}

Due(p) == IF Linted(p) THEN Expected(p) ELSE {}

PathDue ==
    CASE phase \in {"config", "open"} -> Due(path)
      [] phase = "guard" -> ExpectedOfGuard(path, line + 1) \cup ExpectedFrom(path, 1)
      [] phase = "lines" -> ExpectedFrom(path, line + 1)
      [] OTHER -> {}

TodoDue == UNION {Due(p) : p \in Range(todo)}

PrintInv ==
    OneLength =>
        /\ Range(printed) \subseteq Wanted
        /\ Wanted \subseteq Range(printed) \cup PathDue \cup TodoDue

PrintedInv ==
    phase # "start" =>
        /\ PathsInv
        /\ phase = "config" => ConfigInv
        /\ phase \in {"open", "guard", "lines"} => OpenInv
        /\ phase \in {"guard", "lines"} => ReadInv
        /\ LengthInv
        /\ PrintInv
=============================================================================
