---------------------------- MODULE LintSession ----------------------------
(***************************************************************************)
(* One run of tools/cpplint/cpplint.py: ParseArguments, then ProcessFile   *)
(* for each file, over the module-wide _CppLintState: the filters with     *)
(* their backup, the line length, the suppressions of the current file and *)
(* the error counts.                                                       *)
(*                                                                         *)
(* A path is the sequence of its components.  What is linted is abstracted *)
(* to the errors it raises: a file has errors of its lines, each raised    *)
(* while some line is processed, errors raised before the first line, of   *)
(* those the header guard's one by one, and errors raised after the last.  *)
(* The line length stands for the other options of CPPLINT.cfg that set a  *)
(* global variable: extensions, root, headers and includeorder.            *)
(*                                                                         *)
(* A category is the pair of what is before and behind its "/", and text   *)
(* is a sequence of pieces: build/include_order is <<<<"build">>,          *)
(* <<"include", "_order">>>> where a filter may end behind "include".      *)
(***************************************************************************)
EXTENDS Integers, SequencesExt, FiniteSetsExt

CONSTANTS
    Paths,           \* the files there are, in the order sort() gives them
    ValidNames,      \* those of them whose extension is in GetAllExtensions()
    Sessions,        \* what there is to lint: arguments, configurations, files
    Parts,           \* what the two halves of a category may be
    Categories,      \* _ERROR_CATEGORIES
    DefaultFilters,  \* _DEFAULT_FILTERS
    DefaultLength    \* the line length without any option

(* A session has the arguments, for each directory its CPPLINT.cfg and for *)
(* each path its file:                                                     *)
(*   args   [named, recursive, excludes, filters, verbose, counting,       *)
(*           length]                                                       *)
(*   config [exists, readable, options], an option is [name, value]        *)
(*   file   [readable, global, copyright, before, guard, lines, after];    *)
(*           a line is [nolint, next, length, raises], its nolint a        *)
(*           category, <<"any">>, <<"unknown">> or nothing, <<>>;          *)
(*           guard has a [line, raises] for each line CheckForHeaderGuard  *)
(*           looks at for NOLINT before it reports, 0 for the marker put   *)
(*           before the file; it is empty if the file is no header;        *)
(* and an error is [category, confidence, line].                           *)
Errors == [category : Categories, confidence : Nat, line : Nat]

Filters == [sign : {"+", "-"}, of : Seq(STRING)]

BadNolint == <<<<"readability">>, <<"nolint">>>>
LineLength == <<<<"whitespace">>, <<"line_length">>>>

ASSUME PathsAssumption ==
    Paths \in Seq(Seq(UNION {Range(p) : p \in Range(Paths)}))

ASSUME CategoriesAssumption ==
    /\ Parts \subseteq Seq(STRING)
    /\ Categories \subseteq Parts \X Parts
    /\ {BadNolint, LineLength} \subseteq Categories

ASSUME FiltersAssumption == DefaultFilters \in Seq(Filters)

ASSUME SessionsAssumption ==
    \A s \in Sessions :
        /\ s.args.counting \in {"total", "toplevel", "detailed"}
        /\ s.args.filters \in Seq(Filters)
        /\ \A p \in Range(Paths) : \A d \in 1 .. Len(p) :
              LET options == s.configs[SubSeq(p, 1, d - 1)].options
              IN  /\ Len(options) \in Nat
                  /\ \A i \in 1 .. Len(options) :
                        options[i].name = "filter" => options[i].value \in Seq(Filters)
        /\ \A p \in ValidNames :
              LET f == s.files[p]
              IN  /\ {f.copyright, f.before, f.after} \subseteq Seq(Errors)
                  /\ Len(f.lines) \in Nat
                  /\ \A n \in 1 .. Len(f.lines) : f.lines[n].raises \in Seq(Errors)
                  /\ Len(f.guard) \in Nat
                  /\ \A i \in 1 .. Len(f.guard) :
                        /\ f.guard[i].line \in 0 .. Len(f.lines)
                        /\ f.guard[i].raises \in Seq(Errors)

VARIABLES
    session,     \* what is linted; it does not change
    phase,       \* where main is
    todo,        \* the paths still to process
    path,        \* the path in ProcessFile
    depth,       \* ProcessConfigOverrides looks in the first depth directories
    cfgFilters,  \* cfg_filters
    lint,        \* _cpplint_state
    lineLength,  \* _line_length
    suppressed,  \* _error_suppressions and _global_error_suppressions
    line,        \* the last line that was processed, or line of the guard
    printed,     \* the errors printed, each with its path
    exitCode

vars == <<session, phase, todo, path, depth, cfgFilters, lint, lineLength,
          suppressed, line, printed, exitCode>>

-----------------------------------------------------------------------------
(* Filters.                                                                *)
Name(category) == category[1] \o <<"/">> \o category[2]

StartsWith(category, pattern) == IsPrefix(pattern, Name(category))

IsFiltered(filters, category) ==
    LET Matching == {i \in 1 .. Len(filters) : StartsWith(category, filters[i].of)}
    IN  Matching # {} /\ filters[Max(Matching)].sign = "-"

(* IsErrorSuppressedByNolint.                                              *)
IsErrorSuppressedByNolint(s, category, n) ==
    \/ category \in s.global
    \/ <<category, n>> \in s.lines
    \/ <<<<"any">>, n>> \in s.lines

ShouldPrintError(s, e) ==
    /\ ~IsErrorSuppressedByNolint(s, e.category, e.line)
    /\ e.confidence >= lint.verbose
    /\ ~IsFiltered(lint.filters, e.category)

(* IncrementErrorCount.                                                    *)
CountedAs(counting, category) ==
    IF counting = "detailed" THEN category ELSE <<category[1]>>

Incremented_FaultyTotal(state, category) ==
    LET name == CountedAs(state.counting, category)
    IN  [state EXCEPT !.errorCount = @ + 1,
                      !.byCategory = [c \in DOMAIN @ \cup {name} |->
                                         IF c \in DOMAIN @ THEN @[c] ELSE 1]]

Incremented(state, category) ==
    LET name == CountedAs(state.counting, category)
        Count(c) == IF c \in DOMAIN state.byCategory THEN state.byCategory[c] ELSE 0
    IN  [state EXCEPT
            !.errorCount = @ + 1,
            !.byCategory = IF state.counting = "total" THEN @
                           ELSE [c \in DOMAIN @ \cup {name} |->
                                    IF c = name THEN Count(c) + 1 ELSE Count(c)]]

(* Error: told is _cpplint_state and what was printed.                     *)
Error(told, s, e) ==
    IF ShouldPrintError(s, e)
    THEN [state |-> Incremented(told.state, e.category),
          shown |-> Append(told.shown,
                           [path |-> path, line |-> e.line, category |-> e.category])]
    ELSE told

(* Each of a sequence of errors, while these suppressions are known.       *)
Reported(told, s, errors) ==
    LET after[i \in 0 .. Len(errors)] ==
            IF i = 0 THEN told ELSE Error(after[i - 1], s, errors[i])
    IN  after[Len(errors)]

Told == [state |-> lint, shown |-> printed]

Becomes(told) == lint' = told.state /\ printed' = told.shown

File == session.files[path]

-----------------------------------------------------------------------------
(* _IsParentOrSame.                                                        *)
IsParentOrSame(parent, child) == IsPrefix(parent, child)

Init ==
    /\ session \in Sessions
    /\ phase = "start"
    /\ todo = <<>>
    /\ path = <<>>
    /\ depth = 0
    /\ cfgFilters = <<>>
    /\ lint = [filters |-> DefaultFilters, backup |-> DefaultFilters, verbose |-> 1,
               counting |-> "total", errorCount |-> 0, byCategory |-> <<>>]
    /\ lineLength = DefaultLength
    /\ suppressed = [global |-> {}, lines |-> {}]
    /\ line = 0
    /\ printed = <<>>
    /\ exitCode = 0

(* ParseArguments with _ExpandDirectories and _FilterExcludedFiles: where  *)
(* --recursive is not given, what is named are files.                      *)
Chosen(Kept) ==
    LET chosen[i \in 0 .. Len(Paths)] ==
            IF i = 0 THEN <<>>
            ELSE IF Paths[i] \in Kept THEN Append(chosen[i - 1], Paths[i])
            ELSE chosen[i - 1]
    IN  chosen[Len(Paths)]

ParseArguments ==
    LET args  == session.args
        Named == {p \in Range(Paths) :
                     IF args.recursive
                     THEN p \in ValidNames /\ \E d \in args.named : IsParentOrSame(d, p)
                     ELSE p \in args.named}
        Kept  == {p \in Named : ~\E e \in args.excludes : IsParentOrSame(e, p)}
    IN  /\ phase = "start"
        /\ phase' = "idle"
        /\ todo' = Chosen(Kept)
        /\ lint' = [lint EXCEPT !.filters = DefaultFilters \o args.filters,
                                !.verbose = args.verbose,
                                !.counting = args.counting]
        /\ lineLength' = args.length
        /\ UNCHANGED <<session, path, depth, cfgFilters, suppressed, line, printed,
                       exitCode>>

(* ProcessFile, up to the loop of ProcessConfigOverrides.                  *)
StartFile ==
    /\ phase = "idle" /\ todo # <<>>
    /\ phase' = "config"
    /\ path' = Head(todo)
    /\ todo' = Tail(todo)
    /\ depth' = Len(Head(todo))
    /\ cfgFilters' = <<>>
    /\ lint' = [lint EXCEPT !.backup = lint.filters]
    /\ UNCHANGED <<session, lineLength, suppressed, line, printed, exitCode>>

RestoreFilters_FaultyNot == lint

RestoreFilters == [lint EXCEPT !.filters = lint.backup]

(* The options of a CPPLINT.cfg are read up to an exclude_files that       *)
(* matches.                                                                *)
Config == session.configs[SubSeq(path, 1, depth - 1)]

Excluding ==
    {i \in 1 .. Len(Config.options) :
        /\ Config.options[i].name = "exclude_files"
        /\ Config.options[i].value = path[depth]}

LastRead == IF Excluding = {} THEN Len(Config.options) ELSE Min(Excluding) - 1

Places(name) == {i \in 1 .. LastRead : Config.options[i].name = name}

(* cfg_filters with the filters of this CPPLINT.cfg appended.              *)
Gathered ==
    LET gathered[i \in 0 .. LastRead] ==
            IF i = 0 THEN cfgFilters
            ELSE IF i \in Places("filter")
                 THEN Append(gathered[i - 1], Config.options[i].value)
            ELSE gathered[i - 1]
    IN  gathered[LastRead]

NoConfig ==
    /\ phase = "config" /\ depth > 0
    /\ ~Config.exists
    /\ depth' = depth - 1
    /\ UNCHANGED <<session, phase, todo, path, cfgFilters, lint, lineLength,
                   suppressed, line, printed, exitCode>>

ConfigUnreadable ==
    /\ phase = "config" /\ depth > 0
    /\ Config.exists /\ ~Config.readable
    /\ depth' = 0
    /\ UNCHANGED <<session, phase, todo, path, cfgFilters, lint, lineLength,
                   suppressed, line, printed, exitCode>>

ReadConfig ==
    /\ phase = "config" /\ depth > 0
    /\ Config.exists /\ Config.readable
    /\ lineLength' = IF Places("linelength") = {} THEN lineLength
                      ELSE Config.options[Max(Places("linelength"))].value
    /\ IF Excluding # {}
       THEN /\ phase' = "idle"
            /\ lint' = RestoreFilters
            /\ UNCHANGED <<depth, cfgFilters>>
       ELSE /\ cfgFilters' = Gathered
            /\ depth' = IF Places("set noparent") # {} THEN 0 ELSE depth - 1
            /\ UNCHANGED <<phase, lint>>
    /\ UNCHANGED <<session, todo, path, suppressed, line, printed, exitCode>>

(* The top-level filters first, so that they have the least priority.      *)
InOrder(lists) ==
    LET order[i \in 0 .. Len(lists)] ==
            IF i = 0 THEN <<>> ELSE lists[i] \o order[i - 1]
    IN  order[Len(lists)]

ApplyFilters ==
    /\ phase = "config" /\ depth = 0
    /\ phase' = "open"
    /\ lint' = [lint EXCEPT !.filters = @ \o InOrder(cfgFilters)]
    /\ UNCHANGED <<session, todo, path, depth, cfgFilters, lineLength, suppressed,
                   line, printed, exitCode>>

(* The file cannot be opened, or its name is not that of a source file.    *)
SkipFile ==
    /\ phase = "open"
    /\ ~File.readable \/ path \notin ValidNames
    /\ phase' = "idle"
    /\ lint' = RestoreFilters
    /\ UNCHANGED <<session, todo, path, depth, cfgFilters, lineLength, suppressed,
                   line, printed, exitCode>>

(* ProcessFileData up to CheckForHeaderGuard: CheckForCopyright comes      *)
(* before ProcessGlobalSuppresions, RemoveMultiLineComments after it.      *)
ResetNolintSuppressions_FaultyNot == suppressed

ResetNolintSuppressions == [global |-> {}, lines |-> {}]

BeginFile ==
    LET clear == ResetNolintSuppressions
        known == [clear EXCEPT !.global = @ \cup File.global]
    IN  /\ phase = "open"
        /\ File.readable /\ path \in ValidNames
        /\ phase' = "guard"
        /\ line' = 0
        /\ suppressed' = known
        /\ Becomes(Reported(Reported(Told, clear, File.copyright), known, File.before))
        /\ UNCHANGED <<session, todo, path, depth, cfgFilters, lineLength, exitCode>>

(* ParseNolintSuppressions, of line n of the file.                         *)
ParseNolint(s, n) ==
    IF n > 0 /\ File.lines[n].nolint \in Categories \cup {<<"any">>}
    THEN [s EXCEPT !.lines =
              @ \cup {<<File.lines[n].nolint, IF File.lines[n].next THEN n + 1 ELSE n>>}]
    ELSE s

LineError(category, confidence, n) ==
    [category |-> category, confidence |-> confidence, line |-> n]

NolintErrors(n) ==
    IF n > 0 /\ File.lines[n].nolint = <<"unknown">>
    THEN <<LineError(BadNolint, 5, n)>> ELSE <<>>

(* CheckForHeaderGuard: its look at one line, then what it reports.        *)
CheckForHeaderGuard ==
    LET g    == File.guard[line + 1]
        then == ParseNolint(suppressed, g.line)
    IN  /\ phase = "guard" /\ line < Len(File.guard)
        /\ line' = line + 1
        /\ suppressed' = then
        /\ Becomes(Reported(Told, then, NolintErrors(g.line) \o g.raises))
        /\ UNCHANGED <<session, phase, todo, path, depth, cfgFilters, lineLength,
                       exitCode>>

GuardChecked ==
    /\ phase = "guard" /\ line = Len(File.guard)
    /\ phase' = "lines"
    /\ line' = 0
    /\ UNCHANGED <<session, todo, path, depth, cfgFilters, lint, lineLength, suppressed,
                   printed, exitCode>>

(* ProcessLine: ParseNolintSuppressions, then the checks.                  *)
ProcessLine ==
    LET n    == line + 1
        l    == File.lines[n]
        then == ParseNolint(suppressed, n)
        long == IF l.length > lineLength THEN <<LineError(LineLength, 2, n)>> ELSE <<>>
    IN  /\ phase = "lines" /\ n <= Len(File.lines)
        /\ line' = n
        /\ suppressed' = then
        /\ Becomes(Reported(Told, then, NolintErrors(n) \o l.raises \o long))
        /\ UNCHANGED <<session, phase, todo, path, depth, cfgFilters, lineLength,
                       exitCode>>

(* The checks after the loop.  They count in lint, so that the filters are *)
(* restored by a step of its own.                                          *)
EndFile ==
    /\ phase = "lines" /\ line = Len(File.lines)
    /\ phase' = "done"
    /\ Becomes(Reported(Told, suppressed, File.after))
    /\ UNCHANGED <<session, todo, path, depth, cfgFilters, lineLength, suppressed,
                   line, exitCode>>

DoneProcessing ==
    /\ phase = "done"
    /\ phase' = "idle"
    /\ lint' = RestoreFilters
    /\ UNCHANGED <<session, todo, path, depth, cfgFilters, lineLength, suppressed,
                   line, printed, exitCode>>

(* The end of main.                                                        *)
Exit ==
    /\ phase = "idle" /\ todo = <<>>
    /\ phase' = "exit"
    /\ exitCode' = IF lint.errorCount > 0 THEN 1 ELSE 0
    /\ UNCHANGED <<session, todo, path, depth, cfgFilters, lint, lineLength,
                   suppressed, line, printed>>

Next ==
    \/ ParseArguments \/ StartFile
    \/ NoConfig \/ ConfigUnreadable \/ ReadConfig \/ ApplyFilters
    \/ SkipFile \/ BeginFile \/ CheckForHeaderGuard \/ GuardChecked
    \/ ProcessLine \/ EndFile \/ DoneProcessing
    \/ Exit

Spec == Init /\ [][Next]_vars
=============================================================================
