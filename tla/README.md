# A TLA+ verification of jaclks

jaclks is a C++ library of classes with the interfaces of the JDK, and keeps the
linter that guards its style, `tools/cpplint/cpplint.py`, beside its sources. This
directory models the parts of both that keep state, checks the models with TLC on
small instances, and proves theorems about them with TLAPS. Paths below are
relative to the repository; `base/` stands for
`src/jaclks-internal/javac-base/java/` and `inc/` for
`include/jaclks/javac-base/java/`; a line of `cpplint.py` is written `:1234`.

| component | models | what is shown |
|---|---|---|
| Thread | `RunnableLife`, `Thread`, `ThreadProperties`, `ThreadInvariant`, `ThreadProofs`, `ThreadLifeProofs`, `MCThread` | checked, refinement and liveness included; safety and the refinement proved |
| String storage | `StringValue`, `StringStorage`, `StringProperties`, `StringInvariant`, `NaturalLemmas`, `StringProofs`, `MCString` | checked and proved, refinement included |
| cpplint | `CleansedLines`, `CloseExpression`, `LintText`, `EmptyBlockBody`, `NestingState`, `FunctionState`, `ProcessLine`, `IncludeState`, `CheckIncludes`, `LintSession`; their `...Properties`, `...Invariant`, `...Proofs` and `MC...` | checked, against references that read the file as a whole; all of the includes, the types of the text, the types and preprocessor branches of the blocks, and all of the session proved |
| all others | | inventory and plan below |

## 1. Inventory

**Thread** (`base/lang/thread.cc`, `inc/lang/thread.h`, `inc/lang/runnable.h`).
An object keeps `state_`, `tid_`, `runner_` and `owned_`. Its clients construct
it, `Start`, `Join` and `Cancel` it, move it and destroy it. Each started object
has a pthread that executes `thread_call`. Client and pthread share the
`RunnableArg` on the stack of `Start` and the `Runnable` on the heap; the atomic
`running` is their only synchronisation until `pthread_join`. Hard: the pthread
may be scheduled at any time before or after `Start` goes on; the runnable passes
from the object through the frame of `Start` to the pthread and somebody has to
delete it exactly once; `Join` hides in the destructor and in move assignment and
blocks; cancellation ends a runnable anywhere. Correct means: no use of the frame
of `Start` after its return, no use or deletion of a deleted runnable, no leak, one
`pthread_join` for each pthread, a `state_` that tells the truth, and calls that
return.

**String, its storage** (`base/lang/string.cc`, `inc/lang/string.h`). An object
keeps `own_`, `len_`, `buf_` and a union of a local buffer of 16 characters with
`info_` (`cap`, `head`). A short text lives in the object, a long one in a heap
block, and a reference shows characters of the caller. In-place trimming moves
`buf_` into the middle of its buffer or writes a NUL. Hard: the same operation has
up to four cases by where the text lives and whether it is owned, and what one
operation leaves behind (a pointer inside its buffer, a missing NUL, a forgotten
head) hurts another one much later. Correct means: objects are independent values,
the heap is freed exactly once, the caller's characters are never written, and
every text ends with a NUL inside its buffer.

**String, its queries** (same files, `base/lang/character.cc`). `IndexOf`,
`LastIndexOf`, `StartsWith`, `EndsWith`, `operator==`, `std::less<String>`: pure.
Hard: index arithmetic on `size_t` (wrap-around for empty strings and large
offsets), a hand-written backwards search. Correct means: the answer of the
reference definition, no read outside the text, comparisons that are an
equivalence and an order. `Split` and `SubString` are stubs.

**MessageDigest** (`base/security/*`, `inc/security/message_digest.h`). A digest
keeps `state_` and an SPI object, MD5 keeps an OpenSSL context. `Update`,
`Digest`, `Reset`. Hard: `Digest` does not start the context over, `Reset`
rebuilds the object in place, errors of OpenSSL are ignored, an unknown algorithm
gives an instance without an engine. Correct means: a digest is that of exactly
the bytes given since the last start, and each context is freed once.

**Regex** (`base/util/regex/*`, `inc/util/regex/*`). A `Pattern` owns a
`RegexImpl`; a `Matcher` points to it and keeps a region, the last match and a map
of group names. Hard: "found" is coded by an iterator that an empty match can
equal, a cursor that empty matches do not advance, names numbered apart from
groups, raw pointers with copied owners. Correct means: `Find` enumerates the
matches of the region and ends, `Group` answers for the last match, the engine
outlives its matchers.

**Maps** (`inc/util/*.h`). `Map` implements the default methods of Java on five
virtual ones; `HashMap` and `TreeMap` wrap standard containers; `TreeMap` adds
navigation, polling, views that are copies, and a reversed copy. Hard: default
methods read, call a function of the client, and write, and that function may
change the map; iteration with callbacks; comparators that return `bool` or `int`.
Correct means: a map is a function from keys to values, default methods keep their
contracts, navigation agrees with the order of the comparator.

**Comparators, hashers** (`include/jaclks/function`, `hash`, `compile`): pure.
Null pointers come first, otherwise the order and hash of what is pointed to.

**System, exceptions, Runnable**: no state. **Build, CI**: files that configure
compilers and download dependencies, no state between their steps.

**cpplint** (`tools/cpplint/cpplint.py`, a single thread). Per run: the arguments, the
filters and their backup, the counts, the line length and other options that
configurations set. Per file: the lines in four forms (as read, without long
comments, without raw strings, elided), a stack of blocks with a stack of
preprocessor branches, the function it is in, the include lists with section and
last header, the suppressed lines and categories. Hard: every check reads a file from
the top, one line at a time, by regular expressions, and keeps in those states what a
compiler would know from parsing it: whether a line is in a comment, a literal, a class,
a function, an assembly block or a branch that is not compiled. A state that is wrong
at one line is wrong for the rest of the file, silently, or for the next file. Correct
means: the states agree with a reading of the whole file, a report is made exactly
where its rule is broken, and what is printed of one file does not depend on another.

Interactions: `Matcher` and `MessageDigest` hold Strings by value and call their
constructors, moves and comparisons; `Matcher` keys a `std::map` by `String`;
`TreeMap` calls a comparator. Only `Thread` is concurrent. Nothing is persisted, so
there is no recovery to model, and nothing is sent over a network. cpplint shares no
state with the library; its parts meet in `ProcessFile` (:6694), which restores the
filters, and in `ProcessLine` (:6425), which calls them one after the other.

## 2. Plan

1. Thread: `RunnableLife` (abstract), `Thread`, properties, invariant, proofs. *Done.*
2. String storage: `StringValue` (abstract), `StringStorage`, properties, proofs.
   *Done.*
3. cpplint: the text (`CleansedLines`, `CloseExpression`, `LintText`, `EmptyBlockBody`), the
   blocks (`NestingState`, `FunctionState`, `ProcessLine`), the includes (`IncludeState`,
   `CheckIncludes`), the session (`LintSession`). *Done, but for the checks listed in
   section 5; proved are the types of the text, the includes, the branches of the blocks and
   the session.*
4. `StringSearch`: the queries as step-by-step algorithms with their loop variables,
   against reference definitions; comparisons as an equivalence and an order.
5. `Digest`: the digest object over an external OpenSSL context; abstract
   specification: the sequence of bytes since the last start.
6. `Matcher`: cursor, region, groups and ownership over an external engine given as
   the set of its matches.
7. `MapDefaults` and `TreeMap`: default methods split around their callbacks, over an
   abstract map; navigation and views over a comparator that is a constant.
8. Proofs still to come: that the stack of blocks follows the braces (`BracesMatched`), and
   the default methods of the maps.

Composition: `Digest` and `Matcher` use what `StringValue` promises, not the
storage. Every module that is to be proved about takes its parameters as constants
with named assumptions and uses no recursive operator.

## 3. Thread

### The model

`Thread` models the POSIX build. An object is a record in `obj` with the four fields
of the class. Each client call is an action; one that blocks is two, and `pc` says
where the client is in between:

| code | actions |
|---|---|
| constructors | `Construct` |
| `Start` | `Start` (or `StartFails`), `StartReturns` |
| `Join` | `Join`, `JoinReturns` |
| `Cancel` | `Cancel`, `CancelReturns` |
| `~Thread` | `Destroy`, `DestroyReturns` |
| moves | `MoveConstruct`, `MoveAssign`, `AssignReturns` |
| `thread_call` | `ReadArg`, `Signal`, `BeginRun`, `RunReturns` or `RunTerminates` or `RunCancelled`, `Exit` |

`arg` is the frame of `Start`, with the `RunnableArg` in it; it exists while the
client is in the loop of `Start`. `pthread` holds the locals of `thread_call` and its
place. `deleted` and `built` are the heap. Undefined behaviour ends a behaviour and is
recorded in `fate`, so "no undefined behaviour" is an invariant and not an
assumption. An exception of `Run` that is a `std::exception` is part of
`RunReturns`, any other ends the program (`RunTerminates`).

What is assumed of clients and platform are constants: `Restart` (a client may start
an object again), `MustStart` (every thread over a runnable it does not own is
started), `SpawnFailures`, `CancelFailures` (`pthread_cancel` may answer ESRCH for a
thread that has exited, as on macOS) and `Unwinds` (cancellation runs destructors:
glibc does, macOS does not). An object has one client at a time; clients of different
objects interleave freely.

`RunnableLife` is what a user is promised about a runnable given away: run at most
once, destroyed at most once and not before its `Run` is over, destroyed when a
waiting call returns.

### What the runs check

| run | instance | question |
|---|---|---|
| `thread_owned` | 3 objects, 3 owned runnables, 3 pthreads; one runnable loops until cancelled | no undefined behaviour (`MemorySafe`, `ArgOutlivesHandshake`), one holder per runnable (`SoleHolder`), one join per pthread (`JoinedOnce`), truthful `state_` (`StateReflectsThread`) |
| `thread_life` | 2 of each, fair; `pthread_create` and `pthread_cancel` may fail | `Thread` implements `RunnableLife` (`LifeSpec`); `Start`, `Cancel`, `Join`, the destructor and move assignment return (`CallsReturn`); a started runnable is destroyed (`StartedIsReclaimed`) |
| `thread_shared` | 3 objects, 1 owned and 1 shared runnable, 3 pthreads, `Restart`, no unwinding, cancel may fail | a shared runnable survives all its threads, provided they are all started (`RunnableOutlivesRun`, `SharedNeverDeleted`); the one thing that goes wrong by starting an object again is running a null runnable (`OnlyNullRun`); only cancelled runnables are lost (`LostOnlyByCancel`) |
| `thread_unowned` | 2 objects, 1 shared runnable, not always started | finding: `Join`, the destructor and a failing `Start` delete a runnable that is not owned |

Three objects are enough for every pattern of moves (a target, a source, and a third
that interferes), and a move assignment that blocks while another thread ends needs
two pthreads. Three runnables let a holder go wrong while two others are in use.
Pthreads are created at most `Tids` times; this is the only bound, and a behaviour
that has used them up goes on with everything else. Deadlock is checked in all runs:
`Quiet` stands for a program that has ended, has nothing to call on, or waits for a
runnable that loops, and for nothing else.

### Fairness

`FairSpec` asks for weak fairness of every pthread's next step and of the second
half of every client call. This is what a preemptive scheduler gives: the loop of
`Start` yields, and a pthread that can go on is run. Nothing is assumed of clients
between calls. `Run` returns unless it is in `Looping`; a cancellation is acted upon if
`Run` reaches cancellation points (`Interruptible`).

### What is proved

The two proof modules prove, for any number of objects, runnables and pthreads and
for every value of the switches not named:

| module | theorem | assumes | shows |
|---|---|---|---|
| `ThreadProofs` | `TypeCorrect` | nothing | `TypeOK` |
| | `HandshakeCorrect` | nothing | `ArgOutlivesHandshake` |
| | `NullRunOnly` | `Contract` | `OnlyNullRun` |
| | `MemorySafety` | `Contract`, no `Restart` | `MemorySafe` |
| | `RunnableSafety` | `Contract` | `RunnableOutlivesRun` |
| | `SharedSafety` | `Contract` | `SharedNeverDeleted` |
| | `SoleOwnership` | `Contract`, `Unwinds` | `SoleHolder` |
| | `LossOnlyByCancel` | `Contract` | `LostOnlyByCancel` |
| `ThreadLifeProofs` | `JoinedExactlyOnce` | no `Restart`, no `CancelFailures` | `JoinedOnce` |
| | `StateIsTrue` | no `Restart` | `StateReflectsThread` |
| | `ThreadImplementsLife` | `Contract` | `LifeSpec` |

`Contract` says that clients, if there are shared runnables at all, start every thread
over one, and that `pthread_create` does not fail then. `thread_unowned` shows what
happens without it, `thread_shared` what starting an object again can do. The
assumptions of `JoinedExactlyOnce` are those the code makes: a second `Start`
overwrites the `tid_` of a pthread nobody has joined, and a `Cancel` that
fails does not join.

None of the properties is inductive. `ThreadInvariant` builds the invariant in
layers, each proved with those before it:

1. `TypeInv`: types; whoever waits has a pthread to wait for; the source of a move
   assignment under way is lent to exactly one target. Without the last, a second
   assignment could move from it while the first blocks.
2. `FrameInv`: before its store to `running` a pthread has the frame of a `Start` that
   has not seen it. It needs nothing from the clients, which is why
   `HandshakeCorrect` does not either.
3. `FlagInv`: the runnable and the flag that says whether it is owned travel together
   from the object through the frame to the pthread.
4. `CustodyInv`: an owned runnable is with at most one object or pthread, allocated and
   not deleted. Inside `Start` the object still points at it, but it is the
   pthread's already (`Held`): this is the window in which nothing may read `runner_`.
5. `HasRunnableInv`: without `Restart` a pthread has a runnable until it has run it, which
   turns `OnlyNullRun` into `MemorySafe`.
6. `GivenUpInv`, `KeptInv`: the converse of custody, for `SoleOwnership` and
   `LossOnlyByCancel`: an object that runs has no runnable left, and no allocated
   runnable is without a holder unless its thread was cancelled without unwinding.
7. `JoinedInv`, `AwaitInv`, `AwaitedInv`: a joined pthread has exited; at most one object is
   to join a pthread, none once it is joined and one until then.
   `DoneInv`: what says `kDone` or `kCanceled` has seen its pthread exit.
8. `GivenInv`, for the refinement: custody over time. No owned runnable is given to two
   pthreads, one after the other either, because an object that gave it away never has
   it again. Every action is then mapped to the action of `RunnableLife` that moves the
   phase of one runnable, or shown to change no phase, nothing destroyed and
   nothing awaited.

The liveness of `thread_life` (`CallsReturn`, `StartedIsReclaimed`) is only
model-checked: it is out of the prover's reach.

### Not modelled

The Windows branches (the repository lists Windows as not supported); two clients
of one object at once (the class synchronises nothing and nothing in the repository
promises it); a runnable that itself owns thread objects; `Yield`, `Sleep`, thread names
and getters.

## 4. String storage

### The model

`StringStorage` models what every function does to the buffers. An object is a record
with `own`, `len`, `buf` and `off` (together `buf_`), `cap` and `head`; `mem` holds the
characters of every buffer with the final NUL: of the local buffer of each object,
of each heap block, of each array of the caller. Functions of the class are
operators from a world to a world, and call each other as the code does: copy assignment
is the destructor followed by a constructor, a `Trim` that has to copy makes a
temporary, moves from it and destroys it. Each public operation is an action that applies
them. Undefined behaviour (a double free, a free of a pointer malloc did not return, a
read of freed memory or through null, a length that wraps) ends a behaviour with its
name in `fate`; so does `std::bad_alloc` when the blocks are used up.

Characters are abstract: white space (`White`, what `isspace` accepts), everything up to
`' '` in the order of `char` (`Low`, what `Trim` removes; it includes control characters,
the NUL and, where `char` is signed, every byte above 127), and the rest.

Clients may do with an object whatever its class allows: use it after it was moved from,
and reset it after its text was stripped, though the code survives neither (section 7). One
contract is left, the switch `CopyReset` (copying an object that was `Reset`). It is FALSE in
both runs: after `Reset` the object passes for a reference, its copies share its buffer, and
no property of values holds of them. The arrays of the caller outlive the references
to them and are not changed by the caller.

`StringValue` says what all of this is for: each object is a sequence of characters of
its own. Its trimming is defined from the first and last character that stays, not by
loops.

### What the runs check

| run | instance | question |
|---|---|---|
| `string_storage` | 2 objects, 2 blocks, 3 texts with NULs inside | types; in memory nothing goes wrong but the two faults that are known, a null read through a moved-from object and a `Reset` that frees the middle of a block (`OnlyKnownFaults`); one user per block (`SoleUser`), no leak but by moves (`LostOnlyByMove`), termination inside the buffer (`Terminated`), and `EachAsPromised` of texts with NULs |
| `string_value` | 2 objects, 2 blocks, 2 texts without NULs | the storage implements `StringValue` (`ValueSpec`), so that no operation changes another object or the caller's characters, and each operation does what its name says (`EachAsPromised`, of operations on objects and of those that make or end one) |

Two objects suffice: an operation has at most two operands, and a third could
only repeat what one of them does. `kLocalCapacity` is 3 instead of 16, so that texts of
two characters are held in the object and longer ones on the heap, on both sides of the
boundary. A block is handed out once, so that a stale pointer never meets a new
owner by chance; with two blocks both objects can be on the heap at once, or one can be
there again after its block was freed or lost. A behaviour ends with the first fault, so
that both known faults are reached in every way two objects and two blocks allow.

`LostOnlyByMove` is a weakened leak property: the move constructor does not take
`info_` along (`string.cc:126`), so every moved long string leaks its block and
answers 0 for its `Capacity()`.
`EachAsPromised` has two premises for what the code does not do: of a copy assignment it
says nothing if the text has a NUL inside (`HasNul`), of the static `Trim` nothing if the text
has nothing to trim (`Trims`). The code cuts the one short and answers the empty string
for the other (section 7). `StringValue` has neither exception; there the static `Trim` is one
way of making a trimmed text, and an empty string is a string.

### What is proved

For any number of objects, blocks and callers, any texts and any `LocalCapacity`,
all under `Contract`, which is that clients do not copy an object that was reset:

| module | theorem | assumes besides | shows |
|---|---|---|---|
| `StringProofs` | `StorageTypeCorrect` | | `TypeOK` |
| | `OnlyKnownFaultsCorrect` | | `OnlyKnownFaults` |
| | `TerminatedCorrect` | | `Terminated` |
| | `SoleUserCorrect` | | `SoleUser` |
| | `LostOnlyByMoveCorrect` | | `LostOnlyByMove` |
| | `ValueImplemented` | `NulFree` | `ValueSpec` |
| | `EachCorrect` | | `EachAsPromised` |

`NulFree` says that no caller's text has a NUL inside; with one, copy assignment
shortens it (section 7).

`OnlyKnownFaults` is an action property: it names, for each way a step can end in undefined
behaviour, the operation and the state of its object. Its proof is that every function of the
class fails only so (`Faults`), by the same invariant as the rest.

The properties fail inside an operation: between the destructor and the constructor of a
copy assignment the target has a pointer to a freed block, and a temporary and an object
share one until the temporary is emptied. `StringInvariant` therefore defines
`Sound(w, A)` of any world `w` and the set `A` of the objects whose fields mean something in
it. Each of them is `Intact` (its buffer is its own, an allocated block or a caller's; text
and NUL are inside it; what is not owned is never the object's head), two of them never
have a block in common (`Separate`), an allocated block is known to one of them or was lost
(`Accounted`), and the callers' arrays are as they were. `StorageInv` is `Sound` of the
present world and its living objects. The lemmas of `StringProofs` say of every function of the
class what it does to such a world: which object it adds to `A` or takes out of it (`Takes`),
that it leaves the texts of all others alone (`Keeps`), and which text it
makes (`Text`). An operation is the composition of these, and each step lemma
(`TrimStep`, `CopyAssignStep`, ...) ends with what becomes of the texts of all objects
(`Gave`, `Gives`).

The first part of `StringProofs` has the facts about texts these need: where the loops of
trimming stop, that what `strlen` finds is the text, and that cutting by loops is cutting at
the first and last character that stays, which is how `StringValue` defines it. `StaticTrimIsTrim` is
the one with an exception, the empty answer for a text with nothing to trim.
`NaturalLemmas` has the least element of a set of numbers, and induction and recursion
stated with sets and functions, since the library states them with operators as
parameters. For `ValueImplemented` copy assignment needs more than `StorageInv`: its source must have no NUL,
so `ValueInv` adds that no text ever gets one (`Clean`), which is proved of the abstract
operations (`ValueCleanStep`) and so holds of the storage that implements them.

### Not modelled

A reference made from `CStr()` of another object (no code or test makes one), what an
object is worth after `std::bad_alloc`, and the queries (section 2).

## 5. cpplint

The properties of this part all have one form: the code reads a file line by line and
keeps a state; the property reads the file as a whole, as a compiler or a preprocessor
would, without that state, and the two must agree. Where the line by line approach
cannot be right, or the code is known to be wrong, a named restriction inside the property
says of which files the agreement holds:

| property | says nothing of |
|---|---|
| `ElidedIsCode`, `EmptyBodiesReported` | files that are not `Plain`; of the latter also an `OddComment` |
| `SpansReported` | what comes after something else unusual in the file |
| `BracketsMatched` | `<` with operators before its partner (`OnlyShifts`, `NoOperators`) |
| `BracesMatched` | files that are not `WellFormed`, lines of an `#else` |
| `BlocksReported` | files that are not `WellFormed` or have directives |
| `ClassEndKnown` | besides, files with two braces on a line (`OneBrace`), classes whose brace is not on their first line |
| `FunctionSizeReported` | files that are not `Styled` |
| `DuplicatesReported` | an `#else` after a nested conditional (in `AlternativesSpared`) |
| `OwnHeaderAsked` | includes in branches that others follow (`Replaced`), a header that is not included where one of a similar name is |
| `UsesIncluded` | `Replaced` includes, headers whose directories are called `public` or `internal` (`ModuleHeaders`), needs that only an opened file of another module has (`Candidates`) |
| `PrintedExactly` | lengths that differ along a path or from file to file (`OneLength`) |

The findings in section 7 are the other side of these.

### The text

| code | model |
|---|---|
| `RemoveMultiLineComments` (:1914) | `CommentRemoved`, `CommentsDone` |
| `CleanseRawStrings` (:1808) | `RawStringBegins`, `RawStringGoesOn`, `RawStringEnds`, `NoRawString`, `RawStringsDone` |
| `_CollapseStrings`, `CleanseComments` (:1930-2041) | `CollapseString`, `CollapseChar`, `CollapseNumber`, `ElideLine` |
| `CheckForMultilineCommentsAndStrings` (:2597) | the action of that name |
| `CloseExpression` and the function it calls (:2044-2163) | `CloseExpression`, `ScanForward`, `NextLine`, over `FindEnd` |
| `ReverseCloseExpression` (:2166-2279) | `ReverseCloseExpression`, `ScanBackward`, `PreviousLine`, over `FindStart` |
| `CheckEmptyBlockBody` (:4569) | `CheckEmptyBlockBody`, `ConditionEnds`, `BodyEnds` |

A line is a sequence of tokens; the two ends of a comment, an escaped quote and a word
are one token each. Tokens that would form others where they meet do not meet in the
files of the run. Not kept: prefixes of raw strings other than `R`, hexadecimal
digits, `'` inside a raw string's delimiter, whether a space is left where a comment
was, `#include` lines (they are not collapsed) and `clean_lines.lines`.

`lint_text` has one run over four sets of files: every line of up to five tokens of
quotes, escapes, comments and digit separators, and of up to six around raw strings
(`OneLine`); three lines out of 14 with comments and raw strings that begin, end or
go on (`ThreeLines`); brackets of every kind with five to seven tokens, over one or
two lines (`Expressions`); conditions with bodies over one to four lines (`Bodies`). It shows:

- `ElidedIsCode`: in a `Plain` file the elided lines have the code of the file and nothing
  else, though each pass has to guess what a later one will find to be a comment or
  a literal. Plain excludes what C++ allows and a line by line reading cannot see: a
  comment with quotes in it, code on a line with the start or the end of a comment of
  several lines, a string continued by a backslash, a character literal behind a letter,
  and an escape with `//` behind it on a line before a raw string, where the pattern for
  "in a comment" takes the backslash for a character of its own and the quote behind it for
  the end of the literal (`InComment` tries both, as the pattern does).
- `SpansReported`: a string that does not end on its line is reported, and so is a comment
  that leaves its line if it begins behind code or no line ends with its end. Code behind
  the end of a comment of several lines is not (section 7).
- `BracketsMatched`: from `(`, `[`, `{` the partner is found whatever `<` and `>` are in
  between, from `<` if there are no operators, and from there the way back.
- `EmptyBodiesReported`: exactly the bodies without anything in them are reported, of any
  `if` but those with an `OddComment`: on the line of the opening brace outside of the
  braces, which passes for a body, or inside them on the line of the closing brace, which
  passes for none.

### The blocks

`NestingState` has the stack of `_BlockInfo`s with `Updated` for `NestingState.Update`:
preprocessor branches (`PreprocessorUpdated`), the look ahead for template parameters
(`InTemplateArgumentList`) and for the end of a class (`LastLine`), inline assembly
(`AsmState`), heads that wait for their brace, and braces (`Consumed`). `FunctionState` has
`_FunctionState` and `CheckForFunctionLengths`. `ProcessLine` drives both over a file, one
action for a line that is checked (`ProcessCodeLine`), one for a line that assembly keeps
from being checked (`ProcessAsmLine`), and `CheckCompletedBlocks` at the end. A line is
its indentation and the tokens that count: class and namespace heads with their
name, parentheses, braces, semicolons.

`lint_nesting` reads all files of a few lines out of a small choice, for each thing the
states have to get right: conditionals of the preprocessor around blocks (5 lines, and an
`#if` with 5 of fewer kinds after it, so that two conditionals can be nested with an
`#else` each), namespaces and classes in and around each other (4), class keywords in
arguments and template parameters (a namespace and 4), functions and assembly in a
function (the head of one and 4 or 5).
`SmallNamespace` is 2 instead of 10 and the triggers of `_FunctionState` are 1 and 2 instead
of 250 and 400, so that files this short are on both sides of each.

- `FirstBranchOnly`: outside `#else` the stack is what it would be if the lines of all
  `#else` branches were missing and directives were words like any other (`LineRead` is what
  a line does to the stack but for its being a directive).
- `BracesMatched`: the blocks on the stack are the braces that are open, with kind and line.
- `ClassEndKnown`: the look ahead for the end of a class finds the brace that closes it.
- `BlocksReported`: exactly the misindented and unfinished blocks are reported, and the
  namespaces without the right comment at their end: small ones may have none, but not a
  wrong one.
- `FunctionSizeReported`: a function is reported when it ends and exactly if it has too many
  lines, not counting assembly and blank lines, by a confidence that the verbosity
  lets pass.

### The includes

`IncludeState` has `_IncludeState`, `_ClassifyInclude` and `CheckIncludeLine`. A path is its
directories, the words of its name and its extension; `RepositoryName` stands for
`FileInfo.RepositoryName`, of which only the answer matters: the path below the root
for a file that is there, the full name otherwise. `CheckIncludes` processes the lines
(`Include`, `Directive`, `OtherLine`), then does `CheckForIncludeWhatYouUse`, which opens the
headers of the file, and `CheckHeaderFileIncluded`. The header extensions are a set of
Python, whose order is a choice of the action.

`lint_includes`: orders of four includes of all classes, with and without
`includeorder=standardcfirst` (`Orders`); conditionals of six lines (`Conditionals`); seven
sources and headers with six sets of headers beside them (`Modules`); conditional includes
of what is needed (`Conditional`). Four includes give a misplaced header one before and
two after it.

- `DuplicatesReported`: a header included where it is included already is reported, and
  what is reported repeats an earlier include, never one of the other branch unless a
  nested conditional began in between. A repeat after an `#if` that has ended is reported too.
- `OrderFollowsSections`, `UnsortedReported`: what is misplaced and what is unsorted.
- `OwnHeaderAsked`: a source is not asked for a header of its own that it includes, unless
  only in branches that others follow, however many headers of its own there are; and it
  is asked for each of them if no include has a name that is part of the name of one, or the
  other way round, and the source is no test. Between the two the code answers by parts of
  names and, where two headers are its own, by the order of a set.
- `UsesIncluded`: a standard header is asked for at the last line that needs it only. It is
  not if the file includes it or one of its `ModuleHeaders` it includes does, nor in a source
  where no header that may be taken for one of its module (`Candidates`) was found, because
  then cpplint gives up. It is if neither the file, in any branch, nor a candidate includes
  it, in a source provided that one of its module headers is included.

### The session

`LintSession` is a run of the program: `ParseArguments` with the files that are named or
found, `ProcessFile` with the configurations from the nearest directory outwards
(`NoConfig`, `ConfigUnreadable`, `ReadConfig`, `ApplyFilters`, `SkipFile`), `ProcessFileData`
(`BeginFile`, `CheckForHeaderGuard`, `GuardChecked`, `ProcessLine`, `EndFile`), the filters
restored (`DoneProcessing`), `Exit`. The checks are abstracted to the errors they raise, each
while some line is processed. `CheckForHeaderGuard` is abstract in what it looks for, but not
in its order: it reads the NOLINT comment of the `#ifndef` line and of the `#endif` line
(`ParseNolint`) before it reports them, and both before any line is processed. A category is
what is before and behind its `/`, both sequences of pieces, and a filter names the categories
it is a prefix of: `-build/include` hides `build/include_order`. `lineLength` stands for the
five options that configurations set globally. Parsing of options and reading of files are
abstract: arguments arrive as a record.

`lint_session` combines 4 command lines, 48 trees of configurations (unreadable,
excluding, `noparent`, contradicting each other) and 16 pairs of headers out of four, one of
them not readable, with NOLINT comments on none, one or both of the guard's lines: 3072
sessions of two files in two directories. Two files are what it takes for
one to disturb the other.

- `PrintedExactly`: the errors printed are those the file, its configurations and the
  command line ask for; nothing of one file changes what is printed of another. Expected
  is what the nearest configuration with a filter for the category says (of its filter lines
  the first that has one), then the command line. A NOLINT comment is expected to count for
  what is reported once its line was looked at (`GuardLines`, `LinesUpTo`): it is the first
  finding that this is less than what the usage text says. For the second its premise is
  `OneLength`, that a length set for one file is that of the file and of those linted later.
  All 3072 sessions of the run satisfy it.
- `FiltersRestored`: between files the filters are those of the command line, by
  whichever way `ProcessFile` was left.
- `CountsAgree`: the total, the exit code, and a count for each category that was printed and
  for no other.

`lint_nolint` and `lint_length` show the two promises of the usage text that fail
(section 7).

### What is assumed, what was compared

The program is sequential and its loops are bounded by its input, so there is no
liveness to state. A run of the program ends, hence `CHECK_DEADLOCK FALSE` in all `lint_...`
configurations.

Theorems hold for all files, configurations and constants that satisfy the named
assumptions of the modules:

| module | theorem | assumes | shows |
|---|---|---|---|
| `LintTextProofs` | `TextTypesCorrect` | `TextsAssumption` | `TypeOK` |
| `CheckIncludesProofs` | `OrderAlwaysFollows` | `FilesAssumption`, `RootAssumption`, `BranchesAssumption` | `OrderFollowsSections` |
| | `UnsortedAlwaysReported` | | `UnsortedReported` |
| | `DuplicatesAlwaysReported` | | `DuplicatesReported` |
| | `OwnHeaderAlwaysAsked` | | `OwnHeaderAsked` |
| | `UsesAlwaysIncluded` | | `UsesIncluded` |
| `ProcessLineProofs` | `LineTypesCorrect` | `FilesAssumption` | `TypeOK` |
| | `BranchesNeverNest` | | `FirstBranchOnly` |
| `LintSessionProofs` | `FiltersAlwaysRestored` | `PathsAssumption`, `CategoriesAssumption`, `FiltersAssumption`, `SessionsAssumption` | `FiltersRestored` |
| | `CountsAlwaysAgree` | | `CountsAgree` |
| | `PrintedAlwaysExactly` | | `PrintedExactly` |

`TextsAssumption` says that lines are made of tokens, `FilesAssumption` what a file is (its
lines and paths have their types, the headers on disk are finitely many), `BranchesAssumption` that no `#else` is outside of a conditional,
which a preprocessor refuses. Of the session, `PathsAssumption` says that paths are
sequences of components, `CategoriesAssumption` that a category has two halves, which are
texts, and the two the model itself raises errors with are among them, `FiltersAssumption` and
`SessionsAssumption` that filters are texts behind a sign, lines and errors are finite in
number, an error has a category, a confidence and a line, and the header guard is looked for
on lines of the file. These say what the data of the model are. What the properties themselves
leave out is in the table at the beginning of this section; the theorems leave out the same.

**Text.** That no pass loses or adds a line and no search leaves its line needs little more
than the types (`TextKept`, `SearchKept`). That a condition ends in a parenthesis of its own
needs `BottomKept`: from a bracket, this bracket stays at the bottom of the stack, because
only operators are ever stripped off it, so that what empties the stack is of its kind.

**Order.** `include_state` knows the last section and the last header, the properties speak
of the lines before. `OrderKept` joins the two: the section is the last place any accepted
include since the last directive has (`SectionKept`), the last header is that of the latest
one (`LastKept`), and a block nothing was reported of is sorted (`SortedByPlace`). The last
is stated by place, not by class as `UnsortedReported` has it: a header of the file's own that
comes late is put with the others, and only by place is sortedness kept by the next include.

**Lists.** The lists are one per `#if`, never popped, and `#else` empties the last one. What
`ListsKept` says is that this loses nothing that is in force: a header stays on the
lists until its branch is followed by another one of the same conditional (`Listed`);
what is on the last list was included after the last `#if`, so its branches are those of the
present line but for the innermost (`LastListKept`); what is on another one was followed by
an `#if` (`OtherListsKept`), which is why an include that outlived its branch did so because
of a nested conditional (`OutlivedByNested`); and a branch that has ended does not begin again
(`NeverAgain`). At the end what is kept of the file's includes is listed. That a module header
which is included is opened, and that nothing is opened but candidates, are facts about texts:
a name that ends with another is found by the suffix that is compared (`SuffixOfConcat`,
`ModuleHeaderOpened`), and what is found by it ends in the same word (`SuffixEnds`, `TextEnds`,
`OpenedIsCandidate`).

**Branches.** While code of an `#else` is read, the stack is not the one of the code that is
compiled. `LinesInv` says where that one is: in `before_else` of the conditional whose `#else`
was the first to hide the line (`StackKept`), wherever further conditionals are opened, turned
and closed inside. That `pp_stack` has exactly the conditionals that are open is a part of this
invariant (`ConditionalsKept`), not of the types. The types need that every block on the stack
or saved on `pp_stack` begins at a line that was read.

**Session.** `FiltersRestored` is not inductive: the backup is made when a file is begun,
and while one is processed the configurations change the filters and nothing changes
the backup. `SessionInv` says which of the two are those of the command line, by `phase`.
`Tallied` relates the counts to the messages printed, both ways; it must hold between any two errors
of a step, since a step of the model raises all the errors of a line. `Told` is this pair,
and every fold of `Error` over a sequence of errors stays in `Tolds` (`ReportedTold`, by
induction over the sequence).

**What is printed.** `PrintInv` divides what is wanted in the end into what was printed, what
is due of the file in `ProcessFile` and what is due of the files still to come; every step
moves something from one part to the next, and `PrintedInv` has what it takes to see that it
moves just the right things. Of the configurations: those `Visited` are the ones from which
none in between stops the search, none of them excludes the path, and for every category the
first list in `cfg_filters` that names it is that of the nearest one that does
(`GatheredInv`), which reversed and appended to the command line's decides (`InOrderFiltered`,
`AppliedFilters`). Of the lines: `suppressed` has exactly the comments of the lines looked at
(`Knows`, in `ReadInv`), those of the guard before those of the file, and what is printed at
a line is what these leave of its errors (`LookPrints`).
Of the length: it is the command line's until a configuration on the way sets it, and by
`OneLength` then the same for this file and every later one (`LengthInv`). The folds over
filters, paths and errors are recursive functions, and what they have is proved by induction
over their places (`GatheredSteps`, `ChosenFacts`, `ReportedShown`).

TLC has checked each of these invariants on the instances of the runs before it was proved.
Only model-checked are `ElidedIsCode`, `SpansReported`, `BracketsMatched` and
`EmptyBodiesReported` of the text and `BracesMatched`, `ClassEndKnown`, `BlocksReported` and
`FunctionSizeReported` of the blocks, which compare folds over tokens with a reading of the
whole file.

Models of text can be wrong in ways no property shows. For every file of `lint_text` and
`lint_includes` the states TLC reached were compared with the answers of
`cpplint.py` itself (64864 texts and conditions, 58916 searches for brackets, 13577
files with includes): they agree.

### Not modelled

The checks that hold one or two lines against patterns and keep nothing: spacing, braces,
casts, most of `CheckStyle` and `CheckLanguage`, `CheckTrailingSemicolon`, what
`CheckForHeaderGuard` looks for, copyright. Of the nesting state: access keywords and
their indentation, DISALLOW macros, names of blocks. Output formats and JUnit; texts of options and of `CPPLINT.cfg`.

## 6. Sensitivity

A property that no mistake can break says nothing. Beside each operator that a
property leans on there is a `..._Faulty...` variant: the same operator with a mistake one
could plausibly make (a forgotten reset after a move, a store before the copy, a NUL that
is not written, a list that is looked up only in the innermost conditional, filters
that are not restored). Put in place of the original each makes TLC report the
property that `PROJECT.json` pairs it with, in the run it is paired with. The modules
never use these variants themselves.

## 7. Findings

| run | source | what |
|---|---|---|
| `thread_unowned` (`SharedNeverDeleted`) | `base/lang/thread.cc:264` | a runnable that is not owned is deleted when its thread was never started |
| `lint_nolint` (`NolintHonoured`) | `tools/cpplint/cpplint.py:4598` | a NOLINT comment does not suppress an error that is raised while an earlier line is processed (`:102` says it does) |
| `lint_length` (`NearestLengthCounts`) | `tools/cpplint/cpplint.py:6652` | an outer configuration's line length replaces that of the nested one (`:274` says the nested one overrides) |

From the same lines as the last, though not what its run shows: nothing restores the length
when the file is done, so that it also stays for files of other directories (`:6652`).

Met while modelling, without a run of their own. In the library:

- `Reset` frees `buf_` where it should free `info_.head` (`string.cc:366`): of a long string
  whose start was trimmed or stripped that is not what malloc returned. `OnlyKnownFaults`
  allows it and nothing else of the kind.
- After `Reset` the object passes for a reference, so that copies share its buffer
  (`string.cc:370`). The runs exclude it by `CopyReset`.
- An object that was moved from has a null `buf_` that `StripLeading`, `Strip` and a copy
  assignment from it read through (`string.cc:133`); the other fault `OnlyKnownFaults` allows.
- Copy assignment stops at the first NUL of the source (`string.cc:148`).
- The static `Trim` of a text with nothing to trim answers the empty string
  (`string.cc:31`) instead of the text.

In cpplint, each tried with the program:

- Three lines that begin with `class` or `struct` as arguments of a function at file level:
  the third is taken for a class, because parentheses are counted in the innermost block
  only and there is none (`:3162`). `WellFormed` excludes them.
- A class whose brace is on the line after its name gets its first line as its last
  (`:2839`), and `CheckSectionSpacing` does not look at it. `ClassEndKnown` excludes it.
- `#else` empties the last include list, which belongs to a nested conditional if there
  was one; an include before that is then reported as a duplicate in the other
  branch (`:1174`). `DuplicatesReported` excludes it.
- Of `foo.h` and `foo.cuh` beside `foo.cc`, one included: whether the other is asked
  for depends on the order of a set of strings, which differs from run to run (`:2527`).
- `FilesBelongToSameModule` finds neither `internal/foo.h` for `internal/foo.cc` at the top of
  the include path nor `foo_test.h` for `foo_test.cc`, though its docstring counts both as one
  module: only one of the two names loses the directory or the suffix (`:6092`).
- A header `Foo.h` without a directory, included by `Foo_test.cc`, passes for a third-party
  header for its capital letter and is on no list.
- `<string>` is part of `util/string_util.h` and so counts as including it (`:2540`); and for
  a source `a/my_foo.cc` an include of `foo.h` opens `a/my_foo.h`, the name being put
  together from the ends.
- A comment of several lines ends only at a line that ends with it; code behind its
  end is not checked, up to the next such line (`:1900`). One that never ends is
  reported a line too far (`:1923`). `/* // */` is reported as a complex comment.
- "Won't (and can't) have comments" (`:4646`) is not so of the line of a closing brace: a
  body of nothing but a comment there is reported as empty, and a comment in front of the
  opening brace passes for a body (`:4637`). `EmptyBodiesReported` excludes both.
- In the pattern that asks whether a raw string is in a comment (`:1863`), `[^"]` takes a
  backslash too, so that an escaped quote may end the literal for it: a raw string behind
  `"\"//"` on one line is not removed. `Plain` excludes it.

Hazards of the components that are not modelled, for the modules planned above:

- `base/lang/string.cc`: `LastIndexOf` on an empty string starts from a wrapped
  index (287), `StartsWith` adds a large offset without a check (162), `operator==` looks
  at the length of its left side only (380), the backwards search resumes by `goto` with
  indices down to -1 (334).
- `base/security`: `Digest` leaves a finished context in place (`message_digest.cc:41`), an
  unknown algorithm gives an object without an engine (35), the result of
  `EVP_DigestFinal_ex` is ignored (`md5_digest.cc:56`).
- `base/util/regex`: "no match" is the iterator an empty match at the end also gives
  (`matcher.cc:47`), an empty match is found again for ever (109), a failed `Find` starts over
  (115), a region may end before it begins (162), named groups are numbered by counting
  named groups only (35), a copied `Pattern` deletes twice (`pattern.cc:45`).
- `inc/util`: `ComputeIfAbsent` and `Compute` use what they read before they called the
  client (`map.h:105`, 130), `ForEachEntry` iterates over a map the callback may change (55),
  `SubMap` with its ends exchanged runs past the end (`tree_map.h:249`),
  `ReversedComparator` negates a `bool` (`sorted_map.h:19`).

## 8. Running it

    tlc -config thread_owned.cfg MCThread.tla
    tlc -config string_storage.cfg MCString.tla
    tlc -config lint_text.cfg MCLintText.tla
    tlc -config lint_nesting.cfg MCProcessLine.tla
    tlc -config lint_includes.cfg MCCheckIncludes.tla
    tlc -config lint_session.cfg MCLintSession.tla
    tlapm ThreadProofs.tla
    tlapm ThreadLifeProofs.tla
    tlapm NaturalLemmas.tla
    tlapm StringProofs.tla
    tlapm LintTextProofs.tla
    tlapm CheckIncludesProofs.tla
    tlapm ProcessLineProofs.tla
    tlapm LintSessionProofs.tla

Each configuration names the properties of its run; `PROJECT.json` lists the runs,
which source lines each definition stands for, and the hazards the properties are
aimed at.
