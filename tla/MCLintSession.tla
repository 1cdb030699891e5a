--------------------------- MODULE MCLintSession ---------------------------
(* Sessions for TLC: two headers, one in a directory below the other, and  *)
(* a file of another kind.                                                 *)
EXTENDS LintSessionProperties

Inner == <<"a", "b", "x.h">>
Outer == <<"a", "y.h">>
Other == <<"z.txt">>

MCPaths == <<Inner, Outer, Other>>
MCValidNames == {Inner, Outer}

(* build/include_alpha begins like build/include, and is hidden unless a   *)
(* filter says otherwise.                                                  *)
Tab == <<<<"whitespace">>, <<"tab">>>>
Int32 == <<<<"runtime">>, <<"int">>>>
Guard == <<<<"build">>, <<"header_guard">>>>
Include == <<<<"build">>, <<"include">>>>
Alpha == <<<<"build">>, <<"include", "_alpha">>>>
MCCategories == {BadNolint, LineLength, Tab, Int32, Guard, Include, Alpha}
MCParts == UNION {Range(c) : c \in MCCategories}

Minus(pattern) == [sign |-> "-", of |-> pattern]
Plus(pattern) == [sign |-> "+", of |-> pattern]
MCDefaultFilters == <<Minus(Name(Alpha))>>

NoFile == [exists |-> FALSE, readable |-> FALSE, options |-> <<>>]
Locked == [NoFile EXCEPT !.exists = TRUE]
Cfg(options) == [exists |-> TRUE, readable |-> TRUE, options |-> options]
Option(name, value) == [name |-> name, value |-> value]
NoParent == Option("set noparent", "")

TopConfigs ==
    {NoFile,
     Cfg(<<Option("filter", <<Minus(<<"whitespace">>)>>)>>),
     Cfg(<<Option("linelength", 2), Option("filter", <<Minus(<<>>), Plus(Name(Int32))>>)>>)}

OuterConfigs ==
    {NoFile, Locked,
     Cfg(<<Option("filter", <<Plus(Name(Include))>>), Option("exclude_files", "b")>>),
     Cfg(<<NoParent, Option("filter", <<Minus(<<"runtime">>)>>)>>)}

InnerConfigs ==
    {NoFile, Locked,
     Cfg(<<Option("filter", <<Minus(Name(LineLength))>>),
           Option("filter", <<Plus(<<"runtime">>), Plus(<<"whitespace">>)>>)>>),
     Cfg(<<Option("filter", <<Minus(Name(Tab))>>), Option("exclude_files", "x.h")>>)}

SomeConfigs ==
    {[d \in {<<>>, <<"a">>, <<"a", "b">>} |->
         CASE d = <<>> -> top [] d = <<"a">> -> outer [] OTHER -> inner] :
     top \in TopConfigs, outer \in OuterConfigs, inner \in InnerConfigs}

Arg(named, recursive, excludes, filters, verbose, counting) ==
    [named |-> named, recursive |-> recursive, excludes |-> excludes,
     filters |-> filters, verbose |-> verbose, counting |-> counting, length |-> 1]

SomeArgs ==
    {Arg({Inner, Outer, Other}, FALSE, {}, <<>>, 1, "total"),
     Arg({Inner, Outer}, FALSE, {}, <<Minus(Name(Include)), Plus(Name(Alpha))>>, 3, "toplevel"),
     Arg({<<"a">>, Other}, TRUE, {},
         <<Minus(<<"whitespace">>), Plus(Name(Tab)), Minus(Name(Include))>>, 0, "detailed"),
     Arg({<<"a">>}, TRUE, {<<"a", "b">>}, <<>>, 2, "toplevel")}

E(category, confidence, n) == LineError(category, confidence, n)
L(nolint, next, length, raises) ==
    [nolint |-> nolint, next |-> next, length |-> length, raises |-> raises]
Source(guard, lines, after) ==
    [readable |-> TRUE, global |-> {}, copyright |-> <<>>, before |-> <<>>,
     guard |-> guard, lines |-> lines, after |-> after]
Look(n, raises) == [line |-> n, raises |-> raises]
Unreadable == [Source(<<>>, <<>>, <<>>) EXCEPT !.readable = FALSE]

(* Errors of a line, of an earlier and a later one and after the last      *)
(* line, with and without NOLINT, and errors from before the suppressions  *)
(* are read.  The first file has an error at its guard's #endif, the       *)
(* second has NOLINT at both ends of its guard, the third lacks one.       *)
SomeSources ==
    {Source(<<Look(3, <<E(Guard, 5, 3)>>)>>,
            <<L(Tab, FALSE, 3, <<E(Tab, 1, 1), E(Int32, 4, 1), E(Tab, 2, 3)>>),
              L(<<"any">>, TRUE, 1, <<E(Tab, 2, 2), E(Include, 4, 2)>>),
              L(<<"unknown">>, FALSE, 3, <<E(Int32, 4, 3), E(Alpha, 4, 2)>>)>>,
            <<E(Tab, 5, 3), E(Tab, 5, 1)>>),
     Source(<<Look(1, <<E(Guard, 5, 1)>>), Look(2, <<E(Guard, 5, 2)>>)>>,
            <<L(<<"any">>, FALSE, 2, <<E(Tab, 3, 1), E(Alpha, 4, 2)>>),
              L(Alpha, FALSE, 1, <<E(Include, 4, 2)>>)>>,
            <<>>),
     [Source(<<Look(0, <<E(Guard, 5, 0)>>)>>, <<L(<<>>, FALSE, 2, <<E(Tab, 3, 1)>>)>>,
             <<E(Int32, 1, 1)>>)
        EXCEPT !.copyright = <<E(Tab, 5, 0)>>, !.before = <<E(Tab, 5, 1), E(Int32, 5, 1)>>,
               !.global = {Tab}],
     Unreadable}

MCSessions ==
    {[args |-> args, configs |-> configs,
      files |-> (Inner :> inner) @@ (Outer :> outer) @@ (Other :> Unreadable)] :
     args \in SomeArgs, configs \in SomeConfigs, inner \in SomeSources, outer \in SomeSources}

(* An error about a line below the one that is processed, where an         *)
(* expression begins, and NOLINT on the line below.                        *)
Below ==
    {Source(<<>>, <<L(<<>>, FALSE, 1, <<E(Tab, 5, n)>>), L(nolint, FALSE, 1, <<>>)>>, <<>>) :
     n \in {1, 2}, nolint \in {<<"any">>, Tab, <<>>}}

SomeAlone(configs, sources) ==
    {[args |-> args, configs |-> c,
      files |-> (Inner :> inner) @@ (Outer :> outer) @@ (Other :> Unreadable)] :
     args \in SomeArgs, c \in configs, inner \in sources, outer \in sources}

NolintSessions == SomeAlone({[d \in {<<>>, <<"a">>, <<"a", "b">>} |-> NoFile]}, Below)

(* Configurations below one another that each set the length.              *)
Lengths == {NoFile, Cfg(<<Option("linelength", 2)>>), Cfg(<<Option("linelength", 3)>>)}

LengthSessions ==
    SomeAlone({[d \in {<<>>, <<"a">>, <<"a", "b">>} |->
                   CASE d = <<>> -> NoFile [] d = <<"a">> -> outer [] OTHER -> inner] :
               outer \in Lengths, inner \in Lengths},
              {Source(<<>>, <<L(<<>>, FALSE, 3, <<>>)>>, <<>>)})
=============================================================================
