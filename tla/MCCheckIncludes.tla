-------------------------- MODULE MCCheckIncludes --------------------------
(* Files for TLC: the orders of includes, conditionals with repeated       *)
(* includes, and files with headers of their own in several directories.   *)
EXTENDS CheckIncludesProperties

P(dir, base, ext) == [dir |-> dir, base |-> base, ext |-> ext]

Vector   == P(<<>>, <<"vector">>, "")
String_  == P(<<>>, <<"string">>, "")
Stdio    == P(<<>>, <<"stdio">>, "h")
Stdlib   == P(<<>>, <<"stdlib">>, "h")
Boost    == P(<<"boost">>, <<"any">>, "hpp")
Zlib     == P(<<"z">>, <<"zlib">>, "h")
FooCc    == P(<<"a">>, <<"foo">>, "cc")
FooH     == P(<<"a">>, <<"foo">>, "h")
FooCuh   == P(<<"a">>, <<"foo">>, "cuh")
FooHpp   == P(<<"a">>, <<"foo">>, "hpp")
FooInl   == P(<<"a">>, <<"foo", "inl">>, "h")
FooTest  == P(<<"a">>, <<"foo", "test">>, "cc")
FooBar   == P(<<"a">>, <<"foo", "bar">>, "h")
FooPub   == P(<<"a", "public">>, <<"foo">>, "h")
FooInt   == P(<<"a", "internal">>, <<"foo">>, "cc")
FooTestH == P(<<"a">>, <<"foo", "test">>, "h")
IntCc    == P(<<"internal">>, <<"foo">>, "cc")
IntH     == P(<<"internal">>, <<"foo">>, "h")
JustFoo  == P(<<>>, <<"foo">>, "h")
MyFoo    == P(<<"a">>, <<"my", "foo">>, "cc")
MyFooH   == P(<<"a">>, <<"my", "foo">>, "h")
StringCc == P(<<"a">>, <<"string", "util">>, "cc")
StringH  == P(<<"a">>, <<"string", "util">>, "h")
Capital  == P(<<>>, <<"Qt">>, "h")
CapitalCc == P(<<>>, <<"Qt">>, "cc")
LowCapital == P(<<>>, <<"qt">>, "h")
BarH     == P(<<"b">>, <<"bar">>, "h")
BazH     == P(<<"b">>, <<"Baz">>, "h")
LowBaz   == P(<<"b">>, <<"baz">>, "h")
BarCc    == P(<<"b">>, <<"bar">>, "cc")

MCRoot == <<"home", "repo">>
MCHeaderExtensions == {"h", "cuh", "hpp"}
MCNonHeaderExtensions == {"cc"}
MCCppHeaders == {Vector, String_}
MCCHeaders == {Stdio, Stdlib}
MCLowered == ("Qt" :> "qt") @@ ("Baz" :> "baz")
MCSorted == <<FooCc, FooCuh, FooH, FooHpp, FooBar, FooTest, FooTestH, FooInt, MyFoo,
              MyFooH, FooPub, StringCc, StringH, BarCc, BarH, LowBaz, Boost,
              JustFoo, IntH, LowCapital, Stdio, Stdlib, String_, Vector, Zlib>>

Line(kind, of, angle, needs) ==
    [kind |-> kind, of |-> of, angle |-> angle, needs |-> needs]
Other(kind) == Line(kind, Vector, FALSE, <<>>)
Quoted(p) == Line("include", p, FALSE, <<>>)
Angled(p) == Line("include", p, TRUE, <<>>)
Uses(needs) == Line("code", Vector, FALSE, needs)

File(path, standardcfirst, lines, disk) ==
    [path |-> path, standardcfirst |-> standardcfirst, lines |-> lines, disk |-> disk]
NoDisk == [p \in {} |-> <<>>]

(* Includes of each class, two of most, with a blank line or a directive.  *)
OrderLines == {Quoted(FooH), Quoted(FooBar), Angled(Stdio), Angled(Vector), Angled(String_),
               Quoted(BarH), Quoted(BazH), Other("blank")}
SystemLines == {Quoted(FooH), Angled(Stdio), Angled(Stdlib), Angled(Vector), Angled(Zlib),
                Quoted(BarH), Other("if")}

Orders ==
    {File(FooCc, FALSE, lines, FooH :> <<>>) : lines \in [1 .. 4 -> OrderLines]}
      \cup {File(FooCc, TRUE, lines, NoDisk) : lines \in [1 .. 4 -> SystemLines]}

(* Well-formed conditionals.                                               *)
BranchLines == {Other("if"), Other("else"), Other("endif"), Quoted(BarH)}

Balanced(lines) ==
    \A branches \in {BranchesOf(lines)} : \A n \in 1 .. Len(lines) :
        lines[n].kind \in {"else", "endif"} => branches[n - 1] # <<>>

Conditionals ==
    {File(FooCc, FALSE, lines, NoDisk) :
     lines \in {l \in [1 .. 6 -> BranchLines] : Balanced(l)}}

(* Sources and headers with the files beside them, and what is needed.     *)
Disks == {NoDisk,
          FooH :> <<Vector>>,
          (FooH :> <<>>) @@ (FooCuh :> <<String_>>),
          FooHpp :> <<>>,
          (FooPub :> <<Vector>>) @@ (FooH :> <<>>),
          (MyFooH :> <<String_>>) @@ (FooH :> <<Vector>>) @@ (StringH :> <<>>)}

ModuleLines == {Quoted(FooH), Quoted(FooCuh), Quoted(FooInl), Quoted(FooPub), Quoted(JustFoo),
                Quoted(StringH), Angled(Vector), Angled(String_), Quoted(Capital),
                Quoted(BarCc), Other("if"), Uses(<<Vector, String_>>)}

Modules ==
    {File(path, FALSE, <<first, second, Uses(<<Vector>>)>>, disk) :
     path \in {FooCc, FooTest, FooInt, MyFoo, StringCc, FooH, CapitalCc},
     first \in ModuleLines, second \in ModuleLines, disk \in Disks}

(* Headers of a test and in a directory that is called internal.           *)
OtherModules ==
    {File(path, FALSE, <<first, second, Uses(<<Vector>>)>>, disk) :
     path \in {FooTest, IntCc},
     first \in {Quoted(FooTestH), Quoted(IntH), Quoted(FooH)},
     second \in {Quoted(FooTestH), Quoted(FooH), Quoted(JustFoo), Angled(Vector)},
     disk \in {(FooTestH :> <<Vector>>) @@ (FooH :> <<>>),
               (FooH :> <<Vector>>) @@ (FooTestH :> <<>>),
               (IntH :> <<Vector>>) @@ (JustFoo :> <<>>)}}

(* A conditional include of the header or of what is needed.               *)
Conditional ==
    {File(FooCc, FALSE,
          <<Other("if"), one, Other("else"), two, Other("endif"), three,
            Uses(<<Vector>>), Uses(<<Vector, String_>>)>>, FooH :> <<String_>>) :
     one \in {Quoted(FooH), Angled(Vector), Other("blank")},
     two \in {Quoted(FooH), Angled(Vector), Other("blank")},
     three \in {Quoted(FooH), Angled(Vector), Quoted(StringH), Other("blank")}}

MCFiles == Orders \cup Conditionals \cup Modules \cup OtherModules \cup Conditional
=============================================================================
