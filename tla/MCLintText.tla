----------------------------- MODULE MCLintText -----------------------------
(* Files for TLC: one line of any few tokens, three lines of a selection,  *)
(* and expressions over one or two lines.                                  *)
EXTENDS LintTextProperties

(* No slashes or asterisks, or words, meet that would be other tokens.     *)
Apart(line) ==
    \A i \in 2 .. Len(line) :
        /\ line[i - 1] \in {"/+", "+/"} => line[i] \notin {"/+", "//"}
        /\ line[i - 1] \in {"//", "+/"} => line[i] # "+/"
        /\ "operator" \in {line[i - 1], line[i]} => {line[i - 1], line[i]} \cap Words = {"operator"}
                                                    /\ line[i - 1] # line[i]

Short(tokens, n) == UNION {[1 .. k -> tokens] : k \in 0 .. n}

OneLine ==
    {<<line>> : line \in {l \in Short({"x", "q", "s", "eq", "//", "/+", "+/"}, 5)
                                 \cup Short({"x", "1", "s", "q", "//"}, 5)
                                 \cup {r \in Short({"R", "q", "(", ")", "//"}, 6) : "R" \in Range(r)} :
                             Apart(l) /\ Apart(WithoutEscapes(l))}}
      \cup {<<line \o <<"R", "q", "(", "q", ")", "q">>>> :
                line \in {l \in Short({"q", "eq", "eb", "//"}, 5) :
                             Apart(l) /\ Apart(WithoutEscapes(l))}}

SomeLines ==
    {<<>>, <<"x">>, <<" ", "/+", "x">>, <<"x", "/+">>, <<"+/">>, <<"x", "+/", " ">>,
     <<"+/", "x">>, <<"/+", "x", "+/", "(">>, <<"q", "//", "q", "(">>, <<"x", "q", "eb">>,
     <<"R", "q", "x", "(", "+/">>, <<")", "q", "(">>, <<" ", ")", "x", "q", ")">>,
     <<"//", "R", "q", "(">>}

ThreeLines == [1 .. 3 -> SomeLines]

(* A line that begins with a bracket, with or without a break.             *)
Broken(first, rest, k) ==
    <<<<first>> \o SubSeq(rest, 1, k), SubSeq(rest, k + 1, Len(rest))>>

Expressions ==
    {Broken(first, rest, k) :
        first \in {"(", "<"}, k \in {2, 4},
        rest \in [1 .. 4 -> {"(", ")", "]", "<", ">", ";", "x"}]}
      \cup {<<<<first>> \o rest>> :
            first \in {"[", "<"},
            rest \in {r \in [1 .. 5 -> {"[", "]", "<", ">", "operator", "-"}] : Apart(r)}}
      \cup {<<<<"<">> \o rest>> :
            rest \in {r \in [1 .. 4 -> {"<", ">", " ", "operator", "=", "(", ")"}] : Apart(r)}}

(* A line that begins with a keyword, and one, two or three others.        *)
IfLines ==
    {<<"if", "(", "x", ")">> \o rest : rest \in
        {<<>>, <<" ", "{">>, <<"{">>, <<"{", "x">>, <<"{", "//", "x">>, <<"/+", "+/", "{">>,
         <<"{", " ", "}">>, <<"{", "/+", "x", "+/", "}">>, <<"{", "x", "}">>, <<"{", "}", "else">>,
         <<";">>, <<" ", ";">>, <<"/+", "+/", ";">>, <<"//">>}}
      \cup {<<" ", "if", " ", "(", "x">>, <<"if", "(", "(", ")">>, <<"while", "(", "x">>,
            <<"for", "(", ";", ")", ";">>, <<"while", "(", ")", "{", "}">>}

BodyLines ==
    {<<>>, <<"x">>, <<"//", "x">>, <<"/+">>, <<"+/">>, <<"/+", "+/">>, <<")", ";">>, <<")", "{">>,
     <<" ", "{">>, <<"}">>, <<"/+", "+/", "}">>, <<" ", "}", "//">>, <<"}", " ", "else">>,
     <<" ", "else">>, <<"{", "}">>, <<"q", "x", "q", "}">>}

Bodies ==
    {<<l>> : l \in IfLines}
      \cup {<<l, m>> : l \in IfLines, m \in BodyLines}
      \cup {<<l, m, n>> : l \in IfLines, m \in BodyLines, n \in BodyLines}
      \cup {<<<<"if", "(", "x", ")", "{">>, m, n, o>> :
                m \in {<<>>, <<"/+">>, <<"+/">>, <<"}">>}, n \in BodyLines, o \in BodyLines}

MCTexts == OneLine \cup ThreeLines \cup Expressions \cup Bodies
=============================================================================
