--------------------------- MODULE MCProcessLine ---------------------------
(* Files for TLC: one set for each thing the nesting state has to get      *)
(* right, all short sequences over the lines that matter for it.           *)
EXTENDS ProcessLineProperties

L(indent, toks) == [indent |-> indent, toks |-> toks, names |-> "none"]

Sequences(lines, n) == UNION {[1 .. m -> lines] : m \in 0 .. n}

(* Branches of the preprocessor around blocks, two deep.                   *)
Nested ==
    {<<L(0, <<"#if">>)>> \o f : f \in
        [1 .. 5 -> {L(0, <<"#if">>), L(0, <<"#else">>), L(0, <<"#endif">>),
                    L(0, <<"class", "{">>), L(0, <<"}", ";">>)}]}

Branches ==
    Sequences({L(0, <<"#if">>), L(0, <<"#else">>), L(0, <<"#endif">>),
               L(0, <<"namespace", "{">>), L(0, <<"class">>), L(2, <<"{">>),
               L(0, <<"}">>)}, 5)

(* Namespaces and classes, aligned and not, declared and defined.          *)
Scopes ==
    Sequences({L(0, <<"namespace", "{">>), L(2, <<"namespace", "{", "namespace", "{">>),
               L(0, <<"extern", "{">>), L(2, <<"class", "{">>), L(0, <<"class">>),
               L(2, <<"{">>), L(2, <<"class", ";">>), L(2, <<"f", "(", "class">>),
               L(4, <<"class", ")", ";">>), L(0, <<"}", ";">>),
               [L(0, <<"}">>) EXCEPT !.names = "right"],
               [L(0, <<"}">>) EXCEPT !.names = "wrong"]}, 4)

(* Class heads that are template parameters or arguments, in a block.      *)
Arguments ==
    {<<L(0, <<"namespace", "{">>)>> \o f : f \in
        Sequences({L(0, <<"f", "(">>), L(4, <<"class">>), L(4, <<"class", ">">>),
                   L(4, <<"class", ")", "{">>), L(0, <<"class", "{">>),
                   L(0, <<"}">>), L(0, <<"}", ";">>)}, 4)}

(* Functions, their sizes and their inline assembly.                       *)
Functions ==
    {<<head>> \o f :
        head \in {L(0, <<"f", "(", ")", "{">>), L(0, <<"TEST", "(">>)},
        f \in Sequences({L(0, <<"f", "(", ")", "{">>), L(0, <<"TEST", "(">>),
                         L(4, <<")", "{">>), L(0, <<"MACRO", "(", ")", ";">>),
                         L(2, <<"f", "{">>), L(2, <<"}">>), L(0, <<>>),
                         L(0, <<"}">>)}, 4)}

Assembly ==
    {<<L(0, <<"f", "(", ")", "{">>)>> \o f : f \in
        Sequences({L(2, <<"asm", "(">>), L(4, <<"f">>), L(4, <<")", ";">>),
                   L(2, <<"asm", "(", ")", ";">>), L(2, <<"asm", "{">>),
                   L(2, <<"}">>), L(0, <<"}">>)}, 5)}

MCFiles == Nested \cup Branches \cup Scopes \cup Arguments \cup Functions \cup Assembly
=============================================================================
