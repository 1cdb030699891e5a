----------------------- MODULE ProcessLineProperties -----------------------
(***************************************************************************)
(* What the states ProcessLine keeps must agree with: the braces of the    *)
(* file as a compiler matches them, read over all lines at once and        *)
(* without a stack of preprocessor branches, of parentheses or of heads.   *)
(***************************************************************************)
EXTENDS ProcessLine

(* Of the conditionals that are open after a line, from the outermost:     *)
(* whether their #else was seen.                                           *)
Turned(open, toks) ==
    CASE Starts(toks, "#if") -> Append(open, FALSE)
      [] Starts(toks, "#else") /\ open # <<>> -> Append(Front(open), TRUE)
      [] Starts(toks, "#endif") /\ open # <<>> -> Front(open)
      [] OTHER -> open

ElseOpen ==
    LET open[n \in 0 .. Len(file)] ==
            IF n = 0 THEN <<>> ELSE Turned(open[n - 1], file[n].toks)
    IN  open

IsDirective(n) == \E d \in Directives : Starts(file[n].toks, d)

HasDirectives == \E n \in 1 .. Len(file) : IsDirective(n)

(* The lines a compiler does not see when every #if holds.                 *)
InElse ==
    IF ~HasDirectives THEN {}
    ELSE LET open == ElseOpen
         IN  {n \in 1 .. Len(file) : \E i \in 1 .. Len(open[n]) : open[n][i]}

(* The tokens of the lines it sees, each with its line and place.          *)
Source ==
    LET hidden == InElse
        tokens[n \in 0 .. Len(file)] ==
            IF n = 0 THEN <<>>
            ELSE tokens[n - 1] \o
                    IF n \in hidden \/ IsDirective(n) THEN <<>>
                    ELSE [i \in 1 .. Len(file[n].toks) |->
                             [tok |-> file[n].toks[i], line |-> n, first |-> i = 1]]
    IN  tokens[Len(file)]

(* What a brace opens, from the tokens since the last brace or semicolon.  *)
Opened(head, brace) ==
    LET Named(t) == {i \in 1 .. Len(head) : head[i].tok = t}
        Scope(t) == [kind |-> t, start |-> head[Max(Named(t))].line, asm |-> FALSE]
    IN  CASE Named("namespace") # {} -> Scope("namespace")
          [] Named("class") # {} /\ Named("namespace") \cup Named("(") \cup Named(">") = {} ->
                Scope("class")
          [] OTHER -> [kind  |-> IF /\ Len(head) = 1 /\ head[1].tok = "extern"
                                    /\ head[1].first /\ file[head[1].line].indent = 0
                                 THEN "extern" ELSE "block",
                       start |-> brace.line,
                       asm   |-> head # <<>> /\ Last(head).tok = "asm" /\ Last(head).first]

(* Before each token of the source, and after the last: the open blocks    *)
(* and the tokens since the last brace or semicolon.                       *)
Reading(src) ==
    LET Read(was, s) ==
            CASE s.tok = "{" -> [open |-> Append(was.open, Opened(was.head, s)),
                                 head |-> <<>>]
              [] s.tok = "}" -> [open |-> IF was.open = <<>> THEN <<>>
                                          ELSE Front(was.open),
                                 head |-> <<>>]
              [] s.tok = ";" -> [was EXCEPT !.head = <<>>]
              [] OTHER -> [was EXCEPT !.head = Append(@, s)]
        read[i \in 0 .. Len(src)] ==
            IF i = 0 THEN <<[open |-> <<>>, head |-> <<>>]>>
            ELSE LET was == read[i - 1] IN Append(was, Read(Last(was), src[i]))
    IN  read[Len(src)]

(* What a compiler reads: the tokens, the reading before each and after    *)
(* the last, and the readings before the first line and after each.        *)
Compiled ==
    LET src  == Source
        read == Reading(src)
        after[n \in 0 .. Len(file)] ==
            LET k == Cardinality({i \in 1 .. Len(src) : src[i].line <= n})
            IN  IF n = 0 THEN <<read[1]>> ELSE Append(after[n - 1], read[k + 1])
    IN  [src |-> src, read |-> read, after |-> after[Len(file)]]

OpenAfter(c, n) == c.after[n + 1].open

HeadAfter(c, n) == c.after[n + 1].head

(* Programs that compile: parentheses are balanced in each statement, and  *)
(* no head is cut off by a closing brace or by another head.               *)
InHead(c, i, t) ==
    Cardinality({j \in 1 .. Len(c.read[i].head) : c.read[i].head[j].tok = t})

Compiles(c) ==
    LET Balanced(i) == InHead(c, i, "(") = InHead(c, i, ")")
        StartsHead(i) == /\ c.src[i].tok \in {"class", "namespace"}
                         /\ c.src[i].first
    IN  /\ Balanced(Len(c.read))
        /\ \A i \in 1 .. Len(c.src) :
              /\ c.src[i].tok = ")" => InHead(c, i, "(") > InHead(c, i, ")")
              /\ c.src[i].tok \in {"{", "}", ";"} => Balanced(i)
              /\ c.src[i].tok = "}" => c.read[i].head = <<>> /\ c.read[i].open # <<>>
              /\ StartsHead(i) => \A j \in 1 .. Len(c.read[i].head) :
                    c.read[i].head[j].tok \in {"class", "namespace"} =>
                        \E k \in 1 .. j : c.read[i].head[k].tok = "("

(* And whose arguments are not declared with "class" on lines of their own *)
(* outside of every block, where nothing counts the parentheses: of three  *)
(* such lines the code takes one for a class (README, "Findings").         *)
WellFormed(c) ==
    /\ Compiles(c)
    /\ \A i \in 1 .. Len(c.src) :
          (c.src[i].tok = "class" /\ c.src[i].first /\ InHead(c, i, "(") > 0) =>
              c.read[i].open # <<>>

-----------------------------------------------------------------------------
(* The stack after each line if the branches of #else are left out and     *)
(* directives are nothing but words.                                       *)
FirstStacks ==
    LET hidden == InElse
        after[n \in 0 .. Len(file)] ==
            IF n = 0 THEN <<>>
            ELSE IF n \in hidden THEN after[n - 1]
            ELSE LineRead(after[n - 1], file, n).stack
    IN  after

(* UpdatePreprocessor saves and restores the stack so that it is, outside  *)
(* of the branches of #else, what it would be had the file none of them:   *)
(* "these do not affect nesting stack".                                    *)
FirstBranchOnly ==
    (HasDirectives /\ linenum \notin InElse) => nest.stack = FirstStacks[linenum]

(* The blocks of the stack whose brace was seen are the braces that are    *)
(* open, each with the kind and the line of its head; a head still without *)
(* its brace is the innermost.                                             *)
BracesMatched ==
    linenum > 0 =>
        LET c    == Compiled
            seen == SelectSeq(nest.stack, LAMBDA b : b.seen)
            open == OpenAfter(c, linenum)
        IN  (WellFormed(c) /\ linenum \notin InElse) =>
            /\ Len(seen) = Len(open)
            /\ \A i \in 1 .. Len(seen) :
                  /\ nest.stack[i] = seen[i]
                  /\ seen[i].kind = open[i].kind
                  /\ seen[i].start = open[i].start
            /\ Len(nest.stack) <= Len(seen) + 1

(* The lines of inline assembly: those of a statement asm(...) of several  *)
(* lines in a block, up to the one that closes it, and those directly in a *)
(* block asm {...}.                                                        *)
ParenDepth(m, n) ==
    LET sum[i \in m - 1 .. n] ==
            IF i < m THEN 0 ELSE sum[i - 1] + Count(file[i].toks, "(")
                                            - Count(file[i].toks, ")")
    IN  sum[n]

IsAsmLine(c, n) ==
    \/ OpenAfter(c, n) # <<>> /\ Last(OpenAfter(c, n)).asm
    \/ \E m \in 1 .. n :
          /\ Starts(file[m].toks, "asm") /\ Count(file[m].toks, "{") = 0
          /\ OpenAfter(c, m) # <<>>
          /\ \A k \in m .. n - 1 : ParenDepth(m, k) > 0
          /\ n = m => ParenDepth(m, n) > 0

(* The line at which a class found its end is the one that closes it.      *)
ClassEndKnown ==
    (~HasDirectives /\ \E i \in 1 .. Len(nest.stack) : nest.stack[i].kind = "class") =>
        LET c == Compiled
            OneBrace == \A n \in 1 .. Len(file) :
                           Count(file[n].toks, "{") + Count(file[n].toks, "}") <= 1
            Closes(i) == {n \in linenum + 1 .. Len(file) : Len(OpenAfter(c, n)) < i}
        IN  (WellFormed(c) /\ OneBrace) =>
            \A i \in 1 .. Len(nest.stack) :
                LET b == nest.stack[i]
                IN  (b.kind = "class" /\ b.seen /\ Count(file[b.start].toks, "{") = 1) =>
                        b.last = IF Closes(i) = {} THEN 0 ELSE Min(Closes(i))

(* What is reported of namespaces and classes follows from the braces: a   *)
(* class or namespace indented though it is directly in a namespace that   *)
(* was open before, and alone left open by its line; a forward declaration *)
(* indented in a namespace; a class whose brace is not aligned; a          *)
(* namespace with a closing comment that names another, and a long one     *)
(* without any (cpplint.py 2902); what is never closed.                    *)
Indented(c) ==
    LET LeavesOneOpen(toks) ==
            /\ toks # <<>> /\ toks[1] \in {"namespace", "class"}
            /\ \A i \in 2 .. Len(toks) : toks[i] \in {"f", "{"}
            /\ Count(toks, "{") <= 1
        InNamespace(n) ==
            OpenAfter(c, n) # <<>> /\ Last(OpenAfter(c, n)).kind = "namespace"
    IN  {n \in 1 .. linenum :
            /\ file[n].indent > 0
            /\ \/ /\ InNamespace(n - 1) /\ LeavesOneOpen(file[n].toks)
                  /\ \A i \in 1 .. Len(HeadAfter(c, n - 1)) :
                        HeadAfter(c, n - 1)[i].tok # "("
               \/ InNamespace(n) /\ IsForwardClassDeclaration(file[n].toks)}

BlocksReported ==
    (errors # {} \/ completed) /\ ~HasDirectives => \A c \in {Compiled} :
        LET Closing == {i \in 1 .. Len(c.src) :
                           c.src[i].tok = "}" /\ c.src[i].line <= linenum}
            Closed(i) == Last(c.read[i].open)
            Line(i) == file[c.src[i].line]
            Comment(line) ==
                IF {k \in 2 .. Len(line.toks) : line.toks[k] # ";"} = {}
                THEN line.names ELSE "none"
            Reported(category) == {e[1] : e \in {x \in errors : x[2] = category}}
            Left == Last(c.read)
            Unfinished(kind) ==
                {Left.open[i].start :
                    i \in {j \in 1 .. Len(Left.open) : Left.open[j].kind = kind}}
                  \cup {Left.head[i].line :
                    i \in {j \in 1 .. Len(Left.head) :
                              /\ Left.head[j].tok = kind /\ Left.head[j].first
                              /\ \A k \in 1 .. Len(Left.head) :
                                    Left.head[k].tok \notin {"(", ">"}}}
        IN  WellFormed(c) =>
            /\ Reported("runtime/indentation_namespace") = Indented(c)
            /\ Reported("whitespace/indent") =
                   {c.src[i].line : i \in {j \in Closing :
                       /\ Closed(j).kind = "class"
                       /\ Starts(Line(j).toks, "}")
                       /\ Line(j).indent # file[Closed(j).start].indent}}
            /\ Reported("readability/namespace") =
                   {c.src[i].line : i \in {j \in Closing :
                       /\ Closed(j).kind = "namespace"
                       /\ CASE Comment(Line(j)) = "right" -> FALSE
                            [] Comment(Line(j)) = "wrong" -> TRUE
                            [] OTHER -> c.src[j].line - Closed(j).start >= SmallNamespace}}
            /\ completed =>
                   /\ Reported("build/namespaces") = Unfinished("namespace")
                   /\ Reported("build/class") = Unfinished("class")

-----------------------------------------------------------------------------
(* A function is what starts at the left margin, opens a brace and is      *)
(* closed by a brace alone at the left margin, the only one between.       *)
Heads == {h \in 1 .. Len(file) :
             /\ StartsFunction(file[h]) /\ Telling(file, h) # {} /\ HasBody(file, h)}

EndsOf(c, h) ==
    {n \in Min(Telling(file, h)) + 1 .. Len(file) :
        Len(OpenAfter(c, n)) <= Len(OpenAfter(c, h - 1))}

FunctionLines(c, h) ==
    h .. IF EndsOf(c, h) = {} THEN Len(file) ELSE Min(EndsOf(c, h)) - 1

AtMargin(n) == file[n].indent = 0 /\ file[n].toks = <<"}">>

Styled(c) ==
    /\ WellFormed(c) /\ ~HasDirectives
    /\ \A h \in Heads :
          /\ EndsOf(c, h) # {} => AtMargin(Min(EndsOf(c, h)))
          /\ \A n \in FunctionLines(c, h) \ {h} :
                ~AtMargin(n) /\ ~StartsFunction(file[n])

(* A function is reported when it ends, exactly when it has more lines     *)
(* than the trigger for the verbosity; blank lines and inline assembly do  *)
(* not count.  The report is never so unimportant that the verbosity       *)
(* would suppress it.                                                      *)
FunctionSizeReported ==
    (Heads # {} /\ linenum > 0) =>
        LET c == Compiled
            Size(h) == Cardinality({n \in FunctionLines(c, h) \ {h} :
                                       file[n].toks # <<>> /\ ~IsAsmLine(c, n)})
            Most(h) == (IF IsTest(file[h]) THEN TestTrigger ELSE NormalTrigger)
                         * 2 ^ VerboseLevel
            Long == {h \in Heads : /\ EndsOf(c, h) # {}
                                   /\ Min(EndsOf(c, h)) <= linenum
                                   /\ Size(h) > Most(h)}
            Sizes == {e \in errors : e[2] = "readability/fn_size"}
        IN  Styled(c) =>
            /\ {e[1] : e \in {x \in Sizes : AtMargin(x[1])}}
                  = {Min(EndsOf(c, h)) : h \in Long}
            /\ \A e \in Sizes : e[3] >= VerboseLevel
=============================================================================
