---------------------------- MODULE NestingState ----------------------------
(***************************************************************************)
(* class NestingState of tools/cpplint/cpplint.py: the linter reads a file *)
(* line by line and keeps a stack of the namespaces, classes and other     *)
(* blocks that are open.  The branches of #if, #else and #endif make it    *)
(* save and restore the whole stack.                                       *)
(*                                                                         *)
(* A line is what Update looks at: its indentation and its tokens, after   *)
(* comments and strings are gone.  "namespace" and "class" stand for the   *)
(* keyword, with a template<...> before it, and the name after it; "f" for *)
(* any other word; "extern" for extern "C"; ">" for what shows that a      *)
(* class is a template parameter.  Matched template argument lists and the *)
(* text between tokens are left out, so are access keywords and the names  *)
(* of classes.  A directive has no braces or semicolons on its line.       *)
(*                                                                         *)
(* An operator whose name ends in _Faulty... is a mistake one could make   *)
(* in the operator that follows it (README, "Sensitivity").                *)
(***************************************************************************)
EXTENDS Integers, SequencesExt

CONSTANT
    SmallNamespace  \* lines of a namespace that needs no closing comment: 10

ASSUME NestingAssumption == SmallNamespace \in Nat

Directives == {"#if", "#else", "#endif"}
Tokens ==
    Directives \cup {"namespace", "class", "extern", "asm", "f", "TEST",
                     "MACRO", "(", ")", "{", "}", ";", ">"}

(* names: what the comment at its end says, if there is one, of the        *)
(* namespace the line closes: its name, "right", or another one, "wrong".  *)
Lines ==
    [indent : Nat, toks : Seq(Tokens), names : {"none", "right", "wrong"}]

(* _BlockInfo and the classes derived from it.  Two blocks of a stack are  *)
(* the same object if they have the same place and the same starting line. *)
Blocks ==
    [kind   : {"namespace", "class", "extern", "block"},
     start  : Nat,                                   \* starting_linenum
     seen   : BOOLEAN,                               \* seen_open_brace
     parens : Int,                                   \* open_parentheses
     asm    : {"no", "inside", "end", "block"},      \* inline_asm
     indent : Nat,                                   \* class_indent
     last   : Nat]                                   \* last_line

Preprocessor ==
    [before_if : Seq(Blocks), before_else : Seq(Blocks), seen_else : BOOLEAN]

Block(kind, n, seen) ==
    [kind |-> kind, start |-> n, seen |-> seen, parens |-> 0, asm |-> "no",
     indent |-> 0, last |-> 0]

-----------------------------------------------------------------------------
(* Sequences of tokens.                                                    *)
Starts(toks, t) == toks # <<>> /\ toks[1] = t

Count(toks, t) == Cardinality({i \in 1 .. Len(toks) : toks[i] = t})

Without(toks, n) == SubSeq(toks, n + 1, Len(toks))

(* _MATCH_ASM.                                                             *)
IsAsm(toks) ==
    Starts(toks, "asm") /\ Len(toks) > 1 /\ toks[2] \in {"(", "{"}

Kept(stack) == Front(stack)

-----------------------------------------------------------------------------
SeenOpenBrace(stack) == stack = <<>> \/ Last(stack).seen

InAsmBlock(stack) == stack # <<>> /\ Last(stack).asm # "no"

IsNamespace(b) == b.kind = "namespace"

(* check_namespace_indentation.                                            *)
IsScope(b) == b.kind \in {"namespace", "class"}

(* UpdatePreprocessor: nest has a stack and a pp_stack.                    *)
PreprocessorUpdated_FaultyLastElse(nest, toks) ==
    LET top == Last(nest.pp)
    IN  CASE Starts(toks, "#if") ->
               [nest EXCEPT !.pp = Append(@, [before_if |-> nest.stack,
                                              before_else |-> <<>>,
                                              seen_else |-> FALSE])]
          [] Starts(toks, "#else") /\ nest.pp # <<>> ->
               [nest EXCEPT
                   !.pp = Append(Front(@), [top EXCEPT !.seen_else = TRUE,
                                                !.before_else = nest.stack]),
                   !.stack = top.before_if]
          [] Starts(toks, "#endif") /\ nest.pp # <<>> ->
               [nest EXCEPT
                   !.pp = Front(@),
                   !.stack = IF top.seen_else THEN top.before_else ELSE @]
          [] OTHER -> nest

PreprocessorUpdated(nest, toks) ==
    LET top == Last(nest.pp)
    IN  CASE Starts(toks, "#if") ->
               [nest EXCEPT !.pp = Append(@, [before_if |-> nest.stack,
                                              before_else |-> <<>>,
                                              seen_else |-> FALSE])]
          [] Starts(toks, "#else") /\ nest.pp # <<>> ->
               [nest EXCEPT
                   !.pp = IF top.seen_else THEN @
                          ELSE Append(Front(@), [top EXCEPT
                                   !.seen_else = TRUE,
                                   !.before_else = nest.stack]),
                   !.stack = top.before_if]
          [] Starts(toks, "#endif") /\ nest.pp # <<>> ->
               [nest EXCEPT
                   !.pp = Front(@),
                   !.stack = IF top.seen_else THEN top.before_else ELSE @]
          [] OTHER -> nest

(* Update: parentheses and inline assembly, in the innermost block.        *)
AsmState(b, depth, toks) ==
    IF b.asm \in {"no", "end"}
    THEN IF depth # 0 /\ b.parens + depth = 1 /\ IsAsm(toks)
         THEN "inside" ELSE "no"
    ELSE IF b.asm = "inside" /\ b.parens + depth = 0 THEN "end"
    ELSE b.asm

ParensCounted(stack, toks) ==
    LET b == Last(stack)
        depth == Count(toks, "(") - Count(toks, ")")
    IN  IF stack = <<>> THEN stack
        ELSE Append(Kept(stack), [b EXCEPT !.parens = @ + depth,
                                           !.asm = AsmState(b, depth, toks)])

(* Update: the namespaces at the start of the line, and where the rest of  *)
(* the line begins.                                                        *)
Namespaces(toks, n) ==
    LET Braces(i) == {j \in i .. Len(toks) : toks[j] = "{"}
        go[i \in 1 .. Len(toks) + 1] ==
            IF i > Len(toks) \/ toks[i] # "namespace"
            THEN [blocks |-> <<>>, rest |-> i]
            ELSE LET open == Braces(i) # {}
                     j    == IF open
                             THEN CHOOSE k \in Braces(i) :
                                      \A l \in Braces(i) : k <= l
                             ELSE i
                     more == go[j + 1]
                 IN  [blocks |-> <<Block("namespace", n, open)>> \o more.blocks,
                      rest   |-> more.rest]
    IN  go[1]

(* InTemplateArgumentList: it reads on from the class, over the following  *)
(* lines, to the first token that decides.                                 *)
InTemplateArgumentList(file, n) ==
    LET after == [m \in 1 .. Len(file) |->
                     CASE m < n -> <<>>
                       [] m = n -> Without(file[m].toks, 1)
                       [] OTHER -> file[m].toks]
        told == SelectSeq(FlattenSeq(after), LAMBDA t : t \in {"{", "}", ";", ">"})
    IN  Starts(told, ">")

(* _ClassInfo: the line where the braces that follow are balanced.         *)
LastLine_FaultyPastEnd(file, n) ==
    LET Ends == {i \in n .. Len(file) : Count(file[i].toks, "}") > 0}
    IN  IF Ends = {} THEN 0 ELSE 1 + CHOOSE i \in Ends : \A j \in Ends : i <= j

LastLine_FaultyFirstClose(file, n) ==
    LET Ends == {i \in n .. Len(file) : Count(file[i].toks, "}") > 0}
    IN  IF Ends = {} THEN 0 ELSE CHOOSE i \in Ends : \A j \in Ends : i <= j

LastLine(file, n) ==
    LET depth[i \in n - 1 .. Len(file)] ==
            IF i < n THEN 0
            ELSE depth[i - 1] + Count(file[i].toks, "{") - Count(file[i].toks, "}")
        Ends == {i \in n .. Len(file) : depth[i] = 0}
    IN  IF Ends = {} THEN 0 ELSE CHOOSE i \in Ends : \A j \in Ends : i <= j

ClassInfo(file, n) ==
    [Block("class", n, FALSE) EXCEPT !.indent = file[n].indent,
                                     !.last = LastLine(file, n)]

(* Update: a class at the start of what is left, unless it is a parameter. *)
IsClassDeclaration_FaultyParens(stack, toks, file, n) ==
    Starts(toks, "class") /\ ~InTemplateArgumentList(file, n)

IsClassDeclaration_FaultyTemplate(stack, toks, file, n) ==
    Starts(toks, "class") /\ (stack = <<>> \/ Last(stack).parens = 0)

IsClassDeclaration(stack, toks, file, n) ==
    /\ Starts(toks, "class")
    /\ stack = <<>> \/ Last(stack).parens = 0
    /\ ~InTemplateArgumentList(file, n)

(* A namespace is closed by a brace with a comment that names it, unless   *)
(* it is small and has none.  Only behind the brace alone is it one.       *)
EndsWrong(b, line, n) ==
    LET names == IF Starts(line.toks, "}") /\ Count(line.toks, ";") = Len(line.toks) - 1
                 THEN line.names ELSE "none"
    IN  names = "wrong" \/ (names = "none" /\ n - b.start >= SmallNamespace)

(* CheckEnd of a class: its brace is aligned; of a namespace: a comment.   *)
EndErrors(b, line, n) ==
    CASE b.kind = "class" /\ Starts(line.toks, "}") /\ line.indent # b.indent ->
           {<<n, "whitespace/indent">>}
      [] b.kind = "namespace" /\ EndsWrong(b, line, n) ->
           {<<n, "readability/namespace">>}
      [] OTHER -> {}

(* Update: one brace, semicolon or parenthesis.  since is what was read    *)
(* after the one before it, margin: it began at the left margin.           *)
Consumed(acc, t, line, n) ==
    LET stack  == acc.stack
        marked == [acc EXCEPT !.since = <<>>, !.margin = FALSE]
        block  == IF acc.since = <<"extern">> /\ acc.margin
                  THEN Block("extern", n, TRUE)
                  ELSE [Block("block", n, TRUE) EXCEPT
                           !.asm = IF IsAsm(Append(acc.since, "{"))
                                   THEN "block" ELSE "no"]
    IN  CASE t = "{" /\ ~SeenOpenBrace(stack) ->
               [marked EXCEPT !.stack = Append(Kept(stack),
                                            [Last(stack) EXCEPT !.seen = TRUE])]
          [] t = "{" /\ SeenOpenBrace(stack) ->
               [marked EXCEPT !.stack = Append(stack, block)]
          [] t \in {";", ")"} /\ ~SeenOpenBrace(stack) ->
               [marked EXCEPT !.stack = Kept(stack)]
          [] t = "}" /\ stack # <<>> ->
               [marked EXCEPT !.stack = Kept(stack),
                              !.errors = @ \cup EndErrors(Last(stack), line, n)]
          [] \/ t \in {";", ")"} /\ SeenOpenBrace(stack)
             \/ t = "}" /\ stack = <<>> -> marked
          [] OTHER -> [acc EXCEPT !.since = Append(@, t)]

(* Update, for line n of the file, after the branches of the preprocessor. *)
LineRead(before, file, n) ==
    LET line    == file[n]
        found   == Namespaces(line.toks, n)
        spaces  == ParensCounted(before, line.toks) \o found.blocks
        left    == Without(line.toks, found.rest - 1)
        isClass == IsClassDeclaration(spaces, left, file, n)
        rest    == IF isClass THEN Tail(left) ELSE left
        begun   == [stack  |-> IF isClass THEN Append(spaces, ClassInfo(file, n))
                               ELSE spaces,
                    since  |-> <<>>,
                    margin |-> line.indent = 0 /\ rest = line.toks,
                    errors |-> {}]
        consumed[i \in 0 .. Len(rest)] ==
            IF i = 0 THEN begun ELSE Consumed(consumed[i - 1], rest[i], line, n)
    IN  consumed[Len(rest)]

Updated(nest, file, n) ==
    LET pre  == PreprocessorUpdated(nest, file[n].toks)
        done == LineRead(pre.stack, file, n)
    IN  [stack |-> done.stack, pp |-> pre.pp, previous |-> nest.stack,
         errors |-> done.errors]

(* CheckForNamespaceIndentation, after Update: the innermost block is new  *)
(* in the namespace that was innermost before this line, or the line is a  *)
(* forward declaration.  The blocks that #else and #endif restore are      *)
(* copies, none of them the one that was innermost.                        *)
IsForwardClassDeclaration(toks) ==
    Len(toks) >= 2 /\ SubSeq(toks, Len(toks) - 1, Len(toks)) = <<"class", ";">>

IsNewInNamespace(nest, n) ==
    LET k == Len(nest.previous)
    IN  /\ k > 0 /\ Len(nest.stack) = k + 1
        /\ IsScope(Last(nest.stack))
        /\ IsNamespace(nest.previous[k])
        /\ nest.stack[k].kind = "namespace" /\ nest.stack[k].start < n

NamespaceIndented(nest, line, n) ==
    /\ line.indent > 0
    /\ ~(Starts(line.toks, "#else") \/ Starts(line.toks, "#endif"))
    /\ IF IsForwardClassDeclaration(line.toks)
       THEN nest.stack # <<>> /\ IsNamespace(Last(nest.stack))
       ELSE IsNewInNamespace(nest, n)

(* CheckCompletedBlocks.                                                   *)
Uncompleted(stack) ==
    {<<stack[i].start, IF IsNamespace(stack[i]) THEN "build/namespaces"
                                                ELSE "build/class">> :
        i \in {j \in 1 .. Len(stack) : IsScope(stack[j])}}
=============================================================================
