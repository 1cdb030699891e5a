------------------------------ MODULE LintText ------------------------------
(***************************************************************************)
(* What tools/cpplint/cpplint.py does with the text of a file before and   *)
(* while it checks it: RemoveMultiLineComments, CleanseRawStrings, for     *)
(* each line _CollapseStrings and CleanseComments, which give the elided   *)
(* lines, then CheckForMultilineCommentsAndStrings; and from any bracket   *)
(* of the elided lines CloseExpression, from where that ends               *)
(* ReverseCloseExpression.                                                 *)
(***************************************************************************)
EXTENDS CloseExpression

CONSTANT
    Texts  \* the files, sequences of lines

ASSUME TextsAssumption == Texts \subseteq Seq(Seq(Tokens))

VARIABLES
    raw,        \* the file as it was read; does not change
    raw_lines,  \* clean_lines.raw_lines, without comments of several lines
    lines,      \* the file as far as it is rewritten
    phase,      \* which function is at work
    linenum,    \* its line
    pos,        \* its place on the line, when it looks for a bracket
    delimiter,  \* the end of the raw string it is in, or <<>>
    collapsed,  \* what is done of the line in _CollapseStrings
    elided,     \* clean_lines.elided
    errors,     \* <<line, "unended">>, <<line, "comment">>, <<line, "string">>
    stack,      \* the nesting stack of the search for a bracket
    start,      \* the <<line, place>> of the bracket to close, <<>> if none
    closed,     \* the one that closes it, <<>> if none is found
    reopened    \* the one that opens closed, <<>> if none is found

text == <<raw, raw_lines, lines, delimiter, collapsed, elided, errors>>
search == <<pos, stack, start, closed, reopened>>
vars == <<text, search, phase, linenum>>

Init ==
    /\ raw \in Texts
    /\ raw_lines = <<>>
    /\ lines = raw
    /\ phase = "comments"
    /\ linenum = 1
    /\ pos = 0
    /\ delimiter = <<>>
    /\ collapsed = <<>>
    /\ elided = <<>>
    /\ errors = {}
    /\ stack = <<>>
    /\ start = <<>>
    /\ closed = <<>>
    /\ reopened = <<>>

-----------------------------------------------------------------------------
(* RemoveMultiLineComments.  The line of an error is one too far.          *)
CommentBegins == FindNextMultiLineCommentStart(lines, linenum)
CommentEnds == FindNextMultiLineCommentEnd(lines, Min(CommentBegins))

CommentRemoved ==
    /\ phase = "comments" /\ CommentBegins # {} /\ CommentEnds # {}
    /\ lines' = RemoveMultiLineCommentsFromRange(lines, Min(CommentBegins), Min(CommentEnds))
    /\ linenum' = Min(CommentEnds) + 1
    /\ UNCHANGED <<raw, raw_lines, delimiter, collapsed, elided, errors, search, phase>>

CommentsDone ==
    /\ phase = "comments" /\ (CommentBegins # {} => CommentEnds = {})
    /\ errors' = IF CommentBegins = {} THEN errors
                 ELSE errors \cup {<<Min(CommentBegins) + 1, "unended">>}
    /\ raw_lines' = lines
    /\ phase' = "raw"
    /\ linenum' = 1
    /\ UNCHANGED <<raw, lines, delimiter, collapsed, elided, search>>

-----------------------------------------------------------------------------
(* CleanseRawStrings.                                                      *)
InRaw == phase = "raw" /\ linenum <= Len(lines)
Line == lines[linenum]

Rewritten(line, inside, n) ==
    /\ lines' = [lines EXCEPT ![linenum] = line]
    /\ delimiter' = inside
    /\ linenum' = n
    /\ UNCHANGED <<raw, raw_lines, collapsed, elided, errors, search, phase>>

RawStringEnds ==
    /\ InRaw /\ delimiter # <<>>
    /\ LET ends == Occurrences(Line, delimiter)
       IN  /\ ends # {}
           /\ Rewritten(Before(Line, Min(NotSpace(Line))) \o EmptyString
                          \o After(Line, Min(ends) + Len(delimiter) - 1),
                        <<>>, linenum)

RawStringGoesOn ==
    /\ InRaw /\ delimiter # <<>>
    /\ Occurrences(Line, delimiter) = {}
    /\ Rewritten(EmptyString, delimiter, linenum + 1)

FirstRaw == CHOOSE p \in RawStarts(Line) : \A q \in RawStarts(Line) : p[1] <= q[1]

IsRaw == RawStarts(Line) # {} /\ ~InComment(Before(Line, FirstRaw[1]))

RawStringBegins ==
    /\ InRaw /\ delimiter = <<>>
    /\ IsRaw
    /\ LET head == Before(Line, FirstRaw[1])
           tail == After(Line, FirstRaw[2])
           end  == <<")">> \o SubSeq(Line, FirstRaw[1] + 2, FirstRaw[2] - 1) \o <<"q">>
           ends == Occurrences(tail, end)
       IN  IF ends # {}
           THEN Rewritten(head \o EmptyString \o After(tail, Min(ends) + Len(end) - 1),
                          <<>>, linenum)
           ELSE Rewritten(head \o EmptyString, end, linenum + 1)

NoRawString ==
    /\ InRaw /\ delimiter = <<>>
    /\ ~IsRaw
    /\ Rewritten(Line, <<>>, linenum + 1)

RawStringsDone ==
    /\ phase = "raw" /\ linenum > Len(lines)
    /\ phase' = "elide"
    /\ linenum' = 1
    /\ UNCHANGED <<text, search>>

-----------------------------------------------------------------------------
(* _CollapseStrings, one quote at a time, then CleanseComments.            *)
Rest == WithoutEscapes(Line)
First == Min(Quotes(Rest))
Head_ == Before(Rest, First)
Tail_ == After(Rest, First)

AtQuote(t) ==
    /\ phase = "elide" /\ linenum <= Len(lines)
    /\ Quotes(Rest) # {}
    /\ Rest[First] = t

Collapsed(done, rest) ==
    /\ collapsed' = collapsed \o done
    /\ lines' = [lines EXCEPT ![linenum] = rest]
    /\ UNCHANGED <<raw, raw_lines, delimiter, elided, errors, search, phase, linenum>>

CollapseString ==
    /\ AtQuote("q")
    /\ Places(Tail_, {"q"}) # {}
    /\ Collapsed(Head_ \o EmptyString, After(Tail_, Min(Places(Tail_, {"q"}))))

(* A separator of digits, or a quote after a number.                       *)
CollapseNumber ==
    /\ AtQuote("s")
    /\ EndsInNumber(Head_)
    /\ LET all    == <<"s">> \o Tail_
           length == LiteralLength(all)
       IN  Collapsed(Head_ \o Kept(all, 1 .. length \ Places(all, {"s"})), After(all, length))

CollapseChar ==
    /\ AtQuote("s")
    /\ ~EndsInNumber(Head_)
    /\ Places(Tail_, {"s"}) # {}
    /\ Collapsed(Head_ \o <<"s", "s">>, After(Tail_, Min(Places(Tail_, {"s"}))))

ElideLine ==
    /\ phase = "elide" /\ linenum <= Len(lines)
    /\ AtQuote("q") => Places(Tail_, {"q"}) = {}
    /\ AtQuote("s") => ~EndsInNumber(Head_) /\ Places(Tail_, {"s"}) = {}
    /\ elided' = Append(elided, CleanseComments(collapsed \o Rest))
    /\ collapsed' = <<>>
    /\ linenum' = linenum + 1
    /\ UNCHANGED <<raw, raw_lines, lines, delimiter, errors, search, phase>>

CheckForMultilineCommentsAndStrings ==
    /\ phase = "elide" /\ linenum > Len(lines)
    /\ errors' = errors \cup UNION {Multiline(elided[n], n) : n \in 1 .. Len(elided)}
    /\ phase' = "checked"
    /\ UNCHANGED <<raw, raw_lines, lines, delimiter, collapsed, elided, search, linenum>>

-----------------------------------------------------------------------------
(* CloseExpression at any bracket.                                         *)
CloseExpression ==
    /\ phase = "checked"
    /\ \E n \in 1 .. Len(elided) : \E i \in 1 .. Len(elided[n]) :
          /\ IsExpression(elided[n], i)
          /\ start' = <<n, i>>
          /\ linenum' = n
          /\ pos' = i
    /\ phase' = "close"
    /\ UNCHANGED <<text, stack, closed, reopened>>

ScanForward ==
    /\ phase = "close" /\ pos <= Len(elided[linenum])
    /\ LET step == FindEnd(elided[linenum], pos, stack)
       IN  /\ stack' = IF step.outcome = "on" THEN step.stack ELSE <<>>
           /\ phase' = CASE step.outcome = "on"    -> "close"
                         [] step.outcome = "found" -> "closed"
                         [] step.outcome = "lost"  -> "done"
           /\ closed' = IF step.outcome = "found" THEN <<linenum, pos>> ELSE <<>>
           /\ pos' = IF step.outcome = "found" THEN pos ELSE pos + 1
    /\ UNCHANGED <<text, start, reopened, linenum>>

NextLine ==
    /\ phase = "close" /\ pos > Len(elided[linenum])
    /\ IF stack # <<>> /\ linenum < Len(elided)
       THEN linenum' = linenum + 1 /\ pos' = 1 /\ UNCHANGED phase
       ELSE phase' = "done" /\ UNCHANGED <<linenum, pos>>
    /\ UNCHANGED <<text, stack, start, closed, reopened>>

-----------------------------------------------------------------------------
(* ReverseCloseExpression from the bracket that was found.                 *)
ReverseCloseExpression ==
    /\ phase = "closed"
    /\ phase' = "reopen"
    /\ UNCHANGED <<text, search, linenum>>

ScanBackward ==
    /\ phase = "reopen" /\ pos >= 1
    /\ LET line == elided[linenum]
           step == FindStart(line, pos, stack)
       IN  /\ stack' = IF step.outcome = "on" THEN step.stack ELSE <<>>
           /\ phase' = IF step.outcome = "on" THEN "reopen" ELSE "done"
           /\ reopened' = IF step.outcome = "found" THEN <<linenum, pos>> ELSE <<>>
           /\ pos' = IF IsShift(line, pos) THEN pos - 2 ELSE pos - 1
    /\ UNCHANGED <<text, start, closed, linenum>>

PreviousLine ==
    /\ phase = "reopen" /\ pos < 1
    /\ IF stack # <<>> /\ linenum > 1
       THEN /\ linenum' = linenum - 1
            /\ pos' = Len(elided[linenum - 1])
            /\ UNCHANGED phase
       ELSE phase' = "done" /\ UNCHANGED <<linenum, pos>>
    /\ UNCHANGED <<text, stack, start, closed, reopened>>

Next ==
    \/ CommentRemoved \/ CommentsDone
    \/ RawStringEnds \/ RawStringGoesOn \/ RawStringBegins \/ NoRawString \/ RawStringsDone
    \/ CollapseString \/ CollapseNumber \/ CollapseChar \/ ElideLine
    \/ CheckForMultilineCommentsAndStrings
    \/ CloseExpression \/ ScanForward \/ NextLine
    \/ ReverseCloseExpression \/ ScanBackward \/ PreviousLine

Spec == Init /\ [][Next]_vars
=============================================================================
