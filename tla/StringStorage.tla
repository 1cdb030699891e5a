--------------------------- MODULE StringStorage ---------------------------
(***************************************************************************)
(* jaclks::javac_base::String: string.h and string.cc, the storage of its  *)
(* objects.  A short text lives in the object itself, a long one on the    *)
(* heap, and a reference shows a text that belongs to the caller.  Every   *)
(* function below is translated as what it does to those buffers, and what *)
(* it calls is called here too: operators with a World as first argument   *)
(* take the state before to the state after.                               *)
(*                                                                         *)
(* The class is not synchronised: operations happen one at a time.         *)
(* Undefined behaviour, and an exception for want of memory, end a         *)
(* behaviour: fate says of what.                                           *)
(*                                                                         *)
(* An operator whose name ends in _Faulty... is a mistake one could make   *)
(* in the operator that follows it (README, "Sensitivity").                *)
(***************************************************************************)
EXTENDS Integers, Sequences

CONSTANTS
    Strings,        \* storage for String objects
    Temp,           \* the temporary in an assignment from a temporary
    Blocks,         \* the blocks malloc can hand out, each once (a bound)
    Callers,        \* character arrays of the caller
    CallerText,     \* what each of them holds, the final '\0' apart
    Chars,          \* the characters
    Nul,            \* the character '\0'
    White,          \* the characters isspace() accepts
    Low,            \* the characters up to ' ' in the order of char
    LocalCapacity,  \* kLocalCapacity: 16 in the code
    Null            \* the null pointer

CONSTANT
    CopyReset       \* clients may copy an object that was Reset

ASSUME CharsAssumption ==
    /\ Nul \in Low \ White
    /\ White \subseteq Low
    /\ Low \subseteq Chars
    /\ CallerText \in [Callers -> Seq(Chars)]

ASSUME StorageAssumption ==
    /\ LocalCapacity \in Nat \ {0}
    /\ Temp \notin Strings
    /\ Null \notin Strings \cup {Temp} \cup Blocks \cup Callers
    /\ (Strings \cup {Temp}) \cap (Blocks \cup Callers) = {}
    /\ Blocks \cap Callers = {}

ASSUME ClientsAssumption == CopyReset \in BOOLEAN

VARIABLES
    obj,   \* the fields of every String object
    live,  \* the storage that holds an object
    mem,   \* the characters in every buffer, the final '\0' included
    heap,  \* the blocks of the heap: unused, allocated or freed
    lost,  \* the blocks whose head pointer was left behind by a move
    fate   \* "ok", "bad_alloc", or the undefined behaviour met

vars == <<obj, live, mem, heap, lost, fate>>

Objects == Strings \cup {Temp}
Buffers == Objects \cup Blocks \cup Callers

(* An object stands for its own local_buf_ too.  buf and off are buf_: the *)
(* buffer it points into and how far.  cap and head are info_, which the   *)
(* union keeps only while the text is not in local_buf_.                   *)
Fields ==
    [own : BOOLEAN, len : Nat, buf : Buffers \cup {Null}, off : Nat,
     cap : Nat, head : Blocks \cup {Null}]

Undefined == {"null_read", "use_after_free", "double_free", "invalid_free",
              "length_wrap"}

TypeOK ==
    /\ obj \in [Objects -> Fields]
    /\ live \subseteq Strings
    /\ mem \in [Buffers -> Seq(Chars)]
    /\ heap \in [Blocks -> {"unused", "allocated", "freed"}]
    /\ lost \subseteq Blocks
    /\ fate \in {"ok", "bad_alloc"} \cup Undefined

(* What a move leaves behind; also storage without an object.              *)
MovedFrom == [own |-> FALSE, len |-> 0, buf |-> Null, off |-> 0,
              cap |-> 0, head |-> Null]

Init ==
    /\ obj = [s \in Objects |-> MovedFrom]
    /\ live = {}
    /\ mem = [b \in Buffers |->
                IF b \in Callers THEN Append(CallerText[b], Nul) ELSE <<Nul>>]
    /\ heap = [b \in Blocks |-> "unused"]
    /\ lost = {}
    /\ fate = "ok"

-----------------------------------------------------------------------------
(* Reading a world.                                                        *)

Now == [obj |-> obj, live |-> live, mem |-> mem, heap |-> heap,
        lost |-> lost, fate |-> fate]

Fault(w, f) == [w EXCEPT !.fate = f]

(* How many characters at the start, or at the end, of a text are in C:    *)
(* where the loops of Trim, Strip and strlen() stop.                       *)
Leading(text, C) ==
    CHOOSE n \in 0..Len(text) :
        /\ \A i \in 1..n : text[i] \in C
        /\ n < Len(text) => text[n + 1] \notin C

Trailing(text, C) ==
    CHOOSE n \in 0..Len(text) :
        /\ \A i \in Len(text) - n + 1 .. Len(text) : text[i] \in C
        /\ n < Len(text) => text[Len(text) - n] \notin C

Prefix(text, n) == SubSeq(text, 1, n)
Drop(text, n)   == SubSeq(text, n + 1, Len(text))

(* The C string that starts at buf + off.                                  *)
CString(w, buf, off) ==
    LET rest == Drop(w.mem[buf], off)
    IN  Prefix(rest, Leading(rest, Chars \ {Nul}))

(* The len_ characters at buf_.                                            *)
Text(w, s) ==
    LET o == w.obj[s]
    IN  IF o.buf = Null THEN <<>> ELSE Prefix(Drop(w.mem[o.buf], o.off), o.len)

IsLocal(w, s) == w.obj[s].buf = s

IsDangling(w, s) ==
    w.obj[s].buf \in Blocks /\ w.heap[w.obj[s].buf] # "allocated"

-----------------------------------------------------------------------------
(* The functions of the class, as what they make of a world.               *)

(* free(): what a freed block held is nobody's any more.                   *)
Free(w, buf, off) ==
    IF buf = Null THEN w
    ELSE IF buf \notin Blocks \/ off # 0 THEN Fault(w, "invalid_free")
    ELSE IF w.heap[buf] # "allocated" THEN Fault(w, "double_free")
    ELSE [w EXCEPT !.heap[buf] = "freed", !.mem[buf] = <<Nul>>]

(* String::String().                                                       *)
Default(w, s) ==
    [w EXCEPT !.obj[s] = [own |-> TRUE, len |-> 0, buf |-> s, off |-> 0,
                          cap |-> 0, head |-> Null],
              !.mem[s] = <<Nul>>]

(* The texts construct() puts into local_buf_.                             *)
Short_FaultyNoRoomForNul(text) == Len(text) <= LocalCapacity

Short(text) == Len(text) < LocalCapacity

(* String(const char *, size_t): String(), then construct().               *)
Construct(w, s, text) ==
    LET n    == Len(text)
        room == {b \in Blocks : w.heap[b] = "unused"}
        b    == CHOOSE b \in room : TRUE
    IN  IF Short(text)
        THEN [Default(w, s) EXCEPT !.obj[s].len = n, !.mem[s] = Append(text, Nul)]
        ELSE IF room = {} THEN Fault(w, "bad_alloc")
        ELSE [Default(w, s) EXCEPT
                !.obj[s] = [own |-> TRUE, len |-> n, buf |-> b, off |-> 0,
                            cap |-> n + 1, head |-> b],
                !.mem[b] = Append(text, Nul),
                !.heap[b] = "allocated"]

(* String(const char *, bool ref), on a pointer into a buffer.             *)
FromChars(w, s, buf, off, ref) ==
    LET text == CString(Default(w, s), buf, off)
    IN  IF ref
        THEN [Default(w, s) EXCEPT
                !.obj[s] = [own |-> FALSE, len |-> Len(text), buf |-> buf,
                            off |-> off, cap |-> Len(text) + 1, head |-> Null]]
        ELSE Construct(w, s, text)

(* String(const String &): a reference is copied as a reference.           *)
CopyInto_FaultyShares(w, s, u) == [Default(w, s) EXCEPT !.obj[s] = w.obj[u]]

CopyInto(w, s, u) ==
    IF w.obj[u].own THEN Construct(w, s, Text(w, u))
    ELSE [Default(w, s) EXCEPT !.obj[s] = w.obj[u]]

(* String(String &&): info_ is not taken along.                            *)
MoveInto_FaultyKeepsSource(w, s, u) ==
    [CopyInto_FaultyShares(w, s, u) EXCEPT !.obj[s].cap = 0, !.obj[s].head = Null]

MoveInto(w, s, u) ==
    LET o == w.obj[u]
        local == IsLocal(w, u)
    IN  [w EXCEPT !.obj[s] = [o EXCEPT !.buf = IF local THEN s ELSE o.buf,
                                       !.cap = 0, !.head = Null],
                  !.mem[s] = IF local THEN w.mem[u] ELSE <<Nul>>,
                  !.obj[u] = MovedFrom,
                  !.mem[u] = <<Nul>>,
                  !.lost = @ \cup ({o.head} \ {Null})]

(* ~String().                                                              *)
Destructed(w, s) ==
    IF ~IsLocal(w, s) /\ w.obj[s].own THEN Free(w, w.obj[s].head, 0) ELSE w

(* operator=(const String &): the text goes through a C string.            *)
CopyAssigned_FaultyNoDestructor(w, s, u) ==
    IF s = u THEN w
    ELSE FromChars(w, s, w.obj[u].buf, w.obj[u].off, ~w.obj[u].own)

CopyAssigned(w, s, u) ==
    LET d == Destructed(w, s)
        o == w.obj[u]
    IN  IF s = u THEN w
        ELSE IF o.buf = Null THEN Fault(w, "null_read")
        ELSE IF IsDangling(d, u) THEN Fault(w, "use_after_free")
        ELSE FromChars(d, s, o.buf, o.off, ~o.own)

(* operator=(String &&).                                                   *)
MoveAssigned(w, s, u) ==
    IF s = u THEN w ELSE MoveInto(Destructed(w, s), s, u)

(* *this = String{...}: the temporary is made, moved from and destroyed.   *)
AssignTemporary(w, s, text) ==
    LET t == Construct(w, Temp, text)
    IN  IF t.fate = "ok" THEN Destructed(MoveAssigned(t, s, Temp), Temp) ELSE t

(* Trim().                                                                 *)
Trimmed_FaultyKeepsStart(w, s) ==
    LET text == Text(w, s)
    IN  [w EXCEPT !.obj[s].len = Len(text) - Leading(text, Low)]

Trimmed(w, s) ==
    LET o    == w.obj[s]
        text == Text(w, s)
        st   == Leading(text, Low)
        tail == Drop(text, st)
        len  == Len(tail) - Trailing(tail, Low)
    IN  IF len = 0 THEN AssignTemporary(w, s, <<>>)
        ELSE IF o.own
        THEN [w EXCEPT !.obj[s].off = o.off + st, !.obj[s].len = len,
                       !.mem[o.buf][o.off + st + len + 1] = Nul]
        ELSE IF st + len < o.len THEN AssignTemporary(w, s, Prefix(tail, len))
        ELSE [w EXCEPT !.obj[s].off = o.off + st, !.obj[s].len = len,
                       !.obj[s].cap = len + 1]

(* StripLeading(): it stops at the first other character, not at len_.     *)
LeadingStripped_FaultyDoWhile(w, s) ==
    LET o == w.obj[s]
        n == 1 + Leading(Drop(w.mem[o.buf], o.off + 1), White)
    IN  [w EXCEPT !.obj[s].off = o.off + n, !.obj[s].len = o.len - n]

LeadingStripped(w, s) ==
    LET o == w.obj[s]
        n == Leading(Drop(w.mem[o.buf], o.off), White)
    IN  IF o.buf = Null THEN Fault(w, "null_read")
        ELSE IF n > o.len THEN Fault(w, "length_wrap")
        ELSE [w EXCEPT !.obj[s].off = o.off + n, !.obj[s].len = o.len - n]

(* StripTrailing(): in place, or a copy where the text is the caller's.    *)
TrailingStripped_FaultyNoNul(w, s) ==
    LET text == Text(w, s)
    IN  [w EXCEPT !.obj[s].len = Len(text) - Trailing(text, White)]

TrailingStripped_FaultyInPlace(w, s) ==
    LET o    == w.obj[s]
        text == Text(w, s)
        len  == Len(text) - Trailing(text, White)
    IN  IF o.buf = Null THEN w
        ELSE [w EXCEPT !.obj[s].len = len, !.mem[o.buf][o.off + len + 1] = Nul]

TrailingStripped(w, s) ==
    LET o    == w.obj[s]
        text == Text(w, s)
        len  == Len(text) - Trailing(text, White)
    IN  IF o.own
        THEN [w EXCEPT !.obj[s].len = len, !.mem[o.buf][o.off + len + 1] = Nul]
        ELSE Construct(Destructed(w, s), s, Prefix(text, len))

(* Reset(): it frees buf_, not head.                                       *)
ResetDone(w, s) ==
    LET o == w.obj[s]
        f == IF ~IsLocal(w, s) /\ o.own THEN Free(w, o.buf, o.off) ELSE w
    IN  [f EXCEPT !.obj[s] = [own |-> FALSE, len |-> 0, buf |-> s, off |-> 0,
                              cap |-> 0, head |-> Null],
                  !.mem[s] = <<Nul>>]

(* What the static functions hand to the constructor of their result.      *)
StaticTrimText(text) ==
    LET tail == Drop(text, Leading(text, Low))
        len  == Len(tail) - Trailing(tail, Low)
    IN  IF len < Len(text) THEN Prefix(tail, len) ELSE <<>>

StaticStripTrailingText(text) ==
    Prefix(text, Len(text) - Trailing(text, White))

StaticStripLeadingText(text) == Drop(text, Leading(text, White))

StaticStripText(text) == StaticStripTrailingText(StaticStripLeadingText(text))

-----------------------------------------------------------------------------
(* The operations.  An operation that ends the behaviour leaves the rest   *)
(* of the world as it was.                                                 *)
Becomes(w) ==
    /\ fate' = w.fate
    /\ IF w.fate = "ok"
       THEN /\ obj' = w.obj /\ live' = w.live /\ mem' = w.mem
            /\ heap' = w.heap /\ lost' = w.lost
       ELSE UNCHANGED <<obj, live, mem, heap, lost>>

Reads(s, w) == Becomes(IF IsDangling(Now, s) THEN Fault(Now, "use_after_free")
                                             ELSE w)

Absent(s) == fate = "ok" /\ s \notin live
Alive(s)  == fate = "ok" /\ s \in live

Born(s) == [Now EXCEPT !.live = @ \cup {s}]

(* What CopyReset allows the clients.  A Reset object has nothing but its  *)
(* own characters, and says that they are not its own.                     *)
MayCopy(u) == IsLocal(Now, u) /\ ~obj[u].own => CopyReset

ConstructDefault(s) == Absent(s) /\ Becomes(Default(Born(s), s))

ConstructChars(s, c, ref) ==
    Absent(s) /\ Becomes(FromChars(Born(s), s, c, 0, ref))

ConstructBytes(s, c) ==
    Absent(s) /\ Becomes(Construct(Born(s), s, CallerText[c]))

CopyConstruct(s, u) ==
    Absent(s) /\ Alive(u) /\ MayCopy(u) /\ Reads(u, CopyInto(Born(s), s, u))

MoveConstruct(s, u) ==
    Absent(s) /\ Alive(u) /\ Becomes(MoveInto(Born(s), s, u))

Destroy(s) ==
    /\ Alive(s)
    /\ Becomes([Destructed(Now, s) EXCEPT !.live = @ \ {s}, !.mem[s] = <<Nul>>,
                                          !.obj[s] = MovedFrom])

CopyAssign(s, u) ==
    /\ Alive(s) /\ Alive(u)
    /\ MayCopy(u)
    /\ Becomes(CopyAssigned(Now, s, u))

MoveAssign(s, u) == Alive(s) /\ Alive(u) /\ Becomes(MoveAssigned(Now, s, u))

Trim(s) == Alive(s) /\ Reads(s, Trimmed(Now, s))

StripLeading(s) == Alive(s) /\ Reads(s, LeadingStripped(Now, s))

StripTrailing(s) == Alive(s) /\ Reads(s, TrailingStripped(Now, s))

Strip(s) ==
    /\ Alive(s)
    /\ LET w == LeadingStripped(Now, s)
       IN  Reads(s, IF w.fate = "ok" THEN TrailingStripped(w, s) ELSE w)

Reset(s) == Alive(s) /\ Becomes(ResetDone(Now, s))

StaticTrim(s, u) ==
    /\ Absent(s) /\ Alive(u)
    /\ Reads(u, Construct(Born(s), s, StaticTrimText(Text(Now, u))))

StaticStrip(s, u) ==
    /\ Absent(s) /\ Alive(u)
    /\ Reads(u, Construct(Born(s), s, StaticStripText(Text(Now, u))))

StaticStripLeading(s, u) ==
    /\ Absent(s) /\ Alive(u)
    /\ Reads(u, Construct(Born(s), s, StaticStripLeadingText(Text(Now, u))))

StaticStripTrailing(s, u) ==
    /\ Absent(s) /\ Alive(u)
    /\ Reads(u, Construct(Born(s), s, StaticStripTrailingText(Text(Now, u))))

(* The behaviour has ended.                                                *)
Ended == fate # "ok" /\ UNCHANGED vars

Next ==
    \/ \E s \in Strings :
          \/ ConstructDefault(s) \/ Destroy(s) \/ Reset(s)
          \/ Trim(s) \/ Strip(s) \/ StripLeading(s) \/ StripTrailing(s)
    \/ \E s \in Strings, c \in Callers :
          \/ ConstructBytes(s, c)
          \/ \E ref \in BOOLEAN : ConstructChars(s, c, ref)
    \/ \E s, u \in Strings :
          \/ CopyConstruct(s, u) \/ MoveConstruct(s, u)
          \/ CopyAssign(s, u) \/ MoveAssign(s, u)
          \/ StaticTrim(s, u) \/ StaticStrip(s, u)
          \/ StaticStripLeading(s, u) \/ StaticStripTrailing(s, u)
    \/ Ended

Spec == Init /\ [][Next]_vars
=============================================================================
