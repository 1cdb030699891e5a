-------------------------- MODULE StringProperties --------------------------
(***************************************************************************)
(* What has to be true of the storage of strings (StringStorage), and that *)
(* it implements values (StringValue).                                     *)
(***************************************************************************)
EXTENDS StringStorage, FiniteSets

(* Of s, buf_ points into a block of the heap but no more at its start.    *)
HeadCut(s) == obj[s].own /\ obj[s].buf # s /\ obj[s].off # 0

ReadsFrom(s) ==
    StripLeading(s) \/ Strip(s) \/ \E u \in Strings : CopyAssign(u, s)

(* Two things can go wrong.  An object that was moved from has no buffer:  *)
(* StripLeading, Strip and a copy assignment from it read through a null   *)
(* pointer (string.cc 133, 148, 214, 232).  And Reset frees buf_ instead   *)
(* of the head of the block (string.cc 366), which is not what malloc      *)
(* returned once the start of the text was trimmed or stripped.  Nothing   *)
(* else, in whatever order the operations come, reads through a null       *)
(* pointer, uses or frees what was freed or never allocated, or takes a    *)
(* length below zero.                                                      *)
OnlyKnownFaults ==
    [][\/ fate' \in {"ok", "bad_alloc"}
       \/ fate' = "null_read" /\ \E s \in live : obj[s].buf = Null /\ ReadsFrom(s)
       \/ fate' = "invalid_free" /\ \E s \in live : HeadCut(s) /\ Reset(s)]_vars

Users(b) == {s \in live : obj[s].buf = b}
Heads(b) == {s \in live : obj[s].head = b}

(* A block of the heap is the buffer of at most one object, and a block    *)
(* that is not allocated of none: no copy or move shares owned characters  *)
(* (string.cc 114-135).                                                    *)
SoleUser ==
    \A b \in Blocks :
        /\ Cardinality(Users(b)) <= 1
        /\ Users(b) \cup Heads(b) # {} => heap[b] = "allocated"

(* An allocated block will be freed by the one object that knows its head, *)
(* unless a move, which does not take info_ along, left the head behind    *)
(* (string.cc 125-141).                                                    *)
LostOnlyByMove ==
    \A b \in Blocks : heap[b] = "allocated" =>
        IF b \in lost THEN Heads(b) = {}
        ELSE Cardinality(Heads(b)) = 1 /\ Users(b) = Heads(b)

(* Whatever was done to an object, its characters end with '\0' inside     *)
(* their buffer, so CStr() is a C string and the loop of StripLeading      *)
(* stops; and local_buf_ never overflows (string.cc 190-206, 214-242,      *)
(* 383-401).                                                               *)
Terminated ==
    \A s \in live :
        /\ obj[s].buf # Null =>
              LET at == obj[s].off + obj[s].len + 1
              IN  at <= Len(mem[obj[s].buf]) /\ mem[obj[s].buf][at] = Nul
        /\ Len(mem[s]) <= LocalCapacity

-----------------------------------------------------------------------------
(* The value of an object is the text between buf_ and buf_ + len_, and    *)
(* storage without an object has none.                                     *)
TextsOf(w) == [s \in Strings |-> IF s \in w.live THEN Text(w, s) ELSE Null]

Texts == TextsOf(Now)

ASSUME NullAssumption == Null \notin Seq(Chars)

(* What a client constructs strings from: characters with a length, and    *)
(* the C string that starts where they start.                              *)
CallerInputs ==
    {CallerText[c] : c \in Callers} \cup
    {Prefix(CallerText[c], Leading(CallerText[c], Chars \ {Nul})) : c \in Callers}

Value == INSTANCE StringValue WITH
    Inputs <- CallerInputs, Gone <- Null, value <- Texts

(* Strings are values, as long as no text has a '\0' inside: every         *)
(* operation changes the text of the object it is called on, of the source *)
(* of a move, and of no other (string.cc 84-160).                          *)
ValueSpec == Value!Spec

(* Two operations are not always what their names say, and nothing is said *)
(* of them where they are not: a copy assignment takes the text only up to *)
(* the first '\0' inside it (string.cc 148), and the static Trim of a text *)
(* with nothing to trim is the empty string (string.cc 31).                *)
HasNul(u) == \E i \in 1..Len(Texts[u]) : Texts[u][i] = Nul
Trims(u)  == Value!Between(Texts[u], Low) # Texts[u]

(* The operations on objects that exist, by what their names say of texts. *)
EditsAsPromised(s) ==
    /\ Trim(s)          => Value!Trim(s)
    /\ Strip(s)         => Value!Strip(s)
    /\ StripLeading(s)  => Value!StripLeading(s)
    /\ StripTrailing(s) => Value!StripTrailing(s)
    /\ Reset(s)         => Value!Reset(s)
    /\ \A u \in Strings :
          /\ CopyAssign(s, u) /\ ~HasNul(u) => Value!CopyAssign(s, u)
          /\ MoveAssign(s, u) => Value!Move(s, u)

(* The operations that make an object or end it.                           *)
MadeAsPromised(s) ==
    /\ Destroy(s) => Value!Destroy(s)
    /\ \A u \in Strings :
          /\ CopyConstruct(s, u)       => Value!Copy(s, u)
          /\ MoveConstruct(s, u)       => Value!Move(s, u)
          /\ StaticTrim(s, u) /\ Trims(u) => Value!StaticTrim(s, u)
          /\ StaticStrip(s, u)         => Value!StaticStrip(s, u)
          /\ StaticStripLeading(s, u)  => Value!StaticStripLeading(s, u)
          /\ StaticStripTrailing(s, u) => Value!StaticStripTrailing(s, u)

(* In-place and static functions agree with the definitions of trimming,   *)
(* stripping, copying and moving on texts, wherever the text is stored and *)
(* whatever was done to the object before (string.cc 20-82, 114-242), but  *)
(* for the two cases HasNul and Trims name.                                *)
EachAsPromised ==
    [][fate' = "ok" => \A s \in Strings :
          IF live' = live THEN EditsAsPromised(s) ELSE MadeAsPromised(s)]_vars
=============================================================================
