---------------------------- MODULE StringValue ----------------------------
(***************************************************************************)
(* What jaclks::javac_base::String promises (string.h): an object is a     *)
(* value, a sequence of characters of its own.  Copying duplicates the     *)
(* value, moving takes it away from the source, trimming and stripping     *)
(* remove characters at the ends, and no operation on one object changes   *)
(* the value of another, except that a move empties its source.            *)
(*                                                                         *)
(* Nothing is said here of buffers, of references to a caller's characters *)
(* or of the heap: module StringStorage shows that they implement this.    *)
(***************************************************************************)
EXTENDS Integers, Sequences, FiniteSetsExt

CONSTANTS
    Strings,  \* storage for String objects
    Inputs,   \* the texts a string can be constructed from
    White,    \* the characters isspace() accepts
    Low,      \* the characters up to ' ' in the order of char
    Gone      \* stands for the value of storage without an object

VARIABLE value  \* the text of every object

Empty == <<>>

Init == value = [s \in Strings |-> Gone]

-----------------------------------------------------------------------------
(* The part of a text between its first and its last character that is not *)
(* in C, both included; the parts from the first and up to the last.       *)
Others(text, C) == {i \in 1..Len(text) : text[i] \notin C}

From(text, C) ==
    LET I == Others(text, C)
    IN  IF I = {} THEN Empty ELSE SubSeq(text, Min(I), Len(text))

UpTo(text, C) ==
    LET I == Others(text, C)
    IN  IF I = {} THEN Empty ELSE SubSeq(text, 1, Max(I))

Between(text, C) == UpTo(From(text, C), C)

-----------------------------------------------------------------------------
Exists(s) == value[s] # Gone

Gets(s, text) == value' = [value EXCEPT ![s] = text]

(* Constructors: from the caller's characters, a copy, and the results of  *)
(* the static functions of u.                                              *)
Construct(s) ==
    ~Exists(s) /\ \E text \in Inputs \cup {Empty} : Gets(s, text)

Derives(s, u, text) == ~Exists(s) /\ Exists(u) /\ Gets(s, text)

Copy(s, u)                == Derives(s, u, value[u])
StaticTrim(s, u)          == Derives(s, u, Between(value[u], Low))
StaticStrip(s, u)         == Derives(s, u, Between(value[u], White))
StaticStripLeading(s, u)  == Derives(s, u, From(value[u], White))
StaticStripTrailing(s, u) == Derives(s, u, UpTo(value[u], White))

(* Both moves; a move assignment of an object to itself does nothing.      *)
Move(s, u) ==
    /\ Exists(u)
    /\ value' = IF s = u THEN value
                ELSE [value EXCEPT ![s] = value[u], ![u] = Empty]

CopyAssign(s, u) == Exists(s) /\ Exists(u) /\ Gets(s, value[u])

(* The operations that change an object in place.                          *)
Trim(s)          == Exists(s) /\ Gets(s, Between(value[s], Low))
Strip(s)         == Exists(s) /\ Gets(s, Between(value[s], White))
StripLeading(s)  == Exists(s) /\ Gets(s, From(value[s], White))
StripTrailing(s) == Exists(s) /\ Gets(s, UpTo(value[s], White))
Reset(s)         == Exists(s) /\ Gets(s, Empty)

Destroy(s) == Exists(s) /\ Gets(s, Gone)

Next ==
    \/ \E s \in Strings :
          \/ Construct(s) \/ Destroy(s) \/ Reset(s)
          \/ Trim(s) \/ Strip(s) \/ StripLeading(s) \/ StripTrailing(s)
    \/ \E s, u \in Strings :
          \/ Copy(s, u) \/ Move(s, u) \/ CopyAssign(s, u)
          \/ StaticTrim(s, u) \/ StaticStrip(s, u)
          \/ StaticStripLeading(s, u) \/ StaticStripTrailing(s, u)

Spec == Init /\ [][Next]_value
=============================================================================
