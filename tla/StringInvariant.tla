--------------------------- MODULE StringInvariant ---------------------------
(***************************************************************************)
(* Why the storage of strings (StringStorage) has the properties of        *)
(* StringProperties: what is true of the buffers between two operations,   *)
(* and inside them, where some object may be between its destructor and    *)
(* its next constructor.  Everything is said of a World w and of the set A *)
(* of the objects whose fields mean something in it.                       *)
(***************************************************************************)
EXTENDS StringProperties

(* No client copies an object that was Reset.                              *)
Contract == ~CopyReset

Worlds ==
    [obj : [Objects -> Fields], live : SUBSET Strings,
     mem : [Buffers -> Seq(Chars)],
     heap : [Blocks -> {"unused", "allocated", "freed"}],
     lost : SUBSET Blocks,
     fate : {"ok", "bad_alloc", "null_read", "invalid_free"}]

(* What an object owns is in it or on the heap; what it does not own       *)
(* belongs to a caller, unless it is empty.  A head is the buffer's.       *)
Placed(o, s) ==
    /\ o.own => o.buf \in {s} \cup Blocks
    /\ ~o.own => o.buf \in {s, Null} \cup Callers
    /\ o.head # Null => o.own /\ o.buf = o.head
    /\ o.buf = Null => o.len = 0

(* The text of an object and its '\0' are inside its buffer.               *)
Ends(w, o) ==
    o.buf # Null =>
        /\ o.off + o.len + 1 <= Len(w.mem[o.buf])
        /\ w.mem[o.buf][o.off + o.len + 1] = Nul

Intact(w, s) ==
    /\ Placed(w.obj[s], s)
    /\ Ends(w, w.obj[s])
    /\ w.obj[s].buf \in Blocks => w.heap[w.obj[s].buf] = "allocated"
    /\ Len(w.mem[s]) <= LocalCapacity

(* No two objects have a buffer in common that is not a caller's.          *)
Separate(w, A) ==
    \A s, u \in A : w.obj[s].buf \in Blocks /\ w.obj[s].buf = w.obj[u].buf
                        => s = u

(* The head of an allocated block is known to an object or was lost.       *)
Accounted(w, A) ==
    \A b \in Blocks :
        /\ w.heap[b] = "allocated" /\ b \notin w.lost =>
              \E s \in A : w.obj[s].head = b
        /\ b \in w.lost => /\ w.heap[b] # "unused"
                           /\ \A s \in A : w.obj[s].head # b

(* The callers' characters are as they were.                               *)
CallersKept(w) == \A c \in Callers : w.mem[c] = Append(CallerText[c], Nul)

Sound(w, A) ==
    /\ w \in Worlds
    /\ \A s \in A : Intact(w, s)
    /\ Separate(w, A)
    /\ Accounted(w, A)
    /\ CallersKept(w)

(* An operation that ends the behaviour leaves the buffers as they were.   *)
StorageInv == Sound(Now, live)
=============================================================================
