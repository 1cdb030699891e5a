-------------------------- MODULE ThreadInvariant ---------------------------
(***************************************************************************)
(* The inductive invariant behind the safety properties of Thread.         *)
(***************************************************************************)
EXTENDS ThreadProperties

(* What the type invariant needs to be inductive.  A client that waits for *)
(* a pthread, or may be about to, has one to wait for; a client inside a   *)
(* move assignment has the source of it to itself.                         *)
WaitsForPThread ==
    \A t \in Threads :
        /\ obj[t].state = "kRunning" => obj[t].tid \in Tids
        /\ pc[t] = "spin" => obj[t].tid \in Tids
        /\ pc[t] \in Waiting => obj[t].state = "kRunning"

SourceIsLent ==
    \A t \in Threads : pc[t] = "assigning" =>
        /\ src[t] \in Threads \ {t}
        /\ pc[src[t]] = "lent"
        /\ \A u \in Threads : pc[u] = "assigning" /\ src[u] = src[t] => u = t

TypeInv == Typed /\ WaitsForPThread /\ SourceIsLent

(* Before its store a pthread has the frame of the Start that created it,  *)
(* and that Start has not seen running.                                    *)
FrameInv ==
    \A p \in Tids : pthread[p].at \in Handshake =>
        FrameExists(p) /\ ~arg[pthread[p].frame].running

(* A runnable and the flag that says whether to delete it travel together  *)
(* from the object through the frame of Start to the pthread.              *)
Flagged(r, own) == r \in Runnables /\ (own <=> r \in Owned)

FlagInv ==
    /\ \A t \in Threads : Held(t) # Null => Flagged(Held(t), obj[t].owned)
    /\ \A p \in Tids :
         /\ pthread[p].at = "created" =>
              LET a == arg[pthread[p].frame]
              IN  a.runnable # Null => Flagged(a.runnable, a.owned)
         /\ pthread[p].at \in Pending /\ pthread[p].runnable # Null =>
              Flagged(pthread[p].runnable, pthread[p].owned)

(* An owned runnable is held or taken by at most one party, and one that   *)
(* is held or taken has been allocated and not deleted.                    *)
CustodyInv ==
    /\ \A t \in Threads : Held(t) \in Owned => Held(t) \in built \ deleted
    /\ \A p \in Tids : Taken(p) \in Owned => Taken(p) \in built \ deleted
    /\ \A t, u \in Threads : Held(t) \in Owned /\ Held(t) = Held(u) => t = u
    /\ \A p, q \in Tids : Taken(p) \in Owned /\ Taken(p) = Taken(q) => p = q
    /\ \A t \in Threads, p \in Tids : Held(t) \in Owned => Held(t) # Taken(p)

(* What the clients keep to, unless there is no shared runnable at all: no *)
(* thread over one is dropped unstarted, and pthread_create does not fail. *)
Contract == Shared = {} \/ (MustStart /\ ~SpawnFailures)

SafetyInv ==
    /\ TypeInv /\ FrameInv /\ FlagInv /\ CustodyInv
    /\ SharedNeverDeleted
    /\ OnlyNullRun

(* A pthread has a runnable to run, if only objects that hold one are      *)
(* started.                                                                *)
HasRunnableInv ==
    \A p \in Tids :
        pthread[p].at = "created" \/ pthread[p].at \in Pending => Taken(p) # Null

(* An object that runs has given its runnable up.                          *)
GivenUpInv ==
    \A t \in Threads :
        obj[t].state = "kRunning" /\ pc[t] # "spin" => obj[t].runner = Null

(* No allocated runnable is left without a holder, but by a cancellation   *)
(* that does not unwind.                                                   *)
CancelledWith(p, r) ==
    p \in cancelled /\ pthread[p].runnable = r /\ pthread[p].at = "exited"

KeptInv ==
    \A r \in built \ deleted :
        \/ \E t \in Threads : Held(t) = r
        \/ \E p \in Tids : Taken(p) = r
        \/ ~Unwinds /\ \E p \in Tids : CancelledWith(p, r)

(* pthread_join returns for pthreads that have exited.                     *)
JoinedInv == \A p \in joined : pthread[p].at = "exited"

(* Nobody joins a pthread twice: at most one object is going to join it,   *)
(* and none once it is joined.  A client that starts an object is not      *)
(* still to join the thread it started last.                               *)
AwaitInv ==
    /\ \A t \in Threads : pc[t] = "spin" => obj[t].state # "kRunning"
    /\ \A p \in Tids : pthread[p].at = "unused" \/ p \in joined =>
           \A t \in Threads : ~Awaits(t, p)
    /\ \A t, u \in Threads, p \in Tids : Awaits(t, p) /\ Awaits(u, p) => t = u

(* And somebody is going to, until it is joined.                           *)
AwaitedInv ==
    \A p \in Tids : pthread[p].at # "unused" /\ p \notin joined =>
        \E t \in Threads : Awaits(t, p)

(* An object that says kDone or kCanceled has seen its thread exit.        *)
DoneInv ==
    \A t \in Threads :
        pc[t] # "none" /\ obj[t].state \in {"kDone", "kCanceled"} =>
            \/ pc[t] = "spin" \/ obj[t].tid = Null
            \/ obj[t].tid \in joined /\ pthread[obj[t].tid].at = "exited"

(* The runnable p was given, if it has ended too.                          *)
Given(p) ==
    CASE pthread[p].at = "created"              -> arg[pthread[p].frame].runnable
      [] pthread[p].at \in Pending \cup {"exited"} -> pthread[p].runnable
      [] OTHER                                  -> Null

(* No owned runnable is given to two pthreads, one after the other either, *)
(* or kept by an object after it was given away; and a pthread that has    *)
(* exited has deleted it, where the platform unwinds.                      *)
GivenInv ==
    /\ \A p \in Tids : Given(p) \in Owned => Given(p) \in built
    /\ \A p, q \in Tids : Given(p) \in Owned /\ Given(p) = Given(q) => p = q
    /\ \A t \in Threads, p \in Tids : Held(t) \in Owned => Held(t) # Given(p)
    /\ \A p \in Tids :
           pthread[p].at = "exited" /\ pthread[p].runnable \in Owned =>
               pthread[p].runnable \in deleted \/ ~Unwinds
=============================================================================
