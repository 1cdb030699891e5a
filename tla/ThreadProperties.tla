-------------------------- MODULE ThreadProperties --------------------------
(***************************************************************************)
(* What thread.h and thread.cc must get right, over module Thread.         *)
(***************************************************************************)
EXTENDS Thread

(* No step of a client or of a thread meets undefined behaviour: no        *)
(* dangling RunnableArg, no null or deleted runnable is run, nothing is    *)
(* deleted twice (thread.cc:70-113, 201-211, 264-267).                     *)
MemorySafe == fate \notin Undefined

(* The only undefined behaviour is running the null runnable of an object  *)
(* that had none left when it was started: Start has no guard on state_    *)
(* (thread.cc:191-198), and thread_call none on runner (line 113).         *)
OnlyNullRun == fate \in Undefined => fate = "null_run"

(* The RunnableArg on the stack of Start is there as long as thread_call   *)
(* has a use for it, whoever is scheduled first and whatever becomes of    *)
(* the object between two calls (thread.cc:192-207 against 74-78).         *)
ArgOutlivesHandshake ==
    \A p \in Tids : pthread[p].at \in Handshake => FrameExists(p)

(* The runnable pthread p has been given.                                  *)
Taken(p) ==
    CASE pthread[p].at = "created" -> arg[pthread[p].frame].runnable
      [] pthread[p].at \in Pending -> pthread[p].runnable
      [] OTHER                     -> Null

(* No runnable is deleted between the pthread_create that hands it over    *)
(* and the end of its Run: not by Join, by a move, by a destructor or by   *)
(* another thread over the same runnable (thread.cc:201-211, 264-267).     *)
RunnableOutlivesRun == \A p \in Tids : Taken(p) \notin deleted

(* The runnable object t is to delete or to pass on.  Inside Start runner_ *)
(* points to a runnable that belongs to the new pthread already.           *)
Held(t) == IF pc[t] \in {"none", "spin"} THEN Null ELSE obj[t].runner

Holders(r) == {t \in Threads : Held(t) = r} \cup {p \in Tids : Taken(p) = r}

(* Every owned runnable that is allocated and not deleted has exactly one  *)
(* holder, and a deleted one has none: none leaks, none is deleted twice,  *)
(* through every sequence of starts, moves, cancellations and destructors. *)
SoleHolder ==
    \A r \in Owned :
        IF r \in built \ deleted THEN \E h \in Threads \cup Tids : Holders(r) = {h}
                                 ELSE Holders(r) = {}

(* On a platform that does not unwind, the only runnables that are lost    *)
(* are those of cancelled threads (the @note of Cancel, thread.h:100-101). *)
LostOnlyByCancel ==
    \A r \in Owned :
        /\ \A g, h \in Holders(r) : g = h
        /\ r \in deleted => Holders(r) = {}
        /\ r \in built \ deleted /\ Holders(r) = {} =>
             \E p \in cancelled : pthread[p].runnable = r /\ pthread[p].at = "exited"

(* t has pthread p to wait for.                                            *)
Awaits(t, p) ==
    /\ obj[t].tid = p
    /\ pc[t] = "spin" \/ (pc[t] # "none" /\ obj[t].state = "kRunning")

(* Every pthread that was created and not joined has exactly one object    *)
(* that is going to join it, and a joined one has none: pthread_join is    *)
(* called once for every pthread, whatever was moved or cancelled          *)
(* meanwhile (thread.cc:144-165, 236-242, 248-263).                        *)
JoinedOnce ==
    \A p \in Tids :
        IF pthread[p].at = "unused" \/ p \in joined
        THEN \A t \in Threads : ~Awaits(t, p)
        ELSE \E t \in Threads : \A u \in Threads : Awaits(u, p) <=> u = t

(* An object that says kDone or kCanceled has no thread that still runs,   *)
(* and one that says kRunning has a thread past the handshake that nobody  *)
(* has joined (thread.cc:208, 241, 261, 149-152).                          *)
StateReflectsThread ==
    \A t \in Threads : pc[t] # "none" =>
        /\ obj[t].state \in {"kDone", "kCanceled"} =>
             \/ pc[t] = "spin" \/ obj[t].tid = Null
             \/ obj[t].tid \in joined /\ pthread[obj[t].tid].at = "exited"
        /\ obj[t].state = "kRunning" =>
             /\ obj[t].tid \in Tids \ joined
             /\ pthread[obj[t].tid].at \notin {"unused"} \cup Handshake

(* A runnable a Thread does not own is never deleted by it: thread_test.cc *)
(* UnownRunnable, line 268.                                                *)
SharedNeverDeleted == deleted \cap Shared = {}

-----------------------------------------------------------------------------
(* Liveness.                                                               *)

Stopped == fate # "ok"

(* Start returns: the loop at thread.cc:205 ends.                          *)
StartCompletes == \A t \in Threads : pc[t] = "spin" ~> pc[t] # "spin" \/ Stopped

(* Cancel returns, for a runnable that never returns by itself too, if its *)
(* Run reaches cancellation points (thread.cc:236-242).                    *)
CancelCompletes ==
    \A t \in Threads : \A p \in Tids :
        pc[t] = "cancelling" /\ obj[t].tid = p
            /\ (pthread[p].runnable \in Interruptible \/ pthread[p].runnable \notin Looping)
            ~> pc[t] # "cancelling" \/ Stopped

(* Join, ~Thread and operator= return if Run returns (thread.cc:248-263).  *)
JoinCompletes ==
    \A t \in Threads : \A p \in Tids :
        pc[t] \in Waiting /\ obj[t].tid = p /\ pthread[p].runnable \notin Looping
            ~> pc[t] \notin Waiting \/ Stopped

(* Start, Cancel, Join, the destructor and move assignment return.         *)
CallsReturn == StartCompletes /\ CancelCompletes /\ JoinCompletes

(* A runnable handed to a pthread is deleted in the end, if Run returns,   *)
(* whether or not a client ever joins (thread.cc:110-113).                 *)
StartedIsReclaimed ==
    \A r \in Owned \ Looping :
        (\E p \in Tids : Taken(p) = r) ~> r \in deleted \/ Stopped

-----------------------------------------------------------------------------
(* An owned runnable seen through RunnableLife.                            *)

InRun(r)   == \E p \in Tids : pthread[p].at = "running" /\ pthread[p].runnable = r
Ran(r)     == \E p \in Tids : pthread[p].at \in {"returned", "exited"} /\ pthread[p].runnable = r

LifePhase(r) ==
    IF r \notin built THEN "absent"
    ELSE IF InRun(r) THEN "running"
    ELSE IF Ran(r) \/ r \in deleted THEN "over"
    ELSE "held"

Life == INSTANCE RunnableLife WITH
    Runnables <- Owned,
    MayLeak   <- ~Unwinds,
    phase     <- [r \in Owned |-> LifePhase(r)],
    destroyed <- deleted \cap Owned,
    awaited   <- {r \in Owned : \E p \in joined : pthread[p].runnable = r}

(* The code implements RunnableLife.                                       *)
LifeSpec == Life!Spec
=============================================================================
