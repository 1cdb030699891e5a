---------------------------- MODULE RunnableLife ----------------------------
(***************************************************************************)
(* What java.lang.Thread of jaclks promises about a runnable it OWNS       *)
(* (thread.h, the constructors from a Runnable * and from a callable):     *)
(* it is run at most once, it is destroyed at most once and never before   *)
(* its Run is over, and when Join, Cancel or the destructor has waited for *)
(* its thread, the runnable is over and has been destroyed.                *)
(*                                                                         *)
(* Nothing is said here of thread objects, of pthreads or of who holds a   *)
(* pointer to what: module Thread shows that all of that implements this.  *)
(***************************************************************************)
CONSTANTS
    Runnables,  \* the owned runnables
    MayLeak     \* the platform may end a cancelled thread without unwinding

VARIABLES
    phase,      \* "absent", "held" (waiting to be run), "running" or "over"
    destroyed,  \* the runnables whose destructor has run
    awaited     \* the runnables whose thread somebody has waited for

lvars == <<phase, destroyed, awaited>>

Phases == {"absent", "held", "running", "over"}

LifeTypeOK ==
    /\ phase \in [Runnables -> Phases]
    /\ destroyed \subseteq Runnables
    /\ awaited \subseteq Runnables

Init ==
    /\ phase = [r \in Runnables |-> "absent"]
    /\ destroyed = {}
    /\ awaited = {}

(* The runnable is given to a new thread object.                           *)
Submit(r) ==
    /\ phase[r] = "absent"
    /\ phase' = [phase EXCEPT ![r] = "held"]
    /\ UNCHANGED <<destroyed, awaited>>

(* Its thread enters Run.                                                  *)
Begin(r) ==
    /\ phase[r] = "held"
    /\ phase' = [phase EXCEPT ![r] = "running"]
    /\ UNCHANGED <<destroyed, awaited>>

(* It is dropped without having been run: never started, or start failed.  *)
Drop(r) ==
    /\ phase[r] = "held"
    /\ phase' = [phase EXCEPT ![r] = "over"]
    /\ destroyed' = destroyed \cup {r}
    /\ UNCHANGED awaited

(* Run returns, throws or is cancelled.                                    *)
End(r) ==
    /\ phase[r] = "running"
    /\ phase' = [phase EXCEPT ![r] = "over"]
    /\ UNCHANGED <<destroyed, awaited>>

(* Its thread destroys it, once its Run is over.                           *)
Destroy(r) ==
    /\ phase[r] = "over"
    /\ r \notin destroyed
    /\ destroyed' = destroyed \cup {r}
    /\ UNCHANGED <<phase, awaited>>

(* Somebody has waited for the end of its thread.                          *)
Await(r) ==
    /\ phase[r] = "over"
    /\ r \in destroyed \/ MayLeak
    /\ awaited' = awaited \cup {r}
    /\ UNCHANGED <<phase, destroyed>>

Next ==
    \E r \in Runnables :
        Submit(r) \/ Begin(r) \/ Drop(r) \/ End(r) \/ Destroy(r) \/ Await(r)

Spec == Init /\ [][Next]_lvars
=============================================================================
