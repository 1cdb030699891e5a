------------------------------- MODULE Thread -------------------------------
(***************************************************************************)
(* jaclks::javac_base::Thread: thread.h and thread.cc, the POSIX build.    *)
(*                                                                         *)
(* Three kinds of actors share this state.                                 *)
(*   - A client of every thread object calls its constructors, Start,      *)
(*     Join, Cancel, its moves and its destructor.  A call that blocks is  *)
(*     split where it blocks: pc[t] says where the client is.  The class   *)
(*     synchronises nothing, so an object has one client at a time, and    *)
(*     the clients of different objects interleave freely.                 *)
(*   - Every pthread executes thread_call, step by step.                   *)
(*   - pthreads themselves (create, cancel, join) are the environment.     *)
(*                                                                         *)
(* Undefined behaviour ends a behaviour: fate says of what.                *)
(*                                                                         *)
(* An operator whose name ends in _Faulty... is a mistake one could make   *)
(* in the operator that follows it.  Nothing uses it: substituted for that *)
(* operator it has to break a property (README, "Sensitivity").            *)
(***************************************************************************)
EXTENDS Naturals, FiniteSets

CONSTANTS
    Threads,        \* storage for Thread objects
    Owned,          \* runnables a Thread is to own: given as a Runnable *
    Shared,         \* runnables it is not to own: given as a const Runnable *
    Looping,        \* the runnables whose Run does not return by itself
    Interruptible,  \* the runnables whose Run reaches cancellation points
    Tids,           \* the pthreads that can be created (a bound)
    Null            \* the null pointer, the zero thread id

CONSTANTS           \* what the clients and the platform may do
    Restart,        \* a client may Start an object that has no runnable left
    MustStart,      \* a client starts every Thread over a shared runnable
    SpawnFailures,  \* pthread_create may fail
    CancelFailures, \* pthread_cancel may fail for a thread that has exited
    Unwinds         \* a cancelled pthread unwinds its stack (Linux: yes)

Runnables == Owned \cup Shared

ASSUME RunnablesAssumption ==
    /\ Owned \cap Shared = {}
    /\ Looping \subseteq Runnables
    /\ Interruptible \subseteq Runnables

ASSUME NullAssumption ==
    /\ Null \notin Threads
    /\ Null \notin Runnables
    /\ Null \notin Tids
    /\ Threads \cap Tids = {}

ASSUME FlagsAssumption ==
    /\ Restart \in BOOLEAN
    /\ MustStart \in BOOLEAN
    /\ SpawnFailures \in BOOLEAN
    /\ CancelFailures \in BOOLEAN
    /\ Unwinds \in BOOLEAN

VARIABLES
    obj,        \* the fields of every Thread object
    pc,         \* where the client of every object is
    src,        \* the source of a move assignment that is under way
    arg,        \* the RunnableArg in the frame of every Start under way
    pthread,    \* what every pthread knows and where in thread_call it is
    cancelled,  \* the pthreads pthread_cancel was called for
    joined,     \* the pthreads pthread_join has returned for
    built,      \* the owned runnables that have been allocated
    deleted,    \* the runnables delete was called on
    fate        \* "ok", "terminated", or the undefined behaviour met

clientVars == <<obj, pc, src>>
osVars     == <<pthread, cancelled, joined>>
heapVars   == <<built, deleted, fate>>

vars == <<clientVars, arg, osVars, heapVars>>

-----------------------------------------------------------------------------
(* The values of the variables.                                            *)

States == {"kInit", "kRunning", "kFailed", "kCanceled", "kDone"}

ThreadFields ==
    [state : States, tid : Tids \cup {Null},
     runner : Runnables \cup {Null}, owned : BOOLEAN]

(* none: the storage holds no object.  idle: no call is under way.         *)
(* spin: Start waits for arg.running.  cancelling, joining, destroying,    *)
(* assigning: pthread_join blocks inside Cancel, Join, ~Thread, operator=. *)
(* lent: the object is the source of a move assignment that blocks.        *)
Waiting == {"cancelling", "joining", "destroying", "assigning"}
Places  == {"none", "idle", "spin", "lent"} \cup Waiting

RunnableArg ==
    [runnable : Runnables \cup {Null}, owned : BOOLEAN, running : BOOLEAN]

(* created: thread_call has not read its argument.  bound: it has, line 76 *)
(* is done.  ready: running is stored.  running: in Run.  returned: Run is *)
(* over and defer is not destroyed.  exited: thread_call has returned.     *)
Stages    == {"unused", "created", "bound", "ready", "running", "returned",
              "exited"}
Handshake == {"created", "bound"}
Pending   == {"bound", "ready", "running", "returned"}

PThread ==
    [at : Stages, frame : Threads \cup {Null},
     runnable : Runnables \cup {Null}, owned : BOOLEAN]

Undefined == {"dangling_arg", "null_run", "use_after_free", "double_delete"}
Fates     == {"ok", "terminated"} \cup Undefined

Typed ==
    /\ obj \in [Threads -> ThreadFields]
    /\ pc \in [Threads -> Places]
    /\ src \in [Threads -> Threads \cup {Null}]
    /\ arg \in [Threads -> RunnableArg]
    /\ pthread \in [Tids -> PThread]
    /\ cancelled \subseteq Tids
    /\ joined \subseteq Tids
    /\ built \subseteq Owned
    /\ deleted \subseteq Runnables
    /\ fate \in Fates

(* The types; and thread_ is a pthread in every object that runs or is     *)
(* waited for: Cancel (thread.cc:236, 240) and Join (thread.cc:259) never  *)
(* call pthread_cancel or pthread_join with an id that was never set.      *)
TypeOK ==
    /\ Typed
    /\ \A t \in Threads :
         obj[t].state = "kRunning" \/ pc[t] \in Waiting => obj[t].tid \in Tids

(* The fields a move leaves behind; also stands for the fields of storage  *)
(* that holds no object.                                                   *)
MovedFrom == [state |-> "kDone", tid |-> Null, runner |-> Null, owned |-> FALSE]

NoFrame == [runnable |-> Null, owned |-> FALSE, running |-> FALSE]

Init ==
    /\ obj = [t \in Threads |-> MovedFrom]
    /\ pc = [t \in Threads |-> "none"]
    /\ src = [t \in Threads |-> Null]
    /\ arg = [t \in Threads |-> NoFrame]
    /\ pthread = [p \in Tids |-> [at |-> "unused", frame |-> Null,
                                  runnable |-> Null, owned |-> FALSE]]
    /\ cancelled = {}
    /\ joined = {}
    /\ built = {}
    /\ deleted = {}
    /\ fate = "ok"

-----------------------------------------------------------------------------
(* Helpers of the actions.                                                 *)

Idle(t) == fate = "ok" /\ pc[t] = "idle"

At(p, stage) == fate = "ok" /\ pthread[p].at = stage

(* delete on every runnable of a set.                                      *)
Delete(R) ==
    /\ deleted' = deleted \cup R
    /\ fate' = IF R \cap deleted = {} THEN "ok" ELSE "double_delete"

(* RunnerDeleter: defer deletes the runnable if the thread owns it.        *)
RunnerDeleter_FaultyForgets(p) == {}

RunnerDeleter_FaultyAlways(p) == {pthread[p].runnable} \ {Null}

RunnerDeleter(p) ==
    IF pthread[p].owned THEN {pthread[p].runnable} \ {Null} ELSE {}

(* Join, and Start when pthread_create fails, delete runner_; neither      *)
(* looks at owned_.                                                        *)
DeletesRunner_FaultyNothing(t) == {}

DeletesRunner(t) == {obj[t].runner} \ {Null}

(* The frame of Start that a pthread was given exists until Start returns. *)
FrameExists(p) ==
    LET t == pthread[p].frame
    IN  t # Null /\ pc[t] = "spin" /\ obj[t].tid = p

(* The condition that ends the loop of Start: arg.running.load().          *)
RunningSeen_FaultyNoLoop(t) == TRUE

RunningSeen(t) == arg[t].running

(* What Start gives the new thread.                                        *)
StartArg_FaultyOwned(t) ==
    [runnable |-> obj[t].runner, owned |-> TRUE, running |-> FALSE]

StartArg(t) ==
    [runnable |-> obj[t].runner, owned |-> obj[t].owned, running |-> FALSE]

(* The fields of t when Start returns: runner_ is given up on both paths.  *)
AfterStart_FaultyKeepsRunner(t, state) == [obj[t] EXCEPT !.state = state]

AfterStart(t, state) == [obj[t] EXCEPT !.state = state, !.runner = Null]

(* Contracts of the clients, switched by the constants.                    *)
MayStart(t)   == obj[t].runner # Null \/ Restart
MayDiscard(t) == MustStart => obj[t].runner \notin Shared

-----------------------------------------------------------------------------
(* The operations of a thread object.                                      *)

(* The constructors from a Runnable *, a const Runnable * and a callable.  *)
Construct(t, r) ==
    /\ fate = "ok"
    /\ pc[t] = "none"
    /\ r \notin built \cup deleted
    /\ obj' = [obj EXCEPT ![t] = [state |-> "kInit", tid |-> Null,
                                  runner |-> r, owned |-> r \in Owned]]
    /\ pc' = [pc EXCEPT ![t] = "idle"]
    /\ built' = built \cup ({r} \cap Owned)
    /\ UNCHANGED <<src, arg, osVars, deleted, fate>>

(* Start, up to its loop: pthread_create has succeeded.                    *)
Start(t) ==
    /\ Idle(t)
    /\ MayStart(t)
    /\ \E p \in Tids :
        /\ pthread[p].at = "unused"
        /\ pthread' = [pthread EXCEPT ![p] =
                          [@ EXCEPT !.at = "created", !.frame = t]]
        /\ obj' = [obj EXCEPT ![t].tid = p]
    /\ arg' = [arg EXCEPT ![t] = StartArg(t)]
    /\ pc' = [pc EXCEPT ![t] = "spin"]
    /\ UNCHANGED <<src, cancelled, joined, heapVars>>

(* Start when pthread_create fails.                                        *)
StartFails(t) ==
    /\ Idle(t)
    /\ SpawnFailures
    /\ MayStart(t)
    /\ MayDiscard(t)
    /\ Delete(DeletesRunner(t))
    /\ obj' = [obj EXCEPT ![t] = AfterStart(t, "kFailed")]
    /\ UNCHANGED <<pc, src, arg, osVars, built>>

(* Start leaves its loop and returns; its frame is gone.                   *)
StartReturns(t) ==
    /\ fate = "ok"
    /\ pc[t] = "spin"
    /\ RunningSeen(t)
    /\ obj' = [obj EXCEPT ![t] = AfterStart(t, "kRunning")]
    /\ arg' = [arg EXCEPT ![t] = NoFrame]
    /\ pc' = [pc EXCEPT ![t] = "idle"]
    /\ UNCHANGED <<src, osVars, heapVars>>

(* The two branches of Join, which is also the body of ~Thread: wait for a *)
(* running thread, or drop the runnable that is still held.                *)
Waits(t) == obj[t].state = "kRunning" /\ UNCHANGED <<obj, deleted, fate>>

Drops(t) ==
    /\ obj[t].state # "kRunning"
    /\ MayDiscard(t)
    /\ Delete(DeletesRunner(t))

(* pthread_join returns to the client that called it at the given place.   *)
PThreadJoin_FaultyDetaches(t, place) ==
    /\ fate = "ok" /\ pc[t] = place
    /\ joined' = joined \cup {obj[t].tid}
    /\ UNCHANGED <<arg, pthread, cancelled, heapVars>>

PThreadJoin(t, place) ==
    /\ fate = "ok" /\ pc[t] = place
    /\ pthread[obj[t].tid].at = "exited"
    /\ joined' = joined \cup {obj[t].tid}
    /\ UNCHANGED <<arg, pthread, cancelled, heapVars>>

Join(t) ==
    /\ Idle(t)
    /\ \/ Waits(t) /\ pc' = [pc EXCEPT ![t] = "joining"]
       \/ Drops(t) /\ obj' = [obj EXCEPT ![t].runner = Null] /\ UNCHANGED pc
    /\ UNCHANGED <<src, arg, osVars, built>>

JoinReturns(t) ==
    /\ PThreadJoin(t, "joining")
    /\ obj' = [obj EXCEPT ![t].state = "kDone"]
    /\ pc' = [pc EXCEPT ![t] = "idle"]
    /\ UNCHANGED src

(* Cancel: ESRCH for a thread that is not running; kFailed, and no join,   *)
(* when pthread_cancel fails; else it waits in pthread_join.               *)
Cancel_FaultyNoJoin(t) ==
    /\ Idle(t) /\ obj[t].state = "kRunning"
    /\ cancelled' = cancelled \cup {obj[t].tid}
    /\ obj' = [obj EXCEPT ![t].state = "kCanceled"]
    /\ UNCHANGED <<pc, src, arg, pthread, joined, heapVars>>

Cancel(t) ==
    /\ Idle(t)
    /\ \/ obj[t].state # "kRunning" /\ UNCHANGED <<obj, pc, cancelled>>
       \/ /\ obj[t].state = "kRunning"
          /\ CancelFailures /\ pthread[obj[t].tid].at = "exited"
          /\ obj' = [obj EXCEPT ![t].state = "kFailed"]
          /\ UNCHANGED <<pc, cancelled>>
       \/ /\ obj[t].state = "kRunning"
          /\ cancelled' = cancelled \cup {obj[t].tid}
          /\ pc' = [pc EXCEPT ![t] = "cancelling"]
          /\ UNCHANGED obj
    /\ UNCHANGED <<src, arg, pthread, joined, heapVars>>

CancelReturns(t) ==
    /\ PThreadJoin(t, "cancelling")
    /\ obj' = [obj EXCEPT ![t].state = "kCanceled"]
    /\ pc' = [pc EXCEPT ![t] = "idle"]
    /\ UNCHANGED src

(* ~Thread is Join; the object is gone when it returns.                    *)
Destroy(t) ==
    /\ Idle(t)
    /\ \/ Waits(t) /\ pc' = [pc EXCEPT ![t] = "destroying"]
       \/ /\ Drops(t)
          /\ obj' = [obj EXCEPT ![t] = MovedFrom]
          /\ pc' = [pc EXCEPT ![t] = "none"]
    /\ UNCHANGED <<src, arg, osVars, built>>

DestroyReturns(t) ==
    /\ PThreadJoin(t, "destroying")
    /\ obj' = [obj EXCEPT ![t] = MovedFrom]
    /\ pc' = [pc EXCEPT ![t] = "none"]
    /\ UNCHANGED src

(* The fields after the move constructor has run at t with source u.       *)
Moved_FaultyKeepsRunner(t, u) ==
    [obj EXCEPT ![t] = obj[u], ![u] = [MovedFrom EXCEPT !.runner = obj[u].runner]]

Moved_FaultyKeepsThread(t, u) ==
    [obj EXCEPT ![t] = obj[u], ![u] = [obj[u] EXCEPT !.runner = Null]]

Moved_FaultyForgetsThread(t, u) ==
    [obj EXCEPT ![t] = [obj[u] EXCEPT !.tid = obj[t].tid], ![u] = MovedFrom]

Moved(t, u) == [obj EXCEPT ![t] = obj[u], ![u] = MovedFrom]

(* The move constructor.                                                   *)
MoveConstruct(t, u) ==
    /\ Idle(u) /\ pc[t] = "none"
    /\ obj' = Moved(t, u)
    /\ pc' = [pc EXCEPT ![t] = "idle"]
    /\ UNCHANGED <<src, arg, osVars, heapVars>>

(* Move assignment: nothing for a self-assignment, else the destructor of  *)
(* t, which may block, and then the move constructor.                      *)
MoveAssign(t, u) ==
    /\ Idle(t) /\ Idle(u)
    /\ \/ t = u /\ UNCHANGED <<obj, pc, src, deleted, fate>>
       \/ /\ t # u /\ Waits(t)
          /\ pc' = [pc EXCEPT ![t] = "assigning", ![u] = "lent"]
          /\ src' = [src EXCEPT ![t] = u]
       \/ /\ t # u /\ Drops(t)
          /\ obj' = Moved(t, u)
          /\ UNCHANGED <<pc, src>>
    /\ UNCHANGED <<arg, osVars, built>>

AssignReturns(t) ==
    /\ PThreadJoin(t, "assigning")
    /\ obj' = Moved(t, src[t])
    /\ pc' = [pc EXCEPT ![t] = "idle", ![src[t]] = "idle"]
    /\ src' = [src EXCEPT ![t] = Null]

-----------------------------------------------------------------------------
(* thread_call.                                                            *)

(* It copies owned and runnable out of the frame of Start ...              *)
ReadArg_FaultySignalsFirst(p) ==
    /\ At(p, "created")
    /\ arg' = [arg EXCEPT ![pthread[p].frame].running = TRUE]
    /\ pthread' = [pthread EXCEPT ![p].at = "bound"]
    /\ UNCHANGED <<clientVars, cancelled, joined, heapVars>>

ReadArg(p) ==
    /\ At(p, "created")
    /\ IF FrameExists(p)
       THEN /\ LET a == arg[pthread[p].frame]
               IN  pthread' = [pthread EXCEPT ![p] =
                                 [@ EXCEPT !.at = "bound", !.owned = a.owned,
                                           !.runnable = a.runnable]]
            /\ UNCHANGED fate
       ELSE fate' = "dangling_arg" /\ UNCHANGED pthread
    /\ UNCHANGED <<clientVars, arg, cancelled, joined, built, deleted>>

(* ... and then lets Start go on; it does not look at the frame again.     *)
Signal_FaultyForgets(p) ==
    /\ At(p, "bound")
    /\ pthread' = [pthread EXCEPT ![p].at = "ready", ![p].frame = Null]
    /\ UNCHANGED <<clientVars, arg, cancelled, joined, heapVars>>

Signal(p) ==
    /\ At(p, "bound")
    /\ IF FrameExists(p)
       THEN /\ arg' = [arg EXCEPT ![pthread[p].frame].running = TRUE]
            /\ pthread' = [pthread EXCEPT ![p] =
                              [@ EXCEPT !.at = "ready", !.frame = Null]]
            /\ UNCHANGED fate
       ELSE fate' = "dangling_arg" /\ UNCHANGED <<arg, pthread>>
    /\ UNCHANGED <<clientVars, cancelled, joined, built, deleted>>

(* runner->Run() is entered.                                               *)
BeginRun(p) ==
    /\ At(p, "ready")
    /\ IF pthread[p].runnable \in Runnables \ deleted
       THEN pthread' = [pthread EXCEPT ![p].at = "running"] /\ UNCHANGED fate
       ELSE /\ fate' = IF pthread[p].runnable = Null THEN "null_run"
                                                     ELSE "use_after_free"
            /\ UNCHANGED pthread
    /\ UNCHANGED <<clientVars, arg, cancelled, joined, built, deleted>>

(* Run returns, or throws a std::exception, which is reported and dropped. *)
RunReturns(p) ==
    /\ At(p, "running")
    /\ pthread[p].runnable \notin Looping
    /\ pthread' = [pthread EXCEPT ![p].at = "returned"]
    /\ UNCHANGED <<clientVars, arg, cancelled, joined, heapVars>>

(* Run throws anything else: it leaves thread_call and ends the program.   *)
RunTerminates(p) ==
    /\ At(p, "running")
    /\ fate' = "terminated"
    /\ UNCHANGED <<clientVars, arg, osVars, built, deleted>>

(* The pending cancellation is acted upon in Run: with unwinding defer is  *)
(* still to be destroyed, without it the pthread is simply gone.           *)
RunCancelled(p) ==
    /\ At(p, "running")
    /\ p \in cancelled
    /\ pthread[p].runnable \in Interruptible
    /\ pthread' = [pthread EXCEPT
                       ![p].at = IF Unwinds THEN "returned" ELSE "exited"]
    /\ UNCHANGED <<clientVars, arg, cancelled, joined, heapVars>>

(* defer is destroyed and thread_call returns.                             *)
Exit(p) ==
    /\ At(p, "returned")
    /\ Delete(RunnerDeleter(p))
    /\ pthread' = [pthread EXCEPT ![p].at = "exited"]
    /\ UNCHANGED <<clientVars, arg, cancelled, joined, built>>

-----------------------------------------------------------------------------
(* The program goes on without us: it has ended, no object is left to call *)
(* on and no pthread to wait for, or a runnable loops.                     *)
Quiet ==
    /\ \/ fate # "ok"
       \/ \A t \in Threads : pc[t] = "none"
       \/ \E p \in Tids : /\ pthread[p].at = "running"
                          /\ pthread[p].runnable \in Looping
    /\ UNCHANGED vars

Call(t) ==
    \/ \E r \in Runnables : Construct(t, r)
    \/ Start(t) \/ StartFails(t) \/ Join(t) \/ Cancel(t) \/ Destroy(t)
    \/ \E u \in Threads : MoveConstruct(t, u) \/ MoveAssign(t, u)

Return(t) ==
    \/ StartReturns(t) \/ JoinReturns(t) \/ CancelReturns(t)
    \/ DestroyReturns(t) \/ AssignReturns(t)

Progress(p) ==
    \/ ReadArg(p) \/ Signal(p) \/ BeginRun(p) \/ RunReturns(p)
    \/ RunCancelled(p) \/ Exit(p)

Next ==
    \/ \E t \in Threads : Call(t) \/ Return(t)
    \/ \E p \in Tids : Progress(p) \/ RunTerminates(p)
    \/ Quiet

Spec == Init /\ [][Next]_vars

(* The scheduler runs every pthread, and every client that is inside a     *)
(* call; no client has to make a call.                                     *)
Fairness ==
    /\ \A t \in Threads : WF_vars(Return(t))
    /\ \A p \in Tids : WF_vars(Progress(p))

FairSpec == Spec /\ Fairness
=============================================================================
