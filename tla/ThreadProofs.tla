---------------------------- MODULE ThreadProofs ----------------------------
(***************************************************************************)
(* Theorems about module Thread, for every value of its constants.         *)
(***************************************************************************)
EXTENDS ThreadInvariant, TLAPS

USE DEF vars, clientVars, osVars, heapVars

-----------------------------------------------------------------------------
(* Types.                                                                  *)

LEMMA TypeInit == Init => TypeInv
  BY RunnablesAssumption, NullAssumption
     DEF Init, TypeInv, Typed, WaitsForPThread, SourceIsLent, ThreadFields,
         States, MovedFrom, NoFrame, RunnableArg, PThread, Stages, Places,
         Waiting, Fates, Runnables

(* The runnables a client or a thread deletes are runnables.               *)
LEMMA DeletesTyped ==
    ASSUME Typed
    PROVE  /\ \A t \in Threads : DeletesRunner(t) \subseteq Runnables
           /\ \A p \in Tids : RunnerDeleter(p) \subseteq Runnables
  BY DEF Typed, ThreadFields, PThread, DeletesRunner, RunnerDeleter

LEMMA DeleteTyped ==
    ASSUME NEW R \in SUBSET Runnables, deleted \subseteq Runnables, Delete(R)
    PROVE  deleted' \subseteq Runnables /\ fate' \in Fates
  BY DEF Delete, Fates, Undefined

LEMMA TypeConstruct ==
    ASSUME TypeInv, NEW t \in Threads, NEW r \in Runnables, Construct(t, r)
    PROVE  TypeInv'
  <1> USE DEF Construct, TypeInv
  <1>1. Typed'
    BY DEF Typed, ThreadFields, States, Places, Runnables
  <1>2. WaitsForPThread'
    BY DEF Typed, WaitsForPThread, Places, Waiting, ThreadFields
  <1>3. SourceIsLent'
    BY DEF Typed, SourceIsLent, Places, Waiting
  <1> QED  BY <1>1, <1>2, <1>3

LEMMA TypeStart ==
    ASSUME TypeInv, NEW t \in Threads, Start(t)
    PROVE  TypeInv'
  <1>1. PICK p \in Tids :
          /\ pthread' = [pthread EXCEPT ![p] =
                             [@ EXCEPT !.at = "created", !.frame = t]]
          /\ obj' = [obj EXCEPT ![t].tid = p]
    BY DEF Start
  <1>2. Typed'
    <2>1. obj' \in [Threads -> ThreadFields]
      BY <1>1 DEF TypeInv, Typed, ThreadFields
    <2>2. pthread' \in [Tids -> PThread]
      BY ZenonT(60), <1>1 DEF TypeInv, Typed, PThread, Stages
    <2>3. arg' \in [Threads -> RunnableArg]
      BY DEF Start, TypeInv, Typed, StartArg, RunnableArg, ThreadFields
    <2> QED  BY <2>1, <2>2, <2>3 DEF Start, TypeInv, Typed, Places
  <1> USE DEF Start, Idle, TypeInv
  <1>3. WaitsForPThread'
    BY <1>1 DEF Typed, WaitsForPThread, Waiting, Places, ThreadFields
  <1>4. SourceIsLent'
    BY DEF Typed, SourceIsLent, Waiting, Places
  <1> QED  BY <1>2, <1>3, <1>4

LEMMA TypeStartFails ==
    ASSUME TypeInv, NEW t \in Threads, StartFails(t)
    PROVE  TypeInv'
  <1> USE DEF StartFails, Idle, AfterStart, TypeInv
  <1>1. Typed'
    <2>1. obj' \in [Threads -> ThreadFields]
      BY ZenonT(60) DEF Typed, ThreadFields, States
    <2>2. deleted' \subseteq Runnables /\ fate' \in Fates
      BY DeletesTyped, DeleteTyped DEF Typed
    <2> QED  BY <2>1, <2>2 DEF Typed
  <1>2. WaitsForPThread'
    BY DEF Typed, WaitsForPThread, Waiting, Places, ThreadFields, States
  <1>3. SourceIsLent'
    BY DEF Typed, SourceIsLent
  <1> QED  BY <1>1, <1>2, <1>3

LEMMA TypeStartReturns ==
    ASSUME TypeInv, NEW t \in Threads, StartReturns(t)
    PROVE  TypeInv'
  <1> USE DEF StartReturns, AfterStart, TypeInv
  <1>1. Typed'
    <2>1. obj' \in [Threads -> ThreadFields]
      BY ZenonT(60) DEF Typed, ThreadFields, States
    <2>2. arg' \in [Threads -> RunnableArg]
      BY DEF Typed, NoFrame, RunnableArg
    <2> QED  BY <2>1, <2>2 DEF Typed, Places
  <1>2. WaitsForPThread'
    BY DEF Typed, WaitsForPThread, Waiting, Places, ThreadFields, States
  <1>3. SourceIsLent'
    BY DEF Typed, SourceIsLent, Places, Waiting
  <1> QED  BY <1>1, <1>2, <1>3

LEMMA TypeJoin ==
    ASSUME TypeInv, NEW t \in Threads, Join(t)
    PROVE  TypeInv'
  <1> USE DEF Join, Idle, TypeInv
  <1>1. CASE Waits(t) /\ pc' = [pc EXCEPT ![t] = "joining"]
    <2>1. Typed'
      BY <1>1 DEF Typed, Waits, Places, Waiting
    <2>2. WaitsForPThread'
      BY <1>1 DEF Typed, WaitsForPThread, Waits, Waiting, Places
    <2>3. SourceIsLent'
      BY <1>1 DEF Typed, SourceIsLent, Waits, Waiting, Places
    <2> QED  BY <2>1, <2>2, <2>3
  <1>2. CASE Drops(t) /\ obj' = [obj EXCEPT ![t].runner = Null] /\ UNCHANGED pc
    <2>1. Typed'
      <3>1. obj' \in [Threads -> ThreadFields]
        BY SMTT(30), <1>2 DEF Typed, ThreadFields
      <3>2. deleted' \subseteq Runnables /\ fate' \in Fates
        BY <1>2, DeletesTyped, DeleteTyped DEF Typed, Drops
      <3> QED  BY <1>2, <3>1, <3>2 DEF Typed
    <2>2. WaitsForPThread'
      BY <1>2 DEF Typed, WaitsForPThread, ThreadFields
    <2>3. SourceIsLent'
      BY <1>2 DEF Typed, SourceIsLent
    <2> QED  BY <2>1, <2>2, <2>3
  <1> QED  BY <1>1, <1>2

LEMMA TypeCancel ==
    ASSUME TypeInv, NEW t \in Threads, Cancel(t)
    PROVE  TypeInv'
  <1> USE DEF Cancel, Idle, TypeInv
  <1>1. Typed'
    BY DEF Typed, WaitsForPThread, ThreadFields, States, Places, Waiting
  <1>2. WaitsForPThread'
    BY DEF Typed, WaitsForPThread, ThreadFields, States, Places, Waiting
  <1>3. SourceIsLent'
    BY DEF Typed, SourceIsLent, Places, Waiting
  <1> QED  BY <1>1, <1>2, <1>3

LEMMA TypeDestroy ==
    ASSUME TypeInv, NEW t \in Threads, Destroy(t)
    PROVE  TypeInv'
  <1> USE DEF Destroy, Idle, TypeInv
  <1>1. CASE Waits(t) /\ pc' = [pc EXCEPT ![t] = "destroying"]
    <2>1. Typed'
      BY <1>1 DEF Typed, Waits, Places, Waiting
    <2>2. WaitsForPThread'
      BY <1>1 DEF Typed, WaitsForPThread, Waits, Waiting, Places
    <2>3. SourceIsLent'
      BY <1>1 DEF Typed, SourceIsLent, Waits, Waiting, Places
    <2> QED  BY <2>1, <2>2, <2>3
  <1>2. CASE /\ Drops(t)
             /\ obj' = [obj EXCEPT ![t] = MovedFrom]
             /\ pc' = [pc EXCEPT ![t] = "none"]
    <2>1. Typed'
      <3>1. obj' \in [Threads -> ThreadFields]
        BY <1>2 DEF Typed, ThreadFields, MovedFrom, States
      <3>2. deleted' \subseteq Runnables /\ fate' \in Fates
        BY <1>2, DeletesTyped, DeleteTyped DEF Typed, Drops
      <3> QED  BY <1>2, <3>1, <3>2 DEF Typed, Places
    <2>2. WaitsForPThread'
      BY <1>2 DEF Typed, WaitsForPThread, MovedFrom, Places, Waiting
    <2>3. SourceIsLent'
      BY <1>2 DEF Typed, SourceIsLent, Places, Waiting
    <2> QED  BY <2>1, <2>2, <2>3
  <1> QED  BY <1>1, <1>2

(* A move keeps the fields typed and leaves its source not running.        *)
LEMMA MovedTyped ==
    ASSUME Typed, NEW t \in Threads, NEW u \in Threads, t # u
    PROVE  /\ Moved(t, u) \in [Threads -> ThreadFields]
           /\ Moved(t, u)[t] = obj[u]
           /\ Moved(t, u)[u] = MovedFrom
           /\ \A v \in Threads \ {t, u} : Moved(t, u)[v] = obj[v]
  <1>1. MovedFrom \in ThreadFields
    BY DEF MovedFrom, ThreadFields, States
  <1> QED  BY <1>1 DEF Typed, Moved

LEMMA TypeMoveConstruct ==
    ASSUME TypeInv, NEW t \in Threads, NEW u \in Threads, MoveConstruct(t, u)
    PROVE  TypeInv'
  <1> USE DEF MoveConstruct, Idle, TypeInv
  <1>0. t # u
    OBVIOUS
  <1>1. Typed'
    BY <1>0, MovedTyped DEF Typed, Places
  <1>2. WaitsForPThread'
    BY <1>0, MovedTyped DEF Typed, WaitsForPThread, MovedFrom, Places, Waiting
  <1>3. SourceIsLent'
    BY DEF Typed, SourceIsLent, Places, Waiting
  <1> QED  BY <1>1, <1>2, <1>3

LEMMA TypeMoveAssign ==
    ASSUME TypeInv, NEW t \in Threads, NEW u \in Threads, MoveAssign(t, u)
    PROVE  TypeInv'
  <1> USE DEF MoveAssign, Idle, TypeInv
  <1>1. CASE t = u /\ UNCHANGED <<obj, pc, src, deleted, fate>>
    BY <1>1 DEF Typed, WaitsForPThread, SourceIsLent
  <1>2. CASE /\ t # u /\ Waits(t)
             /\ pc' = [pc EXCEPT ![t] = "assigning", ![u] = "lent"]
             /\ src' = [src EXCEPT ![t] = u]
    <2>1. Typed'
      BY <1>2 DEF Typed, Waits, Places, Waiting
    <2>2. WaitsForPThread'
      BY <1>2 DEF Typed, WaitsForPThread, Waits, Waiting, Places
    <2>3. SourceIsLent'
      BY <1>2 DEF Typed, SourceIsLent, Waits, Waiting, Places
    <2> QED  BY <2>1, <2>2, <2>3
  <1>3. CASE t # u /\ Drops(t) /\ obj' = Moved(t, u) /\ UNCHANGED <<pc, src>>
    <2>1. Typed'
      <3>1. deleted' \subseteq Runnables /\ fate' \in Fates
        BY <1>3, DeletesTyped, DeleteTyped DEF Typed, Drops
      <3> QED  BY <1>3, <3>1, MovedTyped DEF Typed
    <2>2. WaitsForPThread'
      BY <1>3, MovedTyped DEF Typed, WaitsForPThread, MovedFrom, Waiting
    <2>3. SourceIsLent'
      BY <1>3 DEF Typed, SourceIsLent
    <2> QED  BY <2>1, <2>2, <2>3
  <1> QED  BY <1>1, <1>2, <1>3

(* The client that pthread_join returns to had a pthread to wait for.      *)
LEMMA PThreadJoinTyped ==
    ASSUME TypeInv, NEW t \in Threads, NEW place \in Waiting,
           PThreadJoin(t, place)
    PROVE  joined' \subseteq Tids
  BY DEF TypeInv, Typed, WaitsForPThread, PThreadJoin

LEMMA TypeJoinReturns ==
    ASSUME TypeInv, NEW t \in Threads,
           JoinReturns(t) \/ CancelReturns(t) \/ DestroyReturns(t)
    PROVE  TypeInv'
  <1> USE DEF JoinReturns, CancelReturns, DestroyReturns, TypeInv
  <1>1. Typed'
    <2>1. joined' \subseteq Tids
      BY PThreadJoinTyped DEF Waiting
    <2>2. CASE JoinReturns(t)
      BY <2>1, <2>2 DEF Typed, ThreadFields, States, PThreadJoin, Places
    <2>3. CASE CancelReturns(t)
      BY <2>1, <2>3 DEF Typed, ThreadFields, States, PThreadJoin, Places
    <2>4. CASE DestroyReturns(t)
      <3>1. MovedFrom \in ThreadFields
        BY DEF MovedFrom, ThreadFields, States
      <3> QED  BY <2>1, <2>4, <3>1 DEF Typed, PThreadJoin, Places
    <2> QED  BY <2>2, <2>3, <2>4
  <1>2. WaitsForPThread'
    BY DEF Typed, WaitsForPThread, ThreadFields, States, MovedFrom, Places,
           Waiting
  <1>3. SourceIsLent'
    BY DEF Typed, SourceIsLent, PThreadJoin, Places, Waiting
  <1> QED  BY <1>1, <1>2, <1>3

LEMMA TypeAssignReturns ==
    ASSUME TypeInv, NEW t \in Threads, AssignReturns(t)
    PROVE  TypeInv'
  <1> USE DEF AssignReturns, TypeInv
  <1>1. /\ src[t] \in Threads
        /\ src[t] # t
        /\ \A u \in Threads : pc[u] = "assigning" /\ src[u] = src[t] => u = t
    BY DEF SourceIsLent, PThreadJoin
  <1>2. Typed'
    <2>1. joined' \subseteq Tids
      BY PThreadJoinTyped DEF Waiting
    <2> QED  BY <1>1, <2>1, MovedTyped DEF Typed, PThreadJoin, Places
  <1>3. WaitsForPThread'
    BY <1>1, MovedTyped
       DEF Typed, WaitsForPThread, PThreadJoin, MovedFrom, Places, Waiting
  <1>4. SourceIsLent'
    BY <1>1 DEF Typed, SourceIsLent, PThreadJoin, Places, Waiting
  <1> QED  BY <1>2, <1>3, <1>4

(* The steps of a thread leave the fields of the objects alone.            *)
LEMMA TypeThread ==
    ASSUME TypeInv, NEW p \in Tids, Progress(p) \/ RunTerminates(p)
    PROVE  TypeInv'
  <1>1. UNCHANGED clientVars
    BY DEF Progress, ReadArg, Signal, BeginRun, RunReturns, RunTerminates,
           RunCancelled, Exit
  <1>2. WaitsForPThread' /\ SourceIsLent'
    BY <1>1 DEF TypeInv, WaitsForPThread, SourceIsLent
  <1>3. UNCHANGED <<cancelled, joined, built>>
    BY DEF Progress, ReadArg, Signal, BeginRun, RunReturns, RunTerminates,
           RunCancelled, Exit
  <1>4. pthread' \in [Tids -> PThread]
    <2>0. pthread \in [Tids -> PThread]
      BY DEF TypeInv, Typed
    <2>1. CASE ReadArg(p)
      <3>1. CASE FrameExists(p)
        <4> DEFINE a == arg[pthread[p].frame]
        <4>1. a \in RunnableArg
          BY <3>1, <2>0 DEF FrameExists, TypeInv, Typed, PThread
        <4>2. pthread' = [pthread EXCEPT ![p] =
                            [@ EXCEPT !.at = "bound", !.owned = a.owned,
                                      !.runnable = a.runnable]]
          BY <2>1, <3>1 DEF ReadArg
        <4> HIDE DEF a
        <4> QED  BY ZenonT(60), <2>0, <4>1, <4>2 DEF RunnableArg, PThread, Stages
      <3>2. CASE ~FrameExists(p)
        BY <2>0, <2>1, <3>2 DEF ReadArg
      <3> QED  BY <3>1, <3>2
    <2>2. CASE Signal(p)
      <3>1. CASE FrameExists(p)
        <4>1. pthread' = [pthread EXCEPT ![p] =
                             [@ EXCEPT !.at = "ready", !.frame = Null]]
          BY <2>2, <3>1 DEF Signal
        <4> QED  BY <2>0, <4>1 DEF PThread, Stages
      <3>2. CASE ~FrameExists(p)
        BY <2>0, <2>2, <3>2 DEF Signal
      <3> QED  BY <3>1, <3>2
    <2> USE <2>0 DEF PThread, Stages
    <2>3. CASE BeginRun(p) \/ RunReturns(p) \/ RunTerminates(p)
      BY <2>3 DEF BeginRun, RunReturns, RunTerminates
    <2>4. CASE RunCancelled(p)
      BY <2>4 DEF RunCancelled
    <2>5. CASE Exit(p)
      BY <2>5 DEF Exit
    <2> QED  BY <2>1, <2>2, <2>3, <2>4, <2>5 DEF Progress
  <1>5. arg' \in [Threads -> RunnableArg]
    <2>1. CASE Signal(p)
      <3>1. CASE FrameExists(p)
        <4>1. arg' = [arg EXCEPT ![pthread[p].frame].running = TRUE]
          BY <2>1, <3>1 DEF Signal
        <4> QED  BY <4>1 DEF TypeInv, Typed, RunnableArg
      <3>2. CASE ~FrameExists(p)
        BY <2>1, <3>2 DEF Signal, TypeInv, Typed
      <3> QED  BY <3>1, <3>2
    <2>2. CASE UNCHANGED arg
      BY <2>2 DEF TypeInv, Typed
    <2> QED
      BY <2>1, <2>2 DEF Progress, ReadArg, BeginRun, RunReturns,
                        RunTerminates, RunCancelled, Exit
  <1>6. deleted' \subseteq Runnables /\ fate' \in Fates
    <2>1. CASE Exit(p)
      BY <2>1, DeletesTyped, DeleteTyped DEF Exit, TypeInv, Typed
    <2>2. CASE /\ UNCHANGED deleted
               /\ fate' \in {fate, "dangling_arg", "null_run",
                             "use_after_free", "terminated"}
      BY <2>2 DEF TypeInv, Typed, Fates, Undefined
    <2> QED
      BY <2>1, <2>2 DEF Progress, ReadArg, Signal, BeginRun, RunReturns,
                        RunTerminates, RunCancelled
  <1> QED
    BY <1>1, <1>2, <1>3, <1>4, <1>5, <1>6 DEF TypeInv, Typed

LEMMA TypeStep == TypeInv /\ [Next]_vars => TypeInv'
  <1> SUFFICES ASSUME TypeInv, [Next]_vars PROVE TypeInv'
    OBVIOUS
  <1>1. ASSUME NEW t \in Threads, Call(t) PROVE TypeInv'
    BY <1>1, TypeConstruct, TypeStart, TypeStartFails, TypeJoin, TypeCancel,
       TypeDestroy, TypeMoveConstruct, TypeMoveAssign DEF Call
  <1>2. ASSUME NEW t \in Threads, Return(t) PROVE TypeInv'
    BY <1>2, TypeStartReturns, TypeJoinReturns, TypeAssignReturns DEF Return
  <1>3. ASSUME NEW p \in Tids, Progress(p) \/ RunTerminates(p) PROVE TypeInv'
    BY <1>3, TypeThread
  <1>4. CASE UNCHANGED vars
    BY <1>4 DEF TypeInv, Typed, WaitsForPThread, SourceIsLent
  <1> QED  BY <1>1, <1>2, <1>3, <1>4 DEF Next, Quiet

(* The types hold in every reachable state, for every number of objects,   *)
(* runnables and pthreads and every choice of the environment.             *)
THEOREM TypeCorrect == Spec => []TypeOK
  <1>1. Spec => []TypeInv
    BY TypeInit, TypeStep, PTL DEF Spec
  <1>2. TypeInv => TypeOK
    BY DEF TypeInv, TypeOK, WaitsForPThread
  <1> QED  BY <1>1, <1>2, PTL

-----------------------------------------------------------------------------
(* The handshake.                                                          *)

(* No call but Start touches an object whose Start is under way, and none  *)
(* but Start touches a frame or a pthread.                                 *)
LEMMA OthersKeepSpin ==
    ASSUME TypeInv, NEW t \in Threads,
           \/ \E r \in Runnables : Construct(t, r)
           \/ StartFails(t) \/ Join(t) \/ Cancel(t) \/ Destroy(t)
           \/ \E u \in Threads : MoveConstruct(t, u) \/ MoveAssign(t, u)
           \/ JoinReturns(t) \/ CancelReturns(t)
           \/ DestroyReturns(t) \/ AssignReturns(t)
    PROVE  /\ UNCHANGED <<arg, pthread>>
           /\ \A v \in Threads :
                pc[v] = "spin" => pc'[v] = "spin" /\ obj'[v] = obj[v]
  <1> USE DEF TypeInv, Typed, Idle
  <1>1. CASE \E r \in Runnables : Construct(t, r)
    BY <1>1 DEF Construct
  <1>2. CASE StartFails(t)
    BY <1>2 DEF StartFails
  <1>3. CASE Join(t)
    BY <1>3 DEF Join, Waits, Drops
  <1>4. CASE Cancel(t)
    BY <1>4 DEF Cancel
  <1>5. CASE Destroy(t)
    BY <1>5 DEF Destroy, Waits, Drops
  <1>6. CASE \E u \in Threads : MoveConstruct(t, u)
    BY <1>6 DEF MoveConstruct, Moved
  <1>7. CASE \E u \in Threads : MoveAssign(t, u)
    BY <1>7 DEF MoveAssign, Waits, Drops, Moved
  <1>8. CASE JoinReturns(t) \/ CancelReturns(t) \/ DestroyReturns(t)
    BY <1>8 DEF JoinReturns, CancelReturns, DestroyReturns, PThreadJoin
  <1>9. CASE AssignReturns(t)
    <2>1. pc[t] # "spin" /\ src[t] \in Threads /\ pc[src[t]] # "spin"
      BY <1>9 DEF AssignReturns, PThreadJoin, SourceIsLent
    <2> QED  BY <1>9, <2>1 DEF AssignReturns, PThreadJoin, Moved
  <1> QED
    BY <1>1, <1>2, <1>3, <1>4, <1>5, <1>6, <1>7, <1>8, <1>9

LEMMA FrameStart ==
    ASSUME TypeInv, FrameInv, NEW t \in Threads, Start(t)
    PROVE  FrameInv'
  <1>1. PICK p \in Tids :
          /\ pthread[p].at = "unused"
          /\ pthread' = [pthread EXCEPT ![p] =
                             [@ EXCEPT !.at = "created", !.frame = t]]
          /\ obj' = [obj EXCEPT ![t].tid = p]
    BY DEF Start
  <1>2. pc[t] # "spin" /\ pc' = [pc EXCEPT ![t] = "spin"]
    BY DEF Start, Idle
  <1>3. arg' = [arg EXCEPT ![t] = StartArg(t)]
    BY DEF Start
  <1>4. pthread'[p].frame = t /\ FrameExists(p)' /\ ~arg'[t].running
    BY <1>1, <1>2, <1>3, NullAssumption
       DEF FrameExists, StartArg, TypeInv, Typed, ThreadFields, PThread,
           RunnableArg
  <1>5. ASSUME NEW q \in Tids \ {p}, pthread[q].at \in Handshake
        PROVE  /\ pthread'[q] = pthread[q]
               /\ FrameExists(q)' /\ ~arg'[pthread[q].frame].running
    <2>1. FrameExists(q) /\ ~arg[pthread[q].frame].running
      BY <1>5 DEF FrameInv
    <2>2. pthread'[q] = pthread[q]
      BY <1>1, <1>5 DEF TypeInv, Typed
    <2>3. pthread[q].frame \in Threads \ {t}
      BY <1>2, <2>1 DEF FrameExists, TypeInv, Typed, PThread
    <2> QED
      BY <1>1, <1>2, <1>3, <2>1, <2>2, <2>3
         DEF FrameExists, TypeInv, Typed, ThreadFields
  <1> QED
    BY <1>1, <1>4, <1>5 DEF FrameInv, TypeInv, Typed

LEMMA FrameStartReturns ==
    ASSUME TypeInv, FrameInv, NEW t \in Threads, StartReturns(t)
    PROVE  FrameInv'
  <1> SUFFICES ASSUME NEW q \in Tids, pthread[q].at \in Handshake
               PROVE  FrameExists(q)' /\ ~arg'[pthread[q].frame].running
    BY DEF FrameInv, StartReturns
  <1>1. FrameExists(q) /\ ~arg[pthread[q].frame].running
    BY DEF FrameInv
  <1>2. pthread[q].frame \in Threads \ {t}
    BY <1>1 DEF FrameExists, StartReturns, RunningSeen, TypeInv, Typed, PThread
  <1> QED
    BY <1>1, <1>2 DEF FrameExists, StartReturns, TypeInv, Typed

LEMMA FrameThread ==
    ASSUME TypeInv, FrameInv, NEW p \in Tids, Progress(p) \/ RunTerminates(p)
    PROVE  FrameInv'
  <1>1. UNCHANGED <<obj, pc>>
    BY DEF Progress, ReadArg, Signal, BeginRun, RunReturns, RunTerminates,
           RunCancelled, Exit
  <1>2. \A q \in Tids \ {p} : pthread'[q] = pthread[q]
    BY DEF Progress, ReadArg, Signal, BeginRun, RunReturns, RunTerminates,
           RunCancelled, Exit, TypeInv, Typed
  <1>3. CASE Signal(p)
    <2>1. FrameExists(p)
      BY <1>3 DEF Signal, At, FrameInv, Handshake
    <2>2. /\ arg' = [arg EXCEPT ![pthread[p].frame].running = TRUE]
          /\ pthread' = [pthread EXCEPT ![p] =
                            [@ EXCEPT !.at = "ready", !.frame = Null]]
      BY <1>3, <2>1 DEF Signal
    <2>3. pthread'[p].at \notin Handshake
      BY <2>2 DEF TypeInv, Typed, PThread, Handshake
    <2>4. ASSUME NEW q \in Tids \ {p}, pthread[q].at \in Handshake
          PROVE  FrameExists(q)' /\ ~arg'[pthread[q].frame].running
      <3>1. FrameExists(q) /\ ~arg[pthread[q].frame].running
        BY <2>4 DEF FrameInv
      <3>2. pthread[q].frame # pthread[p].frame
        BY <2>1, <3>1 DEF FrameExists
      <3> QED
        BY <1>1, <1>2, <2>2, <3>1, <3>2
           DEF FrameExists, TypeInv, Typed, PThread
    <2> QED  BY <1>2, <2>3, <2>4 DEF FrameInv
  <1>4. CASE ReadArg(p)
    <2>1. FrameExists(p)
      BY <1>4 DEF ReadArg, At, FrameInv, Handshake
    <2>2. pthread'[p].frame = pthread[p].frame
      BY ZenonT(60), <1>4, <2>1 DEF ReadArg, TypeInv, Typed, PThread
    <2> QED
      BY <1>1, <1>2, <1>4, <2>1, <2>2
         DEF FrameInv, FrameExists, ReadArg, At, Handshake
  <1>5. CASE \/ BeginRun(p) \/ RunReturns(p) \/ RunTerminates(p)
             \/ RunCancelled(p) \/ Exit(p)
    <2>1. pthread'[p].at \notin Handshake \/ UNCHANGED pthread
      BY <1>5 DEF BeginRun, RunReturns, RunTerminates, RunCancelled, Exit,
                  TypeInv, Typed, PThread, Handshake
    <2>2. UNCHANGED arg
      BY <1>5 DEF BeginRun, RunReturns, RunTerminates, RunCancelled, Exit
    <2> QED
      BY <1>1, <1>2, <2>1, <2>2 DEF FrameInv, FrameExists
  <1> QED  BY <1>3, <1>4, <1>5 DEF Progress

LEMMA FrameStep == TypeInv /\ FrameInv /\ [Next]_vars => FrameInv'
  <1> SUFFICES ASSUME TypeInv, FrameInv, [Next]_vars PROVE FrameInv'
    OBVIOUS
  <1>1. ASSUME NEW t \in Threads, Start(t) PROVE FrameInv'
    BY <1>1, FrameStart
  <1>2. ASSUME NEW t \in Threads, StartReturns(t) PROVE FrameInv'
    BY <1>2, FrameStartReturns
  <1>3. ASSUME NEW t \in Threads,
               \/ \E r \in Runnables : Construct(t, r)
               \/ StartFails(t) \/ Join(t) \/ Cancel(t) \/ Destroy(t)
               \/ \E u \in Threads : MoveConstruct(t, u) \/ MoveAssign(t, u)
               \/ JoinReturns(t) \/ CancelReturns(t)
               \/ DestroyReturns(t) \/ AssignReturns(t)
        PROVE  FrameInv'
    <2>1. /\ UNCHANGED <<arg, pthread>>
          /\ \A v \in Threads :
               pc[v] = "spin" => pc'[v] = "spin" /\ obj'[v] = obj[v]
      BY <1>3, OthersKeepSpin
    <2> QED
      BY <2>1 DEF FrameInv, FrameExists, TypeInv, Typed, PThread
  <1>4. ASSUME NEW p \in Tids, Progress(p) \/ RunTerminates(p) PROVE FrameInv'
    BY <1>4, FrameThread
  <1>5. CASE UNCHANGED vars
    BY <1>5 DEF FrameInv, FrameExists
  <1> QED
    BY <1>1, <1>2, <1>3, <1>4, <1>5 DEF Next, Call, Return, Quiet

LEMMA FrameInit == Init => FrameInv
  BY DEF Init, FrameInv, Handshake

(* The frame of Start outlives the use the new thread makes of it, however *)
(* the objects are used: no assumption on the clients is needed.           *)
THEOREM HandshakeCorrect == Spec => []ArgOutlivesHandshake
  <1>1. Spec => [](TypeInv /\ FrameInv)
    BY TypeInit, TypeStep, FrameInit, FrameStep, PTL DEF Spec
  <1>2. FrameInv => ArgOutlivesHandshake
    BY DEF FrameInv, ArgOutlivesHandshake
  <1> QED  BY <1>1, <1>2, PTL

-----------------------------------------------------------------------------
(* Who holds what.                                                         *)

(* A pthread keeps its runnable while nobody but Start and itself moves.   *)
LEMMA TakenSame ==
    ASSUME TypeInv, FrameInv, UNCHANGED pthread,
           \A v \in Threads : pc[v] = "spin" => arg'[v] = arg[v]
    PROVE  \A q \in Tids :
             /\ Taken(q)' = Taken(q)
             /\ pthread[q].at = "created" =>
                  arg'[pthread[q].frame] = arg[pthread[q].frame]
  <1>1. ASSUME NEW q \in Tids, pthread[q].at = "created"
        PROVE  arg'[pthread[q].frame] = arg[pthread[q].frame]
    BY <1>1 DEF FrameInv, FrameExists, Handshake, TypeInv, Typed, PThread
  <1> QED  BY <1>1 DEF Taken

(* Custody survives when parties only lose what they hold, and nobody is   *)
(* left with what is deleted.                                              *)
LEMMA CustodyLoss ==
    ASSUME CustodyInv, UNCHANGED built,
           \A v \in Threads : Held(v)' \in {Held(v), Null},
           \A q \in Tids : Taken(q)' \in {Taken(q), Null},
           \A r \in Owned \cap (deleted' \ deleted) :
               /\ \A v \in Threads : Held(v)' # r
               /\ \A q \in Tids : Taken(q)' # r
    PROVE  CustodyInv'
  BY NullAssumption DEF CustodyInv, Runnables

(* Custody survives when u passes what it holds on to t.                   *)
LEMMA CustodyPass ==
    ASSUME CustodyInv, UNCHANGED built,
           NEW t \in Threads, NEW u \in Threads, t # u,
           Held(t)' = Held(u), Held(u)' = Null,
           \A v \in Threads \ {t, u} : Held(v)' = Held(v),
           \A q \in Tids : Taken(q)' = Taken(q),
           deleted' \subseteq deleted \cup {Held(t)}
    PROVE  CustodyInv'
  BY NullAssumption DEF CustodyInv, Runnables

(* What a client deletes exists, is nobody else's and is not shared.       *)
LEMMA DropIsSafe ==
    ASSUME SafetyInv, Contract, NEW t \in Threads, pc[t] = "idle",
           MayDiscard(t), Delete(DeletesRunner(t))
    PROVE  /\ deleted' = deleted \cup ({Held(t)} \ {Null})
           /\ Held(t) \in Owned \cup {Null}
           /\ SharedNeverDeleted'
           /\ OnlyNullRun'
  <1>1. Held(t) = obj[t].runner
    BY DEF Held
  <1>2. Held(t) \in Owned \cup {Null}
    BY <1>1 DEF Contract, MayDiscard, SafetyInv, TypeInv, Typed, ThreadFields,
                Runnables
  <1>3. ({Held(t)} \ {Null}) \cap deleted = {}
    BY <1>2 DEF SafetyInv, CustodyInv
  <1>4. /\ deleted' = deleted \cup ({Held(t)} \ {Null})
        /\ fate' = "ok"
    BY <1>1, <1>3 DEF Delete, DeletesRunner
  <1>5. Held(t) \notin Shared
    BY <1>2, RunnablesAssumption, NullAssumption DEF Runnables
  <1>6. SharedNeverDeleted'
    BY <1>4, <1>5 DEF SafetyInv, SharedNeverDeleted
  <1>7. OnlyNullRun'
    BY <1>4 DEF OnlyNullRun, Undefined
  <1> QED  BY <1>2, <1>4, <1>6, <1>7

(* What the steps of a client that block or end leave of custody.          *)
LEMMA SafetyQuietClient ==
    ASSUME SafetyInv, UNCHANGED <<arg, pthread, heapVars>>,
           \A v \in Threads : Held(v)' \in {Held(v), Null},
           \A v \in Threads : Held(v)' # Null => obj'[v].owned = obj[v].owned
    PROVE  FlagInv' /\ CustodyInv' /\ SharedNeverDeleted' /\ OnlyNullRun'
  <1>1. \A q \in Tids : Taken(q)' = Taken(q)
    BY TakenSame DEF SafetyInv
  <1>2. CustodyInv'
    BY <1>1, CustodyLoss DEF SafetyInv
  <1>3. FlagInv'
    BY DEF FlagInv, SafetyInv, Flagged
  <1> QED
    BY <1>2, <1>3 DEF SafetyInv, SharedNeverDeleted, OnlyNullRun

(* A client drops what it holds.                                           *)
LEMMA SafetyDrop ==
    ASSUME SafetyInv, Contract, NEW t \in Threads, pc[t] = "idle",
           MayDiscard(t), Delete(DeletesRunner(t)),
           UNCHANGED <<arg, pthread, built>>,
           Held(t)' = Null,
           \A v \in Threads \ {t} :
               Held(v)' = Held(v) /\ obj'[v].owned = obj[v].owned
    PROVE  FlagInv' /\ CustodyInv' /\ SharedNeverDeleted' /\ OnlyNullRun'
  <1>1. \A q \in Tids : Taken(q)' = Taken(q)
    BY TakenSame DEF SafetyInv
  <1>2. deleted' \ deleted \subseteq {Held(t)} \ {Null}
    BY DropIsSafe
  <1>3. ASSUME NEW r \in Owned \cap (deleted' \ deleted)
        PROVE  /\ \A v \in Threads : Held(v)' # r
               /\ \A q \in Tids : Taken(q)' # r
    BY <1>1, <1>2, <1>3, NullAssumption DEF SafetyInv, CustodyInv, Runnables
  <1>4. CustodyInv'
    BY <1>1, <1>3, CustodyLoss DEF SafetyInv
  <1>5. FlagInv'
    BY DEF FlagInv, SafetyInv, Flagged
  <1> QED  BY <1>4, <1>5, DropIsSafe

(* A client moves what u holds to t, after dropping what t held.           *)
LEMMA SafetyMove ==
    ASSUME SafetyInv, UNCHANGED <<arg, pthread, built>>,
           NEW t \in Threads, NEW u \in Threads, t # u,
           pc[t] # "spin", pc[u] \notin {"none", "spin"},
           pc'[t] \notin {"none", "spin"},
           \A v \in Threads \ {t, u} : pc'[v] = pc[v],
           obj' = Moved(t, u),
           deleted' \subseteq deleted \cup {Held(t)}
    PROVE  FlagInv' /\ CustodyInv'
  <1>1. /\ Held(t)' = Held(u)
        /\ Held(u)' = Null
        /\ \A v \in Threads \ {t, u} : Held(v)' = Held(v)
    BY MovedTyped DEF Held, MovedFrom, SafetyInv, TypeInv
  <1>2. /\ obj'[t].owned = obj[u].owned
        /\ \A v \in Threads \ {t, u} : obj'[v].owned = obj[v].owned
    BY MovedTyped DEF SafetyInv, TypeInv
  <1>3. \A q \in Tids : Taken(q)' = Taken(q)
    BY TakenSame DEF SafetyInv
  <1>4. CustodyInv'
    BY <1>1, <1>3, CustodyPass DEF SafetyInv
  <1>5. FlagInv'
    BY <1>1, <1>2 DEF FlagInv, SafetyInv, Flagged
  <1> QED  BY <1>4, <1>5

(* A new object holds its runnable.                                        *)
LEMMA ConstructEffect ==
    ASSUME SafetyInv, NEW t \in Threads, NEW r \in Runnables, Construct(t, r)
    PROVE  /\ Held(t) = Null /\ Held(t)' = r
           /\ obj'[t].owned <=> r \in Owned
           /\ \A v \in Threads \ {t} :
                Held(v)' = Held(v) /\ obj'[v].owned = obj[v].owned
           /\ \A q \in Tids : Taken(q)' = Taken(q)
           /\ r \notin built \cup deleted
           /\ built' = built \cup ({r} \cap Owned)
           /\ UNCHANGED <<arg, pthread, deleted, fate>>
  <1>1. /\ obj'[t].runner = r /\ (obj'[t].owned <=> r \in Owned)
        /\ pc[t] = "none" /\ pc'[t] = "idle"
        /\ \A v \in Threads \ {t} : obj'[v] = obj[v] /\ pc'[v] = pc[v]
        /\ UNCHANGED <<arg, pthread, deleted, fate>>
        /\ built' = built \cup ({r} \cap Owned)
        /\ r \notin built \cup deleted
    BY DEF Construct, SafetyInv, TypeInv, Typed
  <1>2. /\ Held(t) = Null /\ Held(t)' = r
        /\ \A v \in Threads \ {t} : Held(v)' = Held(v)
    BY <1>1 DEF Held
  <1>3. \A q \in Tids : Taken(q)' = Taken(q)
    BY <1>1, TakenSame DEF SafetyInv
  <1> QED  BY <1>1, <1>2, <1>3

LEMMA SafetyConstruct ==
    ASSUME SafetyInv, NEW t \in Threads, NEW r \in Runnables, Construct(t, r)
    PROVE  FlagInv' /\ CustodyInv' /\ SharedNeverDeleted' /\ OnlyNullRun'
  <1>1. CustodyInv'
    BY ConstructEffect DEF CustodyInv, SafetyInv
  <1>2. FlagInv'
    BY ConstructEffect DEF FlagInv, SafetyInv, Flagged
  <1> QED
    BY ConstructEffect, <1>1, <1>2 DEF SafetyInv, SharedNeverDeleted, OnlyNullRun

(* Start passes what the object holds on to a new pthread.                 *)
LEMMA StartEffect ==
    ASSUME SafetyInv, NEW t \in Threads, Start(t)
    PROVE  /\ Held(t) = obj[t].runner /\ Held(t)' = Null
           /\ \A v \in Threads \ {t} :
                Held(v)' = Held(v) /\ obj'[v].owned = obj[v].owned
           /\ \E p \in Tids :
                /\ Taken(p) = Null /\ Taken(p)' = Held(t)
                /\ pthread'[p].at = "created" /\ pthread'[p].frame = t
                /\ arg'[t].runnable = Held(t) /\ arg'[t].owned = obj[t].owned
                /\ \A q \in Tids \ {p} :
                     Taken(q)' = Taken(q) /\ pthread'[q] = pthread[q]
           /\ \A q \in Tids : pthread[q].at = "created" =>
                arg'[pthread[q].frame] = arg[pthread[q].frame]
           /\ UNCHANGED heapVars
  <1>1. PICK p \in Tids :
          /\ pthread[p].at = "unused"
          /\ pthread' = [pthread EXCEPT ![p] =
                             [@ EXCEPT !.at = "created", !.frame = t]]
          /\ obj' = [obj EXCEPT ![t].tid = p]
    BY DEF Start
  <1>2. /\ pc[t] = "idle"
        /\ pc' = [pc EXCEPT ![t] = "spin"]
        /\ arg' = [arg EXCEPT ![t] = StartArg(t)]
        /\ UNCHANGED heapVars
    BY DEF Start, Idle
  <1>3. /\ pthread'[p].at = "created" /\ pthread'[p].frame = t
        /\ \A q \in Tids \ {p} : pthread'[q] = pthread[q]
    BY <1>1 DEF SafetyInv, TypeInv, Typed, PThread
  <1>4. /\ arg'[t] = StartArg(t)
        /\ \A q \in Tids : pthread[q].at = "created" =>
             arg'[pthread[q].frame] = arg[pthread[q].frame]
    <2>1. \A q \in Tids : pthread[q].at = "created" =>
             pthread[q].frame \in Threads \ {t}
      BY <1>2 DEF SafetyInv, FrameInv, FrameExists, Handshake, TypeInv, Typed,
                  PThread
    <2> QED  BY <1>2, <2>1 DEF SafetyInv, TypeInv, Typed
  <1>5. /\ Held(t) = obj[t].runner
        /\ Held(t)' = Null
        /\ \A v \in Threads \ {t} :
             Held(v)' = Held(v) /\ obj'[v].owned = obj[v].owned
    BY <1>1, <1>2 DEF Held, SafetyInv, TypeInv, Typed
  <1>6. /\ Taken(p) = Null
        /\ Taken(p)' = Held(t)
        /\ \A q \in Tids \ {p} : Taken(q)' = Taken(q)
    BY <1>1, <1>3, <1>4, <1>5 DEF Taken, StartArg, Pending
  <1>7. arg'[t].runnable = Held(t) /\ arg'[t].owned = obj[t].owned
    BY <1>2, <1>4, <1>5 DEF StartArg
  <1> QED
    BY <1>2, <1>3, <1>4, <1>5, <1>6, <1>7

LEMMA SafetyStart ==
    ASSUME SafetyInv, NEW t \in Threads, Start(t)
    PROVE  FlagInv' /\ CustodyInv' /\ SharedNeverDeleted' /\ OnlyNullRun'
  <1>1. CustodyInv'
    BY StartEffect, NullAssumption DEF CustodyInv, SafetyInv, Runnables
  <1>2. FlagInv'
    <2>1. Held(t) # Null => Flagged(Held(t), obj[t].owned)
      BY StartEffect DEF SafetyInv, FlagInv
    <2> QED
      BY StartEffect, <2>1 DEF FlagInv, SafetyInv, Flagged, Pending
  <1> QED
    BY StartEffect, <1>1, <1>2 DEF SafetyInv, SharedNeverDeleted, OnlyNullRun

(* Nobody loses or gains anything when Start returns.                      *)
LEMMA StartReturnsEffect ==
    ASSUME SafetyInv, NEW t \in Threads, StartReturns(t)
    PROVE  /\ Held(t) = Null /\ Held(t)' = Null
           /\ \A v \in Threads \ {t} :
                Held(v)' = Held(v) /\ obj'[v].owned = obj[v].owned
           /\ \A q \in Tids : Taken(q)' = Taken(q)
           /\ \A q \in Tids : pthread[q].at = "created" =>
                arg'[pthread[q].frame] = arg[pthread[q].frame]
           /\ UNCHANGED <<osVars, heapVars>>
  <1>1. /\ pc[t] = "spin"
        /\ obj' = [obj EXCEPT ![t] = AfterStart(t, "kRunning")]
        /\ arg' = [arg EXCEPT ![t] = NoFrame]
        /\ pc' = [pc EXCEPT ![t] = "idle"]
        /\ UNCHANGED <<osVars, heapVars>>
    BY DEF StartReturns
  <1>2. \A q \in Tids : pthread[q].at = "created" =>
             pthread[q].frame \in Threads \ {t}
    BY DEF StartReturns, RunningSeen, SafetyInv, FrameInv, FrameExists,
           Handshake, TypeInv, Typed, PThread
  <1>3. \A q \in Tids : pthread[q].at = "created" =>
             arg'[pthread[q].frame] = arg[pthread[q].frame]
    BY <1>1, <1>2 DEF SafetyInv, TypeInv, Typed
  <1>4. \A q \in Tids : Taken(q)' = Taken(q)
    BY <1>1, <1>3 DEF Taken
  <1>5. /\ Held(t)' = Null
        /\ \A v \in Threads \ {t} :
             Held(v)' = Held(v) /\ obj'[v].owned = obj[v].owned
    BY <1>1 DEF Held, AfterStart, SafetyInv, TypeInv, Typed, ThreadFields
  <1> QED
    BY <1>1, <1>3, <1>4, <1>5 DEF Held

LEMMA SafetyStartReturns ==
    ASSUME SafetyInv, NEW t \in Threads, StartReturns(t)
    PROVE  FlagInv' /\ CustodyInv' /\ SharedNeverDeleted' /\ OnlyNullRun'
  <1>1. CustodyInv'
    BY StartReturnsEffect, CustodyLoss DEF SafetyInv
  <1>2. FlagInv'
    BY StartReturnsEffect DEF FlagInv, SafetyInv, Flagged
  <1> QED
    BY StartReturnsEffect, <1>1, <1>2
       DEF SafetyInv, SharedNeverDeleted, OnlyNullRun

(* Join, and the destructor, when they block or drop.                      *)
LEMMA SafetyJoin ==
    ASSUME SafetyInv, Contract, NEW t \in Threads,
           StartFails(t) \/ Join(t) \/ Destroy(t)
    PROVE  FlagInv' /\ CustodyInv' /\ SharedNeverDeleted' /\ OnlyNullRun'
  <1>1. CASE StartFails(t)
    <2>1. /\ Held(t)' = Null
          /\ \A v \in Threads \ {t} :
               Held(v)' = Held(v) /\ obj'[v].owned = obj[v].owned
      BY <1>1 DEF StartFails, AfterStart, Held, SafetyInv, TypeInv, Typed,
                  ThreadFields
    <2> QED  BY <1>1, <2>1, SafetyDrop DEF StartFails, Idle
  <1>2. CASE /\ pc[t] = "idle" /\ UNCHANGED <<obj, arg, pthread, heapVars>>
             /\ \/ pc' = [pc EXCEPT ![t] = "joining"]
                \/ pc' = [pc EXCEPT ![t] = "destroying"]
    <2>1. \A v \in Threads : Held(v)' = Held(v)
      BY <1>2 DEF Held, SafetyInv, TypeInv, Typed
    <2> QED  BY <1>2, <2>1, SafetyQuietClient
  <1>3. CASE /\ Idle(t) /\ Drops(t)
             /\ obj' = [obj EXCEPT ![t].runner = Null] /\ UNCHANGED pc
             /\ UNCHANGED <<arg, pthread, built>>
    <2>1. /\ Held(t)' = Null
          /\ \A v \in Threads \ {t} :
               Held(v)' = Held(v) /\ obj'[v].owned = obj[v].owned
      BY <1>3 DEF Held, SafetyInv, TypeInv, Typed, ThreadFields
    <2> QED  BY <1>3, <2>1, SafetyDrop DEF Drops, Idle
  <1>4. CASE /\ Idle(t) /\ Drops(t)
             /\ obj' = [obj EXCEPT ![t] = MovedFrom]
             /\ pc' = [pc EXCEPT ![t] = "none"]
             /\ UNCHANGED <<arg, pthread, built>>
    <2>1. /\ Held(t)' = Null
          /\ \A v \in Threads \ {t} :
               Held(v)' = Held(v) /\ obj'[v].owned = obj[v].owned
      BY <1>4 DEF Held, SafetyInv, TypeInv, Typed
    <2> QED  BY <1>4, <2>1, SafetyDrop DEF Drops, Idle
  <1> QED
    BY <1>1, <1>2, <1>3, <1>4 DEF Join, Destroy, Waits, Idle

LEMMA SafetyMoves ==
    ASSUME SafetyInv, Contract, NEW t \in Threads, NEW u \in Threads,
           MoveConstruct(t, u) \/ MoveAssign(t, u)
    PROVE  FlagInv' /\ CustodyInv' /\ SharedNeverDeleted' /\ OnlyNullRun'
  <1>1. CASE MoveConstruct(t, u)
    <2>1. t # u /\ pc'[t] = "idle" /\ \A v \in Threads \ {t} : pc'[v] = pc[v]
      BY <1>1 DEF MoveConstruct, Idle, SafetyInv, TypeInv, Typed
    <2>2. FlagInv' /\ CustodyInv'
      BY <1>1, <2>1, SafetyMove DEF MoveConstruct, Idle
    <2> QED
      BY <1>1, <2>2 DEF MoveConstruct, SafetyInv, SharedNeverDeleted, OnlyNullRun
  <1>2. CASE /\ Idle(t) /\ Idle(u)
             /\ UNCHANGED <<obj, arg, pthread, heapVars>>
             /\ \/ UNCHANGED pc
                \/ pc' = [pc EXCEPT ![t] = "assigning", ![u] = "lent"]
    <2>1. \A v \in Threads : Held(v)' = Held(v)
      BY <1>2 DEF Held, Idle, SafetyInv, TypeInv, Typed
    <2> QED  BY <1>2, <2>1, SafetyQuietClient
  <1>3. CASE /\ Idle(t) /\ Idle(u) /\ t # u /\ Drops(t)
             /\ obj' = Moved(t, u)
             /\ UNCHANGED <<pc, arg, pthread, built>>
    <2>1. /\ deleted' \subseteq deleted \cup {Held(t)}
          /\ SharedNeverDeleted' /\ OnlyNullRun'
      BY <1>3, DropIsSafe DEF Drops, Idle
    <2> QED  BY <1>3, <2>1, SafetyMove DEF Idle
  <1> QED
    BY <1>1, <1>2, <1>3 DEF MoveAssign, Waits

LEMMA SafetyCancel ==
    ASSUME SafetyInv, NEW t \in Threads,
           \/ Cancel(t) \/ JoinReturns(t) \/ CancelReturns(t)
           \/ DestroyReturns(t)
    PROVE  FlagInv' /\ CustodyInv' /\ SharedNeverDeleted' /\ OnlyNullRun'
  <1>1. UNCHANGED <<arg, pthread, heapVars>>
    BY DEF Cancel, JoinReturns, CancelReturns, DestroyReturns, PThreadJoin
  <1>2. \A v \in Threads \ {t} : pc'[v] = pc[v] /\ obj'[v] = obj[v]
    BY DEF Cancel, JoinReturns, CancelReturns, DestroyReturns, SafetyInv,
           TypeInv, Typed
  <1>3. /\ Held(t)' \in {Held(t), Null}
        /\ Held(t)' # Null => obj'[t].owned = obj[t].owned
    <2> USE DEF SafetyInv, TypeInv, Typed, ThreadFields, Held
    <2>1. CASE Cancel(t)
      BY <2>1 DEF Cancel, Idle
    <2>2. CASE JoinReturns(t) \/ CancelReturns(t)
      BY <2>2 DEF JoinReturns, CancelReturns, PThreadJoin
    <2>3. CASE DestroyReturns(t)
      BY <2>3 DEF DestroyReturns
    <2> QED  BY <2>1, <2>2, <2>3
  <1> QED
    BY <1>1, <1>2, <1>3, SafetyQuietClient DEF Held

LEMMA SafetyAssignReturns ==
    ASSUME SafetyInv, NEW t \in Threads, AssignReturns(t)
    PROVE  FlagInv' /\ CustodyInv' /\ SharedNeverDeleted' /\ OnlyNullRun'
  <1>1. /\ pc[t] = "assigning" /\ src[t] \in Threads \ {t}
        /\ pc[src[t]] = "lent"
        /\ pc' = [pc EXCEPT ![t] = "idle", ![src[t]] = "idle"]
        /\ obj' = Moved(t, src[t])
        /\ UNCHANGED <<arg, pthread, heapVars>>
    BY DEF AssignReturns, PThreadJoin, SafetyInv, TypeInv, SourceIsLent
  <1>2. /\ pc'[t] = "idle"
        /\ \A v \in Threads \ {t, src[t]} : pc'[v] = pc[v]
    BY <1>1 DEF SafetyInv, TypeInv, Typed
  <1>3. FlagInv' /\ CustodyInv'
    BY <1>1, <1>2, SafetyMove
  <1> QED
    BY <1>1, <1>3 DEF SafetyInv, SharedNeverDeleted, OnlyNullRun

(* A step of a pthread changes at most what that pthread has taken: it     *)
(* deletes it, or it is lost because a cancellation does not unwind.       *)
LEMMA ThreadEffect ==
    ASSUME SafetyInv, NEW p \in Tids, Progress(p) \/ RunTerminates(p)
    PROVE  /\ UNCHANGED <<obj, pc, built>>
           /\ \A v \in Threads : Held(v)' = Held(v)
           /\ \A q \in Tids \ {p} :
                /\ Taken(q)' = Taken(q) /\ pthread'[q] = pthread[q]
                /\ pthread[q].at = "created" =>
                     arg'[pthread[q].frame] = arg[pthread[q].frame]
           /\ Taken(p)' \in {Taken(p), Null}
           /\ pthread'[p].at = "created" => UNCHANGED <<arg, pthread>>
           /\ pthread'[p].at \in Pending =>
                /\ Taken(p)' = Taken(p)
                /\ pthread[p].at = "created" \/ pthread[p].at \in Pending
                /\ pthread'[p].runnable # Null =>
                     Flagged(pthread'[p].runnable, pthread'[p].owned)
           /\ deleted \subseteq deleted'
           /\ deleted' \subseteq deleted \cup ({Taken(p)} \cap Owned)
           /\ deleted' = deleted \/ Taken(p)' = Null
           /\ Taken(p) \in Owned =>
                \/ Taken(p)' = Taken(p) \/ Taken(p) \in deleted'
                \/ /\ ~Unwinds /\ p \in cancelled'
                   /\ pthread'[p].at = "exited" /\ pthread'[p].runnable = Taken(p)
           /\ OnlyNullRun'
  <1>1. UNCHANGED <<obj, pc, built>>
    BY DEF Progress, ReadArg, Signal, BeginRun, RunReturns, RunTerminates,
           RunCancelled, Exit
  <1>2. \A v \in Threads : Held(v)' = Held(v)
    BY <1>1 DEF Held
  <1>3. \A q \in Tids \ {p} : pthread'[q] = pthread[q]
    BY DEF Progress, ReadArg, Signal, BeginRun, RunReturns, RunTerminates,
           RunCancelled, Exit, SafetyInv, TypeInv, Typed
  <1>4. ASSUME NEW q \in Tids \ {p}, pthread[q].at = "created"
        PROVE  arg'[pthread[q].frame] = arg[pthread[q].frame]
    <2>1. CASE Signal(p)
      <3>1. /\ FrameExists(p) /\ FrameExists(q)
            /\ arg' = [arg EXCEPT ![pthread[p].frame].running = TRUE]
        BY <1>4, <2>1 DEF Signal, At, SafetyInv, FrameInv, Handshake
      <3>2. pthread[q].frame # pthread[p].frame
        BY <3>1 DEF FrameExists
      <3> QED
        BY <3>1, <3>2 DEF FrameExists, SafetyInv, TypeInv, Typed, PThread
    <2>2. CASE UNCHANGED arg
      BY <2>2
    <2> QED
      BY <2>1, <2>2 DEF Progress, ReadArg, BeginRun, RunReturns,
                        RunTerminates, RunCancelled, Exit
  <1>5. \A q \in Tids \ {p} : Taken(q)' = Taken(q)
    BY <1>3, <1>4 DEF Taken
  <1>6. SUFFICES ASSUME TRUE
                 PROVE  /\ Taken(p)' \in {Taken(p), Null}
                        /\ pthread'[p].at = "created" => UNCHANGED <<arg, pthread>>
                        /\ pthread'[p].at \in Pending =>
                             /\ Taken(p)' = Taken(p)
                             /\ pthread[p].at = "created" \/ pthread[p].at \in Pending
                             /\ pthread'[p].runnable # Null =>
                                  Flagged(pthread'[p].runnable, pthread'[p].owned)
                        /\ deleted \subseteq deleted'
                        /\ deleted' \subseteq deleted \cup ({Taken(p)} \cap Owned)
                        /\ deleted' = deleted \/ Taken(p)' = Null
                        /\ Taken(p) \in Owned =>
                             \/ Taken(p)' = Taken(p) \/ Taken(p) \in deleted'
                             \/ /\ ~Unwinds /\ p \in cancelled'
                                /\ pthread'[p].at = "exited" /\ pthread'[p].runnable = Taken(p)
                        /\ OnlyNullRun'
    BY <1>1, <1>2, <1>3, <1>4, <1>5, <1>6
  <1>7. pthread[p].at \in Pending =>
          /\ Taken(p) = pthread[p].runnable
          /\ pthread[p].runnable # Null =>
               Flagged(pthread[p].runnable, pthread[p].owned)
    BY DEF Taken, Pending, SafetyInv, FlagInv
  <1>8. CASE ReadArg(p)
    <2>1. FrameExists(p) /\ pthread[p].at = "created"
      BY <1>8 DEF ReadArg, At, SafetyInv, FrameInv, Handshake
    <2> DEFINE a == arg[pthread[p].frame]
    <2>2. pthread' = [pthread EXCEPT ![p] =
                         [@ EXCEPT !.at = "bound", !.owned = a.owned,
                                   !.runnable = a.runnable]]
      BY <1>8, <2>1 DEF ReadArg
    <2>3. /\ Taken(p) = a.runnable
          /\ a.runnable # Null => Flagged(a.runnable, a.owned)
      BY <2>1 DEF Taken, Pending, SafetyInv, FlagInv
    <2>4. UNCHANGED <<deleted, fate>>
      BY <1>8, <2>1 DEF ReadArg
    <2> HIDE DEF a
    <2>5. /\ pthread'[p].at = "bound" /\ pthread'[p].runnable = a.runnable
          /\ pthread'[p].owned = a.owned
      BY <2>2 DEF SafetyInv, TypeInv, Typed, PThread
    <2>6. Taken(p)' = Taken(p)
      BY <2>3, <2>5 DEF Taken, Pending
    <2> QED
      BY <2>1, <2>3, <2>4, <2>5, <2>6 DEF SafetyInv, OnlyNullRun, Flagged
  <1>9. CASE Signal(p)
    <2>1. FrameExists(p) /\ pthread[p].at = "bound"
      BY <1>9 DEF Signal, At, SafetyInv, FrameInv, Handshake
    <2>2. /\ pthread' = [pthread EXCEPT ![p] =
                            [@ EXCEPT !.at = "ready", !.frame = Null]]
          /\ UNCHANGED <<deleted, fate>>
      BY <1>9, <2>1 DEF Signal
    <2>3. /\ pthread'[p].at = "ready"
          /\ pthread'[p].runnable = pthread[p].runnable
          /\ pthread'[p].owned = pthread[p].owned
      BY <2>2 DEF SafetyInv, TypeInv, Typed, PThread
    <2> QED
      BY <1>7, <2>1, <2>2, <2>3 DEF Taken, Pending, SafetyInv, OnlyNullRun, Flagged
  <1>10. CASE BeginRun(p)
    <2>1. /\ pthread[p].at = "ready" /\ fate = "ok"
          /\ pthread[p].runnable # Null =>
               Flagged(pthread[p].runnable, pthread[p].owned)
      BY <1>7, <1>10 DEF BeginRun, At, Pending
    <2>2. CASE pthread[p].runnable = Null
      <3>1. pthread[p].runnable \notin Runnables \ deleted
        BY <2>2, NullAssumption
      <3>2. UNCHANGED <<pthread, deleted>> /\ fate' = "null_run"
        BY <1>10, <2>2, <3>1 DEF BeginRun
      <3> QED
        BY <1>7, <2>1, <2>2, <3>2 DEF Taken, Pending, OnlyNullRun
    <2>3. CASE pthread[p].runnable # Null
      <3>1. pthread[p].runnable \in Runnables \ deleted
        BY <1>7, <2>1, <2>3
           DEF SafetyInv, CustodyInv, SharedNeverDeleted, Flagged, Pending,
               Runnables
      <3>2. /\ pthread' = [pthread EXCEPT ![p].at = "running"]
            /\ UNCHANGED <<deleted, fate>>
        BY <1>10, <2>1, <3>1 DEF BeginRun
      <3>3. /\ pthread'[p].at = "running"
            /\ pthread'[p].runnable = pthread[p].runnable
            /\ pthread'[p].owned = pthread[p].owned
        BY <3>2 DEF SafetyInv, TypeInv, Typed, PThread
      <3> QED
        BY <1>7, <2>1, <3>2, <3>3
           DEF Taken, Pending, SafetyInv, OnlyNullRun, Flagged
    <2> QED  BY <2>2, <2>3
  <1>11. CASE RunReturns(p) \/ RunCancelled(p)
    <2>1. /\ pthread[p].at = "running"
          /\ pthread'[p].at \in {"returned", "exited"}
          /\ pthread'[p].runnable = pthread[p].runnable
          /\ pthread'[p].owned = pthread[p].owned
          /\ \/ pthread'[p].at = "returned"
             \/ ~Unwinds /\ p \in cancelled'
          /\ UNCHANGED <<deleted, fate>>
      BY <1>11 DEF RunReturns, RunCancelled, At, SafetyInv, TypeInv, Typed,
                   PThread
    <2> QED
      BY <1>7, <2>1 DEF Taken, Pending, SafetyInv, OnlyNullRun, Flagged
  <1>12. CASE RunTerminates(p)
    <2>1. /\ pthread[p].at = "running"
          /\ UNCHANGED <<pthread, deleted>> /\ fate' = "terminated"
      BY <1>12 DEF RunTerminates, At
    <2> QED
      BY <1>7, <2>1 DEF Taken, Pending, OnlyNullRun, Undefined, Flagged
  <1>13. CASE Exit(p)
    <2>1. /\ pthread[p].at = "returned"
          /\ pthread'[p].at = "exited"
          /\ Delete(RunnerDeleter(p))
      BY <1>13 DEF Exit, At, SafetyInv, TypeInv, Typed, PThread
    <2>2. RunnerDeleter(p) \subseteq {Taken(p)} \cap Owned
      BY <1>7, <2>1 DEF RunnerDeleter, Flagged, Pending
    <2>3. RunnerDeleter(p) \cap deleted = {}
      BY <2>2 DEF SafetyInv, CustodyInv
    <2>4. Taken(p)' = Null
      BY <2>1 DEF Taken, Pending
    <2>5. Taken(p) \in Owned => Taken(p) \in RunnerDeleter(p)
      BY <1>7, <2>1, NullAssumption DEF RunnerDeleter, Flagged, Pending, Runnables
    <2> QED
      BY <2>1, <2>2, <2>3, <2>4, <2>5 DEF Delete, OnlyNullRun, Undefined, Pending
  <1> QED
    BY <1>8, <1>9, <1>10, <1>11, <1>12, <1>13 DEF Progress

LEMMA SafetyThread ==
    ASSUME SafetyInv, NEW p \in Tids, Progress(p) \/ RunTerminates(p)
    PROVE  FlagInv' /\ CustodyInv' /\ SharedNeverDeleted' /\ OnlyNullRun'
  <1>1. ASSUME NEW r \in Owned \cap (deleted' \ deleted)
        PROVE  /\ \A v \in Threads : Held(v)' # r
               /\ \A q \in Tids : Taken(q)' # r
    BY <1>1, ThreadEffect, NullAssumption DEF SafetyInv, CustodyInv, Runnables
  <1>2. \A q \in Tids : Taken(q)' \in {Taken(q), Null}
    BY ThreadEffect
  <1>3. CustodyInv'
    BY <1>1, <1>2, ThreadEffect, CustodyLoss DEF SafetyInv
  <1>4. FlagInv'
    BY ThreadEffect DEF FlagInv, SafetyInv, Flagged
  <1>5. SharedNeverDeleted'
    BY ThreadEffect, RunnablesAssumption DEF SafetyInv, SharedNeverDeleted
  <1> QED  BY <1>3, <1>4, <1>5, ThreadEffect

LEMMA SafetyInit == Init => SafetyInv
  <1> SUFFICES ASSUME Init PROVE SafetyInv
    OBVIOUS
  <1>1. TypeInv /\ FrameInv
    BY TypeInit, FrameInit
  <1>2. /\ \A t \in Threads : Held(t) = Null
        /\ \A p \in Tids : Taken(p) = Null
    BY DEF Init, Held, Taken, Pending
  <1> QED
    BY <1>1, <1>2, NullAssumption
       DEF Init, SafetyInv, FlagInv, CustodyInv, SharedNeverDeleted,
           OnlyNullRun, Undefined, Runnables, Pending

LEMMA SafetyStep ==
    ASSUME Contract
    PROVE  SafetyInv /\ [Next]_vars => SafetyInv'
  <1> SUFFICES ASSUME SafetyInv, [Next]_vars PROVE SafetyInv'
    OBVIOUS
  <1>1. TypeInv' /\ FrameInv'
    BY TypeStep, FrameStep DEF SafetyInv
  <1> SUFFICES FlagInv' /\ CustodyInv' /\ SharedNeverDeleted' /\ OnlyNullRun'
    BY <1>1 DEF SafetyInv
  <1>2. CASE \E t \in Threads : Call(t)
    BY <1>2, SafetyConstruct, SafetyStart, SafetyJoin, SafetyCancel,
       SafetyMoves DEF Call
  <1>3. CASE \E t \in Threads : Return(t)
    BY <1>3, SafetyStartReturns, SafetyCancel, SafetyAssignReturns DEF Return
  <1>4. CASE \E p \in Tids : Progress(p) \/ RunTerminates(p)
    BY <1>4, SafetyThread
  <1>5. CASE UNCHANGED vars
    BY <1>5 DEF SafetyInv, FlagInv, CustodyInv, Held, Taken,
                SharedNeverDeleted, OnlyNullRun
  <1> QED  BY <1>2, <1>3, <1>4, <1>5 DEF Next, Quiet

LEMMA SafetyInvariant ==
    ASSUME Contract
    PROVE  Spec => []SafetyInv
  BY SafetyInit, SafetyStep, PTL DEF Spec

(* The only undefined behaviour is running a null runnable, whatever the   *)
(* clients do with objects that own their runnable, and with the others if *)
(* they start every one (thread.cc:113, 191-198).                          *)
THEOREM NullRunOnly ==
    ASSUME Contract
    PROVE  Spec => []OnlyNullRun
  BY SafetyInvariant, PTL DEF SafetyInv

LEMMA HasRunnableStep ==
    ASSUME ~Restart, SafetyInv, HasRunnableInv, MemorySafe, [Next]_vars, SafetyInv'
    PROVE  HasRunnableInv' /\ MemorySafe'
  <1>1. ASSUME UNCHANGED pthread, \A q \in Tids : Taken(q)' = Taken(q)
        PROVE  HasRunnableInv'
    BY <1>1 DEF HasRunnableInv
  <1>2. ASSUME NEW t \in Threads, NEW r \in Runnables, Construct(t, r)
        PROVE  HasRunnableInv' /\ MemorySafe'
    <2>1. \A q \in Tids : Taken(q)' = Taken(q)
      BY <1>2, ConstructEffect
    <2>2. UNCHANGED <<pthread, fate>>
      BY <1>2, ConstructEffect
    <2> QED  BY <1>1, <2>1, <2>2 DEF MemorySafe
  <1>3. ASSUME NEW t \in Threads, Start(t) PROVE HasRunnableInv' /\ MemorySafe'
    <2>1. PICK p \in Tids :
            /\ Taken(p)' = Held(t)
            /\ \A q \in Tids \ {p} :
                 Taken(q)' = Taken(q) /\ pthread'[q] = pthread[q]
      BY <1>3, StartEffect
    <2>2. Held(t) # Null
      BY <1>3, StartEffect DEF Start, MayStart
    <2>3. UNCHANGED fate
      BY <1>3 DEF Start
    <2> QED  BY <2>1, <2>2, <2>3 DEF HasRunnableInv, MemorySafe
  <1>4. ASSUME NEW t \in Threads, StartReturns(t)
        PROVE  HasRunnableInv' /\ MemorySafe'
    <2>1. \A q \in Tids : Taken(q)' = Taken(q)
      BY <1>4, StartReturnsEffect
    <2>2. UNCHANGED <<pthread, fate>>
      BY <1>4 DEF StartReturns
    <2> QED  BY <1>1, <2>1, <2>2 DEF MemorySafe
  <1>5. ASSUME NEW t \in Threads,
               \/ StartFails(t) \/ Join(t) \/ Cancel(t) \/ Destroy(t)
               \/ \E u \in Threads : MoveConstruct(t, u) \/ MoveAssign(t, u)
               \/ JoinReturns(t) \/ CancelReturns(t)
               \/ DestroyReturns(t) \/ AssignReturns(t)
        PROVE  HasRunnableInv' /\ MemorySafe'
    <2>1. UNCHANGED <<arg, pthread>> /\ fate' # "null_run"
      BY <1>5 DEF StartFails, Join, Cancel, Destroy, MoveConstruct, MoveAssign,
                  JoinReturns, CancelReturns, DestroyReturns, AssignReturns,
                  PThreadJoin, Waits, Drops, Delete, Idle
    <2>2. \A q \in Tids : Taken(q)' = Taken(q)
      BY <2>1, TakenSame DEF SafetyInv
    <2> QED  BY <1>1, <2>1, <2>2 DEF MemorySafe, SafetyInv, OnlyNullRun
  <1>6. ASSUME NEW p \in Tids, Progress(p) \/ RunTerminates(p)
        PROVE  HasRunnableInv' /\ MemorySafe'
    <2>1. /\ \A q \in Tids \ {p} : Taken(q)' = Taken(q) /\ pthread'[q] = pthread[q]
          /\ pthread'[p].at = "created" => UNCHANGED <<arg, pthread>>
          /\ pthread'[p].at \in Pending =>
               /\ Taken(p)' = Taken(p)
               /\ pthread[p].at = "created" \/ pthread[p].at \in Pending
      BY <1>6, ThreadEffect
    <2>2. HasRunnableInv'
      <3>1. CASE pthread'[p].at = "created"
        <4>1. Taken(p)' = Taken(p)
          BY <2>1, <3>1 DEF Taken
        <4> QED  BY <2>1, <3>1, <4>1 DEF HasRunnableInv
      <3>2. CASE pthread'[p].at # "created"
        BY <2>1, <3>2 DEF HasRunnableInv
      <3> QED  BY <3>1, <3>2
    <2>3. CASE BeginRun(p)
      <3>1. pthread[p].at = "ready" /\ Taken(p) = pthread[p].runnable
        BY <2>3 DEF BeginRun, At, Taken, Pending
      <3>2. pthread[p].runnable # Null
        BY <3>1 DEF HasRunnableInv, Pending
      <3>3. fate' # "null_run"
        BY <2>3, <3>2 DEF BeginRun, At
      <3> QED  BY <2>2, <3>3 DEF MemorySafe, SafetyInv, OnlyNullRun
    <2>4. CASE ~BeginRun(p)
      <3>1. fate' # "null_run"
        BY <1>6, <2>4 DEF Progress, ReadArg, Signal, RunReturns, RunTerminates,
                          RunCancelled, Exit, Delete, At
      <3> QED  BY <2>2, <3>1 DEF MemorySafe, SafetyInv, OnlyNullRun
    <2> QED  BY <2>3, <2>4
  <1>7. CASE UNCHANGED vars
    BY <1>7 DEF HasRunnableInv, Taken, MemorySafe
  <1> QED
    BY <1>2, <1>3, <1>4, <1>5, <1>6, <1>7 DEF Next, Call, Return, Quiet

(* Clients that start no object twice meet no undefined behaviour at all,  *)
(* whatever fails and however the threads are scheduled, moved and         *)
(* cancelled.                                                              *)
THEOREM MemorySafety ==
    ASSUME Contract, ~Restart
    PROVE  Spec => []MemorySafe
  <1>1. Init => HasRunnableInv /\ MemorySafe
    BY DEF Init, HasRunnableInv, Pending, MemorySafe, Undefined
  <1>2. /\ SafetyInv /\ SafetyInv' /\ HasRunnableInv /\ MemorySafe /\ [Next]_vars
        => HasRunnableInv' /\ MemorySafe'
    BY HasRunnableStep
  <1> QED  BY <1>1, <1>2, SafetyInvariant, PTL DEF Spec

(* No runnable is deleted before the end of its Run.                       *)
THEOREM RunnableSafety ==
    ASSUME Contract
    PROVE  Spec => []RunnableOutlivesRun
  <1>1. SafetyInv => RunnableOutlivesRun
    <2> SUFFICES ASSUME SafetyInv, NEW p \in Tids PROVE Taken(p) \notin deleted
      BY DEF RunnableOutlivesRun
    <2>1. Taken(p) \in Runnables \cup {Null}
      BY DEF Taken, SafetyInv, FlagInv, Flagged
    <2> QED
      BY <2>1, NullAssumption
         DEF SafetyInv, TypeInv, Typed, CustodyInv, SharedNeverDeleted,
             Runnables
  <1> QED  BY <1>1, SafetyInvariant, PTL

(* A runnable a Thread does not own is never deleted.                      *)
THEOREM SharedSafety ==
    ASSUME Contract
    PROVE  Spec => []SharedNeverDeleted
  BY SafetyInvariant, PTL DEF SafetyInv

-----------------------------------------------------------------------------
(* Nothing is lost.                                                        *)

LEMMA GivenUpStep == TypeInv /\ GivenUpInv /\ [Next]_vars => GivenUpInv'
  <1> SUFFICES ASSUME TypeInv, GivenUpInv, [Next]_vars PROVE GivenUpInv'
    OBVIOUS
  <1> USE DEF TypeInv, Typed, ThreadFields, States, GivenUpInv, Idle
  <1>1. ASSUME NEW t \in Threads, Call(t) PROVE GivenUpInv'
    <2>1. CASE \E r \in Runnables : Construct(t, r)
      BY <2>1 DEF Construct
    <2>2. CASE Start(t)
      BY <2>2 DEF Start
    <2>3. CASE StartFails(t)
      BY <2>3 DEF StartFails, AfterStart
    <2>4. CASE Join(t)
      BY <2>4 DEF Join, Waits, Drops
    <2>5. CASE Cancel(t)
      BY <2>5 DEF Cancel
    <2>6. CASE Destroy(t)
      BY <2>6 DEF Destroy, Waits, Drops, MovedFrom
    <2>7. ASSUME NEW u \in Threads, MoveConstruct(t, u) PROVE GivenUpInv'
      <3>1. t # u
        BY <2>7 DEF MoveConstruct
      <3> QED  BY <2>7, <3>1, MovedTyped DEF MoveConstruct, MovedFrom
    <2>8. ASSUME NEW u \in Threads, MoveAssign(t, u) PROVE GivenUpInv'
      <3>1. CASE UNCHANGED obj /\ \A v \in Threads : pc'[v] = pc[v] \/ pc[v] # "spin"
        BY <3>1
      <3>2. CASE t # u /\ obj' = Moved(t, u) /\ UNCHANGED pc
        BY <2>8, <3>2, MovedTyped DEF MoveAssign, MovedFrom
      <3> QED  BY <2>8, <3>1, <3>2 DEF MoveAssign, Waits
    <2> QED
      BY <1>1, <2>1, <2>2, <2>3, <2>4, <2>5, <2>6, <2>7, <2>8 DEF Call
  <1>2. ASSUME NEW t \in Threads, Return(t) PROVE GivenUpInv'
    <2>1. CASE StartReturns(t)
      BY <2>1 DEF StartReturns, AfterStart
    <2>2. CASE JoinReturns(t) \/ CancelReturns(t) \/ DestroyReturns(t)
      BY <2>2 DEF JoinReturns, CancelReturns, DestroyReturns, PThreadJoin,
                  MovedFrom
    <2>3. CASE AssignReturns(t)
      <3>1. /\ src[t] \in Threads \ {t} /\ pc[src[t]] = "lent"
            /\ pc[t] = "assigning"
        BY <2>3 DEF AssignReturns, PThreadJoin, SourceIsLent
      <3>2. /\ obj' = Moved(t, src[t])
            /\ \A v \in Threads \ {t, src[t]} : pc'[v] = pc[v]
        BY <2>3, <3>1 DEF AssignReturns
      <3> QED
        BY <3>1, <3>2, MovedTyped DEF MovedFrom
    <2> QED  BY <1>2, <2>1, <2>2, <2>3 DEF Return
  <1>3. ASSUME NEW p \in Tids, Progress(p) \/ RunTerminates(p)
        PROVE  GivenUpInv'
    BY <1>3 DEF Progress, ReadArg, Signal, BeginRun, RunReturns,
                RunTerminates, RunCancelled, Exit
  <1>4. CASE UNCHANGED vars
    BY <1>4
  <1> QED  BY <1>1, <1>2, <1>3, <1>4 DEF Next, Quiet

(* A call that only moves what objects hold, or deletes it, loses nothing. *)
LEMMA KeptClient ==
    ASSUME TypeInv, FrameInv, KeptInv, UNCHANGED <<built, pthread, arg>>,
           deleted \subseteq deleted', cancelled \subseteq cancelled',
           \A v \in Threads : Held(v) \in Owned \ deleted' =>
               \E w \in Threads : Held(w)' = Held(v)
    PROVE  KeptInv'
  <1>1. \A q \in Tids : Taken(q)' = Taken(q)
    BY TakenSame
  <1> QED  BY <1>1 DEF KeptInv, CancelledWith, TypeInv, Typed

LEMMA KeptCall ==
    ASSUME SafetyInv, GivenUpInv, KeptInv, NEW t \in Threads,
           \/ StartFails(t) \/ Join(t) \/ Cancel(t) \/ Destroy(t)
           \/ JoinReturns(t) \/ CancelReturns(t) \/ DestroyReturns(t)
    PROVE  KeptInv'
  <1> USE DEF SafetyInv, TypeInv, Typed, ThreadFields, Idle
  <1>1. UNCHANGED <<built, pthread, arg>> /\ cancelled \subseteq cancelled'
    BY DEF StartFails, Join, Cancel, Destroy, JoinReturns, CancelReturns,
           DestroyReturns, PThreadJoin, Waits, Drops
  <1>2. \A v \in Threads \ {t} : Held(v)' = Held(v)
    BY DEF StartFails, Join, Cancel, Destroy, JoinReturns, CancelReturns,
           DestroyReturns, PThreadJoin, Waits, Drops, Held
  <1>3. /\ deleted \subseteq deleted'
        /\ Held(t) \in {Null, Held(t)'} \cup deleted'
    <2>1. CASE StartFails(t)
      BY <2>1 DEF StartFails, Delete, DeletesRunner, Held
    <2>2. CASE Join(t)
      BY <2>2 DEF Join, Waits, Drops, Delete, DeletesRunner, Held
    <2>3. CASE Cancel(t)
      BY <2>3 DEF Cancel, Held
    <2>4. CASE Destroy(t)
      BY <2>4 DEF Destroy, Waits, Drops, Delete, DeletesRunner, Held
    <2>5. CASE JoinReturns(t) \/ CancelReturns(t) \/ DestroyReturns(t)
      <3>1. UNCHANGED deleted /\ pc[t] \in Waiting
        BY <2>5 DEF JoinReturns, CancelReturns, DestroyReturns, PThreadJoin,
                    Waiting
      <3>2. Held(t) = Null
        BY <3>1 DEF GivenUpInv, WaitsForPThread, Held, Waiting
      <3> QED  BY <3>1, <3>2
    <2> QED  BY <2>1, <2>2, <2>3, <2>4, <2>5
  <1> QED
    BY <1>1, <1>2, <1>3, NullAssumption, KeptClient DEF Runnables

LEMMA KeptMove ==
    ASSUME SafetyInv, GivenUpInv, KeptInv, NEW t \in Threads, NEW u \in Threads,
           \/ MoveConstruct(t, u)
           \/ MoveAssign(t, u)
           \/ AssignReturns(t) /\ u = src[t]
    PROVE  KeptInv'
  <1> USE DEF SafetyInv, TypeInv, Typed, ThreadFields, Idle
  <1>1. UNCHANGED <<built, pthread, arg, cancelled>>
    BY DEF MoveConstruct, MoveAssign, AssignReturns, PThreadJoin, Waits, Drops
  <1>2. CASE /\ t # u /\ obj' = Moved(t, u)
             /\ deleted \subseteq deleted'
             /\ pc[t] = "none" \/ Held(t) = Null \/ Held(t) \in deleted'
             /\ pc[u] \notin {"none", "spin"} /\ pc'[t] \notin {"none", "spin"}
             /\ \A v \in Threads \ {t, u} : pc'[v] = pc[v]
    <2>1. /\ Held(t)' = Held(u)
          /\ \A v \in Threads \ {t, u} : Held(v)' = Held(v)
      BY <1>2, MovedTyped DEF Held
    <2>2. Held(t) = Null \/ Held(t) \in deleted'
      BY <1>2 DEF Held
    <2> QED
      BY <1>1, <1>2, <2>1, <2>2, NullAssumption, KeptClient DEF Runnables
  <1>3. CASE /\ UNCHANGED <<obj, deleted>> /\ pc[t] = "idle" /\ pc[u] = "idle"
             /\ \/ UNCHANGED pc
                \/ pc' = [pc EXCEPT ![t] = "assigning", ![u] = "lent"]
    <2>1. \A v \in Threads : Held(v)' = Held(v)
      BY <1>3 DEF Held
    <2> QED  BY <1>1, <1>3, <2>1, KeptClient
  <1>4. CASE MoveConstruct(t, u)
    BY <1>2, <1>4 DEF MoveConstruct
  <1>5. CASE MoveAssign(t, u)
    <2>1. CASE t # u /\ Drops(t) /\ obj' = Moved(t, u) /\ UNCHANGED <<pc, src>>
      <3>1. deleted' = deleted \cup ({Held(t)} \ {Null})
        BY <1>5, <2>1 DEF MoveAssign, Drops, Delete, DeletesRunner, Held
      <3> QED  BY <1>2, <1>5, <2>1, <3>1 DEF MoveAssign
    <2> QED  BY <1>3, <1>5, <2>1 DEF MoveAssign, Waits
  <1>6. CASE AssignReturns(t) /\ u = src[t]
    <2>1. /\ pc[t] = "assigning" /\ t # u /\ pc[u] = "lent"
          /\ obj' = Moved(t, u) /\ UNCHANGED deleted
          /\ pc' = [pc EXCEPT ![t] = "idle", ![u] = "idle"]
      BY <1>6 DEF AssignReturns, PThreadJoin, SourceIsLent
    <2>2. Held(t) = Null
      BY <2>1 DEF GivenUpInv, WaitsForPThread, Held, Waiting
    <2> QED  BY <1>2, <2>1, <2>2
  <1> QED  BY <1>4, <1>5, <1>6

LEMMA KeptStep ==
    ASSUME Contract
    PROVE  SafetyInv /\ GivenUpInv /\ KeptInv /\ [Next]_vars => KeptInv'
  <1> SUFFICES ASSUME SafetyInv, GivenUpInv, KeptInv, [Next]_vars PROVE KeptInv'
    OBVIOUS
  <1>1. ASSUME NEW t \in Threads, NEW r \in Runnables, Construct(t, r)
        PROVE  KeptInv'
    <2>1. UNCHANGED cancelled
      BY <1>1 DEF Construct
    <2> QED
      BY <1>1, <2>1, ConstructEffect, NullAssumption
         DEF KeptInv, CancelledWith, SafetyInv, TypeInv, Typed, Runnables
  <1>2. ASSUME NEW t \in Threads, Start(t) PROVE KeptInv'
    <2>1. /\ \A v \in Threads \ {t} : Held(v)' = Held(v)
          /\ UNCHANGED heapVars
      BY <1>2, StartEffect
    <2>2. PICK p \in Tids :
            /\ Taken(p) = Null /\ Taken(p)' = Held(t)
            /\ \A q \in Tids \ {p} :
                 Taken(q)' = Taken(q) /\ pthread'[q] = pthread[q]
      BY <1>2, StartEffect
    <2>3. /\ UNCHANGED cancelled
          /\ \A q \in Tids : pthread[q].at = "exited" => pthread'[q] = pthread[q]
      BY <1>2 DEF Start, SafetyInv, TypeInv, Typed
    <2>4. Null \notin built
      BY NullAssumption DEF SafetyInv, TypeInv, Typed, Runnables
    <2> QED  BY <2>1, <2>2, <2>3, <2>4 DEF KeptInv, CancelledWith
  <1>3. ASSUME NEW t \in Threads, StartReturns(t) PROVE KeptInv'
    BY <1>3, StartReturnsEffect DEF KeptInv, CancelledWith
  <1>4. ASSUME NEW p \in Tids, Progress(p) \/ RunTerminates(p) PROVE KeptInv'
    <2>1. /\ UNCHANGED <<built, cancelled>> /\ deleted \subseteq deleted'
          /\ \A v \in Threads : Held(v)' = Held(v)
          /\ \A q \in Tids \ {p} : Taken(q)' = Taken(q) /\ pthread'[q] = pthread[q]
      <3>1. UNCHANGED cancelled
        BY <1>4 DEF Progress, ReadArg, Signal, BeginRun, RunReturns,
                    RunTerminates, RunCancelled, Exit
      <3> QED  BY <1>4, <3>1, ThreadEffect
    <2>2. Taken(p) \in Owned =>
            \/ Taken(p)' = Taken(p) \/ Taken(p) \in deleted'
            \/ /\ ~Unwinds /\ p \in cancelled'
               /\ pthread'[p].at = "exited" /\ pthread'[p].runnable = Taken(p)
      BY <1>4, ThreadEffect
    <2>3. pthread[p].at = "exited" => pthread'[p] = pthread[p]
      BY <1>4 DEF Progress, ReadArg, Signal, BeginRun, RunReturns,
                  RunTerminates, RunCancelled, Exit, At
    <2> QED
      BY <2>1, <2>2, <2>3 DEF KeptInv, CancelledWith, SafetyInv, TypeInv, Typed
  <1>5. ASSUME NEW t \in Threads, AssignReturns(t) PROVE KeptInv'
    <2>1. src[t] \in Threads
      BY <1>5 DEF AssignReturns, PThreadJoin, SafetyInv, TypeInv, SourceIsLent
    <2> QED  BY <1>5, <2>1, KeptMove
  <1>6. CASE UNCHANGED vars
    BY <1>6 DEF KeptInv, CancelledWith, Held, Taken
  <1> QED
    BY <1>1, <1>2, <1>3, <1>4, <1>5, <1>6, KeptCall, KeptMove
       DEF Next, Call, Return, Quiet

LEMMA KeptInvariant ==
    ASSUME Contract
    PROVE  Spec => [](SafetyInv /\ KeptInv)
  <1>1. Init => SafetyInv /\ GivenUpInv /\ KeptInv
    BY SafetyInit DEF Init, GivenUpInv, KeptInv, MovedFrom
  <1>2. SafetyInv /\ GivenUpInv /\ KeptInv /\ [Next]_vars
          => (SafetyInv /\ GivenUpInv /\ KeptInv)'
    BY SafetyStep, GivenUpStep, KeptStep DEF SafetyInv
  <1> QED  BY <1>1, <1>2, PTL DEF Spec

(* An owned runnable has at most one holder, and none once it is deleted.  *)
LEMMA OneHolder ==
    ASSUME SafetyInv, NEW r \in Owned
    PROVE  /\ \A g, h \in Holders(r) : g = h
           /\ r \notin built \ deleted => Holders(r) = {}
  <1>1. \A g, h \in Holders(r) : g = h
    BY NullAssumption DEF Holders, SafetyInv, CustodyInv
  <1>2. r \notin built \ deleted => Holders(r) = {}
    BY DEF Holders, SafetyInv, CustodyInv
  <1> QED  BY <1>1, <1>2

(* Every owned runnable that exists has exactly one holder, and one that   *)
(* was deleted none: nothing leaks and nothing is deleted twice.           *)
THEOREM SoleOwnership ==
    ASSUME Contract, Unwinds
    PROVE  Spec => []SoleHolder
  <1>1. SafetyInv /\ KeptInv => SoleHolder
    <2> SUFFICES ASSUME SafetyInv, KeptInv, NEW r \in Owned
                 PROVE  IF r \in built \ deleted
                        THEN \E h \in Threads \cup Tids : Holders(r) = {h}
                        ELSE Holders(r) = {}
      BY DEF SoleHolder
    <2>1. CASE r \in built \ deleted
      <3>1. PICK h \in Threads \cup Tids : h \in Holders(r)
        BY <2>1 DEF KeptInv, Holders
      <3>2. \A g \in Holders(r) : g = h
        BY <3>1, OneHolder
      <3> QED  BY <2>1, <3>1, <3>2
    <2>2. CASE r \notin built \ deleted
      BY <2>2, OneHolder
    <2> QED  BY <2>1, <2>2
  <1> QED  BY <1>1, KeptInvariant, PTL

(* Where the platform does not unwind too, an owned runnable has one       *)
(* holder at most, and what has none was run by a thread that was          *)
(* cancelled (the @note of Cancel, thread.h:100-101).                      *)
THEOREM LossOnlyByCancel ==
    ASSUME Contract
    PROVE  Spec => []LostOnlyByCancel
  <1>1. SafetyInv /\ KeptInv => LostOnlyByCancel
    <2> SUFFICES ASSUME SafetyInv, KeptInv, NEW r \in Owned
                 PROVE  /\ \A g, h \in Holders(r) : g = h
                        /\ r \in deleted => Holders(r) = {}
                        /\ r \in built \ deleted /\ Holders(r) = {} =>
                             \E p \in cancelled :
                               pthread[p].runnable = r /\ pthread[p].at = "exited"
      BY DEF LostOnlyByCancel
    <2>1. ASSUME r \in built \ deleted, Holders(r) = {}
          PROVE  \E p \in cancelled :
                   pthread[p].runnable = r /\ pthread[p].at = "exited"
      BY <2>1 DEF KeptInv, Holders, CancelledWith
    <2> QED  BY <2>1, OneHolder
  <1> QED  BY <1>1, KeptInvariant, PTL
=============================================================================
