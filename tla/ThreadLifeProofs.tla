-------------------------- MODULE ThreadLifeProofs --------------------------
(***************************************************************************)
(* Theorems about who joins which pthread, about state_, and that Thread   *)
(* implements RunnableLife, for every value of the constants.              *)
(***************************************************************************)
EXTENDS ThreadProofs

USE DEF vars, clientVars, osVars, heapVars

(* What the invariants below rest on.                                      *)
JoinInv == TypeInv /\ FrameInv /\ GivenUpInv /\ JoinedInv /\ AwaitInv

-----------------------------------------------------------------------------
(* Who awaits whom, before and after a step.                               *)

(* Only a client inside Start is in the loop of Start, and only one that   *)
(* is past it runs.                                                        *)
LEMMA StartIsNew ==
    ASSUME ~Restart, JoinInv, NEW t \in Threads, pc[t] = "idle", MayStart(t)
    PROVE  obj[t].state # "kRunning"
  BY DEF JoinInv, GivenUpInv, MayStart

(* A call that blocks, drops, or goes on without the handshake: whoever    *)
(* awaits a pthread afterwards did before, and only a pthread_cancel that  *)
(* fails makes anybody forget one.                                         *)
LEMMA QuietCall ==
    ASSUME ~Restart, JoinInv, NEW t \in Threads,
           \/ \E r \in Runnables : Construct(t, r)
           \/ StartFails(t) \/ StartReturns(t) \/ Join(t) \/ Cancel(t)
           \/ Destroy(t)
    PROVE  /\ UNCHANGED <<pthread, joined>>
           /\ \A v \in Threads, p \in Tids :
                /\ Awaits(v, p)' => Awaits(v, p)
                /\ ~CancelFailures /\ Awaits(v, p) => Awaits(v, p)'
           /\ \A v \in Threads : pc'[v] = "spin" => obj'[v].state # "kRunning"
  <1> USE DEF JoinInv, TypeInv, Typed, ThreadFields, AwaitInv, Idle, Awaits
  <1>1. UNCHANGED <<pthread, joined>>
    BY DEF Construct, StartFails, StartReturns, Join, Cancel, Destroy
  <1>2. CASE \E r \in Runnables : Construct(t, r)
    BY <1>1, <1>2, NullAssumption DEF Construct
  <1>3. CASE StartFails(t)
    BY <1>1, <1>3, StartIsNew DEF StartFails, AfterStart
  <1>4. CASE StartReturns(t)
    BY <1>1, <1>4 DEF StartReturns, AfterStart
  <1>5. CASE Join(t)
    BY SMTT(30), <1>1, <1>5 DEF Join, Waits, Drops
  <1>6. CASE Cancel(t)
    BY ZenonT(60), <1>1, <1>6 DEF Cancel
  <1>7. CASE Destroy(t)
    BY <1>1, <1>7 DEF Destroy, Waits, Drops, MovedFrom
  <1> QED  BY <1>2, <1>3, <1>4, <1>5, <1>6, <1>7

(* Start: the new pthread is awaited by t, which awaited nobody.           *)
LEMMA StartAwaits ==
    ASSUME ~Restart, JoinInv, NEW t \in Threads, Start(t)
    PROVE  /\ UNCHANGED joined
           /\ \E p \in Tids :
                /\ pthread[p].at = "unused" /\ pthread'[p].at = "created"
                /\ \A q \in Tids \ {p} : pthread'[q] = pthread[q]
                /\ \A q \in Tids : ~Awaits(t, q)
                /\ \A q \in Tids : Awaits(t, q)' <=> q = p
           /\ \A v \in Threads \ {t} : obj'[v] = obj[v] /\ pc'[v] = pc[v]
           /\ pc'[t] = "spin" /\ obj'[t].state # "kRunning"
  <1>1. PICK p \in Tids :
          /\ pthread[p].at = "unused"
          /\ pthread' = [pthread EXCEPT ![p] =
                             [@ EXCEPT !.at = "created", !.frame = t]]
          /\ obj' = [obj EXCEPT ![t].tid = p]
    BY DEF Start
  <1>2. /\ pc[t] = "idle" /\ obj[t].state # "kRunning"
        /\ pc' = [pc EXCEPT ![t] = "spin"]
        /\ UNCHANGED joined
    BY StartIsNew DEF Start, Idle
  <1>3. /\ pthread'[p].at = "created"
        /\ \A q \in Tids \ {p} : pthread'[q] = pthread[q]
    BY <1>1 DEF JoinInv, TypeInv, Typed, PThread
  <1>4. /\ \A v \in Threads \ {t} : obj'[v] = obj[v] /\ pc'[v] = pc[v]
        /\ pc'[t] = "spin" /\ obj'[t].state = obj[t].state /\ obj'[t].tid = p
    BY <1>1, <1>2 DEF JoinInv, TypeInv, Typed, ThreadFields
  <1> QED  BY <1>1, <1>2, <1>3, <1>4 DEF Awaits

(* A move: t awaits what u did, and u nothing.                             *)
LEMMA MoveAwaits ==
    ASSUME JoinInv, NEW t \in Threads, NEW u \in Threads, t # u,
           pc[u] \in {"idle", "lent"}, pc'[t] = "idle", pc'[u] = "idle",
           \A v \in Threads \ {t, u} : pc'[v] = pc[v],
           obj' = Moved(t, u)
    PROVE  /\ \A p \in Tids : Awaits(t, p)' <=> Awaits(u, p)
           /\ \A p \in Tids : ~Awaits(u, p)'
           /\ \A v \in Threads \ {t, u}, p \in Tids : Awaits(v, p)' <=> Awaits(v, p)
           /\ \A v \in Threads : pc'[v] = "spin" => obj'[v].state # "kRunning"
  <1>1. /\ obj'[t] = obj[u] /\ obj'[u] = MovedFrom
        /\ \A v \in Threads \ {t, u} : obj'[v] = obj[v]
    BY MovedTyped DEF JoinInv, TypeInv
  <1> QED  BY <1>1 DEF Awaits, MovedFrom, JoinInv, AwaitInv

(* A pthread that pthread_join returns for has exited, and t awaited it.   *)
LEMMA JoinerAwaits ==
    ASSUME TypeInv, NEW t \in Threads, NEW place \in Waiting,
           PThreadJoin(t, place)
    PROVE  /\ obj[t].tid \in Tids /\ Awaits(t, obj[t].tid)
           /\ pthread[obj[t].tid].at = "exited"
           /\ joined' = joined \cup {obj[t].tid}
           /\ UNCHANGED pthread
  BY DEF PThreadJoin, TypeInv, WaitsForPThread, Awaits, Waiting

(* A thread never goes back to unused, and stays where it is once it has   *)
(* exited.                                                                 *)
LEMMA ThreadKeepsStage ==
    ASSUME TypeInv, NEW p \in Tids, Progress(p) \/ RunTerminates(p)
    PROVE  /\ UNCHANGED <<obj, pc, joined>>
           /\ \A q \in Tids :
                /\ pthread'[q].at = "unused" <=> pthread[q].at = "unused"
                /\ pthread[q].at = "exited" => pthread'[q] = pthread[q]
  <1> USE DEF TypeInv, Typed, PThread, At
  <1>1. UNCHANGED <<obj, pc, joined>>
    BY DEF Progress, ReadArg, Signal, BeginRun, RunReturns, RunTerminates,
           RunCancelled, Exit
  <1>2. CASE ReadArg(p)
    <2>1. CASE FrameExists(p)
      BY ZenonT(60), <1>1, <1>2, <2>1 DEF ReadArg
    <2>2. CASE ~FrameExists(p)
      BY <1>1, <1>2, <2>2 DEF ReadArg
    <2> QED  BY <2>1, <2>2
  <1>3. CASE Signal(p)
    <2>1. CASE FrameExists(p)
      BY ZenonT(60), <1>1, <1>3, <2>1 DEF Signal
    <2>2. CASE ~FrameExists(p)
      BY <1>1, <1>3, <2>2 DEF Signal
    <2> QED  BY <2>1, <2>2
  <1>4. CASE BeginRun(p) \/ RunReturns(p) \/ RunTerminates(p)
    BY <1>1, <1>4 DEF BeginRun, RunReturns, RunTerminates
  <1>5. CASE RunCancelled(p)
    BY <1>1, <1>5 DEF RunCancelled
  <1>6. CASE Exit(p)
    BY <1>1, <1>6 DEF Exit
  <1> QED  BY <1>2, <1>3, <1>4, <1>5, <1>6 DEF Progress

LEMMA JoinedStep == TypeInv /\ JoinedInv /\ [Next]_vars => JoinedInv'
  <1> SUFFICES ASSUME TypeInv, JoinedInv, [Next]_vars PROVE JoinedInv'
    OBVIOUS
  <1>0. joined \subseteq Tids
    BY DEF TypeInv, Typed
  <1>1. ASSUME NEW t \in Threads,
               \/ JoinReturns(t) \/ CancelReturns(t) \/ DestroyReturns(t)
               \/ AssignReturns(t)
        PROVE  JoinedInv'
    <2>1. /\ pthread[obj[t].tid].at = "exited"
          /\ joined' = joined \cup {obj[t].tid}
          /\ UNCHANGED pthread
      BY <1>1, JoinerAwaits DEF JoinReturns, CancelReturns, DestroyReturns,
                                AssignReturns, Waiting
    <2> QED  BY <2>1 DEF JoinedInv
  <1>2. ASSUME NEW t \in Threads, Start(t) PROVE JoinedInv'
    <2>1. PICK p \in Tids :
            /\ pthread[p].at = "unused"
            /\ pthread' = [pthread EXCEPT ![p] =
                               [@ EXCEPT !.at = "created", !.frame = t]]
      BY <1>2 DEF Start
    <2>2. UNCHANGED joined /\ p \notin joined
      BY <1>2, <2>1 DEF Start, JoinedInv
    <2> QED  BY <1>0, <2>1, <2>2 DEF JoinedInv, TypeInv, Typed
  <1>3. ASSUME NEW p \in Tids, Progress(p) \/ RunTerminates(p) PROVE JoinedInv'
    <2>1. /\ UNCHANGED joined
          /\ \A q \in Tids : pthread[q].at = "exited" => pthread'[q] = pthread[q]
      BY <1>3, ThreadKeepsStage
    <2> QED  BY <1>0, <2>1 DEF JoinedInv
  <1>4. CASE UNCHANGED <<pthread, joined>>
    BY <1>4 DEF JoinedInv
  <1>5. ASSUME NEW t \in Threads,
               \/ \E r \in Runnables : Construct(t, r)
               \/ StartFails(t) \/ StartReturns(t) \/ Join(t) \/ Cancel(t)
               \/ Destroy(t)
               \/ \E u \in Threads : MoveConstruct(t, u) \/ MoveAssign(t, u)
        PROVE  UNCHANGED <<pthread, joined>>
    BY <1>5 DEF Construct, StartFails, StartReturns, Join, Cancel, Destroy,
                MoveConstruct, MoveAssign
  <1> QED
    BY <1>1, <1>2, <1>3, <1>4, <1>5 DEF Next, Call, Return, Quiet

-----------------------------------------------------------------------------
(* Every pthread is joined once.                                           *)

LEMMA AwaitCall ==
    ASSUME ~Restart, JoinInv, NEW t \in Threads,
           \/ \E r \in Runnables : Construct(t, r)
           \/ StartFails(t) \/ StartReturns(t) \/ Join(t) \/ Cancel(t)
           \/ Destroy(t) \/ Start(t)
    PROVE  AwaitInv' /\ (~CancelFailures /\ AwaitedInv => AwaitedInv')
  <1>1. CASE Start(t)
    <2>1. PICK p \in Tids :
            /\ pthread[p].at = "unused" /\ pthread'[p].at = "created"
            /\ \A q \in Tids \ {p} : pthread'[q] = pthread[q]
            /\ \A q \in Tids : ~Awaits(t, q)
            /\ \A q \in Tids : Awaits(t, q)' <=> q = p
      BY <1>1, StartAwaits
    <2>2. /\ UNCHANGED joined /\ pc'[t] = "spin" /\ obj'[t].state # "kRunning"
          /\ \A v \in Threads \ {t} :
               /\ obj'[v] = obj[v] /\ pc'[v] = pc[v]
               /\ \A q \in Tids : Awaits(v, q)' <=> Awaits(v, q)
      BY <1>1, StartAwaits DEF Awaits
    <2>3. p \notin joined /\ joined \subseteq Tids
      BY <2>1 DEF JoinInv, JoinedInv, TypeInv, Typed
    <2> QED
      BY <2>1, <2>2, <2>3 DEF AwaitInv, AwaitedInv, JoinInv
  <1>2. CASE ~Start(t)
    <2>1. /\ UNCHANGED <<pthread, joined>>
          /\ \A v \in Threads, p \in Tids :
               /\ Awaits(v, p)' => Awaits(v, p)
               /\ ~CancelFailures /\ Awaits(v, p) => Awaits(v, p)'
          /\ \A v \in Threads : pc'[v] = "spin" => obj'[v].state # "kRunning"
      BY <1>2, QuietCall
    <2> QED  BY <2>1 DEF JoinInv, AwaitInv, AwaitedInv
  <1> QED  BY <1>1, <1>2

LEMMA AwaitMove ==
    ASSUME JoinInv, NEW t \in Threads, NEW u \in Threads,
           MoveConstruct(t, u) \/ MoveAssign(t, u)
    PROVE  AwaitInv' /\ (AwaitedInv => AwaitedInv')
  <1> USE DEF Idle
  <1>0. UNCHANGED <<pthread, joined>>
    BY DEF MoveConstruct, MoveAssign
  <1>1. CASE /\ UNCHANGED obj /\ pc[t] = "idle" /\ pc[u] = "idle"
             /\ \/ UNCHANGED pc
                \/ t # u /\ pc' = [pc EXCEPT ![t] = "assigning", ![u] = "lent"]
    <2>1. \A v \in Threads : /\ pc'[v] = "spin" <=> pc[v] = "spin"
                             /\ pc'[v] = "none" <=> pc[v] = "none"
      BY <1>1 DEF JoinInv, TypeInv, Typed
    <2>2. \A v \in Threads, p \in Tids : Awaits(v, p)' <=> Awaits(v, p)
      BY <1>1, <2>1 DEF Awaits
    <2> QED
      BY <1>0, <1>1, <2>1, <2>2 DEF JoinInv, AwaitInv, AwaitedInv
  <1>2. CASE /\ t # u /\ pc[u] = "idle" /\ obj' = Moved(t, u)
             /\ pc[t] = "none" \/ (pc[t] = "idle" /\ obj[t].state # "kRunning")
             /\ pc' = [pc EXCEPT ![t] = "idle"]
    <2>1. \A p \in Tids : ~Awaits(t, p)
      BY <1>2 DEF Awaits
    <2>2. pc'[t] = "idle" /\ \A v \in Threads \ {t} : pc'[v] = pc[v]
      BY <1>2 DEF JoinInv, TypeInv, Typed
    <2>3. /\ \A p \in Tids : Awaits(t, p)' <=> Awaits(u, p)
          /\ \A p \in Tids : ~Awaits(u, p)'
          /\ \A v \in Threads \ {t, u}, p \in Tids : Awaits(v, p)' <=> Awaits(v, p)
          /\ \A v \in Threads : pc'[v] = "spin" => obj'[v].state # "kRunning"
      BY <1>2, <2>2, MoveAwaits
    <2> QED
      BY <1>0, <2>1, <2>3 DEF JoinInv, AwaitInv, AwaitedInv
  <1>3. CASE MoveConstruct(t, u)
    BY <1>2, <1>3 DEF MoveConstruct
  <1>4. CASE MoveAssign(t, u)
    <2>1. CASE t # u /\ Drops(t) /\ obj' = Moved(t, u) /\ UNCHANGED <<pc, src>>
      <3>1. pc' = [pc EXCEPT ![t] = "idle"]
        BY <1>4, <2>1 DEF MoveAssign, JoinInv, TypeInv, Typed
      <3> QED  BY <1>2, <1>4, <2>1, <3>1 DEF MoveAssign, Drops
    <2> QED  BY <1>1, <1>4, <2>1 DEF MoveAssign, Waits
  <1> QED  BY <1>3, <1>4

LEMMA AwaitReturn ==
    ASSUME JoinInv, NEW t \in Threads,
           JoinReturns(t) \/ CancelReturns(t) \/ DestroyReturns(t) \/ AssignReturns(t)
    PROVE  AwaitInv' /\ (AwaitedInv => AwaitedInv')
  <1>1. /\ obj[t].tid \in Tids /\ Awaits(t, obj[t].tid)
        /\ pthread[obj[t].tid].at = "exited"
        /\ joined' = joined \cup {obj[t].tid}
        /\ UNCHANGED pthread
    BY JoinerAwaits DEF JoinReturns, CancelReturns, DestroyReturns,
                        AssignReturns, Waiting, JoinInv
  <1>2. \A p \in Tids : Awaits(t, p) => p = obj[t].tid
    BY DEF Awaits
  <1>3. CASE JoinReturns(t) \/ CancelReturns(t) \/ DestroyReturns(t)
    <2>1. /\ pc'[t] \in {"none", "idle"} /\ obj'[t].state # "kRunning"
          /\ \A v \in Threads \ {t} : obj'[v] = obj[v] /\ pc'[v] = pc[v]
      BY <1>3 DEF JoinReturns, CancelReturns, DestroyReturns, PThreadJoin,
                  MovedFrom, JoinInv, TypeInv, Typed, ThreadFields
    <2>2. /\ \A p \in Tids : ~Awaits(t, p)'
          /\ \A v \in Threads \ {t}, p \in Tids : Awaits(v, p)' <=> Awaits(v, p)
      BY <2>1 DEF Awaits
    <2> QED
      BY <1>1, <1>2, <2>1, <2>2 DEF JoinInv, AwaitInv, AwaitedInv
  <1>4. CASE AssignReturns(t)
    <2>1. PICK u \in Threads : u = src[t] /\ t # u /\ pc[u] = "lent"
      BY <1>4 DEF AssignReturns, PThreadJoin, JoinInv, TypeInv, SourceIsLent
    <2>2. /\ obj' = Moved(t, u)
          /\ pc'[t] = "idle" /\ pc'[u] = "idle"
          /\ \A v \in Threads \ {t, u} : pc'[v] = pc[v]
      BY <1>4, <2>1 DEF AssignReturns, JoinInv, TypeInv, Typed
    <2>3. /\ \A p \in Tids : Awaits(t, p)' <=> Awaits(u, p)
          /\ \A p \in Tids : ~Awaits(u, p)'
          /\ \A v \in Threads \ {t, u}, p \in Tids : Awaits(v, p)' <=> Awaits(v, p)
          /\ \A v \in Threads : pc'[v] = "spin" => obj'[v].state # "kRunning"
      BY <2>1, <2>2, MoveAwaits
    <2> QED
      BY <1>1, <1>2, <2>1, <2>3 DEF JoinInv, AwaitInv, AwaitedInv
  <1> QED  BY <1>3, <1>4

LEMMA AwaitStep ==
    ASSUME ~Restart, JoinInv, [Next]_vars
    PROVE  AwaitInv' /\ (~CancelFailures /\ AwaitedInv => AwaitedInv')
  <1>1. CASE \E t \in Threads : Call(t) \/ Return(t)
    BY <1>1, AwaitCall, AwaitMove, AwaitReturn DEF Call, Return
  <1>2. ASSUME NEW p \in Tids, Progress(p) \/ RunTerminates(p)
        PROVE  AwaitInv' /\ (AwaitedInv => AwaitedInv')
    <2>1. /\ UNCHANGED <<obj, pc, joined>>
          /\ \A q \in Tids :
               /\ pthread'[q].at = "unused" <=> pthread[q].at = "unused"
               /\ pthread[q].at = "exited" => pthread'[q] = pthread[q]
      BY <1>2, ThreadKeepsStage DEF JoinInv
    <2>2. \A v \in Threads, q \in Tids : Awaits(v, q)' <=> Awaits(v, q)
      BY <2>1 DEF Awaits
    <2>3. joined \subseteq Tids
      BY DEF JoinInv, TypeInv, Typed
    <2> QED
      BY <2>1, <2>2, <2>3 DEF JoinInv, AwaitInv, AwaitedInv
  <1>3. CASE UNCHANGED vars
    BY <1>3 DEF JoinInv, AwaitInv, AwaitedInv, Awaits
  <1> QED  BY <1>1, <1>2, <1>3 DEF Next, Quiet

LEMMA JoinInit == Init => JoinInv /\ AwaitedInv
  BY TypeInit, FrameInit
     DEF Init, JoinInv, GivenUpInv, JoinedInv, AwaitInv, AwaitedInv, Awaits,
         MovedFrom

LEMMA JoinInvariant ==
    ASSUME ~Restart
    PROVE  Spec => []JoinInv
  <1>1. JoinInv /\ [Next]_vars => JoinInv'
    BY TypeStep, FrameStep, GivenUpStep, JoinedStep, AwaitStep DEF JoinInv
  <1> QED  BY <1>1, JoinInit, PTL DEF Spec

(* pthread_join is called exactly once for every pthread that is created:  *)
(* until then exactly one object is going to, through every sequence of    *)
(* starts, moves, cancellations and destructors, if no object is started a *)
(* second time and pthread_cancel does not fail (thread.cc:144-165,        *)
(* 236-263).                                                               *)
THEOREM JoinedExactlyOnce ==
    ASSUME ~Restart, ~CancelFailures
    PROVE  Spec => []JoinedOnce
  <1>1. JoinInv /\ AwaitedInv /\ [Next]_vars => AwaitedInv'
    BY AwaitStep
  <1>2. Spec => []AwaitedInv
    BY <1>1, JoinInit, JoinInvariant, PTL DEF Spec
  <1>3. JoinInv /\ AwaitedInv => JoinedOnce
    BY DEF JoinInv, AwaitInv, AwaitedInv, JoinedOnce
  <1> QED  BY <1>2, <1>3, JoinInvariant, PTL

-----------------------------------------------------------------------------
(* What state_ says of the thread.                                         *)

LEMMA DoneCall ==
    ASSUME JoinInv, DoneInv, NEW t \in Threads,
           \/ \E r \in Runnables : Construct(t, r)
           \/ Start(t) \/ StartFails(t) \/ StartReturns(t) \/ Join(t)
           \/ Cancel(t) \/ Destroy(t)
    PROVE  DoneInv'
  <1> USE DEF JoinInv, TypeInv, Typed, ThreadFields, DoneInv, Idle
  <1>1. CASE \E r \in Runnables : Construct(t, r)
    BY <1>1 DEF Construct
  <1>2. CASE Start(t)
    <2>1. PICK p \in Tids :
            /\ pthread[p].at = "unused"
            /\ pthread' = [pthread EXCEPT ![p] =
                               [@ EXCEPT !.at = "created", !.frame = t]]
            /\ obj' = [obj EXCEPT ![t].tid = p]
      BY <1>2 DEF Start
    <2>2. /\ \A v \in Threads \ {t} : obj'[v] = obj[v] /\ pc'[v] = pc[v]
          /\ pc'[t] = "spin" /\ UNCHANGED joined
          /\ \A q \in Tids \ {p} : pthread'[q] = pthread[q]
      BY <1>2, <2>1 DEF Start
    <2>3. p \notin joined
      BY <2>1 DEF JoinedInv
    <2> QED  BY <2>2, <2>3
  <1>3. CASE StartFails(t)
    BY <1>3 DEF StartFails, AfterStart
  <1>4. CASE StartReturns(t)
    BY <1>4 DEF StartReturns, AfterStart
  <1>5. CASE Join(t)
    BY SMTT(30), <1>5 DEF Join, Waits, Drops
  <1>6. CASE Cancel(t)
    BY <1>6 DEF Cancel
  <1>7. CASE Destroy(t)
    BY <1>7 DEF Destroy, Waits, Drops
  <1> QED  BY <1>1, <1>2, <1>3, <1>4, <1>5, <1>6, <1>7

(* A move hands the state on together with the thread it speaks of.        *)
LEMMA DoneMoved ==
    ASSUME JoinInv, DoneInv, NEW t \in Threads, NEW u \in Threads, t # u,
           pc[u] \in {"idle", "lent"}, obj' = Moved(t, u),
           \A v \in Threads \ {t, u} : pc'[v] = pc[v],
           UNCHANGED pthread, joined \subseteq joined'
    PROVE  DoneInv'
  <1>1. /\ obj'[t] = obj[u] /\ obj'[u] = MovedFrom
        /\ \A v \in Threads \ {t, u} : obj'[v] = obj[v]
    BY MovedTyped DEF JoinInv, TypeInv
  <1> QED  BY <1>1 DEF DoneInv, MovedFrom

LEMMA DoneMove ==
    ASSUME JoinInv, DoneInv, NEW t \in Threads, NEW u \in Threads,
           MoveConstruct(t, u) \/ MoveAssign(t, u)
    PROVE  DoneInv'
  <1> USE DEF Idle
  <1>0. UNCHANGED <<pthread, joined>>
    BY DEF MoveConstruct, MoveAssign
  <1>1. CASE /\ UNCHANGED obj
             /\ \A v \in Threads : \/ pc[v] # "none" /\ pc[v] # "spin"
                                   \/ pc'[v] = pc[v]
    BY <1>0, <1>1 DEF DoneInv
  <1>2. CASE /\ t # u /\ pc[u] = "idle" /\ obj' = Moved(t, u)
             /\ \A v \in Threads \ {t, u} : pc'[v] = pc[v]
    BY <1>0, <1>2, DoneMoved
  <1>3. CASE MoveConstruct(t, u)
    BY <1>2, <1>3 DEF MoveConstruct
  <1>4. CASE MoveAssign(t, u)
    BY <1>1, <1>2, <1>4 DEF MoveAssign, Waits, JoinInv, TypeInv, Typed
  <1> QED  BY <1>3, <1>4

LEMMA DoneReturn ==
    ASSUME JoinInv, DoneInv, NEW t \in Threads,
           JoinReturns(t) \/ CancelReturns(t) \/ DestroyReturns(t) \/ AssignReturns(t)
    PROVE  DoneInv'
  <1>1. /\ obj[t].tid \in Tids
        /\ pthread[obj[t].tid].at = "exited"
        /\ joined' = joined \cup {obj[t].tid}
        /\ UNCHANGED pthread
    BY JoinerAwaits DEF JoinReturns, CancelReturns, DestroyReturns,
                        AssignReturns, Waiting, JoinInv
  <1>2. CASE JoinReturns(t) \/ CancelReturns(t)
    <2>1. /\ obj'[t].tid = obj[t].tid
          /\ \A v \in Threads \ {t} : obj'[v] = obj[v] /\ pc'[v] = pc[v]
      BY <1>2 DEF JoinReturns, CancelReturns, JoinInv, TypeInv, Typed,
                  ThreadFields
    <2> QED  BY <1>1, <2>1 DEF DoneInv
  <1>3. CASE DestroyReturns(t)
    <2>1. /\ pc'[t] = "none"
          /\ \A v \in Threads \ {t} : obj'[v] = obj[v] /\ pc'[v] = pc[v]
      BY <1>3 DEF DestroyReturns, JoinInv, TypeInv, Typed
    <2> QED  BY <1>1, <2>1 DEF DoneInv
  <1>4. CASE AssignReturns(t)
    <2>1. PICK u \in Threads : u = src[t] /\ t # u /\ pc[u] = "lent"
      BY <1>4 DEF AssignReturns, PThreadJoin, JoinInv, TypeInv, SourceIsLent
    <2>2. /\ obj' = Moved(t, u)
          /\ \A v \in Threads \ {t, u} : pc'[v] = pc[v]
      BY <1>4, <2>1 DEF AssignReturns, JoinInv, TypeInv, Typed
    <2> QED  BY <1>1, <2>1, <2>2, DoneMoved
  <1> QED  BY <1>2, <1>3, <1>4

LEMMA DoneStep == JoinInv /\ DoneInv /\ [Next]_vars => DoneInv'
  <1> SUFFICES ASSUME JoinInv, DoneInv, [Next]_vars PROVE DoneInv'
    OBVIOUS
  <1>1. CASE \E t \in Threads : Call(t) \/ Return(t)
    BY <1>1, DoneCall, DoneMove, DoneReturn DEF Call, Return
  <1>2. ASSUME NEW p \in Tids, Progress(p) \/ RunTerminates(p) PROVE DoneInv'
    <2>1. UNCHANGED <<obj, pc, joined>>
      BY <1>2, ThreadKeepsStage DEF JoinInv
    <2>2. \A q \in Tids : pthread[q].at = "exited" => pthread'[q].at = "exited"
      BY <1>2, ThreadKeepsStage DEF JoinInv
    <2>3. joined \subseteq Tids
      BY DEF JoinInv, TypeInv, Typed
    <2> QED  BY <2>1, <2>2, <2>3 DEF DoneInv
  <1>3. CASE UNCHANGED vars
    BY <1>3 DEF DoneInv
  <1> QED  BY <1>1, <1>2, <1>3 DEF Next, Quiet

(* An object that says it runs is past Start, so the handshake is over,    *)
(* and whoever is past Start and runs has not joined.                      *)
LEMMA RunningIsPastHandshake ==
    ASSUME JoinInv, NEW t \in Threads, pc[t] # "none", obj[t].state = "kRunning"
    PROVE  /\ obj[t].tid \in Tids \ joined
           /\ pthread[obj[t].tid].at \notin {"unused"} \cup Handshake
  <1>1. obj[t].tid \in Tids /\ Awaits(t, obj[t].tid)
    BY DEF JoinInv, TypeInv, WaitsForPThread, Awaits
  <1>2. pthread[obj[t].tid].at # "unused" /\ obj[t].tid \notin joined
    BY <1>1 DEF JoinInv, AwaitInv
  <1>3. ASSUME pthread[obj[t].tid].at \in Handshake PROVE FALSE
    <2>1. PICK u \in Threads : pc[u] = "spin" /\ obj[u].tid = obj[t].tid
      BY <1>1, <1>3 DEF JoinInv, FrameInv, FrameExists, TypeInv, Typed, PThread
    <2>2. Awaits(u, obj[t].tid)
      BY <2>1 DEF Awaits
    <2>3. u = t
      BY <1>1, <2>2 DEF JoinInv, AwaitInv
    <2> QED  BY <2>1, <2>3 DEF JoinInv, AwaitInv
  <1> QED  BY <1>1, <1>2, <1>3

(* What the client is told is true: kDone and kCanceled come after the end *)
(* of the thread, kRunning after the handshake and before the join, if no  *)
(* object is started a second time (thread.cc:208, 241, 261, 149-152).     *)
THEOREM StateIsTrue ==
    ASSUME ~Restart
    PROVE  Spec => []StateReflectsThread
  <1>1. Init => DoneInv
    BY DEF Init, DoneInv
  <1>2. Spec => []DoneInv
    BY <1>1, DoneStep, JoinInvariant, PTL DEF Spec
  <1>3. JoinInv /\ DoneInv => StateReflectsThread
    BY RunningIsPastHandshake DEF DoneInv, StateReflectsThread
  <1> QED  BY <1>2, <1>3, JoinInvariant, PTL

-----------------------------------------------------------------------------
(* What the refinement rests on.                                           *)
LifeInv == SafetyInv /\ JoinedInv /\ GivenInv

-----------------------------------------------------------------------------
(* What the steps do to the runnables.                                     *)

(* What p was given is what it holds, until it has exited.                 *)
LEMMA GivenIsTaken ==
    ASSUME NEW p \in Tids
    PROVE  /\ pthread[p].at # "exited" => Given(p) = Taken(p)
           /\ pthread[p].at \in Pending \cup {"exited"} =>
                Given(p) = pthread[p].runnable
  BY DEF Given, Taken, Pending

LEMMA GivenSame ==
    ASSUME UNCHANGED pthread, \A q \in Tids : Taken(q)' = Taken(q)
    PROVE  \A q \in Tids : Given(q)' = Given(q)
  BY DEF Given, Taken, Pending

(* A call of a client that is no Start: what the objects hold afterwards   *)
(* they held before, and t has deleted what it held or waited for a        *)
(* pthread, or neither.                                                    *)
LEMMA ClientEffect ==
    ASSUME LifeInv, Contract, NEW t \in Threads,
           \/ StartFails(t) \/ Join(t) \/ Cancel(t) \/ Destroy(t)
           \/ \E u \in Threads : MoveConstruct(t, u) \/ MoveAssign(t, u)
           \/ JoinReturns(t) \/ CancelReturns(t)
           \/ DestroyReturns(t) \/ AssignReturns(t)
    PROVE  /\ UNCHANGED <<pthread, built>>
           /\ \A q \in Tids : Taken(q)' = Taken(q)
           /\ \A v \in Threads : \/ Held(v)' = Null
                                 \/ \E w \in Threads : Held(v)' = Held(w)
           /\ \/ UNCHANGED <<deleted, joined>>
              \/ /\ Held(t) \in Owned
                 /\ deleted' = deleted \cup {Held(t)} /\ UNCHANGED joined
              \/ \E p \in Tids : /\ pthread[p].at = "exited"
                                 /\ joined' = joined \cup {p}
                                 /\ UNCHANGED deleted
  <1>1. UNCHANGED <<pthread, built, arg>>
    BY DEF StartFails, Join, Cancel, Destroy, MoveConstruct, MoveAssign,
           JoinReturns, CancelReturns, DestroyReturns, AssignReturns,
           PThreadJoin, Waits, Drops
  <1>2. \A q \in Tids : Taken(q)' = Taken(q)
    BY <1>1, TakenSame DEF LifeInv, SafetyInv
  <1>3. \A v \in Threads : \/ Held(v)' = Null
                           \/ \E w \in Threads : Held(v)' = Held(w)
    <2> USE DEF LifeInv, SafetyInv, TypeInv, Typed, ThreadFields, Idle
    <2>1. CASE StartFails(t)
      BY <2>1 DEF StartFails, AfterStart, Held
    <2>2. CASE Join(t)
      BY <2>2 DEF Join, Waits, Drops, Held
    <2>3. CASE Cancel(t)
      BY <2>3 DEF Cancel, Held
    <2>4. CASE Destroy(t)
      BY <2>4 DEF Destroy, Waits, Drops, Held
    <2>5. CASE JoinReturns(t) \/ CancelReturns(t) \/ DestroyReturns(t)
      BY <2>5 DEF JoinReturns, CancelReturns, DestroyReturns, PThreadJoin, Held
    <2>6. ASSUME NEW u \in Threads, t # u, obj' = Moved(t, u),
                 pc[u] \notin {"none", "spin"}, pc'[t] = "idle",
                 \A v \in Threads \ {t, u} : pc'[v] = pc[v]
          PROVE  \A v \in Threads : \/ Held(v)' = Null
                                    \/ \E w \in Threads : Held(v)' = Held(w)
      <3>1. /\ obj'[t] = obj[u] /\ obj'[u] = MovedFrom
            /\ \A v \in Threads \ {t, u} : obj'[v] = obj[v]
        BY <2>6, MovedTyped
      <3>2. /\ Held(t)' = Held(u) /\ Held(u)' = Null
            /\ \A v \in Threads \ {t, u} : Held(v)' = Held(v)
        BY <2>6, <3>1 DEF Held, MovedFrom
      <3> QED  BY <3>2
    <2>7. ASSUME NEW u \in Threads, MoveConstruct(t, u)
          PROVE  \A v \in Threads : \/ Held(v)' = Null
                                    \/ \E w \in Threads : Held(v)' = Held(w)
      BY <2>6, <2>7 DEF MoveConstruct
    <2>8. ASSUME NEW u \in Threads, MoveAssign(t, u)
          PROVE  \A v \in Threads : \/ Held(v)' = Null
                                    \/ \E w \in Threads : Held(v)' = Held(w)
      <3>1. CASE UNCHANGED <<obj, pc>>
        BY <3>1 DEF Held
      <3>2. CASE UNCHANGED obj /\ pc' = [pc EXCEPT ![t] = "assigning", ![u] = "lent"]
        BY <2>8, <3>2 DEF MoveAssign, Held
      <3>3. CASE t # u /\ obj' = Moved(t, u) /\ UNCHANGED pc
        BY <2>6, <2>8, <3>3 DEF MoveAssign
      <3> QED  BY <2>8, <3>1, <3>2, <3>3 DEF MoveAssign, Waits
    <2>9. CASE AssignReturns(t)
      <3>1. PICK u \in Threads : u = src[t] /\ t # u /\ pc[u] = "lent"
        BY <2>9 DEF AssignReturns, PThreadJoin, SourceIsLent
      <3>2. /\ obj' = Moved(t, u) /\ pc'[t] = "idle"
            /\ \A v \in Threads \ {t, u} : pc'[v] = pc[v]
        BY <2>9, <3>1 DEF AssignReturns
      <3> QED  BY <2>6, <3>1, <3>2
    <2> QED  BY <2>1, <2>2, <2>3, <2>4, <2>5, <2>7, <2>8, <2>9
  <1>4. \/ UNCHANGED <<deleted, joined>>
        \/ /\ Held(t) \in Owned
           /\ deleted' = deleted \cup {Held(t)} /\ UNCHANGED joined
        \/ \E p \in Tids : /\ pthread[p].at = "exited"
                           /\ joined' = joined \cup {p}
                           /\ UNCHANGED deleted
    <2>1. CASE /\ pc[t] = "idle" /\ MayDiscard(t) /\ Delete(DeletesRunner(t))
               /\ UNCHANGED joined
      <3>1. /\ deleted' = deleted \cup ({Held(t)} \ {Null})
            /\ Held(t) \in Owned \cup {Null}
        BY <2>1, DropIsSafe DEF LifeInv
      <3> QED  BY <2>1, <3>1
    <2>2. CASE \/ JoinReturns(t) \/ CancelReturns(t) \/ DestroyReturns(t)
               \/ AssignReturns(t)
      <3>1. /\ obj[t].tid \in Tids
            /\ pthread[obj[t].tid].at = "exited"
            /\ joined' = joined \cup {obj[t].tid}
        BY <2>2, JoinerAwaits DEF JoinReturns, CancelReturns, DestroyReturns,
                                  AssignReturns, Waiting, LifeInv,
                                  SafetyInv
      <3> QED
        BY <2>2, <3>1 DEF JoinReturns, CancelReturns, DestroyReturns,
                          AssignReturns, PThreadJoin
    <2> QED
      BY <2>1, <2>2 DEF StartFails, Join, Cancel, Destroy, MoveConstruct,
                        MoveAssign, Waits, Drops, Idle
  <1> QED  BY <1>1, <1>2, <1>3, <1>4

(* A step of a pthread changes nothing about what it was given.            *)
LEMMA ThreadKeepsGiven ==
    ASSUME LifeInv, NEW p \in Tids, Progress(p) \/ RunTerminates(p)
    PROVE  /\ \A q \in Tids : Given(q)' = Given(q)
           /\ \A q \in Tids \ {p} : pthread'[q] = pthread[q]
           /\ pthread[p].at = "exited" => pthread'[p] = pthread[p]
           /\ pthread'[p].at = "exited" /\ pthread[p].at # "exited" =>
                \/ pthread[p].at = "returned"
                \/ pthread[p].at = "running" /\ ~Unwinds
  <1> USE DEF LifeInv, SafetyInv, TypeInv, Typed, PThread, At
  <1>1. /\ \A q \in Tids \ {p} : pthread'[q] = pthread[q] /\ Taken(q)' = Taken(q)
        /\ Taken(p)' \in {Taken(p), Null}
    BY ThreadEffect
  <1>2. \A q \in Tids \ {p} : Given(q)' = Given(q)
    <2>1. ASSUME NEW q \in Tids \ {p} PROVE Given(q)' = Given(q)
      BY <1>1 DEF Given, Taken, Pending
    <2> QED  BY <2>1
  <1>3. CASE ReadArg(p)
    <2>1. FrameExists(p) /\ pthread[p].at = "created"
      BY <1>3 DEF ReadArg, FrameInv, Handshake
    <2> DEFINE a == arg[pthread[p].frame]
    <2>2. pthread' = [pthread EXCEPT ![p] =
                         [@ EXCEPT !.at = "bound", !.owned = a.owned,
                                   !.runnable = a.runnable]]
      BY <1>3, <2>1 DEF ReadArg
    <2>3. Given(p) = a.runnable
      BY <2>1 DEF Given, Pending
    <2> HIDE DEF a
    <2>4. pthread'[p].at = "bound" /\ pthread'[p].runnable = a.runnable
      BY <2>2
    <2>5. Given(p)' = Given(p)
      BY <2>3, <2>4 DEF Given, Pending
    <2> QED  BY <1>1, <1>2, <2>1, <2>4, <2>5
  <1>4. ASSUME pthread[p].at \in Pending \cup {"exited"},
               pthread'[p].at \in Pending \cup {"exited"},
               pthread'[p].runnable = pthread[p].runnable
        PROVE  Given(p)' = Given(p)
    BY <1>4 DEF Given, Pending
  <1>5. CASE Signal(p)
    <2>1. FrameExists(p) /\ pthread[p].at = "bound"
      BY <1>5 DEF Signal, FrameInv, Handshake
    <2>2. pthread' = [pthread EXCEPT ![p] =
                         [@ EXCEPT !.at = "ready", !.frame = Null]]
      BY <1>5, <2>1 DEF Signal
    <2>3. pthread'[p].at = "ready" /\ pthread'[p].runnable = pthread[p].runnable
      BY <2>2
    <2> QED  BY <1>1, <1>2, <1>4, <2>1, <2>3 DEF Pending
  <1>6. CASE BeginRun(p) \/ RunTerminates(p)
    <2>1. /\ pthread[p].at \in {"ready", "running"}
          /\ pthread'[p].at \in {"ready", "running"}
          /\ pthread'[p].runnable = pthread[p].runnable
      BY <1>6 DEF BeginRun, RunTerminates
    <2> QED  BY <1>1, <1>2, <1>4, <2>1 DEF Pending
  <1>7. CASE RunReturns(p) \/ RunCancelled(p) \/ Exit(p)
    <2>1. /\ pthread'[p].runnable = pthread[p].runnable
          /\ pthread[p].at \in {"running", "returned"}
          /\ pthread'[p].at \in {"returned", "exited"}
          /\ pthread'[p].at = "exited" =>
               pthread[p].at = "returned" \/ (pthread[p].at = "running" /\ ~Unwinds)
      BY <1>7 DEF RunReturns, RunCancelled, Exit
    <2> QED  BY <1>1, <1>2, <1>4, <2>1 DEF Pending
  <1> QED  BY <1>3, <1>5, <1>6, <1>7 DEF Progress

LEMMA GivenCall ==
    ASSUME LifeInv, Contract, NEW t \in Threads,
           \/ StartFails(t) \/ Join(t) \/ Cancel(t) \/ Destroy(t)
           \/ \E u \in Threads : MoveConstruct(t, u) \/ MoveAssign(t, u)
           \/ JoinReturns(t) \/ CancelReturns(t)
           \/ DestroyReturns(t) \/ AssignReturns(t)
    PROVE  GivenInv'
  <1>1. UNCHANGED <<pthread, built>> /\ deleted \subseteq deleted'
    BY ClientEffect
  <1>2. \A q \in Tids : Given(q)' = Given(q)
    BY ClientEffect, GivenSame
  <1>3. \A v \in Threads : \/ Held(v)' = Null
                           \/ \E w \in Threads : Held(v)' = Held(w)
    BY ClientEffect
  <1> QED
    BY <1>1, <1>2, <1>3, NullAssumption DEF GivenInv, LifeInv, Runnables

LEMMA GivenStart ==
    ASSUME LifeInv, Contract, NEW t \in Threads, Start(t)
    PROVE  GivenInv'
  <1>1. PICK p \in Tids :
          /\ Taken(p) = Null /\ Taken(p)' = Held(t)
          /\ pthread'[p].at = "created"
          /\ \A q \in Tids \ {p} :
               Taken(q)' = Taken(q) /\ pthread'[q] = pthread[q]
    BY StartEffect DEF LifeInv
  <1>2. /\ Held(t)' = Null
        /\ \A v \in Threads \ {t} : Held(v)' = Held(v)
        /\ UNCHANGED heapVars
    BY StartEffect DEF LifeInv
  <1>3. Given(p)' = Held(t)
    BY <1>1 DEF Given, Taken
  <1>4. \A q \in Tids \ {p} : Given(q)' = Given(q)
    <2>1. ASSUME NEW q \in Tids \ {p} PROVE Given(q)' = Given(q)
      BY <1>1 DEF Given, Taken, Pending
    <2> QED  BY <2>1
  <1>5. /\ Held(t) \in Owned => Held(t) \in built
        /\ \A v \in Threads \ {t} : Held(t) \in Owned => Held(v) # Held(t)
    BY DEF LifeInv, SafetyInv, CustodyInv
  <1> QED
    BY <1>1, <1>2, <1>3, <1>4, <1>5, NullAssumption
       DEF GivenInv, LifeInv, Runnables

LEMMA GivenStep == Contract /\ LifeInv /\ [Next]_vars => GivenInv'
  <1> SUFFICES ASSUME Contract, LifeInv, [Next]_vars PROVE GivenInv'
    OBVIOUS
  <1>1. ASSUME NEW t \in Threads, NEW r \in Runnables, Construct(t, r)
        PROVE  GivenInv'
    <2>1. /\ Held(t)' = r /\ \A v \in Threads \ {t} : Held(v)' = Held(v)
          /\ r \notin built /\ built' = built \cup ({r} \cap Owned)
          /\ UNCHANGED <<pthread, deleted>>
          /\ \A q \in Tids : Taken(q)' = Taken(q)
      BY <1>1, ConstructEffect DEF LifeInv
    <2>2. \A q \in Tids : Given(q)' = Given(q)
      BY <2>1, GivenSame
    <2> QED  BY <2>1, <2>2 DEF GivenInv, LifeInv
  <1>2. ASSUME NEW t \in Threads, StartReturns(t) PROVE GivenInv'
    <2>1. /\ \A v \in Threads : Held(v)' = Held(v)
          /\ UNCHANGED <<pthread, built, deleted>>
          /\ \A q \in Tids : Taken(q)' = Taken(q)
      BY <1>2, StartReturnsEffect DEF LifeInv
    <2>2. \A q \in Tids : Given(q)' = Given(q)
      BY <2>1, GivenSame
    <2> QED  BY <2>1, <2>2 DEF GivenInv, LifeInv
  <1>3. ASSUME NEW p \in Tids, Progress(p) \/ RunTerminates(p)
        PROVE  GivenInv'
    <2>1. /\ \A q \in Tids : Given(q)' = Given(q)
          /\ \A q \in Tids \ {p} : pthread'[q] = pthread[q]
          /\ pthread[p].at = "exited" => pthread'[p] = pthread[p]
          /\ pthread'[p].at = "exited" /\ pthread[p].at # "exited" =>
               \/ pthread[p].at = "returned"
               \/ pthread[p].at = "running" /\ ~Unwinds
      BY <1>3, ThreadKeepsGiven
    <2>2. /\ UNCHANGED built /\ deleted \subseteq deleted'
          /\ \A v \in Threads : Held(v)' = Held(v)
          /\ Taken(p)' \in {Taken(p), Null}
          /\ Taken(p) \in Owned =>
               Taken(p)' = Taken(p) \/ Taken(p) \in deleted' \/ ~Unwinds
      BY <1>3, ThreadEffect DEF LifeInv
    <2>3. pthread'[p].at = "exited" /\ pthread'[p].runnable \in Owned =>
            pthread'[p].runnable \in deleted' \/ ~Unwinds
      <3>1. CASE pthread[p].at = "exited"
        BY <2>1, <2>2, <3>1 DEF GivenInv, LifeInv
      <3>2. CASE pthread[p].at # "exited" /\ pthread'[p].at = "exited" /\ Unwinds
        <4>1. Given(p)' = pthread'[p].runnable /\ Taken(p)' = Null
          BY <3>2 DEF Given, Taken, Pending
        <4>2. Given(p) = Taken(p)
          BY <3>2, GivenIsTaken
        <4> QED
          BY <2>1, <2>2, <4>1, <4>2, NullAssumption DEF Runnables
      <3> QED  BY <3>1, <3>2
    <2> QED
      BY <2>1, <2>2, <2>3 DEF GivenInv, LifeInv
  <1>4. CASE UNCHANGED vars
    <2>1. /\ \A q \in Tids : Given(q)' = Given(q)
          /\ \A v \in Threads : Held(v)' = Held(v)
      BY <1>4 DEF Given, Held
    <2> QED  BY <1>4, <2>1 DEF GivenInv, LifeInv
  <1> QED
    BY <1>1, <1>2, <1>3, <1>4, GivenCall, GivenStart
       DEF Next, Call, Return, Quiet

LEMMA LifeInvariant ==
    ASSUME Contract
    PROVE  Spec => []LifeInv
  <1>1. Init => GivenInv
    BY NullAssumption DEF Init, GivenInv, Given, Held, Pending, Runnables
  <1>2. LifeInv /\ [Next]_vars => GivenInv'
    BY GivenStep
  <1>3. Spec => []SafetyInv
    BY SafetyInvariant
  <1>4. Spec => []JoinedInv
    <2>1. Init => JoinedInv
      BY DEF Init, JoinedInv
    <2>2. SafetyInv /\ JoinedInv /\ [Next]_vars => JoinedInv'
      BY JoinedStep DEF SafetyInv
    <2> QED  BY <1>3, <2>1, <2>2, PTL DEF Spec
  <1> QED  BY <1>1, <1>2, <1>3, <1>4, PTL DEF Spec, LifeInv

-----------------------------------------------------------------------------
(* The steps of Thread as steps of RunnableLife.                           *)

Phase     == [r \in Owned |-> LifePhase(r)]
Destroyed == deleted \cap Owned
Awaited   == {r \in Owned : \E p \in joined : pthread[p].runnable = r}

LifeStutters == Phase' = Phase /\ Destroyed' = Destroyed /\ Awaited' = Awaited

LEMMA LifeUnchanged ==
    ASSUME LifeStutters
    PROVE  UNCHANGED Life!lvars
  BY DEF LifeStutters, Life!lvars, Phase, Destroyed, Awaited

(* One runnable changes its phase and the others do not.                   *)
LEMMA PhaseChanges ==
    ASSUME NEW r \in Owned, NEW x, LifePhase(r)' = x,
           \A s \in Owned \ {r} : LifePhase(s)' = LifePhase(s)
    PROVE  Phase' = [Phase EXCEPT ![r] = x]
  BY DEF Phase

LEMMA PhaseStays ==
    ASSUME \A s \in Owned : LifePhase(s)' = LifePhase(s)
    PROVE  Phase' = Phase
  BY DEF Phase

(* The steps of RunnableLife, in these terms.                              *)
LEMMA SubmitStep ==
    ASSUME NEW r \in Owned, LifePhase(r) = "absent", Phase' = [Phase EXCEPT ![r] = "held"],
           Destroyed' = Destroyed, Awaited' = Awaited
    PROVE  Life!Next
  <1>1. Life!Submit(r)
    BY DEF Life!Submit, Phase, Destroyed, Awaited
  <1> QED  BY <1>1 DEF Life!Next

LEMMA BeginStep ==
    ASSUME NEW r \in Owned, LifePhase(r) = "held", Phase' = [Phase EXCEPT ![r] = "running"],
           Destroyed' = Destroyed, Awaited' = Awaited
    PROVE  Life!Next
  <1>1. Life!Begin(r)
    BY DEF Life!Begin, Phase, Destroyed, Awaited
  <1> QED  BY <1>1 DEF Life!Next

LEMMA DropStep ==
    ASSUME NEW r \in Owned, LifePhase(r) = "held", Phase' = [Phase EXCEPT ![r] = "over"],
           Destroyed' = Destroyed \cup {r}, Awaited' = Awaited
    PROVE  Life!Next
  <1>1. Life!Drop(r)
    BY DEF Life!Drop, Phase, Destroyed, Awaited
  <1> QED  BY <1>1 DEF Life!Next

LEMMA EndStep ==
    ASSUME NEW r \in Owned, LifePhase(r) = "running", Phase' = [Phase EXCEPT ![r] = "over"],
           Destroyed' = Destroyed, Awaited' = Awaited
    PROVE  Life!Next
  <1>1. Life!End(r)
    BY DEF Life!End, Phase, Destroyed, Awaited
  <1> QED  BY <1>1 DEF Life!Next

LEMMA DestroyStep ==
    ASSUME NEW r \in Owned, LifePhase(r) = "over", r \notin Destroyed, Phase' = Phase,
           Destroyed' = Destroyed \cup {r}, Awaited' = Awaited
    PROVE  Life!Next
  <1>1. Life!Destroy(r)
    BY DEF Life!Destroy, Phase, Destroyed, Awaited
  <1> QED  BY <1>1 DEF Life!Next

LEMMA WaitStep ==
    ASSUME NEW r \in Owned, LifePhase(r) = "over", r \in Destroyed \/ ~Unwinds, Phase' = Phase,
           Destroyed' = Destroyed, Awaited' = Awaited \cup {r}
    PROVE  Life!Next
  <1>1. Life!Await(r)
    BY DEF Life!Await, Phase, Destroyed, Awaited
  <1> QED  BY <1>1 DEF Life!Next

(* A runnable that only one party was given, or none, has a plain phase.   *)
LEMMA NotGiven ==
    ASSUME LifeInv, NEW r \in Owned, \A p \in Tids : Given(p) # r
    PROVE  /\ r \notin built => LifePhase(r) = "absent"
           /\ r \in built \ deleted => LifePhase(r) = "held"
  <1>1. ~InRun(r) /\ ~Ran(r)
    BY DEF InRun, Ran, Given, Pending
  <1>2. ASSUME r \notin built PROVE LifePhase(r) = "absent"
    BY <1>2 DEF LifePhase
  <1>3. ASSUME r \in built \ deleted PROVE LifePhase(r) = "held"
    BY <1>1, <1>3 DEF LifePhase
  <1> QED  BY <1>2, <1>3

LEMMA GivenTo ==
    ASSUME LifeInv, NEW r \in Owned, NEW p \in Tids, Given(p) = r
    PROVE  /\ r \in built
           /\ pthread[p].at \notin {"running", "returned", "exited"} /\ r \notin deleted
                => LifePhase(r) = "held"
           /\ pthread[p].at = "running" => LifePhase(r) = "running"
           /\ pthread[p].at \in {"returned", "exited"} => LifePhase(r) = "over"
  <1>1. \A q \in Tids \ {p} : Given(q) # r
    BY DEF LifeInv, GivenInv
  <1>2. \A q \in Tids \ {p} :
          /\ ~(pthread[q].at = "running" /\ pthread[q].runnable = r)
          /\ ~(pthread[q].at \in {"returned", "exited"} /\ pthread[q].runnable = r)
    BY <1>1 DEF Given, Pending
  <1>3. r \in built
    BY DEF LifeInv, GivenInv
  <1>4. pthread[p].at \in {"running", "returned", "exited"} => pthread[p].runnable = r
    BY DEF Given, Pending
  <1>5. /\ InRun(r) <=> pthread[p].at = "running"
        /\ Ran(r) <=> pthread[p].at \in {"returned", "exited"}
    BY <1>2, <1>4 DEF InRun, Ran
  <1>6. ASSUME pthread[p].at \notin {"running", "returned", "exited"}, r \notin deleted
        PROVE  LifePhase(r) = "held"
    BY <1>3, <1>5, <1>6 DEF LifePhase
  <1>7. ASSUME pthread[p].at = "running" PROVE LifePhase(r) = "running"
    BY <1>3, <1>5, <1>7 DEF LifePhase
  <1>8. ASSUME pthread[p].at \in {"returned", "exited"} PROVE LifePhase(r) = "over"
    BY <1>3, <1>5, <1>8 DEF LifePhase
  <1> QED  BY <1>3, <1>6, <1>7, <1>8

(* The phase depends on what was given to whom, on where the pthreads are  *)
(* and on what has been built and deleted.                                 *)
LEMMA SamePhase ==
    ASSUME UNCHANGED pthread, NEW s \in Owned,
           s \in built' <=> s \in built, s \in deleted' <=> s \in deleted
    PROVE  LifePhase(s)' = LifePhase(s)
  BY DEF LifePhase, InRun, Ran

-----------------------------------------------------------------------------

LEMMA LifeConstruct ==
    ASSUME LifeInv, LifeInv', NEW t \in Threads, NEW r \in Runnables, Construct(t, r)
    PROVE  Life!Next \/ LifeStutters
  <1>1. /\ r \notin built \cup deleted
        /\ built' = built \cup ({r} \cap Owned)
        /\ UNCHANGED <<pthread, deleted>>
    BY ConstructEffect DEF LifeInv
  <1>2. UNCHANGED joined
    BY DEF Construct
  <1>3. Destroyed' = Destroyed /\ Awaited' = Awaited
    BY <1>1, <1>2 DEF Destroyed, Awaited
  <1>4. CASE r \in Owned
    <2>1. \A p \in Tids : Given(p) # r
      BY <1>1, <1>4 DEF LifeInv, GivenInv
    <2>2. \A p \in Tids : Given(p)' = Given(p)
      <3>1. \A q \in Tids : Taken(q)' = Taken(q)
        BY ConstructEffect DEF LifeInv
      <3> QED  BY <1>1, <3>1, GivenSame
    <2>3. LifePhase(r) = "absent"
      BY <1>1, <1>4, <2>1, NotGiven
    <2>4. r \in built' /\ r \notin deleted' /\ ~InRun(r)' /\ ~Ran(r)'
      BY <1>1, <1>4, <2>1 DEF InRun, Ran, Given, Pending
    <2>5. LifePhase(r)' = "held"
      BY <2>4 DEF LifePhase
    <2>6. \A s \in Owned \ {r} : LifePhase(s)' = LifePhase(s)
      BY <1>1, SamePhase
    <2>7. Phase' = [Phase EXCEPT ![r] = "held"]
      BY <1>4, <2>5, <2>6, PhaseChanges
    <2> QED  BY <1>3, <1>4, <2>3, <2>7, SubmitStep
  <1>5. CASE r \notin Owned
    <2>1. \A s \in Owned : LifePhase(s)' = LifePhase(s)
      BY <1>1, <1>5, SamePhase
    <2> QED  BY <1>3, <2>1, PhaseStays DEF LifeStutters
  <1> QED  BY <1>4, <1>5

LEMMA LifeStart ==
    ASSUME LifeInv, NEW t \in Threads, Start(t) \/ StartReturns(t)
    PROVE  LifeStutters
  <1>1. UNCHANGED <<joined, built, deleted>>
    BY DEF Start, StartReturns
  <1>2. \/ UNCHANGED pthread
        \/ \E p \in Tids :
             /\ pthread[p].at = "unused" /\ pthread'[p].at = "created"
             /\ \A q \in Tids \ {p} : pthread'[q] = pthread[q]
    <2>1. CASE Start(t)
      <3>1. PICK p \in Tids :
              /\ pthread[p].at = "unused"
              /\ pthread' = [pthread EXCEPT ![p] =
                                 [@ EXCEPT !.at = "created", !.frame = t]]
        BY <2>1 DEF Start
      <3> QED  BY <3>1 DEF LifeInv, SafetyInv, TypeInv, Typed, PThread
    <2>2. CASE StartReturns(t)
      BY <2>2 DEF StartReturns
    <2> QED  BY <2>1, <2>2
  <1>3. \A q \in Tids : \/ pthread'[q] = pthread[q]
                        \/ /\ pthread[q].at \in {"unused", "created"}
                           /\ pthread'[q].at \in {"unused", "created"}
    BY <1>2
  <1>4. \A s \in Owned : (InRun(s)' <=> InRun(s)) /\ (Ran(s)' <=> Ran(s))
    BY <1>3 DEF InRun, Ran
  <1>5. \A s \in Owned : LifePhase(s)' = LifePhase(s)
    BY <1>1, <1>4 DEF LifePhase
  <1>6. \A q \in joined : q \in Tids /\ pthread[q].at = "exited"
    BY DEF LifeInv, SafetyInv, JoinedInv, TypeInv, Typed
  <1>7. Awaited' = Awaited /\ Destroyed' = Destroyed
    BY <1>1, <1>3, <1>6 DEF Awaited, Destroyed
  <1> QED  BY <1>5, <1>7, PhaseStays DEF LifeStutters

LEMMA LifeCall ==
    ASSUME LifeInv, LifeInv', Contract, NEW t \in Threads,
           \/ StartFails(t) \/ Join(t) \/ Cancel(t) \/ Destroy(t)
           \/ \E u \in Threads : MoveConstruct(t, u) \/ MoveAssign(t, u)
           \/ JoinReturns(t) \/ CancelReturns(t)
           \/ DestroyReturns(t) \/ AssignReturns(t)
    PROVE  Life!Next \/ LifeStutters
  <1>1. UNCHANGED <<pthread, built>>
    BY ClientEffect
  <1>2. CASE UNCHANGED <<deleted, joined>>
    <2>1. \A s \in Owned : LifePhase(s)' = LifePhase(s)
      BY <1>1, <1>2, SamePhase
    <2>2. Awaited' = Awaited /\ Destroyed' = Destroyed
      BY <1>1, <1>2 DEF Awaited, Destroyed
    <2> QED  BY <2>1, <2>2, PhaseStays DEF LifeStutters
  <1>3. CASE /\ Held(t) \in Owned
             /\ deleted' = deleted \cup {Held(t)} /\ UNCHANGED joined
    <2>1. PICK r \in Owned : r = Held(t)
      BY <1>3
    <2>2. r \in built \ deleted /\ \A p \in Tids : Given(p) # r
      BY <1>3, <2>1 DEF LifeInv, SafetyInv, CustodyInv, GivenInv
    <2>3. LifePhase(r) = "held"
      BY <2>2, NotGiven
    <2>4. r \in built' /\ r \in deleted' /\ ~InRun(r)'
      BY <1>1, <1>3, <2>1, <2>2 DEF InRun, Given, Pending
    <2>5. LifePhase(r)' = "over"
      BY <2>4 DEF LifePhase
    <2>6. \A s \in Owned \ {r} : LifePhase(s)' = LifePhase(s)
      BY <1>1, <1>3, <2>1, SamePhase
    <2>7. Phase' = [Phase EXCEPT ![r] = "over"]
      BY <2>5, <2>6, PhaseChanges
    <2>8. Destroyed' = Destroyed \cup {r} /\ Awaited' = Awaited
      BY <1>1, <1>3, <2>1 DEF Destroyed, Awaited
    <2> QED  BY <2>3, <2>7, <2>8, DropStep
  <1>4. ASSUME NEW p \in Tids, pthread[p].at = "exited",
               joined' = joined \cup {p}, UNCHANGED deleted
        PROVE  Life!Next \/ LifeStutters
    <2>1. Phase' = Phase
      <3>1. \A s \in Owned : LifePhase(s)' = LifePhase(s)
        BY <1>1, <1>4, SamePhase
      <3> QED  BY <3>1, PhaseStays
    <2>2. Destroyed' = Destroyed
      BY <1>4 DEF Destroyed
    <2>3. CASE pthread[p].runnable \in Owned
      <3>1. PICK r \in Owned : r = pthread[p].runnable
        BY <2>3
      <3>2. Given(p) = r
        BY <1>4, <3>1 DEF Given, Pending
      <3>3. LifePhase(r) = "over"
        BY <1>4, <3>2, GivenTo
      <3>4. r \in Destroyed \/ ~Unwinds
        BY <1>4, <3>1 DEF LifeInv, GivenInv, Destroyed
      <3>5. Awaited' = Awaited \cup {r}
        BY <1>1, <1>4, <3>1 DEF Awaited
      <3> QED  BY <2>1, <2>2, <3>3, <3>4, <3>5, WaitStep
    <2>4. CASE pthread[p].runnable \notin Owned
      <3>1. Awaited' = Awaited
        BY <1>1, <1>4, <2>4 DEF Awaited
      <3> QED  BY <2>1, <2>2, <3>1 DEF LifeStutters
    <2> QED  BY <2>3, <2>4
  <1> QED
    BY <1>2, <1>3, <1>4, ClientEffect

(* What a step of a pthread leaves alone.                                  *)
LEMMA ThreadKeeps ==
    ASSUME LifeInv, NEW p \in Tids, Progress(p) \/ RunTerminates(p)
    PROVE  /\ UNCHANGED built
           /\ \A q \in Tids \ {p} : pthread'[q] = pthread[q]
           /\ Awaited' = Awaited
           /\ \A s \in Owned : Given(p) # s =>
                /\ LifePhase(s)' = LifePhase(s)
                /\ s \in deleted' <=> s \in deleted
           /\ \A q \in Tids : Given(q)' = Given(q)
  <1>1. /\ \A q \in Tids : Given(q)' = Given(q)
        /\ \A q \in Tids \ {p} : pthread'[q] = pthread[q]
        /\ pthread[p].at = "exited" => pthread'[p] = pthread[p]
    BY ThreadKeepsGiven
  <1>2. /\ UNCHANGED built /\ deleted \subseteq deleted'
        /\ deleted' \subseteq deleted \cup ({Taken(p)} \cap Owned)
    BY ThreadEffect DEF LifeInv
  <1>3. /\ UNCHANGED joined
        /\ \A q \in joined : q \in Tids /\ pthread[q].at = "exited"
    <2>1. UNCHANGED joined
      BY ThreadKeepsStage DEF LifeInv, SafetyInv
    <2> QED  BY <2>1 DEF LifeInv, SafetyInv, JoinedInv, TypeInv, Typed
  <1>4. Awaited' = Awaited
    <2>1. \A q \in joined : pthread'[q] = pthread[q]
      BY <1>1, <1>3
    <2> QED  BY <1>3, <2>1 DEF Awaited
  <1>5. ASSUME NEW s \in Owned, Given(p) # s
        PROVE  /\ LifePhase(s)' = LifePhase(s)
               /\ s \in deleted' <=> s \in deleted
    <2>1. s # Taken(p) \/ s \in deleted
      <3>1. pthread[p].at # "exited" => Given(p) = Taken(p)
        BY GivenIsTaken
      <3>2. pthread[p].at = "exited" => Taken(p) = Null
        BY DEF Taken, Pending
      <3> QED  BY <1>5, <3>1, <3>2, NullAssumption DEF Runnables
    <2>2. s \in deleted' <=> s \in deleted
      BY <1>2, <2>1
    <2>3. /\ ~(pthread[p].at = "running" /\ pthread[p].runnable = s)
          /\ ~(pthread[p].at \in {"returned", "exited"} /\ pthread[p].runnable = s)
      BY <1>5 DEF Given, Pending
    <2>4. Given(p)' # s
      BY <1>1, <1>5
    <2>5. /\ ~(pthread'[p].at = "running" /\ pthread'[p].runnable = s)
          /\ ~(pthread'[p].at \in {"returned", "exited"} /\ pthread'[p].runnable = s)
      BY <2>4 DEF Given, Pending
    <2>6. (InRun(s)' <=> InRun(s)) /\ (Ran(s)' <=> Ran(s))
      BY <1>1, <2>3, <2>5 DEF InRun, Ran
    <2> QED  BY <1>2, <2>2, <2>6 DEF LifePhase
  <1> QED  BY <1>1, <1>2, <1>4, <1>5

(* What becomes of the runnable p was given.                               *)
LEMMA LifeThread ==
    ASSUME LifeInv, LifeInv', NEW p \in Tids, Progress(p) \/ RunTerminates(p)
    PROVE  Life!Next \/ LifeStutters
  <1> USE DEF At
  <1>1. /\ Awaited' = Awaited /\ UNCHANGED built
        /\ \A q \in Tids : Given(q)' = Given(q)
        /\ \A s \in Owned : Given(p) # s =>
             /\ LifePhase(s)' = LifePhase(s)
             /\ s \in deleted' <=> s \in deleted
    BY ThreadKeeps
  <1>2. CASE Given(p) \notin Owned
    <2>1. Destroyed' = Destroyed
      BY <1>1, <1>2 DEF Destroyed
    <2>2. Phase' = Phase
      BY <1>1, <1>2, PhaseStays
    <2> QED  BY <1>1, <2>1, <2>2 DEF LifeStutters
  <1>3. CASE Given(p) \in Owned
    <2>1. PICK r \in Owned : r = Given(p)
      BY <1>3
    <2>2. /\ \A s \in Owned \ {r} : LifePhase(s)' = LifePhase(s)
          /\ \A s \in Owned \ {r} : s \in deleted' <=> s \in deleted
      BY <1>1, <2>1
    <2>3. r \in deleted => pthread[p].at = "exited"
      <3>1. pthread[p].at # "exited" => Taken(p) = r
        BY <2>1, GivenIsTaken
      <3> QED  BY <3>1 DEF LifeInv, SafetyInv, CustodyInv
    <2>4. /\ pthread[p].at \notin {"running", "returned", "exited"} /\ r \notin deleted
               => LifePhase(r) = "held"
          /\ pthread[p].at = "running" => LifePhase(r) = "running"
          /\ pthread[p].at \in {"returned", "exited"} => LifePhase(r) = "over"
      BY <2>1, GivenTo
    <2>5. /\ r \in built'
          /\ pthread'[p].at \notin {"running", "returned", "exited"} /\ r \notin deleted'
               => LifePhase(r)' = "held"
          /\ pthread'[p].at = "running" => LifePhase(r)' = "running"
          /\ pthread'[p].at \in {"returned", "exited"} => LifePhase(r)' = "over"
      <3>1. /\ r \in built' /\ Given(p)' = r
            /\ \A q \in Tids \ {p} : Given(q)' # r
        BY <1>1, <2>1 DEF LifeInv, GivenInv
      <3>2. /\ InRun(r)' <=> pthread'[p].at = "running"
            /\ Ran(r)' <=> pthread'[p].at \in {"returned", "exited"}
        <4>1. \A q \in Tids \ {p} :
                /\ ~(pthread'[q].at = "running" /\ pthread'[q].runnable = r)
                /\ ~(pthread'[q].at \in {"returned", "exited"} /\ pthread'[q].runnable = r)
          BY <3>1 DEF Given, Pending
        <4>2. pthread'[p].at \in {"running", "returned", "exited"}
                => pthread'[p].runnable = r
          BY <3>1 DEF Given, Pending
        <4> QED  BY <4>1, <4>2 DEF InRun, Ran
      <3> QED  BY <3>1, <3>2 DEF LifePhase
    <2>6. ASSUME LifePhase(r)' = LifePhase(r), r \in deleted' <=> r \in deleted
          PROVE  LifeStutters
      <3>1. Phase' = Phase
        BY <2>2, <2>6, PhaseStays
      <3>2. Destroyed' = Destroyed
        BY <2>2, <2>6 DEF Destroyed
      <3> QED  BY <1>1, <3>1, <3>2 DEF LifeStutters
    <2>7. CASE ReadArg(p) \/ Signal(p)
      <3>1. /\ FrameExists(p) /\ pthread[p].at \in {"created", "bound"}
            /\ pthread'[p].at \in {"bound", "ready"} /\ UNCHANGED deleted
        <4>1. FrameExists(p)
          BY <2>7 DEF ReadArg, Signal, LifeInv, SafetyInv, FrameInv, Handshake
        <4>2. CASE ReadArg(p)
          <5> DEFINE a == arg[pthread[p].frame]
          <5>1. pthread' = [pthread EXCEPT ![p] =
                               [@ EXCEPT !.at = "bound", !.owned = a.owned,
                                         !.runnable = a.runnable]]
            BY <4>1, <4>2 DEF ReadArg
          <5> HIDE DEF a
          <5> QED
            BY <4>1, <4>2, <5>1 DEF ReadArg, LifeInv, SafetyInv, TypeInv, Typed,
                                    PThread
        <4>3. CASE Signal(p)
          <5>1. pthread' = [pthread EXCEPT ![p] =
                               [@ EXCEPT !.at = "ready", !.frame = Null]]
            BY <4>1, <4>3 DEF Signal
          <5> QED
            BY <4>1, <4>3, <5>1 DEF Signal, LifeInv, SafetyInv, TypeInv, Typed,
                                    PThread
        <4> QED  BY <2>7, <4>2, <4>3
      <3> QED  BY <2>3, <2>4, <2>5, <2>6, <3>1
    <2>8. CASE BeginRun(p)
      <3>1. pthread[p].at = "ready" /\ pthread[p].runnable = r /\ r \notin deleted
        BY <2>1, <2>3, <2>8 DEF BeginRun, Given, Pending
      <3>2. pthread'[p].at = "running" /\ UNCHANGED deleted
        BY <2>8, <3>1 DEF BeginRun, Runnables, LifeInv, SafetyInv, TypeInv,
                          Typed, PThread
      <3>3. LifePhase(r) = "held" /\ LifePhase(r)' = "running"
        BY <2>4, <2>5, <3>1, <3>2
      <3>4. Phase' = [Phase EXCEPT ![r] = "running"]
        BY <2>2, <3>3, PhaseChanges
      <3>5. Destroyed' = Destroyed
        BY <3>2 DEF Destroyed
      <3> QED  BY <1>1, <3>3, <3>4, <3>5, BeginStep
    <2>9. CASE RunReturns(p) \/ RunCancelled(p)
      <3>1. /\ pthread[p].at = "running" /\ UNCHANGED deleted
            /\ pthread'[p].at \in {"returned", "exited"}
        BY <2>9 DEF RunReturns, RunCancelled, LifeInv, SafetyInv, TypeInv,
                    Typed, PThread
      <3>2. LifePhase(r) = "running" /\ LifePhase(r)' = "over"
        BY <2>4, <2>5, <3>1
      <3>3. Phase' = [Phase EXCEPT ![r] = "over"]
        BY <2>2, <3>2, PhaseChanges
      <3>4. Destroyed' = Destroyed
        BY <3>1 DEF Destroyed
      <3> QED  BY <1>1, <3>2, <3>3, <3>4, EndStep
    <2>10. CASE RunTerminates(p)
      <3>1. pthread[p].at = "running" /\ UNCHANGED <<pthread, deleted>>
        BY <2>10 DEF RunTerminates
      <3> QED  BY <2>4, <2>5, <2>6, <3>1
    <2>11. CASE Exit(p)
      <3>1. pthread[p].at = "returned" /\ pthread[p].runnable = r /\ r \notin deleted
        BY <2>1, <2>3, <2>11 DEF Exit, Given, Pending
      <3>2. pthread'[p].at = "exited"
        BY <2>11 DEF Exit, LifeInv, SafetyInv, TypeInv, Typed, PThread
      <3>3. pthread[p].owned
        BY <3>1, NullAssumption
           DEF LifeInv, SafetyInv, FlagInv, Flagged, Pending, Runnables
      <3>4. deleted' = deleted \cup {r}
        BY <2>11, <3>1, <3>3, NullAssumption
           DEF Exit, Delete, RunnerDeleter, Runnables
      <3>5. LifePhase(r) = "over" /\ LifePhase(r)' = LifePhase(r)
        BY <2>4, <2>5, <3>1, <3>2
      <3>6. Phase' = Phase
        BY <2>2, <3>5, PhaseStays
      <3>7. r \notin Destroyed /\ Destroyed' = Destroyed \cup {r}
        BY <3>1, <3>4 DEF Destroyed
      <3> QED  BY <1>1, <3>5, <3>6, <3>7, DestroyStep
    <2> QED  BY <2>7, <2>8, <2>9, <2>10, <2>11 DEF Progress
  <1> QED  BY <1>2, <1>3

LEMMA LifeNext ==
    ASSUME Contract, LifeInv, LifeInv', [Next]_vars
    PROVE  [Life!Next]_(Life!lvars)
  <1>1. CASE \E t \in Threads : Call(t) \/ Return(t)
    <2>1. Life!Next \/ LifeStutters
      BY <1>1, LifeConstruct, LifeStart, LifeCall DEF Call, Return
    <2> QED  BY <2>1, LifeUnchanged
  <1>2. CASE \E p \in Tids : Progress(p) \/ RunTerminates(p)
    <2>1. Life!Next \/ LifeStutters
      BY <1>2, LifeThread
    <2> QED  BY <2>1, LifeUnchanged
  <1>3. CASE UNCHANGED vars
    <2>1. \A s \in Owned : LifePhase(s)' = LifePhase(s)
      BY <1>3, SamePhase
    <2>2. Destroyed' = Destroyed /\ Awaited' = Awaited
      BY <1>3 DEF Destroyed, Awaited
    <2> QED  BY <2>1, <2>2, PhaseStays, LifeUnchanged DEF LifeStutters
  <1> QED  BY <1>1, <1>2, <1>3 DEF Next, Quiet

LEMMA LifeInit == Init => Life!Init
  <1> SUFFICES ASSUME Init PROVE Life!Init
    OBVIOUS
  <1>1. \A r \in Owned : LifePhase(r) = "absent"
    BY DEF Init, LifePhase
  <1> QED  BY <1>1 DEF Init, Life!Init

(* Whatever the clients, the pthreads and the scheduler do within the      *)
(* contract, every step is one that RunnableLife allows, or nothing it     *)
(* speaks of: a runnable a Thread owns is run at most once, is destroyed   *)
(* at most once and not before its Run is over, and whoever has waited for *)
(* its thread finds it over and destroyed (thread.cc:70-113, 191-267).     *)
THEOREM ThreadImplementsLife ==
    ASSUME Contract
    PROVE  Spec => LifeSpec
  <1>1. Init => Life!Init
    BY LifeInit
  <1>2. LifeInv /\ LifeInv' /\ [Next]_vars => [Life!Next]_(Life!lvars)
    BY LifeNext
  <1> QED
    BY <1>1, <1>2, LifeInvariant, PTL DEF Spec, LifeSpec, Life!Spec
=============================================================================
