------------------------ MODULE ThreadSuspend_proofs ------------------------
(***************************************************************************)
(* What ThreadSuspend guarantees, for any number of threads: once          *)
(* suspension has been initialised (SpecWarm), and from the start of the   *)
(* program (SpecCold), when threads still race through its initialisation; *)
(* and that the initialised protocol implements StopTheWorld.              *)
(* The theorems are about safety; that a suspension terminates is checked  *)
(* by TLC only.                                                            *)
(***************************************************************************)
EXTENDS ThreadSuspend, FiniteSetTheorems, TLAPS

\* the suspender has begun to signal and has not yet seen everyone go on
ActivePCs == {"sus_kill", "sus_wait", "sus_assert2", "patch", "res_check",
              "res_unlock", "res_wait"}
\* the suspender owns pauser
HoldingPCs == {"sus_assert", "sus_kill", "sus_wait", "sus_assert2", "patch",
               "res_check", "res_unlock"}
\* every other thread is known to be stopped
StoppedPCs == {"sus_assert2", "patch", "res_check", "res_unlock"}

\* suspension stays initialised
Warm == CanSuspend /\ installed /\ ~killed
        /\ \A t \in Threads : pc[t] \notin InitPCs \ {"init_check"}

\* a thread is registered from AddThread on, for ever
Registered ==
    \A t \in Threads : t \in allthreads <=> pc[t] \notin {"unborn", "starting"}

\* AllData is owned by the thread in the critical section
DataLockOwner == \A t \in Threads : dataLock = t <=> pc[t] \in CriticalPCs

\* pauser is owned by the suspender or by a handler that passes it
PauserOwner ==
    \A t \in Threads :
        pauser = t <=> pc[t] \in HoldingPCs \/ hpc[t] = "h_unpause"

\* countlock is owned by the handler between its lock and its unlock
CountlockOwner ==
    \A t \in Threads :
        countlock = t <=> hpc[t] \in {"h_inc", "h_unlock", "h_dec", "h_unlock2"}

\* a handler is busy only because of a suspender other than its own thread
HandlerActive ==
    \A t \in Threads :
        pending[t] \/ hpc[t] \notin {"none", "h_unlock2"} =>
            /\ t \in allthreads
            /\ dataLock \in Threads
            /\ dataLock # t
            /\ pc[dataLock] \in ActivePCs

\* signals are under way only while the suspender sends and waits
SignalPhase ==
    \A t \in Threads :
        pending[t] \/ hpc[t] \in {"h_lock", "h_inc"} =>
            pc[dataLock] \in {"sus_kill", "sus_wait"}

\* a handler gets past pauser only when the suspender has released it
WakePhase ==
    \A t \in Threads :
        hpc[t] \in {"h_unpause", "h_lock2", "h_dec"} => pc[dataLock] = "res_wait"

\* a suspender signals a thread once: a handler of this round has no signal
\* pending and a thread not yet signalled has no handler
OneSignal ==
    /\ \A t \in Threads : pending[t] => hpc[t] \in {"none", "h_unlock2"}
    /\ \A t, u \in Threads : pc[t] = "sus_kill" /\ u \in targets =>
           u # t /\ u \in allthreads /\ ~pending[u]
             /\ hpc[u] \in {"none", "h_unlock2"}

\* once the suspender's spin loop has ended everyone else is in the handler
AllStopped ==
    \A t, u \in Threads :
        pc[t] \in StoppedPCs /\ u \in allthreads /\ u # t =>
            hpc[u] \in {"h_unlock", "h_pause"}

\* CountSuspended counts the threads in the window
CountExact == CountSuspended = Cardinality(Counted)

Shape ==
    /\ TypeOK
    /\ Warm
    /\ Registered
    /\ DataLockOwner
    /\ PauserOwner
    /\ CountlockOwner
    /\ HandlerActive
    /\ SignalPhase
    /\ WakePhase
    /\ OneSignal
    /\ AllStopped

IInv == Shape /\ CountExact

-----------------------------------------------------------------------------
(* In the warm start nobody is suspended and no thread is in the critical   *)
(* section, so every part of the invariant holds (InitWarm).                *)
LEMMA InitShape == InitWarm => Shape
  <1> SUFFICES ASSUME InitWarm PROVE Shape
    OBVIOUS
  <1> PICK started \in SUBSET Threads : Main \in started /\ InitWith(started)
    BY DEF InitWarm
  <1> USE NoThreadAssumption, CountModAssumption, ThreadsAssumption
  <1>0. Cardinality(Threads) \in Nat
    BY FS_CardinalityType
  <1>1. TypeOK
    <2>1. pc \in [Threads -> PCs]
      BY DEF InitWith, PCs
    <2>2. hpc \in [Threads -> HandlerPCs] /\ pending \in [Threads -> BOOLEAN]
      BY DEF InitWith, HandlerPCs
    <2>3. CountSuspended \in 0 .. CountMod - 1
      BY <1>0 DEF InitWith
    <2> QED
      BY <2>1, <2>2, <2>3 DEF InitWarm, InitWith, TypeOK
  <1>2. Warm /\ Registered /\ DataLockOwner /\ PauserOwner /\ CountlockOwner
    BY DEF InitWarm, InitWith, Warm, Registered, DataLockOwner, PauserOwner,
           CountlockOwner, InitPCs, CriticalPCs, SuspendPCs, ResumePCs, HoldingPCs
  <1>3. HandlerActive /\ SignalPhase /\ WakePhase /\ OneSignal /\ AllStopped
    BY DEF InitWith, HandlerActive, SignalPhase, WakePhase, OneSignal, AllStopped,
           StoppedPCs
  <1> QED
    BY <1>1, <1>2, <1>3 DEF Shape

(* A step that changes nothing keeps the shape.                             *)
LEMMA StutterShape == Shape /\ UNCHANGED vars => Shape'
  BY DEF vars, threadVars, lockVars, suspendVars, Shape, TypeOK, Warm, Registered,
         DataLockOwner, PauserOwner, CountlockOwner, HandlerActive, SignalPhase,
         WakePhase, OneSignal, AllStopped

(* The steps of the program itself, of thread start-up and of the way into  *)
(* the critical section disturb no suspension (Create, tool_thread_init,    *)
(* Exit, process_thread_buffer).                                            *)
LEMMA ProgramShape ==
    ASSUME Shape, NEW t \in Threads,
           \/ \E u \in Threads : Create(t, u)
           \/ ThreadInit(t) \/ Exit(t) \/ Flush(t) \/ LockData(t)
    PROVE  Shape'
  <1> USE NoThreadAssumption
  <1> USE DEF Shape, TypeOK, Warm, Registered, DataLockOwner, PauserOwner,
           CountlockOwner, HandlerActive, SignalPhase, WakePhase, OneSignal,
           AllStopped, PCs, InitPCs, CriticalPCs, SuspendPCs, ResumePCs,
           HandlerPCs, ActivePCs, HoldingPCs, StoppedPCs, At, Goto,
           lockVars, suspendVars
  <1>1. ASSUME NEW u \in Threads, Create(t, u) PROVE Shape'
    BY <1>1 DEF Create
  <1>2. CASE AddThread(t)
    BY <1>2 DEF AddThread
  <1>3. CASE InitCheck(t)
    BY <1>3 DEF InitCheck
  <1>4. CASE InitCount(t) \/ InitPauser(t) \/ InitCountlock(t) \/ InitCan(t)
             \/ InitSigaction(t)
    BY <1>4 DEF InitCount, InitPauser, InitCountlock, InitCan, InitSigaction
  <1>5. CASE Exit(t)
    BY <1>5 DEF Exit
  <1>6. CASE Flush(t)
    BY <1>6 DEF Flush
  <1>7. CASE LockData(t)
    BY <1>7 DEF LockData
  <1> QED
    BY <1>1, <1>2, <1>3, <1>4, <1>5, <1>6, <1>7 DEF ThreadInit

(* A handler that has counted itself belongs to a registered thread other   *)
(* than the suspender (SuspendHandler, between its two critical sections).  *)
LEMMA CountedOthers ==
    ASSUME Shape PROVE Counted \subseteq allthreads \ {dataLock}
  BY DEF Shape, HandlerActive, Counted, HandlerPCs, TypeOK

(* When the spin loop of SuspendAllThreads ends, everybody else is counted: *)
(* there is no room for anyone missing (CountSuspended < ksize).            *)
LEMMA AllCounted ==
    ASSUME Shape, CountExact, dataLock \in allthreads, CountSuspended >= ksize
    PROVE  Counted = allthreads \ {dataLock}
  <1>1. IsFiniteSet(allthreads)
    BY ThreadsAssumption, FS_Subset DEF Shape, TypeOK
  <1>2. IsFiniteSet(allthreads \ {dataLock})
        /\ Cardinality(allthreads \ {dataLock}) = Cardinality(allthreads) - 1
    BY <1>1, FS_RemoveElement
  <1>3. Cardinality(Counted) <= Cardinality(allthreads \ {dataLock})
        /\ (Cardinality(Counted) = Cardinality(allthreads \ {dataLock}) =>
              Counted = allthreads \ {dataLock})
    BY <1>2, CountedOthers, FS_Subset
  <1>4. Cardinality(Counted) \in Nat /\ Cardinality(allthreads) \in Nat
    BY <1>1, <1>2, CountedOthers, FS_Subset, FS_CardinalityType
  <1> QED
    BY <1>2, <1>3, <1>4 DEF CountExact, ksize

(* The steps of the critical section keep the shape of the invariant.  The  *)
(* end of the spin loop is the one that needs the exact count               *)
(* (SuspendAllThreads, ResumeAllThreads, process_thread_buffer).            *)
LEMMA CriticalShape ==
    ASSUME Shape, CountExact, NEW t \in Threads, Critical(t)
    PROVE  Shape'
  <1> USE NoThreadAssumption
  <1> USE DEF Shape, TypeOK, Warm, Registered, DataLockOwner, PauserOwner,
           CountlockOwner, HandlerActive, SignalPhase, WakePhase, OneSignal,
           AllStopped, PCs, InitPCs, CriticalPCs, SuspendPCs, ResumePCs,
           HandlerPCs, ActivePCs, HoldingPCs, StoppedPCs, At, Goto,
           lockVars, suspendVars
  <1>1. CASE RemoveBlocks(t)
    <2>1. TypeOK'
      BY <1>1 DEF RemoveBlocks
    <2>2. Warm' /\ Registered'
      BY <1>1 DEF RemoveBlocks
    <2>3. DataLockOwner' /\ PauserOwner' /\ CountlockOwner'
      BY <1>1 DEF RemoveBlocks
    <2>4. HandlerActive' /\ SignalPhase' /\ WakePhase' /\ OneSignal' /\ AllStopped'
      BY <1>1 DEF RemoveBlocks
    <2> HIDE DEF TypeOK, Warm, Registered, DataLockOwner, PauserOwner, CountlockOwner,
                 HandlerActive, SignalPhase, WakePhase, OneSignal, AllStopped
    <2> QED
      BY <2>1, <2>2, <2>3, <2>4
  <1>13. CASE KeepBlocks(t)
    BY <1>13 DEF KeepBlocks
  <1>14. CASE SwitchMode(t)
    BY <1>14 DEF SwitchMode
  <1>2. CASE UnLockData(t)
    BY <1>2 DEF UnLockData
  <1>3. CASE SuspendCheck(t)
    BY <1>3 DEF SuspendCheck
  <1>4. CASE SuspendLock(t)
    BY <1>4 DEF SuspendLock
  <1>5. CASE SuspendAssert(t)
    BY <1>5 DEF SuspendAssert
  <1>6. CASE SuspendKill(t)
    BY <1>6 DEF SuspendKill
  <1>7. CASE SuspendAllKilled(t)
    BY <1>7 DEF SuspendAllKilled
  <1>8. CASE SuspendWait(t)
    <2>1. dataLock = t /\ t \in allthreads
      BY <1>8 DEF SuspendWait
    <2>2. Counted = allthreads \ {t}
      BY <1>8, <2>1, AllCounted DEF SuspendWait
    <2>3. \A u \in allthreads \ {t} : hpc[u] \in {"h_unlock", "h_pause"} /\ ~pending[u]
      BY <1>8, <2>1, <2>2 DEF SuspendWait, Counted
    <2>4. \A u \in Threads : ~pending[u] /\ hpc[u] \notin {"h_lock", "h_inc"}
      BY <2>1, <2>3
    <2>5. AllStopped'
      BY <1>8, <2>1, <2>3 DEF SuspendWait
    <2>6. HandlerActive' /\ SignalPhase' /\ WakePhase' /\ OneSignal'
      BY <1>8, <2>1, <2>4 DEF SuspendWait
    <2>7. TypeOK' /\ Warm' /\ Registered' /\ DataLockOwner' /\ PauserOwner'
          /\ CountlockOwner'
      BY <1>8 DEF SuspendWait
    <2> HIDE DEF TypeOK, Warm, Registered, DataLockOwner, PauserOwner, CountlockOwner,
                 HandlerActive, SignalPhase, WakePhase, OneSignal, AllStopped
    <2> QED
      BY <2>5, <2>6, <2>7
  <1>9. CASE SuspendAssert2(t)
    BY <1>9 DEF SuspendAssert2
  <1>15. CASE Patch(t)
    BY <1>15 DEF Patch
  <1>16. CASE Spin(t)
    BY <1>16, StutterShape DEF Spin
  <1>10. CASE ResumeCheck(t)
    BY <1>10 DEF ResumeCheck
  <1>11. CASE ResumeUnlock(t)
    BY <1>11 DEF ResumeUnlock
  <1>12. CASE ResumeWait(t)
    <2>1. dataLock = t /\ pc[t] = "res_wait"
      BY <1>12 DEF ResumeWait
    <2>2. IsFiniteSet(Counted)
      BY ThreadsAssumption, FS_Subset DEF Counted
    <2>3. Counted = {}
      BY <1>12, <2>2, FS_EmptySet DEF ResumeWait, CountExact
    <2>4. \A u \in Threads : ~pending[u] /\ hpc[u] \in {"none", "h_unlock2"}
      BY <2>1, <2>3 DEF Counted
    <2>5. HandlerActive' /\ SignalPhase' /\ WakePhase' /\ OneSignal' /\ AllStopped'
      BY <1>12, <2>1, <2>4 DEF ResumeWait, AfterResume
    <2>6. TypeOK' /\ Warm' /\ Registered' /\ DataLockOwner' /\ PauserOwner'
          /\ CountlockOwner'
      BY <1>12 DEF ResumeWait, AfterResume
    <2> HIDE DEF TypeOK, Warm, Registered, DataLockOwner, PauserOwner, CountlockOwner,
                 HandlerActive, SignalPhase, WakePhase, OneSignal, AllStopped
    <2> QED
      BY <2>5, <2>6
  <1> QED
    BY <1>1, <1>2, <1>3, <1>4, <1>5, <1>6, <1>7, <1>8, <1>9, <1>10, <1>11, <1>12,
       <1>13, <1>14, <1>15, <1>16 DEF Critical, Suspend, Resume

(* The steps of SuspendHandler keep the shape of the invariant.             *)
LEMMA HandlerShape ==
    ASSUME Shape, CountSuspended' \in 0 .. CountMod - 1, NEW t \in Threads, Handler(t)
    PROVE  Shape'
  <1> USE NoThreadAssumption
  <1> USE DEF Shape, TypeOK, Warm, Registered, DataLockOwner, PauserOwner,
           CountlockOwner, HandlerActive, SignalPhase, WakePhase, OneSignal,
           AllStopped, PCs, InitPCs, CriticalPCs, SuspendPCs, ResumePCs,
           HandlerPCs, ActivePCs, HoldingPCs, StoppedPCs, InHandler, HandlerGoto,
           lockVars, suspendVars
  <1>1. CASE Deliver(t)
    BY <1>1 DEF Deliver
  <1>2. CASE HandlerLock(t)
    BY <1>2 DEF HandlerLock
  <1>3. CASE HandlerIncrement(t)
    BY <1>3 DEF HandlerIncrement
  <1>4. CASE HandlerUnlock(t)
    BY <1>4 DEF HandlerUnlock
  <1>5. CASE HandlerPause(t)
    BY <1>5 DEF HandlerPause
  <1>6. CASE HandlerUnpause(t)
    BY <1>6 DEF HandlerUnpause
  <1>7. CASE HandlerDecrement(t)
    BY <1>7 DEF HandlerDecrement
  <1> QED
    BY <1>1, <1>2, <1>3, <1>4, <1>5, <1>6, <1>7 DEF Handler

-----------------------------------------------------------------------------
(* CountSuspended starts at 0 with no thread in the handler (InitWarm).     *)
LEMMA InitCount0 == InitWarm => CountExact
  BY FS_EmptySet DEF InitWarm, InitWith, Counted, CountExact

(* Only the increment and the decrement of SuspendHandler change            *)
(* CountSuspended and the set of counted threads; they change both by one   *)
(* and never wrap.                                                          *)
LEMMA CountStep ==
    ASSUME Shape, CountExact, [Next]_vars
    PROVE  CountExact' /\ CountSuspended' \in 0 .. CountMod - 1
  <1> USE CountModAssumption, ThreadsAssumption
  <1>1. IsFiniteSet(Counted) /\ Cardinality(Counted) \in Nat
        /\ Cardinality(Threads) \in Nat
    BY FS_Subset, FS_CardinalityType DEF Counted
  <1>2. CountSuspended \in 0 .. CountMod - 1
    BY DEF Shape, TypeOK
  <1>3. ASSUME NEW t \in Threads, HandlerIncrement(t)
        PROVE  CountExact' /\ CountSuspended' \in 0 .. CountMod - 1
    <2>1. t \notin Counted /\ Counted' = Counted \cup {t}
      BY <1>3 DEF HandlerIncrement, InHandler, HandlerGoto, Counted, Shape, TypeOK
    <2>2. Cardinality(Counted') = Cardinality(Counted) + 1
      BY <1>1, <2>1, FS_AddElement
    <2>3. Cardinality(Counted') <= Cardinality(Threads)
      BY FS_Subset DEF Counted
    <2>4. CountSuspended' = CountSuspended + 1
      BY <1>1, <1>2, <1>3, <2>2, <2>3 DEF HandlerIncrement, Increment, CountExact
    <2> QED
      BY <1>1, <1>2, <2>2, <2>3, <2>4 DEF CountExact
  <1>4. ASSUME NEW t \in Threads, HandlerDecrement(t)
        PROVE  CountExact' /\ CountSuspended' \in 0 .. CountMod - 1
    <2>1. t \in Counted /\ Counted' = Counted \ {t}
      BY <1>4 DEF HandlerDecrement, InHandler, HandlerGoto, Counted, Shape, TypeOK
    <2>2. Cardinality(Counted') = Cardinality(Counted) - 1
      BY <1>1, <2>1, FS_RemoveElement
    <2>3. Cardinality(Counted) # 0
      BY <1>1, <2>1, FS_EmptySet
    <2>4. CountSuspended' = CountSuspended - 1
      BY <1>1, <1>2, <1>4, <2>3 DEF HandlerDecrement, Decrement, CountExact
    <2> QED
      BY <1>1, <1>2, <2>2, <2>3, <2>4 DEF CountExact
  <1>5. ASSUME Counted' = Counted, CountSuspended' = CountSuspended
        PROVE  CountExact' /\ CountSuspended' \in 0 .. CountMod - 1
    BY <1>2, <1>5 DEF CountExact
  <1>6. ASSUME NEW t \in Threads, Handler(t), ~HandlerIncrement(t), ~HandlerDecrement(t)
        PROVE  Counted' = Counted /\ CountSuspended' = CountSuspended
    BY <1>6 DEF Handler, Deliver, HandlerLock, HandlerUnlock, HandlerPause,
        HandlerUnpause, InHandler, HandlerGoto, Counted, Shape, TypeOK, suspendVars
  <1>7. ASSUME NEW t \in Threads, Critical(t)
        PROVE  Counted' = Counted /\ CountSuspended' = CountSuspended
    <2>1. hpc' = hpc /\ CountSuspended' = CountSuspended
      BY <1>7 DEF Critical, Suspend, Resume, RemoveBlocks, KeepBlocks, SwitchMode,
          UnLockData, SuspendCheck, SuspendLock, SuspendAssert, SuspendKill,
          SuspendAllKilled, SuspendWait, SuspendAssert2, Patch, ResumeCheck,
          ResumeUnlock, ResumeWait, Spin, vars, threadVars, suspendVars
    <2> QED
      BY <2>1 DEF Counted
  <1>8. ASSUME NEW t \in Threads,
               \/ \E u \in Threads : Create(t, u)
               \/ ThreadInit(t) \/ Exit(t) \/ Flush(t) \/ LockData(t)
        PROVE  Counted' = Counted /\ CountSuspended' = CountSuspended
    <2>1. ~InitCount(t)
      BY DEF InitCount, At, Shape, Warm, InitPCs
    <2>2. hpc' = hpc /\ CountSuspended' = CountSuspended
      BY <1>8, <2>1 DEF Create, ThreadInit, AddThread, InitCheck, InitPauser,
          InitCountlock, InitCan, InitSigaction, Exit, Flush, LockData, suspendVars
    <2> QED
      BY <2>2 DEF Counted
  <1>9. CASE UNCHANGED vars
    BY <1>5, <1>9 DEF vars, threadVars, suspendVars, Counted
  <1> QED
    BY <1>3, <1>4, <1>5, <1>6, <1>7, <1>8, <1>9 DEF Next

(* The invariant of the suspension protocol: every step keeps the shape of  *)
(* the phases and the exact count of the suspended threads.                 *)
THEOREM Invariance == SpecWarm => []IInv
  <1>1. InitWarm => IInv
    BY InitShape, InitCount0 DEF IInv
  <1>2. IInv /\ [Next]_vars => IInv'
    <2> SUFFICES ASSUME IInv, [Next]_vars PROVE IInv'
      OBVIOUS
    <2>1. CountExact' /\ CountSuspended' \in 0 .. CountMod - 1
      BY CountStep DEF IInv
    <2>2. Shape'
      BY <2>1, ProgramShape, CriticalShape, HandlerShape, StutterShape DEF IInv, Next
    <2> QED
      BY <2>1, <2>2 DEF IInv
  <1> QED
    BY <1>1, <1>2, PTL DEF SpecWarm

(* Every variable of the protocol keeps its type: in particular             *)
(* CountSuspended, an unsigned number, never wraps below zero.              *)
THEOREM TypeCorrect == SpecWarm => []TypeOK
  BY Invariance, PTL DEF IInv, Shape

(* For any number of threads: while one thread rewrites instrumentation     *)
(* points (SetDynamicPoints between SuspendAllThreads and ResumeAllThreads) *)
(* no other thread executes code of the program.                            *)
THEOREM PatchesExclusively == SpecWarm => []PatchExclusion
  <1>1. IInv => PatchExclusion
    <2> SUFFICES ASSUME IInv, NEW t \in Threads, NEW u \in Threads,
                        pc[t] = "patch", u # t, Executing(u)
                 PROVE  FALSE
      BY DEF PatchExclusion
    <2>1. u \in allthreads
      BY DEF IInv, Shape, Registered, Executing
    <2>2. hpc[u] \in {"h_unlock", "h_pause"}
      BY <2>1 DEF IInv, Shape, AllStopped, StoppedPCs
    <2> QED
      BY <2>2 DEF Executing
  <1> QED
    BY <1>1, Invariance, PTL

(* For any number of threads the assertions of SuspendAllThreads on         *)
(* CountSuspended cannot fail once suspension is initialised.               *)
THEOREM CountAssertsHold == SpecWarm => []CountAsserts
  <1>1. IInv => CountAsserts
    <2> SUFFICES ASSUME IInv, NEW t \in Threads
                 PROVE  /\ pc[t] = "sus_assert" => CountSuspended = 0
                        /\ pc[t] = "sus_assert2" => CountSuspended = ksize
      BY DEF CountAsserts
    <2>1. ASSUME pc[t] = "sus_assert" PROVE CountSuspended = 0
      <3>1. dataLock = t
        BY <2>1 DEF IInv, Shape, DataLockOwner, CriticalPCs, SuspendPCs
      <3>2. Counted = {}
        BY <2>1, <3>1 DEF IInv, Shape, HandlerActive, ActivePCs, Counted
      <3> QED
        BY <3>2, FS_EmptySet DEF IInv, CountExact
    <2>2. ASSUME pc[t] = "sus_assert2" PROVE CountSuspended = ksize
      <3>1. dataLock = t /\ t \in allthreads
        BY <2>2 DEF IInv, Shape, DataLockOwner, Registered, CriticalPCs, SuspendPCs
      <3>2. allthreads \ {t} \subseteq Counted
        BY <2>2 DEF IInv, Shape, TypeOK, AllStopped, StoppedPCs, Counted
      <3>3. Counted = allthreads \ {t}
        BY <3>1, <3>2, CountedOthers DEF IInv
      <3>4. IsFiniteSet(allthreads)
        BY ThreadsAssumption, FS_Subset DEF IInv, Shape, TypeOK
      <3> QED
        BY <3>1, <3>3, <3>4, FS_RemoveElement DEF IInv, CountExact, ksize
    <2> QED
      BY <2>1, <2>2
  <1> QED
    BY <1>1, Invariance, PTL

(* For any number of threads a handler leaves its wait on pauser only when  *)
(* the suspender has released pauser in ResumeAllThreads.                   *)
THEOREM HandlersWaitForResume == SpecWarm => NoEarlyWake
  <1> DEFINE Woken(t) == hpc[t] = "h_pause" /\ hpc'[t] # "h_pause" =>
                           \E u \in Threads : u # t /\ pc[u] = "res_wait"
  <1>1. IInv /\ [Next]_vars => [\A t \in Threads : Woken(t)]_vars
    <2> SUFFICES ASSUME IInv, Next, NEW t \in Threads,
                        hpc[t] = "h_pause", hpc'[t] # "h_pause"
                 PROVE  \E u \in Threads : u # t /\ pc[u] = "res_wait"
      OBVIOUS
    <2>1. PICK s \in Threads : HandlerPause(s) \/ hpc'[t] = hpc[t]
      BY DEF IInv, Shape, TypeOK, Next, Create, ThreadInit, AddThread, InitCheck,
          InitCount, InitPauser, InitCountlock, InitCan, InitSigaction, Exit, Flush,
          LockData, Critical, Suspend, Resume, RemoveBlocks, KeepBlocks, SwitchMode,
          UnLockData, SuspendCheck, SuspendLock, SuspendAssert, SuspendKill,
          SuspendAllKilled, SuspendWait, SuspendAssert2, Patch, ResumeCheck,
          ResumeUnlock, ResumeWait, Spin, vars, threadVars, Handler, Deliver, HandlerLock, HandlerIncrement,
          HandlerUnlock, HandlerUnpause, HandlerDecrement, InHandler, HandlerGoto
    <2>2. pauser = NoThread
      BY <2>1 DEF HandlerPause
    <2>3. dataLock \in Threads /\ dataLock # t /\ pc[dataLock] \in ActivePCs
      BY DEF IInv, Shape, HandlerActive
    <2>4. pc[dataLock] \notin HoldingPCs
      BY <2>2, <2>3, NoThreadAssumption DEF IInv, Shape, PauserOwner
    <2> QED
      BY <2>3, <2>4 DEF ActivePCs, HoldingPCs
  <1> QED
    BY <1>1, Invariance, PTL DEF SpecWarm, NoEarlyWake

-----------------------------------------------------------------------------
(* From the start of the program: any number of threads may be in           *)
(* InitializeSuspendHandler at once, and any of them resets the mutexes and *)
(* the counter of the others.  What is left is the order in which CanSuspend*)
(* and the signal handler are set.                                          *)

\* a thread past the check of SuspendAllThreads has seen CanSuspend
SignalsPCs == {"sus_lock", "sus_assert", "sus_kill"}
CheckedFirst == \A t \in Threads : pc[t] \in SignalsPCs => CanSuspend

\* the thread that set CanSuspend has not yet installed the handler
Window == CanSuspend /\ ~installed => \E t \in Threads : pc[t] = "init_sigaction"

\* the process dies only of a signal without a handler
KilledInWindow == killed => CanSuspend /\ ~installed

ColdInv == TypeOK /\ CheckedFirst /\ Window /\ KilledInWindow

(* No step of any thread takes a variable out of its type, not even when    *)
(* two threads initialise suspension at once: CountSuspended wraps.         *)
LEMMA TypeStep == TypeOK /\ [Next]_vars => TypeOK'
  <1> SUFFICES ASSUME TypeOK, Next PROVE TypeOK'
    BY DEF TypeOK, vars, threadVars, lockVars, suspendVars
  <1> USE CountModAssumption, ThreadsAssumption
  <1> USE DEF TypeOK, PCs, InitPCs, CriticalPCs, SuspendPCs, ResumePCs, HandlerPCs,
           At, Goto, InHandler, HandlerGoto, lockVars, suspendVars
  <1>0. CountMod \in Nat /\ CountMod > 0
    BY FS_CardinalityType
  <1>1. ASSUME NEW t \in Threads,
               \/ \E u \in Threads : Create(t, u)
               \/ ThreadInit(t) \/ Exit(t) \/ Flush(t) \/ LockData(t)
        PROVE  TypeOK'
    <2>1. CASE \E u \in Threads : Create(t, u)
      BY <2>1 DEF Create
    <2>2. CASE ThreadInit(t)
      <3>1. CASE InitCount(t)
        BY <1>0, <3>1 DEF InitCount
      <3>2. CASE AddThread(t) \/ InitCheck(t)
        BY <3>2 DEF AddThread, InitCheck
      <3>3. CASE InitPauser(t) \/ InitCountlock(t)
        BY <3>3 DEF InitPauser, InitCountlock
      <3>4. CASE InitCan(t) \/ InitSigaction(t)
        BY <3>4 DEF InitCan, InitSigaction
      <3> QED
        BY <2>2, <3>1, <3>2, <3>3, <3>4 DEF ThreadInit
    <2>3. CASE Exit(t) \/ Flush(t) \/ LockData(t)
      BY <2>3 DEF Exit, Flush, LockData
    <2> QED
      BY <1>1, <2>1, <2>2, <2>3
  <1>2. ASSUME NEW t \in Threads, Critical(t) PROVE TypeOK'
    <2>1. CASE Suspend(t)
      BY <2>1 DEF Suspend, SuspendCheck, SuspendLock, SuspendAssert, SuspendKill,
          SuspendAllKilled, SuspendWait, SuspendAssert2
    <2>2. CASE Resume(t)
      BY <2>2 DEF Resume, ResumeCheck, ResumeUnlock, ResumeWait, AfterResume
    <2>3. CASE RemoveBlocks(t) \/ KeepBlocks(t) \/ SwitchMode(t) \/ UnLockData(t)
               \/ Patch(t)
      BY <2>3 DEF RemoveBlocks, KeepBlocks, SwitchMode, UnLockData, Patch
    <2>4. CASE Spin(t)
      BY <2>4 DEF Spin, vars, threadVars
    <2> QED
      BY <1>2, <2>1, <2>2, <2>3, <2>4 DEF Critical
  <1>3. ASSUME NEW t \in Threads, Handler(t) PROVE TypeOK'
    <2>1. CASE Deliver(t) \/ HandlerLock(t) \/ HandlerUnlock(t) \/ HandlerPause(t)
               \/ HandlerUnpause(t)
      BY <2>1 DEF Deliver, HandlerLock, HandlerUnlock, HandlerPause, HandlerUnpause
    <2>2. CASE HandlerIncrement(t) \/ HandlerDecrement(t)
      <3>1. Increment(CountSuspended) \in 0 .. CountMod - 1
            /\ Decrement(CountSuspended) \in 0 .. CountMod - 1
        BY <1>0 DEF Increment, Decrement
      <3> QED
        BY <2>2, <3>1 DEF HandlerIncrement, HandlerDecrement
    <2> QED
      BY <1>3, <2>1, <2>2 DEF Handler
  <1> QED
    BY <1>1, <1>2, <1>3 DEF Next

(* Once the process has died of the signal no thread takes a step.          *)
LEMMA DeadIsFinal == killed /\ [Next]_vars => UNCHANGED vars
  BY DEF Next, Create, ThreadInit, AddThread, InitCheck, InitCount, InitPauser,
         InitCountlock, InitCan, InitSigaction, Exit, Flush, LockData, Critical,
         Suspend, Resume, RemoveBlocks, KeepBlocks, SwitchMode, UnLockData,
         SuspendCheck, SuspendLock, SuspendAssert, SuspendKill, SuspendAllKilled,
         SuspendWait, SuspendAssert2, Patch, ResumeCheck, ResumeUnlock, ResumeWait,
         Spin, Handler, Deliver, HandlerLock, HandlerIncrement, HandlerUnlock,
         HandlerPause, HandlerUnpause, HandlerDecrement, At, InHandler

(* The order of CanSuspend and sigaction in InitializeSuspendHandler and    *)
(* the check of CanSuspend in SuspendAllThreads confine the unhandled       *)
(* signal to the window between the two.                                    *)
LEMMA ColdStep == ColdInv /\ [Next]_vars => ColdInv'
  <1> SUFFICES ASSUME ColdInv, [Next]_vars PROVE ColdInv'
    OBVIOUS
  <1>1. TypeOK'
    BY TypeStep DEF ColdInv
  <1>2. CASE UNCHANGED vars
    BY <1>1, <1>2 DEF ColdInv, vars, threadVars, suspendVars, CheckedFirst, Window,
        KilledInWindow
  <1>3. CASE ~killed /\ Next
    <2> USE DEF ColdInv, TypeOK, CheckedFirst, Window, KilledInWindow, SignalsPCs,
             At, Goto, lockVars, suspendVars
    <2>1. ASSUME NEW t \in Threads, InitCan(t) \/ InitSigaction(t) PROVE ColdInv'
      BY <1>1, <1>3, <2>1 DEF InitCan, InitSigaction
    <2>2. ASSUME NEW t \in Threads, SuspendKill(t) PROVE ColdInv'
      BY <1>1, <1>3, <2>2 DEF SuspendKill
    <2>3. ASSUME NEW t \in Threads, Handler(t) PROVE ColdInv'
      BY <1>1, <1>3, <2>3 DEF Handler, Deliver, HandlerLock, HandlerIncrement,
          HandlerUnlock, HandlerPause, HandlerUnpause, HandlerDecrement
    <2>4. ASSUME NEW t \in Threads, Critical(t), ~SuspendKill(t) PROVE ColdInv'
      BY <1>1, <1>3, <2>4 DEF Critical, Suspend, Resume, RemoveBlocks, KeepBlocks,
          SwitchMode, UnLockData, SuspendCheck, SuspendLock, SuspendAssert,
          SuspendAllKilled, SuspendWait, SuspendAssert2, Patch, ResumeCheck,
          ResumeUnlock, ResumeWait, AfterResume, Spin, vars, threadVars
    <2>5. ASSUME NEW t \in Threads, ~InitCan(t), ~InitSigaction(t),
                 \/ \E u \in Threads : Create(t, u)
                 \/ ThreadInit(t) \/ Exit(t) \/ Flush(t) \/ LockData(t)
          PROVE  ColdInv'
      BY <1>1, <1>3, <2>5 DEF Create, ThreadInit, AddThread, InitCheck, InitCount,
          InitPauser, InitCountlock, Exit, Flush, LockData
    <2> QED
      BY <1>3, <2>1, <2>2, <2>3, <2>4, <2>5 DEF Next
  <1> QED
    BY <1>2, <1>3, DeadIsFinal

(* The start of the program (InitCold) and every step keep the invariant.   *)
LEMMA ColdInvariance == SpecCold => []ColdInv
  <1>1. InitCold => ColdInv
    <2> SUFFICES ASSUME InitCold PROVE ColdInv
      OBVIOUS
    <2>1. pc \in [Threads -> PCs] /\ hpc \in [Threads -> HandlerPCs]
      BY DEF InitCold, InitWith, PCs, HandlerPCs
    <2>2. 0 \in 0 .. CountMod - 1
      BY CountModAssumption, ThreadsAssumption, FS_CardinalityType
    <2> QED
      BY <2>1, <2>2, ThreadsAssumption DEF InitCold, InitWith, ColdInv, TypeOK,
          CheckedFirst, Window, KilledInWindow, SignalsPCs
  <1> QED
    BY <1>1, ColdStep, PTL DEF SpecCold

(* The types also hold from the start of the program.                       *)
THEOREM TypeCorrectCold == SpecCold => []TypeOK
  BY ColdInvariance, PTL DEF ColdInv

(* For any number of threads, from the start of the program: SIGUSR2 ends   *)
(* the process only while a thread is between the assignment of CanSuspend  *)
(* and sigaction in InitializeSuspendHandler.                               *)
THEOREM KilledInTheWindow == SpecCold => []KilledOnlyInInitWindow
  <1>1. ColdInv => KilledOnlyInInitWindow
    BY DEF ColdInv, Window, KilledInWindow, KilledOnlyInInitWindow
  <1> QED
    BY <1>1, ColdInvariance, PTL

-----------------------------------------------------------------------------
(* The refinement of StopTheWorld.  The invariant of the warm start gives   *)
(* what the steps of the mapping need: who owns AllData, who is counted,    *)
(* and that everybody is when the suspender's spin loop ends.               *)

\* the phase of the round, by the place of the owner of AllData
PhaseAt(place) ==
    IF place \in StoppingPCs THEN "stopping"
    ELSE IF place \in PatchingPCs THEN "patching"
    ELSE IF place \in WakingPCs THEN "waking" ELSE "idle"

\* the state of the abstract specification, as the refinement maps it
Phase == IF dataLock \in Threads THEN PhaseAt(pc[dataLock]) ELSE "idle"
Patcher == IF Phase # "idle" THEN dataLock ELSE NoThread

-----------------------------------------------------------------------------
(* The mapping to StopTheWorld, put in terms of the place of the owner of   *)
(* AllData.                                                                 *)
LEMMA Mapping ==
    /\ Phase = IF OwnerAt(StoppingPCs) THEN "stopping"
               ELSE IF OwnerAt(PatchingPCs) THEN "patching"
               ELSE IF OwnerAt(WakingPCs) THEN "waking" ELSE "idle"
    /\ Patcher = IF OwnerAt(StoppingPCs \cup PatchingPCs \cup WakingPCs)
                   THEN dataLock ELSE NoThread
  BY DEF Phase, Patcher, PhaseAt, OwnerAt, StoppingPCs, PatchingPCs, WakingPCs

LEMMA MappingNext ==
    /\ Phase' = IF OwnerAt(StoppingPCs)' THEN "stopping"
               ELSE IF OwnerAt(PatchingPCs)' THEN "patching"
               ELSE IF OwnerAt(WakingPCs)' THEN "waking" ELSE "idle"
    /\ Patcher' = IF OwnerAt(StoppingPCs \cup PatchingPCs \cup WakingPCs)'
                   THEN dataLock' ELSE NoThread
  BY DEF Phase, Patcher, PhaseAt, OwnerAt, StoppingPCs, PatchingPCs, WakingPCs

(* A step that moves neither the owner of AllData to another phase nor the  *)
(* counter of a handler is a stuttering step of StopTheWorld.               *)
LEMMA Stutter ==
    ASSUME allthreads' = allthreads, Counted' = Counted,
           Phase' = Phase, Patcher' = Patcher
    PROVE  UNCHANGED World!vars
  BY Mapping, MappingNext DEF World!vars

(* The program creates threads, ends them and enters the critical section:  *)
(* only AddThread is visible, as a thread that joins.                       *)
LEMMA ProgramMaps ==
    ASSUME IInv, NEW t \in Threads,
           \/ \E u \in Threads : Create(t, u)
           \/ ThreadInit(t) \/ Exit(t) \/ Flush(t) \/ LockData(t)
    PROVE  [World!Next]_(World!vars)
  <1> USE NoThreadAssumption
  <1>1. CASE AddThread(t)
    <2>1. Phase = "idle" /\ Phase' = Phase /\ Patcher' = Patcher
      BY <1>1 DEF AddThread, lockVars, Phase, Patcher
    <2>2. Counted' = Counted
      BY <1>1 DEF AddThread, Counted
    <2>3. World!Join(t)
      BY <1>1, <2>1, <2>2, Mapping, MappingNext DEF World!Join, AddThread
    <2> QED
      BY <2>3 DEF World!Next
  <1>2. CASE ~AddThread(t)
    <2>1. /\ allthreads' = allthreads
          /\ hpc' = hpc
          /\ dataLock' \in {dataLock, t}
      BY <1>2 DEF Create, ThreadInit, InitCheck, InitCount, InitPauser, InitCountlock,
          InitCan, InitSigaction, Exit, Flush, LockData, lockVars
    <2>2. Counted' = Counted
      BY <2>1 DEF Counted
    <2>3. ASSUME dataLock \in Threads
          PROVE  dataLock' = dataLock /\ pc'[dataLock] = pc[dataLock]
      BY <1>2, <2>3 DEF IInv, Shape, TypeOK, DataLockOwner, CriticalPCs, SuspendPCs,
          ResumePCs, Create, ThreadInit, InitCheck, InitCount, InitPauser,
          InitCountlock, InitCan, InitSigaction, Exit, Flush, LockData, At, Goto,
          lockVars, InitPCs
    <2>4. ASSUME dataLock \notin Threads, dataLock' \in Threads
          PROVE  pc'[dataLock'] = "limit"
      BY <1>2, <2>1, <2>4 DEF IInv, Shape, TypeOK, Create, ThreadInit, InitCheck,
          InitCount, InitPauser, InitCountlock, InitCan, InitSigaction, Exit, Flush,
          LockData, Goto, lockVars
    <2>5. Phase' = Phase /\ Patcher' = Patcher
      BY <2>3, <2>4 DEF Phase, Patcher, PhaseAt, StoppingPCs, PatchingPCs, WakingPCs
    <2> QED
      BY <2>1, <2>2, <2>5, Stutter
  <1> QED
    BY <1>1, <1>2

(* SuspendHandler: its increment stops the thread, its decrement wakes it.  *)
LEMMA HandlerMaps ==
    ASSUME IInv, NEW t \in Threads, Handler(t)
    PROVE  [World!Next]_(World!vars)
  <1> USE NoThreadAssumption
  <1>1. pc' = pc /\ dataLock' = dataLock /\ allthreads' = allthreads
    BY DEF Handler, Deliver, HandlerLock, HandlerIncrement, HandlerUnlock,
        HandlerPause, HandlerUnpause, HandlerDecrement, lockVars
  <1>2. Phase' = Phase /\ Patcher' = Patcher
    BY <1>1 DEF Phase, Patcher
  <1>3. CASE HandlerIncrement(t)
    <2>1. t \notin Counted /\ Counted' = Counted \cup {t}
      BY <1>3 DEF HandlerIncrement, InHandler, HandlerGoto, Counted, IInv, Shape, TypeOK
    <2>2. t \in allthreads /\ dataLock \in Threads /\ dataLock # t
          /\ pc[dataLock] \in {"sus_kill", "sus_wait"}
      BY <1>3 DEF HandlerIncrement, InHandler, IInv, Shape, HandlerActive, SignalPhase
    <2>3. Phase = "stopping" /\ Patcher = dataLock
      BY <2>2 DEF Phase, Patcher, PhaseAt, StoppingPCs
    <2>4. World!Stop(t)
      BY <1>1, <1>2, <2>1, <2>2, <2>3, Mapping, MappingNext DEF World!Stop
    <2> QED
      BY <2>4 DEF World!Next
  <1>4. CASE HandlerDecrement(t)
    <2>1. t \in Counted /\ Counted' = Counted \ {t}
      BY <1>4 DEF HandlerDecrement, InHandler, HandlerGoto, Counted, IInv, Shape, TypeOK
    <2>2. dataLock \in Threads /\ pc[dataLock] = "res_wait"
      BY <1>4 DEF HandlerDecrement, InHandler, IInv, Shape, HandlerActive, WakePhase
    <2>3. Phase = "waking"
      BY <2>2 DEF Phase, PhaseAt, StoppingPCs, PatchingPCs, WakingPCs
    <2>4. World!Wake(t)
      BY <1>1, <1>2, <2>1, <2>3, Mapping, MappingNext DEF World!Wake
    <2> QED
      BY <2>4 DEF World!Next
  <1>5. CASE ~HandlerIncrement(t) /\ ~HandlerDecrement(t)
    <2>1. Counted' = Counted
      BY <1>5 DEF Handler, Deliver, HandlerLock, HandlerUnlock, HandlerPause,
          HandlerUnpause, InHandler, HandlerGoto, Counted, IInv, Shape, TypeOK
    <2> QED
      BY <1>1, <1>2, <2>1, Stutter
  <1> QED
    BY <1>3, <1>4, <1>5

(* SuspendAllThreads and ResumeAllThreads: the assertion on entry begins to *)
(* stop, the one on exit begins to patch, the release of pauser begins to   *)
(* wake and the end of the last spin loop finishes the round.               *)
LEMMA CriticalMaps ==
    ASSUME IInv, NEW t \in Threads, Critical(t)
    PROVE  [World!Next]_(World!vars)
  <1> USE NoThreadAssumption
  <1> USE DEF StoppingPCs, PatchingPCs, WakingPCs
  <1>1. CASE Spin(t)
    BY <1>1, Stutter DEF Spin, vars, threadVars, lockVars, suspendVars, Counted, Phase,
        Patcher
  <1>2. CASE ~Spin(t)
    <2>1. dataLock = t /\ t \in allthreads
      BY <1>2 DEF IInv, Shape, DataLockOwner, Registered, CriticalPCs, SuspendPCs,
          ResumePCs, Critical, Suspend, Resume, RemoveBlocks, KeepBlocks, SwitchMode,
          UnLockData, SuspendCheck, SuspendLock, SuspendAssert, SuspendKill,
          SuspendAllKilled, SuspendWait, SuspendAssert2, Patch, ResumeCheck,
          ResumeUnlock, ResumeWait, At
    <2>2. allthreads' = allthreads /\ hpc' = hpc
      BY <1>2 DEF Critical, Suspend, Resume, RemoveBlocks, KeepBlocks, SwitchMode,
          UnLockData, SuspendCheck, SuspendLock, SuspendAssert, SuspendKill,
          SuspendAllKilled, SuspendWait, SuspendAssert2, Patch, ResumeCheck,
          ResumeUnlock, ResumeWait
    <2>3. Counted' = Counted
      BY <2>2 DEF Counted
    <2>4. Phase = PhaseAt(pc[t]) /\ (dataLock' = t => Phase' = PhaseAt(pc'[t]))
          /\ (dataLock' = NoThread => Phase' = "idle")
      BY <2>1 DEF Phase
    <2>5. pc \in [Threads -> PCs]
      BY DEF IInv, Shape, TypeOK
    <2>6. CASE SuspendAssert(t)
      <3>1. Phase = "idle" /\ Phase' = "stopping" /\ dataLock' = t
        BY <2>1, <2>4, <2>5, <2>6 DEF SuspendAssert, At, Goto, PhaseAt, lockVars
      <3>2. World!StartStopping(t)
        BY <2>1, <2>2, <2>3, <3>1, Mapping, MappingNext DEF World!StartStopping, Patcher
      <3> QED
        BY <3>2 DEF World!Next
    <2>7. CASE SuspendAssert2(t)
      <3>1. Phase = "stopping" /\ Phase' = "patching" /\ dataLock' = t
        BY <2>1, <2>4, <2>5, <2>7 DEF SuspendAssert2, At, Goto, PhaseAt, lockVars
      <3>2. Patcher = t /\ Patcher' = t
        BY <2>1, <3>1 DEF Patcher
      <3>3. IsFiniteSet(allthreads)
        BY ThreadsAssumption, FS_Subset DEF IInv, Shape, TypeOK
      <3>4. CountSuspended \in Nat /\ Cardinality(allthreads) \in Nat
        BY <3>3, FS_CardinalityType DEF IInv, Shape, TypeOK
      <3>5. CountSuspended >= ksize
        BY <2>7, <3>4 DEF SuspendAssert2, ksize
      <3>6. Counted = allthreads \ {t}
        BY <2>1, <3>5, AllCounted DEF IInv
      <3>7. World!StartPatching
        BY <2>2, <2>3, <3>1, <3>2, <3>6, Mapping, MappingNext DEF World!StartPatching
      <3> QED
        BY <3>7 DEF World!Next
    <2>8. CASE ResumeUnlock(t)
      <3>1. Phase = "patching" /\ Phase' = "waking" /\ dataLock' = t
        BY <2>1, <2>4, <2>5, <2>8 DEF ResumeUnlock, At, Goto, PhaseAt
      <3>2. World!StartWaking
        BY <2>1, <2>2, <2>3, <3>1, Mapping, MappingNext DEF World!StartWaking, Patcher
      <3> QED
        BY <3>2 DEF World!Next
    <2>9. CASE ResumeWait(t)
      <3>1. Phase = "waking" /\ Phase' = "idle"
        BY <2>1, <2>4, <2>5, <2>9 DEF ResumeWait, AfterResume, At, Goto, PhaseAt
      <3>2. IsFiniteSet(Counted)
        BY ThreadsAssumption, FS_Subset DEF Counted
      <3>3. Counted = {}
        BY <2>9, <3>2, FS_EmptySet DEF ResumeWait, IInv, CountExact
      <3>4. World!Finish
        BY <2>2, <2>3, <3>1, <3>3, Mapping, MappingNext DEF World!Finish, Patcher
      <3> QED
        BY <3>4 DEF World!Next
    <2>10. CASE ~(SuspendAssert(t) \/ SuspendAssert2(t) \/ ResumeUnlock(t)
                   \/ ResumeWait(t))
      <3>1. CASE UnLockData(t)
        BY <2>1, <2>4, <2>5, <2>2, <2>3, <3>1, Stutter
           DEF UnLockData, At, Patcher, PhaseAt
      <3>2. CASE ~UnLockData(t)
        <4>1. CanSuspend
          BY DEF IInv, Shape, Warm
        <4>2. dataLock' = t /\ PhaseAt(pc'[t]) = PhaseAt(pc[t])
          BY <1>2, <2>1, <2>5, <2>10, <3>2, <4>1 DEF PhaseAt, Critical, Suspend, Resume,
              RemoveBlocks, KeepBlocks, SwitchMode, SuspendCheck, SuspendLock,
              SuspendKill, SuspendAllKilled, SuspendWait, Patch, ResumeCheck, At,
              Goto, lockVars
        <4> QED
          BY <2>1, <2>2, <2>3, <2>4, <4>2, Stutter DEF Patcher
      <3> QED
        BY <3>1, <3>2
    <2> QED
      BY <2>6, <2>7, <2>8, <2>9, <2>10
  <1> QED
    BY <1>1, <1>2

-----------------------------------------------------------------------------
(* For any number of threads the signals, mutexes and counter behind        *)
(* SuspendAllThreads and ResumeAllThreads implement the abstract protocol:  *)
(* patching begins only when all other members are stopped, they go on only *)
(* after it, and no round begins before the last one has been left.         *)
THEOREM ImplementsStopTheWorld == SpecWarm => StopsTheWorld
  <1>1. InitWarm => World!Init
    <2> SUFFICES ASSUME InitWarm PROVE World!Init
      OBVIOUS
    <2> PICK started \in SUBSET Threads : InitWith(started)
      BY DEF InitWarm
    <2>1. dataLock = NoThread /\ Counted = {} /\ allthreads \subseteq Threads
      BY DEF InitWith, Counted
    <2>2. Phase = "idle" /\ Patcher = NoThread
      BY <2>1, NoThreadAssumption DEF Phase, Patcher
    <2> QED
      BY <2>1, <2>2, Mapping DEF World!Init
  <1>2. IInv /\ [Next]_vars => [World!Next]_(World!vars)
    <2> SUFFICES ASSUME IInv, [Next]_vars PROVE [World!Next]_(World!vars)
      OBVIOUS
    <2>1. ASSUME UNCHANGED vars PROVE UNCHANGED World!vars
      BY <2>1, Stutter DEF vars, threadVars, lockVars, suspendVars, Counted, Phase,
          Patcher
    <2> QED
      BY <2>1, ProgramMaps, CriticalMaps, HandlerMaps DEF Next
  <1> QED
    BY <1>1, <1>2, Invariance, PTL DEF SpecWarm, StopsTheWorld, World!Spec
=============================================================================
