---------------------------- MODULE ThreadSuspend ----------------------------
(***************************************************************************)
(* How the run-time library of PEBIL stops every other thread of the       *)
(* instrumented program before it rewrites instrumented code.              *)
(*                                                                         *)
(* A thread that must change dynamic instrumentation points holds the      *)
(* AllData mutex and calls SuspendAllThreads, which takes the mutex        *)
(* `pauser', sends SIGUSR2 to every other registered thread and spins      *)
(* until CountSuspended says that all of them are inside SuspendHandler.   *)
(* It then rewrites the code and calls ResumeAllThreads, which releases    *)
(* `pauser' and spins until CountSuspended is back to 0.                   *)
(*                                                                         *)
(* A thread has two program counters: pc, its place in the program and in  *)
(* the library, and hpc, its place in SuspendHandler when the signal has   *)
(* interrupted it.  While hpc is not "none" pc stands still.               *)
(***************************************************************************)
EXTENDS Integers, FiniteSets

CONSTANTS Threads,      \* the threads the program ever creates
          Main,         \* the thread that loads the first image
          MayExit,      \* the threads that may terminate
          CountMod,     \* CountSuspended is unsigned: it wraps at CountMod (2^32)
          NoThread      \* the owner of a free mutex

ASSUME ThreadsAssumption == IsFiniteSet(Threads) /\ Main \in Threads
ASSUME NoThreadAssumption == NoThread \notin Threads
ASSUME MayExitAssumption == MayExit \subseteq Threads \ {Main}
ASSUME CountModAssumption == CountMod \in Nat /\ CountMod > Cardinality(Threads)

VARIABLES pc,               \* where each thread is
          hpc,              \* where each thread is in SuspendHandler
          pending,          \* SIGUSR2 is pending for the thread
          allthreads,       \* AllData->allthreads
          dataLock,         \* owner of the mutex of AllData
          pauser,           \* owner of pauser
          countlock,        \* owner of countlock
          CountSuspended,
          CanSuspend,
          installed,        \* sigaction has installed SuspendHandler
          killed,           \* SIGUSR2 arrived before that: the process is gone
          targets,          \* the suspender's iterator: threads still to signal
          second            \* the suspender is in the second of its two requests

threadVars == <<pc, hpc, pending>>
lockVars == <<dataLock, pauser, countlock>>
suspendVars == <<CountSuspended, CanSuspend, installed, killed, targets, second>>
vars == <<threadVars, allthreads, lockVars, suspendVars>>

InitPCs == {"init_check", "init_count", "init_pauser", "init_countlock",
            "init_can", "init_sigaction"}
SuspendPCs == {"sus_check", "sus_lock", "sus_assert", "sus_kill", "sus_wait",
               "sus_assert2"}
ResumePCs == {"res_check", "res_unlock", "res_wait"}
\* the third critical section of process_thread_buffer
CriticalPCs == {"limit", "switch", "patch"} \cup SuspendPCs \cup ResumePCs
PCs == {"unborn", "starting", "run", "wantData", "exited"}
         \cup InitPCs \cup CriticalPCs

HandlerPCs == {"none", "h_lock", "h_inc", "h_unlock", "h_pause", "h_unpause",
               "h_lock2", "h_dec", "h_unlock2"}

TypeOK ==
    /\ pc \in [Threads -> PCs]
    /\ hpc \in [Threads -> HandlerPCs]
    /\ pending \in [Threads -> BOOLEAN]
    /\ allthreads \subseteq Threads
    /\ dataLock \in Threads \cup {NoThread}
    /\ pauser \in Threads \cup {NoThread}
    /\ countlock \in Threads \cup {NoThread}
    /\ CountSuspended \in 0 .. CountMod - 1
    /\ CanSuspend \in BOOLEAN
    /\ installed \in BOOLEAN
    /\ killed \in BOOLEAN
    /\ targets \subseteq Threads
    /\ second \in BOOLEAN

\* uint32_t arithmetic on CountSuspended
Increment(n) == IF n = CountMod - 1 THEN 0 ELSE n + 1
DecrementSigned(n) == n - 1     \* a defective Decrement: a signed counter
Decrement(n) == IF n = 0 THEN CountMod - 1 ELSE n - 1

-----------------------------------------------------------------------------
(* The start of the program: the first image has been initialised by Main,  *)
(* whose AddImage inserted it in allthreads; no other thread exists.        *)
InitWith(started) ==
    /\ pc = [t \in Threads |-> IF t \in started THEN "run" ELSE "unborn"]
    /\ hpc = [t \in Threads |-> "none"]
    /\ pending = [t \in Threads |-> FALSE]
    /\ allthreads = started
    /\ dataLock = NoThread
    /\ pauser = NoThread
    /\ countlock = NoThread
    /\ CountSuspended = 0
    /\ killed = FALSE
    /\ targets = {}
    /\ second = FALSE

InitCold ==
    /\ InitWith({Main})
    /\ CanSuspend = FALSE
    /\ installed = FALSE

(* The program once a second thread has gone through tool_thread_init with  *)
(* nothing else happening: suspension is initialised.                       *)
InitWarm ==
    /\ \E started \in SUBSET Threads :
          /\ Main \in started
          /\ started # {Main}
          /\ InitWith(started)
    /\ CanSuspend = TRUE
    /\ installed = TRUE

-----------------------------------------------------------------------------
\* t executes its program or the library, not the signal handler
At(t, loc) == ~killed /\ hpc[t] = "none" /\ pc[t] = loc
Goto(t, loc) == pc' = [pc EXCEPT ![t] = loc]

\* t runs code of the program, where the instrumentation points are
Executing(t) == pc[t] = "run" /\ hpc[t] = "none"

(* A thread creates another: the wrapper of clone starts it in              *)
(* thread_started.                                                          *)
Create(t, u) ==
    /\ At(t, "run")
    /\ pc[u] = "unborn"
    /\ Goto(u, "starting")
    /\ UNCHANGED <<hpc, pending, allthreads, lockVars, suspendVars>>

(* AllData->AddThread, one critical section of AllData.  No signal can find *)
(* its thread inside: the sender would hold the same mutex.                 *)
AddThread(t) ==
    /\ At(t, "starting")
    /\ dataLock = NoThread
    /\ t \notin allthreads
    /\ allthreads' = allthreads \cup {t}
    /\ Goto(t, "init_check")
    /\ UNCHANGED <<hpc, pending, lockVars, suspendVars>>

(* InitializeSuspendHandler, called without a lock.                         *)
InitCheck(t) ==
    /\ At(t, "init_check")
    /\ Goto(t, IF CanSuspend THEN "run" ELSE "init_count")
    /\ UNCHANGED <<hpc, pending, allthreads, lockVars, suspendVars>>

InitCount(t) ==
    /\ At(t, "init_count")
    /\ CountSuspended' = 0
    /\ Goto(t, "init_pauser")
    /\ UNCHANGED <<hpc, pending, allthreads, lockVars, CanSuspend, installed,
                   killed, targets, second>>

\* pthread_mutex_init makes the mutex free, whoever holds it
InitPauser(t) ==
    /\ At(t, "init_pauser")
    /\ pauser' = NoThread
    /\ Goto(t, "init_countlock")
    /\ UNCHANGED <<hpc, pending, allthreads, dataLock, countlock, suspendVars>>

InitCountlock(t) ==
    /\ At(t, "init_countlock")
    /\ countlock' = NoThread
    /\ Goto(t, "init_can")
    /\ UNCHANGED <<hpc, pending, allthreads, dataLock, pauser, suspendVars>>

\* a defective InitCan: the handler is never installed
InitCanOnly(t) ==
    /\ At(t, "init_can")
    /\ CanSuspend' = TRUE
    /\ Goto(t, "run")
    /\ UNCHANGED <<hpc, pending, allthreads, lockVars, CountSuspended, installed,
                   killed, targets, second>>

InitCan(t) ==
    /\ At(t, "init_can")
    /\ CanSuspend' = TRUE
    /\ Goto(t, "init_sigaction")
    /\ UNCHANGED <<hpc, pending, allthreads, lockVars, CountSuspended, installed,
                   killed, targets, second>>

InitSigaction(t) ==
    /\ At(t, "init_sigaction")
    /\ installed' = TRUE
    /\ Goto(t, "run")
    /\ UNCHANGED <<hpc, pending, allthreads, lockVars, CountSuspended, CanSuspend,
                   killed, targets, second>>

(* A thread terminates.  tool_thread_fini does nothing, so the thread stays *)
(* in allthreads; a signal that was pending for it is dropped.              *)
Exit(t) ==
    /\ t \in MayExit
    /\ At(t, "run")
    /\ Goto(t, "exited")
    /\ pending' = [pending EXCEPT ![t] = FALSE]
    /\ UNCHANGED <<hpc, allthreads, lockVars, suspendVars>>

-----------------------------------------------------------------------------
(* process_thread_buffer, from the point where the thread asks for AllData  *)
(* to decide which points to switch.                                        *)
Flush(t) ==
    /\ At(t, "run")
    /\ Goto(t, "wantData")
    /\ UNCHANGED <<hpc, pending, allthreads, lockVars, suspendVars>>

LockData(t) ==
    /\ At(t, "wantData")
    /\ dataLock = NoThread
    /\ dataLock' = t
    /\ Goto(t, "limit")
    /\ UNCHANGED <<hpc, pending, allthreads, pauser, countlock, suspendVars>>

\* some blocks went over their access limit (MemsRemoved.size())
RemoveBlocks(t) ==
    /\ At(t, "limit")
    /\ second' = FALSE
    /\ Goto(t, "sus_check")
    /\ UNCHANGED <<hpc, pending, allthreads, lockVars, CountSuspended, CanSuspend,
                   installed, killed, targets>>

KeepBlocks(t) ==
    /\ At(t, "limit")
    /\ Goto(t, "switch")
    /\ UNCHANGED <<hpc, pending, allthreads, lockVars, suspendVars>>

\* Sampler->SwitchesMode(numElements)
SwitchMode(t) ==
    /\ At(t, "switch")
    /\ second' = TRUE
    /\ Goto(t, "sus_check")
    /\ UNCHANGED <<hpc, pending, allthreads, lockVars, CountSuspended, CanSuspend,
                   installed, killed, targets>>

UnLockData(t) ==
    /\ At(t, "switch")
    /\ dataLock' = NoThread
    /\ Goto(t, "run")
    /\ UNCHANGED <<hpc, pending, allthreads, pauser, countlock, suspendVars>>

\* ResumeAllThreads has returned
AfterResume(t) ==
    IF second
      THEN dataLock' = NoThread /\ Goto(t, "run")
      ELSE dataLock' = dataLock /\ Goto(t, "switch")

-----------------------------------------------------------------------------
(* SuspendAllThreads(size, b, e)                                            *)
SuspendCheck(t) ==
    /\ At(t, "sus_check")
    /\ Goto(t, IF CanSuspend THEN "sus_lock" ELSE "patch")
    /\ UNCHANGED <<hpc, pending, allthreads, lockVars, suspendVars>>

\* a defective SuspendLock: pauser is not taken
SuspendNoLock(t) ==
    /\ At(t, "sus_lock")
    /\ Goto(t, "sus_assert")
    /\ UNCHANGED <<hpc, pending, allthreads, lockVars, suspendVars>>

SuspendLock(t) ==
    /\ At(t, "sus_lock")
    /\ pauser = NoThread
    /\ pauser' = t
    /\ Goto(t, "sus_assert")
    /\ UNCHANGED <<hpc, pending, allthreads, dataLock, countlock, suspendVars>>

SuspendAssert(t) ==
    /\ At(t, "sus_assert")
    /\ CountSuspended = 0
    /\ targets' = allthreads \ {t}
    /\ Goto(t, "sus_kill")
    /\ UNCHANGED <<hpc, pending, allthreads, lockVars, CountSuspended, CanSuspend,
                   installed, killed, second>>

(* One pthread_kill.  A terminated thread does not get the signal; with the *)
(* default action still in place the signal ends the process.               *)
SuspendKill(t) ==
    /\ At(t, "sus_kill")
    /\ \E u \in targets :
          /\ targets' = targets \ {u}
          /\ pending' = [pending EXCEPT ![u] = installed /\ pc[u] # "exited"]
          /\ killed' = (~installed /\ pc[u] # "exited")
    /\ UNCHANGED <<pc, hpc, allthreads, lockVars, CountSuspended, CanSuspend,
                   installed, second>>

SuspendAllKilled(t) ==
    /\ At(t, "sus_kill")
    /\ targets = {}
    /\ Goto(t, "sus_wait")
    /\ UNCHANGED <<hpc, pending, allthreads, lockVars, suspendVars>>

\* the spin loop ends: CountSuspended < ksize is false
ksizeWithSelf == Cardinality(allthreads)        \* defective variants
ksizeWithoutTwo == Cardinality(allthreads) - 2
ksize == Cardinality(allthreads) - 1

\* a defective SuspendWait: it does not wait for the last thread
SuspendWaitShort(t) ==
    /\ At(t, "sus_wait")
    /\ CountSuspended >= ksize - 1
    /\ Goto(t, "sus_assert2")
    /\ UNCHANGED <<hpc, pending, allthreads, lockVars, suspendVars>>

SuspendWait(t) ==
    /\ At(t, "sus_wait")
    /\ CountSuspended >= ksize
    /\ Goto(t, "sus_assert2")
    /\ UNCHANGED <<hpc, pending, allthreads, lockVars, suspendVars>>

SuspendAssert2(t) ==
    /\ At(t, "sus_assert2")
    /\ CountSuspended = ksize
    /\ Goto(t, "patch")
    /\ UNCHANGED <<hpc, pending, allthreads, lockVars, suspendVars>>

\* SetDynamicPoints: the code of the points is being rewritten at "patch"
Patch(t) ==
    /\ At(t, "patch")
    /\ Goto(t, "res_check")
    /\ UNCHANGED <<hpc, pending, allthreads, lockVars, suspendVars>>

(* ResumeAllThreads()                                                       *)
ResumeCheck(t) ==
    /\ At(t, "res_check")
    /\ IF CanSuspend
         THEN dataLock' = dataLock /\ Goto(t, "res_unlock")
         ELSE AfterResume(t)
    /\ UNCHANGED <<hpc, pending, allthreads, pauser, countlock, suspendVars>>

\* unlocking frees the mutex whether or not t is its owner
ResumeUnlock(t) ==
    /\ At(t, "res_unlock")
    /\ pauser' = NoThread
    /\ Goto(t, "res_wait")
    /\ UNCHANGED <<hpc, pending, allthreads, dataLock, countlock, suspendVars>>

\* a defective ResumeWait: it does not wait for the others to go on
ResumeNoWait(t) ==
    /\ At(t, "res_wait")
    /\ AfterResume(t)
    /\ UNCHANGED <<hpc, pending, allthreads, pauser, countlock, suspendVars>>

ResumeWait(t) ==
    /\ At(t, "res_wait")
    /\ CountSuspended = 0
    /\ AfterResume(t)
    /\ UNCHANGED <<hpc, pending, allthreads, pauser, countlock, suspendVars>>

\* one more turn of a spin loop: pthread_yield()
Spin(t) ==
    /\ \/ At(t, "sus_wait") /\ CountSuspended < ksize
       \/ At(t, "res_wait") /\ CountSuspended > 0
    /\ UNCHANGED vars

-----------------------------------------------------------------------------
(* SuspendHandler.  SIGUSR2 is blocked while its handler runs, so a second  *)
(* signal stays pending until the handler returns.                          *)
InHandler(t, loc) == ~killed /\ hpc[t] = loc
HandlerGoto(t, loc) == hpc' = [hpc EXCEPT ![t] = loc]

Deliver(t) ==
    /\ InHandler(t, "none")
    /\ pending[t]
    /\ pending' = [pending EXCEPT ![t] = FALSE]
    /\ HandlerGoto(t, "h_lock")
    /\ UNCHANGED <<pc, allthreads, lockVars, suspendVars>>

HandlerLock(t) ==
    /\ countlock = NoThread
    /\ countlock' = t
    /\ \/ InHandler(t, "h_lock") /\ HandlerGoto(t, "h_inc")
       \/ InHandler(t, "h_lock2") /\ HandlerGoto(t, "h_dec")
    /\ UNCHANGED <<pc, pending, allthreads, dataLock, pauser, suspendVars>>

HandlerIncrement(t) ==
    /\ InHandler(t, "h_inc")
    /\ CountSuspended' = Increment(CountSuspended)
    /\ HandlerGoto(t, "h_unlock")
    /\ UNCHANGED <<pc, pending, allthreads, lockVars, CanSuspend, installed, killed,
                   targets, second>>

HandlerUnlock(t) ==
    /\ countlock' = NoThread
    /\ \/ InHandler(t, "h_unlock") /\ HandlerGoto(t, "h_pause")
       \/ InHandler(t, "h_unlock2") /\ HandlerGoto(t, "none")
    /\ UNCHANGED <<pc, pending, allthreads, dataLock, pauser, suspendVars>>

HandlerPause(t) ==
    /\ InHandler(t, "h_pause")
    /\ pauser = NoThread
    /\ pauser' = t
    /\ HandlerGoto(t, "h_unpause")
    /\ UNCHANGED <<pc, pending, allthreads, dataLock, countlock, suspendVars>>

HandlerUnpause(t) ==
    /\ InHandler(t, "h_unpause")
    /\ pauser' = NoThread
    /\ HandlerGoto(t, "h_lock2")
    /\ UNCHANGED <<pc, pending, allthreads, dataLock, countlock, suspendVars>>

\* a defective HandlerDecrement: it returns without releasing countlock
HandlerDecrementAndReturn(t) ==
    /\ InHandler(t, "h_dec")
    /\ CountSuspended' = Decrement(CountSuspended)
    /\ HandlerGoto(t, "none")
    /\ UNCHANGED <<pc, pending, allthreads, lockVars, CanSuspend, installed, killed,
                   targets, second>>

HandlerDecrement(t) ==
    /\ InHandler(t, "h_dec")
    /\ CountSuspended' = Decrement(CountSuspended)
    /\ HandlerGoto(t, "h_unlock2")
    /\ UNCHANGED <<pc, pending, allthreads, lockVars, CanSuspend, installed, killed,
                   targets, second>>

-----------------------------------------------------------------------------
ThreadInit(t) ==
    \/ AddThread(t) \/ InitCheck(t) \/ InitCount(t) \/ InitPauser(t)
    \/ InitCountlock(t) \/ InitCan(t) \/ InitSigaction(t)

Suspend(t) ==
    \/ SuspendCheck(t) \/ SuspendLock(t) \/ SuspendAssert(t) \/ SuspendKill(t)
    \/ SuspendAllKilled(t) \/ SuspendWait(t) \/ SuspendAssert2(t)

Resume(t) == ResumeCheck(t) \/ ResumeUnlock(t) \/ ResumeWait(t)

Critical(t) ==
    \/ RemoveBlocks(t) \/ KeepBlocks(t) \/ SwitchMode(t) \/ UnLockData(t)
    \/ Suspend(t) \/ Patch(t) \/ Resume(t) \/ Spin(t)

Handler(t) ==
    \/ Deliver(t) \/ HandlerLock(t) \/ HandlerIncrement(t) \/ HandlerUnlock(t)
    \/ HandlerPause(t) \/ HandlerUnpause(t) \/ HandlerDecrement(t)

Next ==
    \E t \in Threads :
        \/ \E u \in Threads : Create(t, u)
        \/ ThreadInit(t)
        \/ Exit(t)
        \/ Flush(t)
        \/ LockData(t)
        \/ Critical(t)
        \/ Handler(t)

(* The scheduler runs every thread again and again and the kernel delivers  *)
(* a pending signal: the steps of the library are fair.  What the program   *)
(* itself does (Create, Exit, Flush) is not.                                *)
Fairness ==
    \A t \in Threads : WF_vars(Critical(t)) /\ WF_vars(Handler(t))

SpecCold == InitCold /\ [][Next]_vars
SpecWarm == InitWarm /\ [][Next]_vars
FairSpecWarm == SpecWarm /\ Fairness

-----------------------------------------------------------------------------
(* Properties.                                                              *)

(* While a thread rewrites instrumentation points no other thread executes  *)
(* code of the program, where it could run through half-written bytes.      *)
PatchExclusion ==
    \A t, u \in Threads : pc[t] = "patch" /\ u # t => ~Executing(u)

(* The two assertions of SuspendAllThreads on CountSuspended hold where     *)
(* they stand: nobody is left over from an earlier round when a round       *)
(* begins, and nobody is counted twice when it is complete.                 *)
CountAsserts ==
    \A t \in Threads :
        /\ pc[t] = "sus_assert" => CountSuspended = 0
        /\ pc[t] = "sus_assert2" => CountSuspended = ksize

\* the threads that have incremented CountSuspended and not yet decremented it
Counted == {t \in Threads : hpc[t] \in {"h_unlock", "h_pause", "h_unpause",
                                        "h_lock2", "h_dec"}}

(* No thread leaves the handler's wait on pauser, back towards the program, *)
(* before the suspender it waits for has finished rewriting and released    *)
(* pauser.                                                                  *)
NoEarlyWake ==
    [][\A t \in Threads :
          hpc[t] = "h_pause" /\ hpc'[t] # "h_pause" =>
            \E u \in Threads : u # t /\ pc[u] = "res_wait"]_vars

(* Every request to stop the threads is granted: a thread that starts to    *)
(* signal the others reaches the point where it may rewrite code.           *)
SuspendCompletes ==
    \A t \in Threads : pc[t] = "sus_kill" ~> pc[t] = "patch"

(* A signalled thread gets back to its program: every stop is temporary.    *)
StoppedThreadResumes ==
    \A t \in Threads : hpc[t] # "none" ~> hpc[t] = "none"

(* A program that dies of SIGUSR2 does so only in the window in which       *)
(* CanSuspend is already set and SuspendHandler is not yet installed.       *)
KilledOnlyInInitWindow ==
    killed => CanSuspend /\ \E t \in Threads : pc[t] = "init_sigaction"
-----------------------------------------------------------------------------
(* ThreadSuspend implements StopTheWorld.  A thread counts as stopped from  *)
(* its increment of CountSuspended to its decrement, the patcher is the     *)
(* owner of AllData while it is between the first signal it sends and the   *)
(* end of the spin loop of ResumeAllThreads.                                *)

StoppingPCs == {"sus_kill", "sus_wait", "sus_assert2"}
PatchingPCs == {"patch", "res_check", "res_unlock"}
WakingPCs == {"res_wait"}

\* the owner of AllData is in one of the given places
OwnerAt(places) == \E t \in Threads : dataLock = t /\ pc[t] \in places

World == INSTANCE StopTheWorld WITH
    members <- allthreads,
    stopped <- Counted,
    patcher <- IF OwnerAt(StoppingPCs \cup PatchingPCs \cup WakingPCs)
                 THEN dataLock ELSE NoThread,
    phase   <- IF OwnerAt(StoppingPCs) THEN "stopping"
               ELSE IF OwnerAt(PatchingPCs) THEN "patching"
               ELSE IF OwnerAt(WakingPCs) THEN "waking" ELSE "idle"

(* The protocol of signals, mutexes and a counter implements the promise    *)
(* of SuspendAllThreads and ResumeAllThreads.                               *)
StopsTheWorld == World!Spec
=============================================================================
