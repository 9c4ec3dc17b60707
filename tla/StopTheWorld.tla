----------------------------- MODULE StopTheWorld -----------------------------
(***************************************************************************)
(* What SuspendAllThreads and ResumeAllThreads promise to the code between *)
(* them, with no mutex, signal or counter in sight: one thread at a time   *)
(* is the patcher; while it patches, every other member is stopped; a      *)
(* member that was stopped goes on only after the patcher is done, and a   *)
(* new round begins only when all of them have gone on.                    *)
(***************************************************************************)
EXTENDS FiniteSets

CONSTANTS Threads,      \* all threads
          NoThread      \* there is no patcher

VARIABLES members,      \* the threads a patcher must stop
          stopped,      \* the members that are stopped
          patcher,      \* the thread that stops the others, or NoThread
          phase         \* "idle", "stopping", "patching" or "waking"

vars == <<members, stopped, patcher, phase>>

TypeOK ==
    /\ members \subseteq Threads
    /\ stopped \subseteq members
    /\ patcher \in Threads \cup {NoThread}
    /\ phase \in {"idle", "stopping", "patching", "waking"}

Init ==
    /\ members \subseteq Threads
    /\ stopped = {}
    /\ patcher = NoThread
    /\ phase = "idle"

\* a thread registers; nobody is stopping the members at that moment
Join(t) ==
    /\ phase = "idle"
    /\ members' = members \cup {t}
    /\ UNCHANGED <<stopped, patcher, phase>>

StartStopping(t) ==
    /\ phase = "idle"
    /\ t \in members
    /\ patcher' = t
    /\ phase' = "stopping"
    /\ UNCHANGED <<members, stopped>>

Stop(u) ==
    /\ phase = "stopping"
    /\ u \in members \ (stopped \cup {patcher})
    /\ stopped' = stopped \cup {u}
    /\ UNCHANGED <<members, patcher, phase>>

StartPatching ==
    /\ phase = "stopping"
    /\ stopped = members \ {patcher}
    /\ phase' = "patching"
    /\ UNCHANGED <<members, stopped, patcher>>

StartWaking ==
    /\ phase = "patching"
    /\ phase' = "waking"
    /\ UNCHANGED <<members, stopped, patcher>>

Wake(u) ==
    /\ phase = "waking"
    /\ u \in stopped
    /\ stopped' = stopped \ {u}
    /\ UNCHANGED <<members, patcher, phase>>

Finish ==
    /\ phase = "waking"
    /\ stopped = {}
    /\ patcher' = NoThread
    /\ phase' = "idle"
    /\ UNCHANGED <<members, stopped>>

Next ==
    \/ \E t \in Threads : Join(t) \/ StartStopping(t) \/ Stop(t) \/ Wake(t)
    \/ StartPatching \/ StartWaking \/ Finish

Spec == Init /\ [][Next]_vars

\* while the patcher patches, all other members are stopped
Exclusion == phase = "patching" => members \ {patcher} = stopped
=============================================================================
