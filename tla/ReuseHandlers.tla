----------------------------- MODULE ReuseHandlers -----------------------------
(***************************************************************************)
(* The two reuse handlers of a thread, as process_thread_buffer drives     *)
(* them: while sampling, every entry of the buffer goes to both, under the *)
(* hash of its block; otherwise both are told how many addresses were      *)
(* passed over.  A buffer goes through one handler after the other; as     *)
(* they share nothing, here an entry goes through both.                    *)
(***************************************************************************)
EXTENDS SpatialLocality

vars == <<reuseVars, spatialVars, history>>

TypeOK == ReuseTypeOK /\ SpatialTypeOK

Init ==
    /\ ReuseInit
    /\ SpatialInit
    /\ history = <<>>

ProcessEntry(addr, id) ==
    /\ Process(addr, id)
    /\ SpatialProcess(addr, id)
    /\ history' = Append(history, [addr |-> addr, id |-> id, skip |-> FALSE])

PassOver(numElements) ==
    /\ SkipAddresses(numElements)
    /\ SpatialSkipAddresses
    /\ history' = Append(history, [addr |-> 0, id |-> 0, skip |-> TRUE])

Next ==
    \/ \E addr \in Addresses, id \in Ids : ProcessEntry(addr, id)
    \/ \E numElements \in Amounts : PassOver(numElements)

Spec == Init /\ [][Next]_vars
=============================================================================
