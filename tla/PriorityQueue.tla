--------------------------- MODULE PriorityQueue ---------------------------
(***************************************************************************)
(* PriorityQueue.h: a binary heap in an array that grows, so that its      *)
(* capacity does not show.  An entry is [prio, data]; entry 1 has the      *)
(* smallest prio.                                                          *)
(***************************************************************************)
LOCAL INSTANCE Naturals
LOCAL INSTANCE Sequences

exchange(h, i, j) == [h EXCEPT ![i] = h[j], ![j] = h[i]]

RECURSIVE heapify(_, _)
heapify(h, i) ==
    LET Least(a, b) == IF b <= Len(h) /\ h[b].prio < h[a].prio THEN b ELSE a
        least == Least(Least(i, 2 * i), (2 * i) + 1)
    IN  IF least = i THEN h ELSE heapify(exchange(h, i, least), least)

RECURSIVE SiftUp(_, _)
SiftUp(h, i) ==
    IF i > 1 /\ h[i \div 2].prio > h[i].prio THEN SiftUp(exchange(h, i, i \div 2), i \div 2) ELSE h

insert(h, data, prio) == SiftUp(Append(h, [prio |-> prio, data |-> data]), Len(h) + 1)

\* What is left after deleteMin, which returns h[1].
deleteMin(h) == IF Len(h) = 1 THEN << >>
                ELSE heapify([SubSeq(h, 1, Len(h) - 1) EXCEPT ![1] = h[Len(h)]], 1)
=============================================================================
