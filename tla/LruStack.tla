------------------------------- MODULE LruStack -------------------------------
(***************************************************************************)
(* A cache with the least recently used replacement, seen from outside: a  *)
(* stack of the last Size stores, the latest first, cut into levels.       *)
(* A request is answered with the level that holds the store, and makes    *)
(* the store the latest.                                                   *)
(***************************************************************************)
EXTENDS Integers, Sequences

CONSTANTS Requests,       \* the stores that may be requested
          Ways,           \* the number of stores of each level, a sequence
          Pending         \* the answer while a request is open

VARIABLES stack, request, answer

Size[n \in 0 .. Len(Ways)] == IF n = 0 THEN 0 ELSE Size[n - 1] + Ways[n]

\* the level, from 0, that holds the n-th store of the stack
LevelOf(n) == CHOOSE l \in 0 .. Len(Ways) - 1 : Size[l] < n /\ n <= Size[l + 1]

Positions(x) == {n \in 1 .. Len(stack) : stack[n] = x}

Without(x) == SelectSeq(stack, LAMBDA y : y # x)

Cut(seq) == IF Len(seq) > Size[Len(Ways)] THEN SubSeq(seq, 1, Size[Len(Ways)]) ELSE seq

Init ==
    /\ stack = <<>>
    /\ request \in Requests
    /\ answer = Pending

Request(x) ==
    /\ request' = x
    /\ answer' = Pending
    /\ UNCHANGED stack

\* Len(Ways): no level holds the store
Answer ==
    /\ answer = Pending
    /\ answer' = IF Positions(request) = {} THEN Len(Ways)
                 ELSE LevelOf(CHOOSE n \in Positions(request) : TRUE)
    /\ stack' = Cut(<<request>> \o Without(request))
    /\ UNCHANGED request

Next == Answer \/ \E x \in Requests : Request(x)

Spec == Init /\ [][Next]_<<stack, request, answer>>
=============================================================================
