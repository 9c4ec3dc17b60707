--------------------------- MODULE MCReuseHandlers ---------------------------
(* The handlers of a thread, the tree in which a reuse handler keeps its    *)
(* window, and the binning of every distance up to MaxDistance.  A          *)
(* behaviour is about the handlers, for which the window is a sorted        *)
(* sequence, or about the tree, which must be one.                          *)
EXTENDS ReuseHandlers

CONSTANTS MaxDistance,
          TreeEntries,  \* entries of the tree
          IntRange      \* half of the values of an int

(* Whatever b is, a distance is counted by itself up to b and in the        *)
(* smallest power of two that is not less above b.                          *)
ASSUME BinsAssumption ==
    \A b \in 0 .. 9, d \in 1 .. MaxDistance :
       GetBin(d, b, Infinity, Infinity) = {BinOf(d, b)}

(* The window never spans so many accesses that reusecmp wraps around.      *)
ASSUME SpanAssumption == \A a, b \in TreeEntries : a - b < IntRange

VARIABLES part, root
Tree == INSTANCE CountedTree WITH Numbers <- TreeEntries

PartsInit == /\ Init /\ Tree!Init
             /\ part \in {"handlers", "tree"}
             /\ part = "tree" => capacity = Infinity
PartsNext == \/ part = "handlers" /\ Next /\ UNCHANGED <<part, root>>
             \/ part = "tree" /\ Tree!Next /\ UNCHANGED <<part, vars>>
PartsSpec == PartsInit /\ [][PartsNext]_<<part, vars, root>>

(* What holds of the tree (CountedTree): it is a sorted sequence, balanced  *)
(* and counted.                                                             *)
TreeKeepsTheWindow == Tree!KeepsTheWindow /\ Tree!Balanced
=============================================================================
