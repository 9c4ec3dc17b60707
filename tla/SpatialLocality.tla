--------------------------- MODULE SpatialLocality ---------------------------
(***************************************************************************)
(* The spatial locality of a stream of addresses: the distance of an       *)
(* access to the nearest address among the last ones.  The window is kept  *)
(* twice: swindow in the order of the stream, awindow as a sorted map from *)
(* addresses to the number of their occurrences, in which only the         *)
(* neighbours of an address are looked at.  The class inherits from        *)
(* ReuseDistance but uses none of its windows; here it shares the stream.  *)
(***************************************************************************)
EXTENDS ReuseDistance

CONSTANTS SpatialWindow,    \* the window size w
          SpatialBin,       \* b, 0: no bins
          SpatialNMAX       \* n, 0: no limit

\* user space addresses: no difference has the highest bit
ASSUME AddressAssumption == Word \in Nat /\ Addresses \subseteq 0 .. Word \div 2 - 1
\* the assertions of SpatialLocality::Init
ASSUME SizeAssumption ==
    /\ SpatialWindow \in Nat \ {0} /\ SpatialBin \in Nat /\ SpatialNMAX \in Nat
    /\ SpatialNMAX = Infinity \/ SpatialNMAX >= SpatialBin

VARIABLES swindow, awindow, spatialcounts

spatialVars == <<swindow, awindow, spatialcounts>>

Invalid == Word - 1     \* INVALID_SPATIAL

Uint64abs(a) == IF a < Word \div 2 THEN a ELSE Word - a

Difference(a, b) == Uint64abs((a - b + Word) % Word)

SpatialBins ==
    (UNION {GetBin(Difference(a, b), SpatialBin, SpatialNMAX, Invalid) : a, b \in Addresses})
      \cup {Invalid}

SpatialTypeOK ==
    /\ swindow \in Seq(Addresses)
    /\ Len(swindow) <= SpatialWindow
    /\ DOMAIN awindow \subseteq Addresses
    /\ spatialcounts \in [Ids -> [SpatialBins -> 0 .. MaxSequence]]

SpatialInit ==
    /\ swindow = <<>>
    /\ awindow = <<>>
    /\ spatialcounts = [id \in Ids |-> [n \in SpatialBins |-> 0]]

SpatialUpdate(id, dist) ==
    \E bin \in GetBin(dist, SpatialBin, SpatialNMAX, Invalid) :
       spatialcounts' = [spatialcounts EXCEPT ![id][bin] = @ + 1]

\* awindow from upper_bound(addr) downwards, from its last entry if all
\* addresses are less or equal
Downwards(addr) ==
    {a \in DOMAIN awindow : \A b \in DOMAIN awindow : b > addr => a <= b}

\* a defective variant: one address less is looked at
NeighboursWithoutLast(addr) ==
    {a \in Downwards(addr) : Cardinality({b \in Downwards(addr) : a < b}) < 2}

\* the first three of these: the one above addr, if there is one, and the ones
\* before it
Neighbours(addr) ==
    {a \in Downwards(addr) : Cardinality({b \in Downwards(addr) : a < b}) < 3}

BestDiff(addr) ==
    LET diffs == {Difference(a, addr) : a \in Neighbours(addr)} \ {0}
    IN IF diffs = {} THEN Invalid ELSE CHOOSE d \in diffs : \A e \in diffs : d <= e

\* awindow[a] with one occurrence less
WithoutOne(aw, a) ==
    IF aw[a] > 1 THEN [aw EXCEPT ![a] = @ - 1]
    ELSE [x \in DOMAIN aw \ {a} |-> aw[x]]

WithOne(aw, a) ==
    [x \in DOMAIN aw \cup {a} |->
       (IF x \in DOMAIN aw THEN aw[x] ELSE 0) + (IF x = a THEN 1 ELSE 0)]

SpatialFull == Len(swindow) >= SpatialWindow

SpatialProcess(addr, id) ==
    /\ SpatialUpdate(id, BestDiff(addr))
    /\ swindow' = Append(IF SpatialFull THEN Tail(swindow) ELSE swindow, addr)
    /\ awindow' = WithOne(IF SpatialFull THEN WithoutOne(awindow, Head(swindow)) ELSE awindow, addr)

\* awindow when the first n addresses of swindow have left it
Flushed[n \in 0 .. Len(swindow)] ==
    IF n = 0 THEN awindow ELSE WithoutOne(Flushed[n - 1], swindow[n])

\* the front of swindow leaves both windows until there is none
SpatialSkipAddresses ==
    /\ swindow' = <<>>
    /\ awindow' = Flushed[Len(swindow)]
    /\ UNCHANGED spatialcounts

-----------------------------------------------------------------------------
(* The definition: the least distance, other than 0, to one of the last     *)
(* SpatialWindow addresses since some were skipped; invalid if there is     *)
(* none.                                                                    *)

Previous(n) ==
    {history[k].addr : k \in {j \in 1 .. n - 1 : /\ n - j <= SpatialWindow
                                                /\ \A i \in j .. n : ~history[i].skip}}

NearestDistance(n) ==
    LET a == history[n].addr
        diffs == {IF a > b THEN a - b ELSE b - a : b \in Previous(n)} \ {0}
    IN IF diffs = {} THEN Invalid ELSE CHOOSE d \in diffs : \A e \in diffs : d <= e

NearestBin(n) ==
    LET d == NearestDistance(n)
    IN IF d = Invalid \/ (SpatialNMAX # Infinity /\ d > SpatialNMAX) THEN Invalid
       ELSE BinOf(d, SpatialBin)

-----------------------------------------------------------------------------
(* Properties.                                                              *)

(* Looking at three neighbours in the sorted map (SpatialLocality::Process) *)
(* finds the nearest of all addresses in the window: every id has been      *)
(* charged, for each of its accesses, the bin of the distance as defined.   *)
NearestIsCounted ==
    \A id \in Ids, bin \in SpatialBins :
       spatialcounts[id][bin] =
         Cardinality({n \in 1 .. Len(history) :
                        ~history[n].skip /\ history[n].id = id /\ NearestBin(n) = bin})

=============================================================================
