---------------------------- MODULE ReuseDistance ----------------------------
(***************************************************************************)
(* The reuse distance of a stream of addresses.  The window holds the last *)
(* distinct addresses twice: as a tree of <<sequence, address>>, sorted by *)
(* sequence and counted, here a sequence; and as a map from addresses to   *)
(* sequence numbers, by which an address is found in the tree.  Statistics *)
(* are kept for each id, the window is shared.                             *)
(*                                                                         *)
(* history is the stream, for the reference definition of distance; module *)
(* ReuseHandlers feeds it.  MaxSequence bounds the stream.                 *)
(***************************************************************************)
EXTENDS DistanceBins, SequencesExt

CONSTANTS Addresses, Ids,
          Windows,          \* window sizes w, 0: no limit
          BinIndividual,    \* b, 0: no bins
          Amounts,          \* of skipped addresses
          MaxSequence

ASSUME WindowAssumption == Windows \subseteq Nat /\ BinIndividual \in Nat
ASSUME SequenceAssumption == MaxSequence \in Nat /\ Amounts \subseteq Nat

VARIABLES capacity, window, mwindow, current, sequence, distcounts, history

reuseVars == <<capacity, window, mwindow, current, sequence, distcounts>>

Entries == [seq : 1 .. MaxSequence, address : Addresses]
AllBins == UNION {GetBin(d, BinIndividual, w, Infinity) : d \in 0 .. MaxSequence, w \in Windows}

ReuseTypeOK ==
    /\ capacity \in Windows
    /\ window \in Seq(Entries)
    /\ DOMAIN mwindow \subseteq Addresses
    /\ \A a \in DOMAIN mwindow : mwindow[a] \in 1 .. MaxSequence
    /\ current \in 0 .. MaxSequence
    /\ sequence \in 1 .. MaxSequence
    /\ distcounts \in [Ids -> [AllBins -> 0 .. MaxSequence]]

ReuseInit ==
    /\ capacity \in Windows
    /\ window = <<>>
    /\ mwindow = <<>>
    /\ current = 0
    /\ sequence = 1
    /\ distcounts = [id \in Ids |-> [n \in AllBins |-> 0]]

Update(id, dist) ==
    \E bin \in GetBin(dist, BinIndividual, capacity, Infinity) :
       distcounts' = [distcounts EXCEPT ![id][bin] = @ + 1]

\* the 0-based position in the tree of the entry with this sequence number
Rank(seq) == Cardinality({n \in 1 .. Len(window) : window[n].seq < seq})

Full == capacity # Infinity /\ current >= capacity

Remember(addr, old) ==
    mwindow' = [a \in (DOMAIN mwindow \ {old}) \cup {addr} |->
                   IF a = addr THEN sequence ELSE mwindow[a]]

\* a defective variant: a distance of 0 for the latest address
DistanceFromZero(dist) == current - dist - 1

Distance(dist) == current - dist

Process(addr, id) ==
    /\ sequence < MaxSequence
    /\ LET found == addr \in DOMAIN mwindow
           dist == IF found THEN Rank(mwindow[addr]) ELSE 0
           entry == [seq |-> sequence, address |-> addr]
       IN /\ Update(id, IF found THEN Distance(dist) ELSE Infinity)
          /\ IF found \/ Full
               THEN /\ window' = Append(RemoveAt(window, dist + 1), entry)
                    /\ Remember(addr, window[dist + 1].address)
                    /\ UNCHANGED current
               ELSE /\ window' = Append(window, entry)
                    /\ Remember(addr, addr)
                    /\ current' = current + 1
    /\ sequence' = sequence + 1
    /\ UNCHANGED capacity

SkipAddresses(amount) ==
    /\ sequence + amount <= MaxSequence
    /\ sequence' = sequence + amount
    /\ window' = <<>>
    /\ mwindow' = <<>>
    /\ current' = 0
    /\ UNCHANGED <<capacity, distcounts>>

-----------------------------------------------------------------------------
(* The definition: the distance of an access is the number of distinct      *)
(* addresses since the last access to the same address, its own included;   *)
(* infinite if there is none, if it is further away than the window is      *)
(* long, or if addresses were skipped in between.                           *)

Earlier(n) ==
    {k \in 1 .. n - 1 : /\ ~history[k].skip /\ history[k].addr = history[n].addr
                        /\ \A j \in k .. n : ~history[j].skip}

DistanceOf(n) ==
    IF Earlier(n) = {} THEN Infinity
    ELSE LET last == CHOOSE k \in Earlier(n) : \A j \in Earlier(n) : j <= k
             d == Cardinality({history[j].addr : j \in last .. n - 1})
         IN IF capacity # Infinity /\ d > capacity THEN Infinity ELSE d

-----------------------------------------------------------------------------
(* Properties.                                                              *)

(* Every id has been charged, for each of its accesses, the bin of the      *)
(* distance as defined, and nothing else.                                   *)
CountsDistances ==
    \A id \in Ids, bin \in AllBins :
       distcounts[id][bin] =
         Cardinality({n \in 1 .. Len(history) :
                        /\ ~history[n].skip /\ history[n].id = id
                        /\ BinOf(DistanceOf(n), BinIndividual) = bin})

=============================================================================
