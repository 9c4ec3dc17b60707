----------------------- MODULE CacheHierarchyRefinement -----------------------
(***************************************************************************)
(* A hierarchy of exclusive levels with true LRU and one set behaves as a  *)
(* single LRU stack of all its lines: an access hits at the level whose    *)
(* range of the stack holds the store.  While a victim is on its way from  *)
(* one level to the next, the stack is already the new one.                *)
(***************************************************************************)
EXTENDS CacheHierarchy

LOCAL INSTANCE SequencesExt

Ways == [n \in 1 .. LevelCount |-> Associativity[n - 1]]

\* the stores of level l, the one used most recently first
Recency(l) ==
    LET ring == historyUsed[l][0]
        nth[n \in 1 .. Associativity[l]] ==
            ring[IF n = 1 THEN recentlyUsed[l][0] ELSE nth[n - 1]].prev
    IN SelectSeq([n \in 1 .. Associativity[l] |-> contents[l][0][nth[n]]], LAMBDA x : x # 0)

RequestedStore == GetStorage(0, access.addr)

\* a victim is on its way to level next
OnItsWay == Busy /\ evict.level # Invalid

Level(l) ==
    IF ~OnItsWay \/ l < next THEN Recency(l)
    ELSE SelectSeq(Recency(l), LAMBDA x : x # RequestedStore)

Victim == IF OnItsWay /\ evict.addr # 0 THEN <<evict.addr>> ELSE <<>>

AllLines ==
    FlattenSeq([n \in 1 .. LevelCount |->
        IF n - 1 = next THEN Victim \o Level(n - 1) ELSE Level(n - 1)])

Total == Cardinality(UNION {{l} \X Lines(l) : l \in Levels})

Lru == INSTANCE LruStack WITH
         Requests <- Stores(0),
         Pending <- Invalid,
         stack <- IF Len(AllLines) > Total THEN SubSeq(AllLines, 1, Total) ELSE AllLines,
         request <- RequestedStore,
         answer <- evict.level

(* Exclusive levels with true LRU implement one LRU stack.                  *)
IsLruStack == Lru!Spec
=============================================================================
