----------------------- MODULE CacheHierarchy_proofs -----------------------
(***************************************************************************)
(* Theorems about CacheHierarchy for any number of levels, any sizes, any  *)
(* replacement policies and any set of addresses: types, the agreement of  *)
(* the counters of neighbouring levels, for levels of one set that a store *)
(* is held once, and the order in which the policies give up lines.        *)
(***************************************************************************)
EXTENDS CacheHierarchy, FiniteSetTheorems, NumberLemmas

\* what a level keeps is kept per level, set and line
ContentsType ==
    /\ contents = [l \in Levels |-> contents[l]]
    /\ \A l \in Levels : contents[l] \in [Sets(l) -> [Lines(l) -> AnyStore]]
RecentType ==
    /\ recentlyUsed = [l \in Levels |-> recentlyUsed[l]]
    /\ \A l \in Levels : recentlyUsed[l] \in [Sets(l) -> Lines(l)]
Rings(l) == [Lines(l) -> [prev : Lines(l), next : Lines(l)]]
HistoryType ==
    /\ historyUsed = [l \in Levels |-> historyUsed[l]]
    /\ \A l \in Levels : historyUsed[l] \in [Sets(l) -> Rings(l)]

\* the map of a set: stores to lines
IsMap(l, fast) ==
    /\ fast = [x \in DOMAIN fast |-> fast[x]]
    /\ DOMAIN fast \subseteq AnyStore
    /\ \A x \in DOMAIN fast : fast[x] \in Lines(l)
FastType ==
    /\ fastcontents = [l \in Levels |-> fastcontents[l]]
    /\ \A l \in Levels :
          /\ fastcontents[l] = [s \in Sets(l) |-> fastcontents[l][s]]
          /\ \A s \in Sets(l) : IsMap(l, fastcontents[l][s])

\* a line that was hit is a line of that level
EvictType ==
    /\ evict = [level |-> evict.level, addr |-> evict.addr, setid |-> evict.setid,
                lineid |-> evict.lineid]
    /\ evict.level \in Levels \cup {LevelCount, Invalid}
    /\ evict.addr \in AnyStore
    /\ evict.level \in Levels => evict.lineid \in Lines(evict.level)

CountType ==
    /\ hitCount \in [MemIds -> [Levels -> 0 .. W - 1]]
    /\ missCount \in [MemIds -> [Levels -> 0 .. W - 1]]

WalkType ==
    /\ next \in Levels \cup {LevelCount, Invalid}
    /\ access \in [addr : Addresses, memid : MemIds]
    /\ FirstExclusive \in FirstExclusives

Shape == ContentsType /\ RecentType /\ HistoryType /\ FastType /\ EvictType /\ CountType
         /\ WalkType

-----------------------------------------------------------------------------
\* Stores are numbers, so that GetSet yields a set of the level.
LEMMA StoreType ==
    /\ AnyStore \subseteq Nat /\ 0 \in AnyStore
    /\ \A a \in Addresses, l \in Levels : GetStorage(l, a) \in AnyStore
<1>1. \A l \in Levels : Stores(l) \subseteq Nat
  BY AddressAssumption DEF Stores
<1>2. \A a \in Addresses, l \in Levels : GetStorage(l, a) \in Stores(l)
  BY DEF Stores
<1>3. \A a \in Addresses, l \in Levels : GetStorage(l, a) \in AnyStore
  BY <1>2 DEF AnyStore
<1> QED  BY <1>1, <1>3 DEF AnyStore

LEMMA SetType ==
    ASSUME NEW l \in Levels, NEW store \in AnyStore PROVE GetSet(l, store) \in Sets(l)
<1>1. store \in Nat /\ SetCount[l] \in Nat \ {0}
  BY StoreType, SizeAssumption
<1> QED  BY <1>1 DEF GetSet, Sets

LEMMA LevelType ==
    /\ LevelCount \in Nat \ {0} /\ Levels \subseteq Nat /\ Invalid \notin Levels
    /\ LevelCount \notin Levels /\ Invalid # LevelCount
    /\ \A l \in Levels : l + 1 \in Levels \cup {LevelCount}
BY LevelAssumption DEF Levels, Invalid

LEMMA LinesType ==
    ASSUME NEW l \in Levels
    PROVE  /\ 0 \in Lines(l) /\ Lines(l) \subseteq Nat
           /\ \A x \in Int : x % Associativity[l] \in Lines(l)
<1>1. Associativity[l] \in Nat \ {0}
  BY SizeAssumption
<1> QED  BY <1>1 DEF Lines

\* The line that is replaced is a line of the set (LineToReplace).
LEMMA ReplaceLine ==
    ASSUME NEW l \in Levels, NEW set \in Sets(l), RecentType
    PROVE  LineToReplace(l, set) \subseteq Lines(l)
<1>1. recentlyUsed[l][set] \in Lines(l)
  BY DEF RecentType
<1>2. (recentlyUsed[l][set] + 1) % Associativity[l] \in Lines(l) /\ 0 \in Lines(l)
  BY <1>1, LinesType
<1>3. Policy[l] \in {"nmru", "trulru", "direct", "random"}
  BY PolicyAssumption
<1> QED  BY <1>1, <1>2, <1>3 DEF LineToReplace

\* A line found is a line of the set (Search).
LEMMA SearchLine ==
    ASSUME NEW l \in Levels, NEW store \in AnyStore, FastType
    PROVE  Search(l, store) \subseteq Lines(l)
BY SetType DEF Search, FastType, IsMap

\* Moving a line within the ring keeps it a ring of lines (CacheLevel::MarkUsed).
LEMMA RingType ==
    ASSUME NEW l \in Levels, NEW ring \in Rings(l), NEW line \in Lines(l), NEW head \in Lines(l)
    PROVE  InsertBefore(Unlink(ring, line), line, head) \in Rings(l)
<1>1. \A r \in Rings(l), n, k \in Lines(l) :
          /\ [r EXCEPT ![n].prev = k] \in Rings(l)
          /\ [r EXCEPT ![n].next = k] \in Rings(l)
          /\ [r EXCEPT ![n] = [prev |-> r[head].prev, next |-> k]] \in Rings(l)
          /\ r[n].prev \in Lines(l) /\ r[n].next \in Lines(l)
  BY DEF Rings
<1>2. Unlink(ring, line) \in Rings(l)
  BY <1>1 DEF Unlink
<1>3. ASSUME NEW r \in Rings(l) PROVE InsertBefore(r, line, head) \in Rings(l)
  BY <1>1 DEF InsertBefore
<1> QED  BY <1>2, <1>3

LEMMA MarkUsedType ==
    ASSUME RecentType, HistoryType, NEW l \in Levels, NEW set \in Sets(l),
           NEW line \in Lines(l), MarkUsed(l, set, line)
    PROVE  RecentType' /\ HistoryType'
<1>1. recentlyUsed[l][set] \in Lines(l) /\ historyUsed[l][set] \in Rings(l)
      /\ historyUsed[l][set][line].next \in Lines(l)
  BY DEF RecentType, HistoryType, Rings
<1>2. InsertBefore(Unlink(historyUsed[l][set], line), line, recentlyUsed[l][set]) \in Rings(l)
  BY <1>1, RingType
<1>3. ASSUME NEW n \in Lines(l), recentlyUsed' = [recentlyUsed EXCEPT ![l][set] = n]
      PROVE  RecentType'
  BY <1>3 DEF RecentType
<1>4. ASSUME NEW r \in Rings(l), historyUsed' = [historyUsed EXCEPT ![l][set] = r]
      PROVE  HistoryType'
  BY <1>4 DEF HistoryType
<1>5. (recentlyUsed' = recentlyUsed => RecentType') /\ (historyUsed' = historyUsed => HistoryType')
  BY DEF RecentType, HistoryType
<1> HIDE DEF RecentType, HistoryType
<1>6. \/ \E n \in Lines(l) : recentlyUsed' = [recentlyUsed EXCEPT ![l][set] = n] /\ historyUsed' = historyUsed
      \/ \E r \in Rings(l) : historyUsed' = [historyUsed EXCEPT ![l][set] = r] /\ recentlyUsed' = recentlyUsed
      \/ UNCHANGED <<recentlyUsed, historyUsed>>
  <2>1. CASE Policy[l] = "nmru"
    BY <2>1 DEF MarkUsed
  <2>2. CASE Policy[l] = "trulru" /\ line = recentlyUsed[l][set]
    BY <1>1, <2>2 DEF MarkUsed
  <2>3. CASE Policy[l] = "trulru" /\ line # recentlyUsed[l][set]
    BY <1>2, <2>3 DEF MarkUsed
  <2>4. CASE Policy[l] \notin {"nmru", "trulru"}
    BY <2>4 DEF MarkUsed
  <2> QED  BY <2>1, <2>2, <2>3, <2>4
<1> QED  BY <1>3, <1>4, <1>5, <1>6

\* A map that is updated is a map of lines (fastcontents).
LEMMA RememberType ==
    ASSUME NEW l \in Levels, NEW fast, IsMap(l, fast), NEW prev, NEW store \in AnyStore,
           NEW line \in Lines(l)
    PROVE  IsMap(l, Remember(fast, prev, store, line))
BY DEF IsMap, Remember

\* CacheLevel::Replace keeps the types.
LEMMA ReplaceType ==
    ASSUME ContentsType, RecentType, HistoryType, FastType, NEW l \in Levels,
           NEW store \in AnyStore, NEW set \in Sets(l), NEW line \in Lines(l),
           Replace(l, store, set, line)
    PROVE  ContentsType' /\ RecentType' /\ HistoryType' /\ FastType'
<1>1. RecentType' /\ HistoryType'
  BY MarkUsedType DEF Replace
<1>2. ContentsType'
  BY DEF Replace, ContentsType
<1>3. FastType'
  <2>1. CASE l \in HighAssoc
    <3> DEFINE new == Remember(fastcontents[l][set], contents[l][set][line], store, line)
    <3>1. IsMap(l, new)
      BY RememberType DEF FastType
    <3>2. fastcontents' = [fastcontents EXCEPT ![l][set] = new]
      BY <2>1 DEF Replace
    <3> HIDE DEF new
    <3> QED  BY <3>1, <3>2 DEF FastType
  <2>2. CASE l \notin HighAssoc
    BY <2>2 DEF Replace, FastType
  <2> QED  BY <2>1, <2>2
<1> QED  BY <1>1, <1>2, <1>3

\* The counters stay below W.
LEMMA CountStep ==
    ASSUME NEW counter \in [MemIds -> [Levels -> 0 .. W - 1]], NEW l \in Levels,
           access.memid \in MemIds
    PROVE  Count(counter, l) \in [MemIds -> [Levels -> 0 .. W - 1]]
<1>1. \A n \in 0 .. W - 1 : (n + 1) % W \in 0 .. W - 1
  BY StatsAssumption
<1>2. counter[access.memid][l] \in 0 .. W - 1
  OBVIOUS
<1>3. [counter[access.memid] EXCEPT ![l] = (@ + 1) % W] \in [Levels -> 0 .. W - 1]
  BY <1>1, <1>2
<1>4. Count(counter, l)
        = [counter EXCEPT ![access.memid] = [counter[access.memid] EXCEPT ![l] = (@ + 1) % W]]
  BY DEF Count
<1> QED  BY <1>3, <1>4

\* An initial structure has the types.
LEMMA InitType == Init => Shape
<1> SUFFICES ASSUME Init PROVE Shape
  OBVIOUS
<1>1. ContentsType
  BY StoreType DEF Init, ContentsType
<1>2. RecentType
  BY LinesType DEF Init, RecentType
<1>3. HistoryType
  <2>1. ASSUME NEW l \in Levels PROVE InitialRing(l) \in Rings(l)
    BY LinesType, SizeAssumption DEF InitialRing, Rings
  <2> QED  BY <2>1 DEF Init, HistoryType
<1>4. FastType
  BY DEF Init, FastType, IsMap
<1>5. EvictType
  BY StoreType, LevelType DEF Init, EvictType, NoEviction
<1>6. CountType
  BY StatsAssumption DEF Init, CountType
<1>7. WalkType
  BY DEF Init, WalkType
<1> QED  BY <1>1, <1>2, <1>3, <1>4, <1>5, <1>6, <1>7 DEF Shape

\* An access begins, or stays as it is.
LEMMA StartType ==
    ASSUME Shape, NEW a \in Addresses, NEW m \in MemIds, Start(a, m), UNCHANGED FirstExclusive
    PROVE  Shape'
<1>1. ContentsType' /\ RecentType' /\ HistoryType' /\ FastType' /\ CountType'
  BY DEF Start, caches, Shape, ContentsType, RecentType, HistoryType, FastType, CountType
<1>2. EvictType'
  BY StoreType, LevelType DEF Start, NoEviction, EvictType
<1>3. WalkType'
  BY LevelAssumption DEF Start, WalkType, Shape, Levels
<1> QED  BY <1>1, <1>2, <1>3 DEF Shape

\* A level that is looked up by itself (CacheLevel::Process).
LEMMA IndependentType ==
    ASSUME Shape, NEW l \in Levels, Hit(l) \/ Miss(l), UNCHANGED FirstExclusive
    PROVE  Shape'
<1> DEFINE store == GetStorage(l, access.addr)
           set == GetSet(l, store)
<1>1. store \in AnyStore /\ access.memid \in MemIds
  BY StoreType DEF Shape, WalkType
<1>2. set \in Sets(l)
  BY <1>1, SetType
<1>3. Search(l, store) \subseteq Lines(l) /\ LineToReplace(l, set) \subseteq Lines(l)
  BY <1>1, <1>2, SearchLine, ReplaceLine DEF Shape
<1>4. ContentsType' /\ RecentType' /\ HistoryType' /\ FastType'
  <2>1. CASE Hit(l)
    <3>1. PICK line \in Search(l, store) : MarkUsed(l, set, line)
      BY <2>1 DEF Hit
    <3>2. RecentType' /\ HistoryType'
      BY <1>2, <1>3, <3>1, MarkUsedType DEF Shape
    <3> QED  BY <2>1, <3>2 DEF Hit, Shape, ContentsType, FastType
  <2>2. CASE Miss(l)
    <3>1. PICK line \in LineToReplace(l, set) : Replace(l, store, set, line)
      BY <2>2 DEF Miss
    <3> QED  BY <1>1, <1>2, <1>3, <3>1, ReplaceType DEF Shape
  <2> QED  BY <2>1, <2>2
<1>5. CountType'
  <2>1. (hitCount' = hitCount \/ hitCount' = Count(hitCount, l))
        /\ (missCount' = missCount \/ missCount' = Count(missCount, l))
    BY DEF Hit, Miss
  <2> QED  BY <1>1, <2>1, CountStep DEF Shape, CountType
<1>6. EvictType' /\ WalkType'
  BY LevelType DEF Hit, Miss, Shape, EvictType, WalkType
<1> QED  BY <1>4, <1>5, <1>6 DEF Shape

\* An exclusive level (ExclusiveCacheLevel::Process).
LEMMA ExclusiveType ==
    ASSUME Shape, NEW l \in Levels, ExclusiveHit(l) \/ ExclusiveMiss(l) \/ Victimize(l),
           UNCHANGED FirstExclusive
    PROVE  Shape'
<1> DEFINE store == GetStorage(l, access.addr)
           set == GetSet(l, store)
<1>1. store \in AnyStore /\ access.memid \in MemIds
  BY StoreType DEF Shape, WalkType
<1>2. set \in Sets(l) /\ Search(l, store) \subseteq Lines(l)
  BY <1>1, SetType, SearchLine DEF Shape
<1>3. FirstExclusive \in Levels
  BY LevelAssumption DEF ExclusiveHit, ExclusiveMiss, Victimize, IsExclusive, Shape, WalkType,
         Levels
<1>4. CASE ExclusiveHit(l)
  <2>1. PICK line \in Search(l, store) :
            /\ MarkUsed(l, set, line)
            /\ evict' = [level |-> l, addr |-> store, setid |-> set, lineid |-> line]
    BY <1>4 DEF ExclusiveHit
  <2>2. RecentType' /\ HistoryType'
    BY <1>2, <2>1, MarkUsedType DEF Shape
  <2>3. EvictType'
    BY <1>1, <1>2, <2>1 DEF EvictType
  <2>4. CountType'
    BY <1>1, <1>4, CountStep DEF ExclusiveHit, Shape, CountType
  <2>5. ContentsType' /\ FastType' /\ WalkType'
    BY <1>3, <1>4 DEF ExclusiveHit, Shape, ContentsType, FastType, WalkType
  <2> QED  BY <2>2, <2>3, <2>4, <2>5 DEF Shape
<1>5. CASE ExclusiveMiss(l)
  <2>1. EvictType'
    <3>1. LastExclusive + 1 = LevelCount
      BY LevelAssumption DEF LastExclusive
    <3> QED  BY <1>1, <1>5, <3>1, LevelType DEF ExclusiveMiss, Shape, EvictType
  <2>2. CountType'
    BY <1>1, <1>5, CountStep DEF ExclusiveMiss, Shape, CountType
  <2>3. ContentsType' /\ RecentType' /\ HistoryType' /\ FastType'
    BY <1>5 DEF ExclusiveMiss, caches, Shape, ContentsType, RecentType, HistoryType, FastType
  <2>4. WalkType'
    BY <1>3, <1>5, LevelType DEF ExclusiveMiss, Shape, WalkType
  <2> QED  BY <2>1, <2>2, <2>3, <2>4 DEF Shape
<1>6. CASE Victimize(l)
  <2> DEFINE place == GetSet(l, evict.addr)
  <2>1. place \in Sets(l)
    BY SetType DEF Shape, EvictType
  <2>2. PICK line \in VictimLines(l, place) :
            /\ Replace(l, evict.addr, place, line)
            /\ evict' = [evict EXCEPT !.addr = contents[l][place][line]]
    BY <1>6 DEF Victimize
  <2>3. line \in Lines(l)
    BY <2>1, <2>2, ReplaceLine DEF VictimLines, Shape, EvictType
  <2>4. ContentsType' /\ RecentType' /\ HistoryType' /\ FastType'
    BY <2>1, <2>2, <2>3, ReplaceType DEF Shape, EvictType
  <2>5. contents[l][place][line] \in AnyStore
    BY <2>1, <2>3 DEF Shape, ContentsType
  <2>6. EvictType'
    BY <2>2, <2>5 DEF Shape, EvictType
  <2>7. CountType' /\ WalkType'
    BY <1>6, LevelType DEF Victimize, Shape, CountType, WalkType
  <2> QED  BY <2>4, <2>6, <2>7 DEF Shape
<1> QED  BY <1>4, <1>5, <1>6

\* Every visit of a level keeps the types.
LEMMA TypeStep == Shape /\ [Next]_vars => Shape'
<1>1. Shape /\ UNCHANGED vars => Shape'
  BY DEF vars, caches, Shape, ContentsType, RecentType, HistoryType, FastType, EvictType,
         CountType, WalkType
<1> QED  BY <1>1, StartType, IndependentType, ExclusiveType DEF Next, ProcessLevel

\* The types of all variables, for a structure of any size: a line, a set and
\* a level that the simulation computes with is one that exists, and an
\* eviction names a line of the level that was hit.
THEOREM TypeCorrect == Spec => []TypeOK
<1>1. Shape => TypeOK
  BY DEF Shape, TypeOK, ContentsType, RecentType, HistoryType, Rings, FastType, IsMap,
         EvictType, CountType, WalkType
<1> QED  BY <1>1, InitType, TypeStep, PTL DEF Spec

LEMMA ShapeAlways == Spec => []Shape
BY InitType, TypeStep, PTL DEF Spec

-----------------------------------------------------------------------------
(* The counters of neighbouring levels.  While an access is on its first    *)
(* way down, the level it goes to next has yet to be asked for the miss     *)
(* that the level before it has counted.                                    *)

Owed(m, l) == IF next = l /\ m = access.memid /\ evict.level = Invalid THEN 1 ELSE 0

FlowInv ==
    \A m \in MemIds, l \in Levels \ {0} :
        (hitCount[m][l] + missCount[m][l] + Owed(m, l)) % W = missCount[m][l - 1]

\* only exclusive levels start an eviction
FirstWalk == next \in Levels /\ ~IsExclusive(next) => evict.level = Invalid

\* One more on either side, with wrapping counters.
LEMMA AddCounters ==
    ASSUME NEW h \in 0 .. W - 1, NEW m \in 0 .. W - 1
    PROVE  /\ (((h + 1) % W) + m + 0) % W = (h + m + 1) % W
           /\ (h + ((m + 1) % W) + 0) % W = (h + m + 1) % W
           /\ (h + m + 1) % W = (((h + m + 0) % W) + 1) % W
<1>1. W \in Nat \ {0} /\ h \in Nat /\ m \in Nat
  BY StatsAssumption
<1>2. (m + ((h + 1) % W)) % W = (m + (h + 1)) % W
      /\ (h + ((m + 1) % W)) % W = (h + (m + 1)) % W
      /\ (1 + ((h + m) % W)) % W = (1 + (h + m)) % W
  BY <1>1, AddRemainder
<1>3. (h + 1) % W \in Nat /\ (m + 1) % W \in Nat /\ (h + m) % W \in Nat
  BY <1>1
<1>4. /\ m + ((h + 1) % W) = ((h + 1) % W) + m + 0
      /\ h + ((m + 1) % W) = h + ((m + 1) % W) + 0
      /\ m + (h + 1) = h + m + 1 /\ h + (m + 1) = h + m + 1 /\ 1 + (h + m) = h + m + 1
      /\ 1 + ((h + m) % W) = ((h + m + 0) % W) + 1
  BY <1>1, <1>3
<1> QED  BY <1>2, <1>4

\* What counting at a level does to the counters.
LEMMA Counted ==
    ASSUME NEW counter \in [MemIds -> [Levels -> 0 .. W - 1]], NEW k \in Levels,
           access.memid \in MemIds, NEW m \in MemIds, NEW l \in Levels
    PROVE  Count(counter, k)[m][l] =
               IF m = access.memid /\ l = k THEN (counter[m][l] + 1) % W ELSE counter[m][l]
BY DEF Count

\* One visit of a level: the miss owed to it becomes a hit, or a miss that is
\* owed to the next level.
LEMMA FlowStep ==
    ASSUME Shape, Shape', FirstWalk, FlowInv, [Next]_vars
    PROVE  FlowInv' /\ FirstWalk'
<1> USE DEF Shape, CountType, WalkType
<1>1. CASE UNCHANGED vars
  BY <1>1 DEF vars, FlowInv, Owed, FirstWalk, IsExclusive
<1>2. ASSUME NEW a \in Addresses, NEW m \in MemIds, Start(a, m), UNCHANGED FirstExclusive
      PROVE  FlowInv' /\ FirstWalk'
  <2>1. next \notin Levels /\ next' = 0 /\ evict'.level = Invalid
        /\ UNCHANGED <<hitCount, missCount>>
    BY <1>2 DEF Start, Busy, NoEviction
  <2>2. \A k \in MemIds, l \in Levels \ {0} : Owed(k, l) = 0 /\ Owed(k, l)' = 0
    BY <2>1 DEF Owed
  <2> QED  BY <2>1, <2>2 DEF FlowInv, FirstWalk
<1>3. ASSUME NEW k \in Levels, ProcessLevel(k), UNCHANGED FirstExclusive
      PROVE  FlowInv' /\ FirstWalk'
  <2>0. next = k /\ access' = access /\ access.memid \in MemIds /\ k \in Nat /\ FirstExclusive \in Nat
    BY <1>3, LevelType, LevelAssumption
       DEF ProcessLevel, Hit, Miss, ExclusiveHit, ExclusiveMiss, Victimize
  <2>1. FirstWalk'
    <3>1. CASE Hit(k)
      BY <3>1, LevelType DEF Hit, FirstWalk
    <3>2. CASE Miss(k)
      BY <2>0, <3>2 DEF Miss, FirstWalk, IsExclusive
    <3>3. CASE ExclusiveHit(k) \/ ExclusiveMiss(k)
      BY <1>3, <2>0, <3>3, LevelType DEF ExclusiveHit, ExclusiveMiss, FirstWalk, IsExclusive
    <3>4. CASE Victimize(k)
      BY <1>3, <2>0, <3>4, LevelType DEF Victimize, FirstWalk, IsExclusive
    <3> QED  BY <1>3, <3>1, <3>2, <3>3, <3>4 DEF ProcessLevel
  <2>2. CASE Victimize(k)
    <3>1. UNCHANGED <<hitCount, missCount>> /\ evict.level # Invalid /\ evict'.level # Invalid
      BY <2>2 DEF Victimize, EvictType
    <3>2. \A m \in MemIds, l \in Levels \ {0} : Owed(m, l) = 0 /\ Owed(m, l)' = 0
      BY <3>1 DEF Owed
    <3> QED  BY <2>1, <3>1, <3>2 DEF FlowInv
  <2>3. CASE ~Victimize(k)
    <3>1. evict.level = Invalid
      BY <1>3, <2>0, <2>3 DEF ProcessLevel, Hit, Miss, ExclusiveHit, ExclusiveMiss, FirstWalk
    <3> SUFFICES ASSUME NEW m \in MemIds, NEW l \in Levels \ {0}
                 PROVE  (hitCount'[m][l] + missCount'[m][l] + Owed(m, l)') % W = missCount'[m][l - 1]
      BY <2>1 DEF FlowInv
    <3> DEFINE h == hitCount[m][l]
               n == missCount[m][l]
               up == missCount[m][l - 1]
    <3>2. l - 1 \in Levels /\ l \in Nat /\ l - 1 # l
      BY LevelType, LevelAssumption DEF Levels
    <3>3. h \in 0 .. W - 1 /\ n \in 0 .. W - 1 /\ up \in 0 .. W - 1
      BY <3>2
    <3>4. (h + n + Owed(m, l)) % W = up
      BY DEF FlowInv
    <3>5. Owed(m, l) = IF l = k /\ m = access.memid THEN 1 ELSE 0
      BY <2>0, <3>1 DEF Owed
    <3>6. CASE Hit(k) \/ ExclusiveHit(k)
      <4>1. missCount' = missCount /\ hitCount' = Count(hitCount, k)
            /\ (next' \notin Levels \/ evict'.level # Invalid)
        BY <2>0, <3>6, LevelType DEF Hit, ExclusiveHit
      <4>2. Owed(m, l)' = 0
        BY <4>1 DEF Owed
      <4>3. hitCount'[m][l] = IF l = k /\ m = access.memid THEN (h + 1) % W ELSE h
        BY <2>0, <4>1, Counted
      <4> QED  BY <3>3, <3>4, <3>5, <4>1, <4>2, <4>3, AddCounters
    <3>7. CASE Miss(k) \/ ExclusiveMiss(k)
      <4>1. hitCount' = hitCount /\ missCount' = Count(missCount, k)
        BY <3>7 DEF Miss, ExclusiveMiss
      <4>2. /\ missCount'[m][l] = IF l = k /\ m = access.memid THEN (n + 1) % W ELSE n
            /\ missCount'[m][l - 1] = IF l - 1 = k /\ m = access.memid THEN (up + 1) % W ELSE up
        BY <2>0, <3>2, <4>1, Counted
      <4>3. Owed(m, l)' = IF l - 1 = k /\ m = access.memid THEN 1 ELSE 0
        <5>1. CASE Miss(k)
          <6>1. next' = k + 1 /\ evict' = evict
            BY <5>1 DEF Miss
          <6> QED  BY <2>0, <3>1, <3>2, <6>1 DEF Owed
        <5>2. CASE ExclusiveMiss(k) /\ k = LastExclusive
          <6>1. evict'.level = LevelCount /\ k + 1 = LevelCount
            BY <5>2, LevelAssumption DEF ExclusiveMiss, LastExclusive, EvictType
          <6>2. l - 1 # k
            BY <3>2, <6>1, LevelAssumption DEF Levels
          <6> QED  BY <6>1, <6>2, LevelType DEF Owed
        <5>3. CASE ExclusiveMiss(k) /\ k # LastExclusive
          <6>1. next' = k + 1 /\ evict' = evict
            BY <5>3 DEF ExclusiveMiss
          <6> QED  BY <2>0, <3>1, <3>2, <6>1 DEF Owed
        <5> QED  BY <3>7, <5>1, <5>2, <5>3
      <4> QED  BY <3>2, <3>3, <3>4, <3>5, <4>1, <4>2, <4>3, AddCounters
    <3> QED  BY <1>3, <2>3, <3>6, <3>7 DEF ProcessLevel
  <2> QED  BY <2>2, <2>3
<1> QED  BY <1>1, <1>2, <1>3 DEF Next

\* A structure that has counted nothing owes nothing.
LEMMA FlowInit == Init => FlowInv /\ FirstWalk
<1>1. \A w \in Nat \ {0} : (0 + 0 + 0) % w = 0
  OBVIOUS
<1>2. ASSUME Init, NEW m \in MemIds, NEW l \in Levels \ {0}
      PROVE  Owed(m, l) = 0 /\ hitCount[m][l] = 0 /\ missCount[m][l] = 0
             /\ missCount[m][l - 1] = 0
  BY <1>2, LevelType, LevelAssumption DEF Init, Owed, Levels
<1>3. Init => FirstWalk
  BY LevelType DEF Init, FirstWalk
<1> QED  BY <1>1, <1>2, <1>3, StatsAssumption DEF FlowInv

\* For any structure of levels, between accesses the accesses of a level are
\* the misses of the level before it (CacheStats::Verify), however the access
\* has gone up and down the victim levels.
THEOREM CountersFlowDown == Spec => []FlowsDown
<1>1. Init => FlowInv /\ FirstWalk
  BY FlowInit
<1>2. Shape /\ FlowInv => FlowsDown
  <2> SUFFICES ASSUME Shape, FlowInv, ~Busy, NEW m \in MemIds, NEW l \in Levels \ {0}
               PROVE  (hitCount[m][l] + missCount[m][l]) % W = missCount[m][l - 1]
    BY DEF FlowsDown
  <2>1. Owed(m, l) = 0
    BY DEF Owed, Busy
  <2>2. hitCount[m][l] \in Int /\ missCount[m][l] \in Int
    BY StatsAssumption DEF Shape, CountType
  <2>3. (hitCount[m][l] + missCount[m][l] + 0) % W = missCount[m][l - 1]
    BY <2>1 DEF FlowInv
  <2> QED  BY <2>2, <2>3
<1>3. Shape /\ Shape' /\ FlowInv /\ FirstWalk /\ [Next]_vars => FlowInv' /\ FirstWalk'
  BY FlowStep
<1> QED  BY <1>1, <1>2, <1>3, ShapeAlways, PTL DEF Spec

-----------------------------------------------------------------------------
(* A store is held once.  Between the hit of a victim level and the moment  *)
(* the walk comes back to it, the line that was hit is a hole: it still     *)
(* holds the store that has been moved to the first victim level.           *)

VictimLevels == FirstExclusive .. LastExclusive
\* victim levels of one set, with lines of one size
OneSetEach ==
    \A f \in FirstExclusives : \A l \in f .. LastExclusive :
        SetCount[l] = 1 /\ LineSize[l] = LineSize[f]

SetMapped(l, s) ==
    LET lines == contents[l][s]
        fast == fastcontents[l][s]
    IN /\ \A n \in Lines(l) : lines[n] # 0 => lines[n] \in DOMAIN fast /\ fast[lines[n]] = n
       /\ \A x \in DOMAIN fast \ {0} : lines[fast[x]] = x
Mapped == \A l \in HighAssoc : \A s \in Sets(l) : SetMapped(l, s)

OnWay == Busy /\ evict.level # Invalid
Hole(l, n) == OnWay /\ evict.level = l /\ evict.lineid = n

\* apart from the hole, no two lines hold the same store
Distinct ==
    \A l, k \in VictimLevels : \A n \in Lines(l), m \in Lines(k) :
        /\ contents[l][0][n] # 0 /\ contents[l][0][n] = contents[k][0][m]
        /\ ~Hole(l, n) /\ ~Hole(k, m)
        => l = k /\ n = m
\* the store that travels down is in no line but the hole
Travels ==
    OnWay /\ evict.addr # 0 =>
        \A l \in VictimLevels : \A n \in Lines(l) :
            contents[l][0][n] = evict.addr => Hole(l, n)
\* the levels passed on the first way down do not hold the store asked for
Passed ==
    Busy /\ IsExclusive(next) /\ evict.level = Invalid =>
        \A l \in VictimLevels : \A n \in Lines(l) :
            l < next => contents[l][0][n] # GetStorage(FirstExclusive, access.addr)
\* a store that travels has not yet passed the hole
WayDown ==
    OnWay => /\ IsExclusive(next)
             /\ evict.level \in Levels => next <= evict.level /\ evict.setid = 0

OnceInv == Mapped /\ Distinct /\ Travels /\ Passed /\ WayDown

\* CacheLevel::Search finds a store where it is, and nowhere else.
LEMMA Found ==
    ASSUME Shape, Mapped, NEW l \in Levels, NEW store \in AnyStore \ {0}
    PROVE  /\ \A n \in Search(l, store) : n \in Lines(l) /\ contents[l][GetSet(l, store)][n] = store
           /\ Search(l, store) = {} =>
                  \A n \in Lines(l) : contents[l][GetSet(l, store)][n] # store
<1> DEFINE set == GetSet(l, store)
<1>1. set \in Sets(l) /\ Search(l, store) \subseteq Lines(l) /\ Lines(l) \subseteq Nat
  BY SetType, SearchLine, LinesType DEF Shape
<1>2. CASE l \in HighAssoc
  <2>1. SetMapped(l, set)
    BY <1>1, <1>2 DEF Mapped
  <2>2. Search(l, store)
          = {fastcontents[l][set][x] : x \in DOMAIN fastcontents[l][set] \cap {store}}
    BY <1>2 DEF Search
  <2> HIDE DEF set
  <2> QED  BY <1>1, <2>1, <2>2 DEF SetMapped, set
<1>3. CASE l \notin HighAssoc
  <2> DEFINE found == {n \in Lines(l) : contents[l][set][n] = store}
  <2>1. Search(l, store) = {n \in found : \A k \in found : n <= k}
    BY <1>3 DEF Search
  <2>2. ASSUME Search(l, store) = {} PROVE found = {}
    <3>1. found \subseteq Nat
      BY <1>1
    <3> HIDE DEF found
    <3> QED  BY <2>1, <2>2, <3>1, LeastNumber
  <2> QED  BY <2>1, <2>2
<1> QED  BY <1>2, <1>3

\* CacheLevel::Replace keeps the map, when no other line holds the store.
LEMMA ReplaceMapped ==
    ASSUME ContentsType, FastType, Mapped, NEW l \in Levels, NEW store \in AnyStore,
           NEW set \in Sets(l), NEW line \in Lines(l), Replace(l, store, set, line),
           store # 0 => \A n \in Lines(l) \ {line} : contents[l][set][n] # store
    PROVE  Mapped'
<1> DEFINE lines == contents[l][set]
           fast == fastcontents[l][set]
           new == Remember(fast, lines[line], store, line)
<1>1. \A k \in Levels : \A s \in Sets(k) : k # l \/ s # set =>
          contents'[k][s] = contents[k][s] /\ fastcontents'[k][s] = fastcontents[k][s]
  BY DEF Replace, ContentsType, FastType
<1>2. contents'[l][set] = [lines EXCEPT ![line] = store]
      /\ (l \in HighAssoc => fastcontents'[l][set] = new)
  BY DEF Replace, ContentsType, FastType
<1>3. ASSUME l \in HighAssoc PROVE SetMapped(l, set)'
  <2>1. SetMapped(l, set) /\ IsMap(l, fast) /\ lines \in [Lines(l) -> AnyStore]
    BY <1>3 DEF Mapped, FastType, ContentsType
  <2>2. ASSUME NEW n \in Lines(l), contents'[l][set][n] # 0
        PROVE  contents'[l][set][n] \in DOMAIN new /\ new[contents'[l][set][n]] = n
    <3>1. CASE n = line
      BY <1>2, <2>1, <3>1 DEF Remember
    <3>2. CASE n # line
      <4>1. contents'[l][set][n] = lines[n] /\ lines[n] # store /\ lines[n] # 0
        BY <1>2, <2>1, <2>2, <3>2
      <4>2. lines[n] \in DOMAIN fast /\ fast[lines[n]] = n
        BY <2>1, <4>1 DEF SetMapped
      <4>3. lines[n] # lines[line]
        BY <2>1, <3>2, <4>1, <4>2 DEF SetMapped
      <4> QED  BY <4>1, <4>2, <4>3 DEF Remember
    <3> QED  BY <3>1, <3>2
  <2>3. ASSUME NEW x \in DOMAIN new \ {0} PROVE contents'[l][set][new[x]] = x
    <3>1. CASE x = store
      BY <1>2, <2>1, <3>1 DEF Remember
    <3>2. CASE x # store
      <4>1. x \in DOMAIN fast /\ x # lines[line] /\ new[x] = fast[x]
        BY <3>2 DEF Remember
      <4>2. lines[fast[x]] = x /\ fast[x] \in Lines(l)
        BY <2>1, <2>3, <4>1 DEF SetMapped, IsMap
      <4> QED  BY <1>2, <2>1, <4>1, <4>2
    <3> QED  BY <3>1, <3>2
  <2> QED  BY <1>2, <1>3, <2>2, <2>3 DEF SetMapped
<1>4. ASSUME NEW k \in HighAssoc, NEW s \in Sets(k), k # l \/ s # set
      PROVE  SetMapped(k, s)'
  <2>1. k \in Levels /\ SetMapped(k, s)
    BY LevelAssumption DEF Mapped
  <2> QED  BY <1>1, <1>4, <2>1 DEF SetMapped
<1> QED  BY <1>3, <1>4 DEF Mapped

\* A victim level has the one set 0, and the store of the access is the same
\* for all of them.
LEMMA VictimSet ==
    ASSUME OneSetEach, FirstExclusive \in FirstExclusives, NEW l \in VictimLevels
    PROVE  /\ l \in Levels /\ FirstExclusive \in Levels /\ IsExclusive(l) /\ Sets(l) = {0}
           /\ \A store \in AnyStore : GetSet(l, store) = 0
           /\ \A a \in Addresses : GetStorage(l, a) = GetStorage(FirstExclusive, a)
                                   /\ GetStorage(l, a) \in AnyStore \ {0}
<1>1. l \in Levels /\ FirstExclusive \in Levels /\ IsExclusive(l)
  BY LevelAssumption DEF VictimLevels, LastExclusive, Levels, IsExclusive
<1>2. SetCount[l] = 1 /\ LineSize[l] = LineSize[FirstExclusive]
  BY DEF OneSetEach, VictimLevels
<1>3. \A x \in Nat : x % 1 = 0
  OBVIOUS
<1>4. \A store \in AnyStore : GetSet(l, store) = 0
  BY <1>2, <1>3, StoreType DEF GetSet
<1>5. \A a \in Addresses : GetStorage(l, a) = GetStorage(FirstExclusive, a)
  BY <1>2 DEF GetStorage, LineBits
<1>6. Sets(l) = {0}
  BY <1>2 DEF Sets
<1> QED  BY <1>1, <1>4, <1>5, <1>6, StoreType, AddressAssumption

\* An access that begins finds no hole: none is on its way.
LEMMA OnceStart ==
    ASSUME Shape, OnceInv, NEW a \in Addresses, NEW m \in MemIds, Start(a, m),
           UNCHANGED FirstExclusive
    PROVE  OnceInv'
<1>1. ~OnWay /\ ~OnWay' /\ UNCHANGED <<contents, fastcontents>> /\ next' = 0
  BY DEF Start, OnWay, Busy, NoEviction, caches
<1>2. Mapped'
  BY <1>1 DEF OnceInv, Mapped, SetMapped
<1>3. VictimLevels' = VictimLevels /\ VictimLevels \subseteq Nat
  BY LevelAssumption DEF VictimLevels, LastExclusive, Shape, WalkType
<1>4. Distinct' /\ Travels' /\ WayDown'
  <2>1. \A l, n : ~Hole(l, n) /\ ~Hole(l, n)'
    BY <1>1 DEF Hole
  <2>2. Distinct'
    BY <1>1, <1>3, <2>1 DEF OnceInv, Distinct
  <2> QED  BY <1>1, <2>2 DEF Travels, WayDown
<1>5. Passed'
  BY <1>1, <1>3 DEF Passed
<1> QED  BY <1>2, <1>4, <1>5 DEF OnceInv

\* An independent level changes no victim level, and hands down to one only
\* while no store travels.
LEMMA OnceIndependent ==
    ASSUME Shape, OnceInv, OneSetEach, NEW k \in Levels, Hit(k) \/ Miss(k), FirstWalk,
           UNCHANGED FirstExclusive
    PROVE  OnceInv'
<1> DEFINE store == GetStorage(k, access.addr)
           set == GetSet(k, store)
<1>1. next = k /\ ~IsExclusive(k) /\ evict' = evict /\ access' = access /\ evict.level = Invalid
  BY DEF Hit, Miss, FirstWalk
<1>2. ~OnWay /\ ~OnWay'
  BY <1>1 DEF OnWay
<1>3. store \in AnyStore \ {0} /\ set \in Sets(k)
  BY StoreType, SetType, AddressAssumption DEF Shape, WalkType
<1>4. \A l \in VictimLevels : contents'[l] = contents[l] /\ l # k
  <2>1. \A l \in VictimLevels : l # k /\ l \in Levels
    BY <1>1, LevelAssumption, LevelType, VictimSet
       DEF VictimLevels, IsExclusive, LastExclusive, Shape, WalkType
  <2>2. contents' = contents \/ \E line \in Lines(k) :
            contents' = [contents EXCEPT ![k][set][line] = store]
    BY <1>3, ReplaceLine DEF Hit, Miss, Replace, Shape
  <2> QED  BY <2>1, <2>2 DEF Shape, ContentsType
<1>5. VictimLevels' = VictimLevels
  BY DEF VictimLevels
<1>6. Mapped'
  <2>1. CASE Hit(k)
    BY <2>1 DEF Hit, OnceInv, Mapped, SetMapped
  <2>2. CASE Miss(k)
    <3>1. PICK line \in LineToReplace(k, set) : Replace(k, store, set, line)
      BY <2>2 DEF Miss
    <3>2. line \in Lines(k)
      BY <1>3, <3>1, ReplaceLine DEF Shape
    <3>3. \A n \in Lines(k) : contents[k][set][n] # store
      BY <1>3, <2>2, Found DEF Miss, OnceInv
    <3> HIDE DEF store, set
    <3> QED  BY <1>3, <3>1, <3>2, <3>3, ReplaceMapped DEF Shape, OnceInv
  <2> QED  BY <2>1, <2>2
<1>7. Distinct'
  <2>1. \A l, n : ~Hole(l, n) /\ ~Hole(l, n)'
    BY <1>2 DEF Hole
  <2> QED  BY <1>4, <1>5, <2>1 DEF OnceInv, Distinct
<1>8. Passed'
  <2> SUFFICES ASSUME Busy', IsExclusive(next)', NEW l \in VictimLevels, l < next'
               PROVE  FALSE
    BY <1>5 DEF Passed
  <2>1. next' = k + 1
    BY LevelType DEF Hit, Miss, Busy
  <2> QED  BY <1>1, <2>1, LevelType, LevelAssumption
           DEF IsExclusive, VictimLevels, LastExclusive, Shape, WalkType
<1> QED  BY <1>2, <1>6, <1>7, <1>8 DEF OnceInv, Travels, WayDown

\* The first way down the victim levels: a level that is hit leaves a hole.
LEMMA OnceSearch ==
    ASSUME Shape, OnceInv, OneSetEach, NEW k \in Levels, ExclusiveHit(k) \/ ExclusiveMiss(k),
           UNCHANGED FirstExclusive
    PROVE  OnceInv'
<1> DEFINE store == GetStorage(k, access.addr)
<1>1. next = k /\ k \in VictimLevels /\ evict.level = Invalid /\ access' = access
      /\ UNCHANGED <<contents, fastcontents>> /\ FirstExclusive \in Nat /\ k \in Nat
  BY LevelAssumption, LevelType
     DEF ExclusiveHit, ExclusiveMiss, IsExclusive, VictimLevels, LastExclusive, Levels, caches,
         Shape, WalkType
<1>2. store \in AnyStore \ {0} /\ GetSet(k, store) = 0
      /\ \A l \in VictimLevels : GetStorage(l, access.addr) = store
      /\ FirstExclusive \in VictimLevels /\ FirstExclusive \in Levels
  <2>1. FirstExclusive \in VictimLevels
    BY <1>1, LevelAssumption DEF VictimLevels, LastExclusive
  <2> QED  BY <1>1, <2>1, VictimSet DEF Shape, WalkType
<1>3. VictimLevels' = VictimLevels /\ VictimLevels \subseteq Levels
  BY LevelAssumption, <1>1 DEF VictimLevels, LastExclusive, Levels
<1>4. Mapped'
  BY <1>1 DEF OnceInv, Mapped, SetMapped
<1>5. ~OnWay /\ \A l, n : ~Hole(l, n)
  BY <1>1 DEF OnWay, Hole
<1>6. Distinct'
  BY <1>1, <1>3, <1>5 DEF OnceInv, Distinct
<1>7. CASE ExclusiveHit(k)
  <2>1. PICK line \in Search(k, store) :
            evict' = [level |-> k, addr |-> store, setid |-> GetSet(k, store), lineid |-> line]
    BY <1>7 DEF ExclusiveHit
  <2>2. line \in Lines(k) /\ contents[k][0][line] = store
    BY <1>2, <2>1, Found DEF OnceInv
  <2>3. next' = IF k = FirstExclusive THEN Invalid ELSE FirstExclusive
    BY <1>7 DEF ExclusiveHit
  <2>4. evict'.level = k /\ evict'.addr = store /\ evict'.setid = 0 /\ evict'.lineid = line
    BY <1>2, <2>1
  <2>5. Passed'
    BY <2>4, LevelType DEF Passed
  <2>6. ASSUME OnWay' PROVE next' = FirstExclusive /\ Hole(k, line)'
    BY <2>3, <2>4, <2>6, LevelType DEF OnWay, Busy, Hole
  <2>7. WayDown'
    BY <1>1, <1>2, <2>4, <2>6 DEF WayDown, IsExclusive, VictimLevels
  <2>8. Travels'
    <3> SUFFICES ASSUME OnWay', NEW l \in VictimLevels, NEW n \in Lines(l),
                        contents[l][0][n] = store
                 PROVE  l = k /\ n = line
      BY <1>1, <1>3, <2>4, <2>6 DEF Travels
    <3>1. contents[l][0][n] # 0 /\ contents[l][0][n] = contents[k][0][line]
      BY <1>2, <2>2
    <3> QED  BY <1>1, <1>5, <2>2, <3>1 DEF OnceInv, Distinct
  <2> QED  BY <1>4, <1>6, <2>5, <2>7, <2>8 DEF OnceInv
<1>8. CASE ExclusiveMiss(k)
  <2>1. \A n \in Lines(k) : contents[k][0][n] # store
    BY <1>2, <1>8, Found DEF ExclusiveMiss, OnceInv
  <2>2. \A l \in VictimLevels : \A n \in Lines(l) : l <= k => contents[l][0][n] # store
    <3> SUFFICES ASSUME NEW l \in VictimLevels, NEW n \in Lines(l), l < k
                 PROVE  contents[l][0][n] # store
      BY <1>3, <2>1, LevelType
    <3> QED  BY <1>1, <1>2 DEF OnceInv, Passed, Busy, IsExclusive, VictimLevels
  <2>3. CASE k = LastExclusive
    <3>1. evict' = [evict EXCEPT !.level = LastExclusive + 1, !.addr = store]
          /\ next' = FirstExclusive
      BY <1>8, <2>3 DEF ExclusiveMiss
    <3>2. evict'.level = LevelCount /\ evict'.addr = store
      BY <3>1, LevelAssumption DEF Shape, EvictType, LastExclusive
    <3>3. Passed' /\ WayDown'
      BY <1>1, <3>1, <3>2, LevelType DEF Passed, WayDown, IsExclusive
    <3>4. Travels'
      BY <1>1, <1>3, <2>2, <2>3, <3>2 DEF Travels, VictimLevels
    <3> QED  BY <1>4, <1>6, <3>3, <3>4 DEF OnceInv
  <2>4. CASE k # LastExclusive
    <3>1. evict' = evict /\ next' = k + 1
      BY <1>8, <2>4 DEF ExclusiveMiss
    <3>2. ~OnWay'
      BY <1>1, <3>1 DEF OnWay
    <3>3. Passed'
      <4> SUFFICES ASSUME NEW l \in VictimLevels, NEW n \in Lines(l), l < k + 1
                   PROVE  contents[l][0][n] # GetStorage(FirstExclusive, access.addr)
        BY <1>1, <1>3, <3>1 DEF Passed
      <4>1. l <= k
        BY <1>1, <1>3, LevelType
      <4> QED  BY <1>2, <2>2, <4>1
    <3> QED  BY <1>4, <1>6, <3>2, <3>3 DEF OnceInv, Travels, WayDown
  <2> QED  BY <2>3, <2>4
<1> QED  BY <1>7, <1>8

\* A victim level takes the store that travels and gives up another, or, where
\* the hole is, what the access has already placed above.
LEMMA OnceVictimize ==
    ASSUME Shape, OnceInv, OneSetEach, NEW k \in Levels, Victimize(k), UNCHANGED FirstExclusive
    PROVE  OnceInv'
<1> DEFINE store == evict.addr
<1>1. next = k /\ k \in VictimLevels /\ OnWay /\ evict.level # Invalid /\ k \in Nat
      /\ FirstExclusive \in Nat
  BY LevelAssumption, LevelType
     DEF Victimize, IsExclusive, VictimLevels, LastExclusive, Levels, OnWay, Busy, Shape, WalkType
<1>2. store \in AnyStore /\ GetSet(k, store) = 0 /\ Sets(k) = {0}
  BY <1>1, VictimSet DEF Shape, EvictType, WalkType
<1>3. PICK line \in VictimLines(k, 0) :
          /\ Replace(k, store, 0, line)
          /\ evict' = [evict EXCEPT !.addr = contents[k][0][line]]
  BY <1>2 DEF Victimize
<1>4. line \in Lines(k) /\ (evict.level = k => Hole(k, line))
  <2>1. evict.level = k => line = evict.lineid
    BY <1>1, <1>3 DEF VictimLines, OnceInv, WayDown
  <2>2. line \in Lines(k)
    BY <1>2, <1>3, ReplaceLine DEF VictimLines, Shape, EvictType
  <2> QED  BY <1>1, <2>1, <2>2 DEF Hole
<1>5. VictimLevels' = VictimLevels /\ VictimLevels \subseteq Levels
  BY LevelAssumption, <1>1 DEF VictimLevels, LastExclusive, Levels
<1>6. \A l \in VictimLevels : \A n \in Lines(l) :
          contents'[l][0][n] = IF l = k /\ n = line THEN store ELSE contents[l][0][n]
  BY <1>2, <1>3, <1>4, <1>5 DEF Replace, Shape, ContentsType
<1>7. \A l \in VictimLevels : \A n \in Lines(l) :
          store # 0 /\ contents[l][0][n] = store => Hole(l, n)
  BY <1>1 DEF OnceInv, Travels
<1>8. Mapped'
  <2>1. ASSUME store # 0, NEW n \in Lines(k) \ {line} PROVE contents[k][0][n] # store
    BY <1>1, <1>4, <1>7, <2>1 DEF Hole
  <2> QED  BY <1>2, <1>3, <1>4, <2>1, ReplaceMapped DEF Shape, OnceInv
<1>9. evict'.level = evict.level /\ evict'.lineid = evict.lineid /\ evict'.setid = evict.setid
      /\ evict'.addr = contents[k][0][line]
  BY <1>3 DEF Shape, EvictType
<1>10. Passed'
  BY <1>1, <1>9 DEF Passed
<1>11. next' = IF evict.level = k THEN Invalid ELSE k + 1
  BY DEF Victimize
<1>12. CASE evict.level = k
  <2>1. ~OnWay'
    BY <1>11, <1>12, LevelType DEF OnWay, Busy
  <2>2. Distinct'
    <3> SUFFICES ASSUME NEW l \in VictimLevels, NEW j \in VictimLevels,
                        NEW n \in Lines(l), NEW m \in Lines(j),
                        contents'[l][0][n] # 0, contents'[l][0][n] = contents'[j][0][m]
                 PROVE  l = j /\ n = m
      BY <1>5 DEF Distinct
    <3>1. \A i \in VictimLevels : \A h \in Lines(i) : Hole(i, h) => i = k /\ h = line
      BY <1>4, <1>12 DEF Hole
    <3>2. CASE l = k /\ n = line
      BY <1>6, <1>7, <3>1, <3>2
    <3>3. CASE j = k /\ m = line
      BY <1>6, <1>7, <3>1, <3>3
    <3>4. CASE ~(l = k /\ n = line) /\ ~(j = k /\ m = line)
      <4>1. contents[l][0][n] # 0 /\ contents[l][0][n] = contents[j][0][m]
            /\ ~Hole(l, n) /\ ~Hole(j, m)
        BY <1>6, <3>1, <3>4
      <4> QED  BY <4>1 DEF OnceInv, Distinct
    <3> QED  BY <3>2, <3>3, <3>4
  <2> QED  BY <1>8, <1>10, <2>1, <2>2 DEF OnceInv, Travels, WayDown
<1>13. CASE evict.level # k
  <2>1. ~Hole(k, line)
    BY <1>13 DEF Hole
  <2>2. \A l, n : OnWay' => (Hole(l, n)' <=> Hole(l, n))
    BY <1>1, <1>9 DEF Hole
  <2>3. \A l \in VictimLevels : \A n \in Lines(l) :
            ~Hole(l, n) /\ contents[l][0][n] # 0 /\ contents[l][0][n] = contents[k][0][line]
            => l = k /\ n = line
    BY <1>1, <1>4, <2>1 DEF OnceInv, Distinct
  <2>4. WayDown'
    <3> SUFFICES ASSUME OnWay'
                 PROVE  /\ k + 1 >= FirstExclusive
                        /\ evict.level \in Levels => k + 1 <= evict.level /\ evict.setid = 0
      BY <1>9, <1>11, <1>13 DEF WayDown, IsExclusive
    <3>1. k >= FirstExclusive
      BY <1>1 DEF VictimLevels
    <3>2. evict.level \in Levels => k <= evict.level /\ evict.setid = 0
      BY <1>1 DEF OnceInv, WayDown
    <3>3. ASSUME evict.level \in Levels PROVE k + 1 <= evict.level
      <4>1. evict.level \in Nat
        BY <3>3, LevelType
      <4> QED  BY <1>1, <1>13, <3>2, <3>3, <4>1
    <3>4. k + 1 >= FirstExclusive
      BY <1>1, <3>1
    <3> QED  BY <3>2, <3>3, <3>4
  <2>5. Distinct'
    <3> SUFFICES ASSUME NEW l \in VictimLevels, NEW j \in VictimLevels,
                        NEW n \in Lines(l), NEW m \in Lines(j),
                        contents'[l][0][n] # 0, contents'[l][0][n] = contents'[j][0][m],
                        ~Hole(l, n)', ~Hole(j, m)'
                 PROVE  l = j /\ n = m
      BY <1>5 DEF Distinct
    <3>1. CASE ~OnWay'
      \* the access is over and its last victim has left the levels
      <4>1. evict.level \notin Levels
        <5>1. next' = k + 1 /\ k + 1 \notin Levels
          BY <1>9, <1>1, <1>11, <1>13, <3>1 DEF OnWay, Busy
        <5>2. evict.level \in Levels => k <= evict.level
          BY <1>1 DEF OnceInv, WayDown
        <5> QED  BY <1>1, <1>13, <5>1, <5>2, LevelAssumption DEF Levels
      <4>2. \A i \in VictimLevels : \A h \in Lines(i) : ~Hole(i, h)
        BY <1>5, <4>1 DEF Hole
      <4>3. CASE l = k /\ n = line
        BY <1>6, <1>7, <4>2, <4>3
      <4>4. CASE j = k /\ m = line
        BY <1>6, <1>7, <4>2, <4>4
      <4>5. CASE ~(l = k /\ n = line) /\ ~(j = k /\ m = line)
        <5>1. contents[l][0][n] # 0 /\ contents[l][0][n] = contents[j][0][m]
          BY <1>6, <4>5
        <5> QED  BY <4>2, <5>1 DEF OnceInv, Distinct
      <4> QED  BY <4>3, <4>4, <4>5
    <3>2. CASE OnWay'
      <4>1. ~Hole(l, n) /\ ~Hole(j, m)
        BY <2>2, <3>2
      <4>2. CASE l = k /\ n = line
        BY <1>6, <1>7, <4>1, <4>2
      <4>3. CASE j = k /\ m = line
        BY <1>6, <1>7, <4>1, <4>3
      <4>4. CASE ~(l = k /\ n = line) /\ ~(j = k /\ m = line)
        <5>1. contents[l][0][n] # 0 /\ contents[l][0][n] = contents[j][0][m]
          BY <1>6, <4>4
        <5> QED  BY <4>1, <5>1 DEF OnceInv, Distinct
      <4> QED  BY <4>2, <4>3, <4>4
    <3> QED  BY <3>1, <3>2
  <2>6. Travels'
    <3> SUFFICES ASSUME OnWay', contents[k][0][line] # 0, NEW l \in VictimLevels,
                        NEW n \in Lines(l), contents'[l][0][n] = contents[k][0][line]
                 PROVE  Hole(l, n)
      BY <1>5, <1>9, <2>2 DEF Travels
    <3>1. CASE l = k /\ n = line
      \* what the line held is not what it takes
      <4>1. contents[k][0][line] = store
        BY <1>6, <3>1
      <4> QED  BY <1>1, <1>4, <1>7, <2>1, <4>1
    <3>2. CASE ~(l = k /\ n = line)
      <4>1. contents[l][0][n] = contents[k][0][line]
        BY <1>6, <3>2
      <4> QED  BY <2>3, <3>2, <4>1
    <3> QED  BY <3>1, <3>2
  <2> QED  BY <1>8, <1>10, <2>4, <2>5, <2>6 DEF OnceInv
<1> QED  BY <1>12, <1>13

\* Every visit of a level keeps the stores apart.
LEMMA OnceStep ==
    ASSUME Shape, OnceInv, OneSetEach, FirstWalk, [Next]_vars PROVE OnceInv'
<1>1. CASE UNCHANGED vars
  BY <1>1 DEF vars, caches, OnceInv, Mapped, SetMapped, Distinct, Travels, Passed, WayDown,
         OnWay, Busy, Hole, VictimLevels, IsExclusive
<1> QED  BY <1>1, OnceStart, OnceIndependent, OnceSearch, OnceVictimize DEF Next, ProcessLevel

\* For any structure whose victim levels have one set each and lines of one
\* size: the map of a highly associative level names exactly the stores in its
\* lines, and between accesses no store is in two victim levels
\* (ExclusiveCacheLevel::Process, HighlyAssociativeCacheLevel::Replace).
THEOREM OnePlacePerStore == OneSetEach => (Spec => []StoredOnce)
<1> SUFFICES ASSUME OneSetEach PROVE Spec => []StoredOnce
  OBVIOUS
<1>1. Init => OnceInv /\ FirstWalk
  <2> SUFFICES ASSUME Init PROVE OnceInv /\ FirstWalk
    OBVIOUS
  <2>1. ~Busy /\ ~OnWay
    BY LevelType DEF Init, Busy, OnWay
  <2>2. Mapped
    <3> SUFFICES ASSUME NEW l \in HighAssoc, NEW s \in Sets(l) PROVE SetMapped(l, s)
      BY DEF Mapped
    <3>1. l \in Levels /\ contents[l][s] = [n \in Lines(l) |-> 0] /\ fastcontents[l][s] = <<>>
      BY LevelAssumption DEF Init
    <3> QED  BY <3>1 DEF SetMapped
  <2>3. Distinct
    <3> SUFFICES ASSUME NEW l \in VictimLevels, NEW n \in Lines(l) PROVE contents[l][0][n] = 0
      BY DEF Distinct
    <3>1. l \in Levels /\ 0 \in Sets(l)
      BY VictimSet DEF Init
    <3> QED  BY <3>1 DEF Init
  <2> QED  BY <2>1, <2>2, <2>3 DEF OnceInv, Travels, Passed, WayDown, FirstWalk, Busy
<1>2. Shape /\ OnceInv => StoredOnce
  <2> SUFFICES ASSUME Shape, OnceInv PROVE StoredOnce
    OBVIOUS
  <2>1. ASSUME NEW l \in HighAssoc, NEW s \in Sets(l)
        PROVE  {<<x, fastcontents[l][s][x]>> : x \in DOMAIN fastcontents[l][s] \ {0}}
                 = {<<contents[l][s][n], n>> : n \in {n \in Lines(l) : contents[l][s][n] # 0}}
    <3>1. SetMapped(l, s) /\ IsMap(l, fastcontents[l][s])
      BY LevelAssumption DEF OnceInv, Mapped, Shape, FastType
    <3> QED  BY <3>1 DEF SetMapped, IsMap
  <2>2. ASSUME ~Busy, NEW store \in AnyStore \ {0}
        PROVE  Cardinality({l \in FirstExclusive .. LastExclusive : Holds(l, store)}) <= 1
    <3> DEFINE H == {l \in FirstExclusive .. LastExclusive : Holds(l, store)}
    <3>1. \A l, n : ~Hole(l, n)
      BY <2>2 DEF Hole, OnWay
    <3>2. ASSUME NEW l \in H, NEW k \in H PROVE l = k
      <4>1. l \in VictimLevels /\ k \in VictimLevels
        BY DEF VictimLevels
      <4>2. PICK n \in Lines(l), m \in Lines(k) :
                contents[l][0][n] = store /\ contents[k][0][m] = store
        BY <4>1, VictimSet DEF Holds, Shape, WalkType
      <4> QED  BY <3>1, <4>1, <4>2 DEF OnceInv, Distinct
    <3> HIDE DEF H
    <3>3. CASE H = {}
      BY <3>3, FS_EmptySet DEF H
    <3>4. CASE H # {}
      <4>1. PICK l \in H : TRUE
        BY <3>4
      <4>2. H = {l}
        BY <3>2, <4>1
      <4>3. Cardinality(H) = 1
        BY <4>2, FS_Singleton
      <4> QED  BY <4>3 DEF H
    <3> QED  BY <3>3, <3>4
  <2> QED  BY <2>1, <2>2 DEF StoredOnce
<1>3. Shape /\ OnceInv /\ FirstWalk /\ [Next]_vars => OnceInv'
  BY OnceStep
<1>4. Shape /\ Shape' /\ FlowInv /\ FirstWalk /\ [Next]_vars => FlowInv' /\ FirstWalk'
  BY FlowStep
<1>5. Init => FlowInv
  BY FlowInit
<1> QED  BY <1>1, <1>2, <1>3, <1>4, <1>5, ShapeAlways, PTL DEF Spec

-----------------------------------------------------------------------------
(* The order of use.  A history variable is added that no action reads: it  *)
(* keeps, of each line, the lines of its set that were used since the line  *)
(* itself was last used (or since the beginning).                           *)

VARIABLE since

\* the lines of a set that a visit uses: the line found, or the line filled
UsedNow(l, set) ==
    LET store == GetStorage(l, access.addr)
        enters == IsExclusive(l) /\ evict.level # Invalid
    IN {line \in Lines(l) :
          /\ next = l
          /\ \/ /\ enters /\ set = GetSet(l, evict.addr)
                /\ line \in VictimLines(l, set)
             \/ /\ ~enters /\ set = GetSet(l, store)
                /\ line \in Search(l, store)
             \/ /\ ~IsExclusive(l) /\ set = GetSet(l, store)
                /\ Search(l, store) = {}
                /\ line \in LineToReplace(l, set)}

UsedSince(l, set, n) ==
    IF n \in UsedNow(l, set) THEN {} ELSE since[l][set][n] \cup UsedNow(l, set)

HistoryInit ==
    Init /\ since = [l \in Levels |-> [s \in Sets(l) |-> [n \in Lines(l) |-> {}]]]
HistoryNext ==
    Next /\ since' = [l \in Levels |-> [s \in Sets(l) |-> [n \in Lines(l) |-> UsedSince(l, s, n)]]]
HistorySpec == HistoryInit /\ [][HistoryNext]_<<vars, since>>

\* the line that true LRU gives up was not used after another line of its set
LeastRecent ==
    \A l \in Levels : Policy[l] = "trulru" =>
        \A s \in Sets(l) : \A line \in LineToReplace(l, s), n \in Lines(l) :
            n # line => line \notin since[l][s][n]

\* the line that nmru gives up is not the line of its set that was used last
NeverTheLatest ==
    \A l \in Levels : Policy[l] = "nmru" /\ Associativity[l] > 1 =>
        \A s \in Sets(l) : \A line \in LineToReplace(l, s) :
            since[l][s][line] = {} => \A n \in Lines(l) : since[l][s][n] = {}

\* an order of the lines of a set, the next to be replaced first
Orders(l) ==
    {o \in [Lines(l) -> Lines(l)] :
        /\ \A i, j \in Lines(l) : o[i] = o[j] => i = j
        /\ \A n \in Lines(l) : \E i \in Lines(l) : o[i] = n}

After(l, i) == IF i = Associativity[l] - 1 THEN 0 ELSE i + 1

\* the links of a ring lead through all lines, in that order and back
Linked(l, ring, head, o) ==
    /\ o[0] = head
    /\ \A i \in Lines(l) : /\ ring[o[i]].next = o[After(l, i)]
                           /\ ring[o[After(l, i)]].prev = o[i]

InOrderOfUse(l, s, o) ==
    \A i, j \in Lines(l) : i < j => o[i] \notin since[l][s][o[j]]

RingInv ==
    \A l \in Levels : Policy[l] = "trulru" =>
        \A s \in Sets(l) : \E o \in Orders(l) :
            Linked(l, historyUsed[l][s], recentlyUsed[l][s], o) /\ InOrderOfUse(l, s, o)

\* nmru keeps the line used last
LatestInv ==
    \A l \in Levels : Policy[l] = "nmru" =>
        \A s \in Sets(l) :
            \/ \A n \in Lines(l) : since[l][s][n] = {}
            \/ \A n \in Lines(l) : n # recentlyUsed[l][s] => recentlyUsed[l][s] \in since[l][s][n]

\* the order when the k-th line of o has been used
ToEnd(l, o, k) ==
    [i \in Lines(l) |->
        IF i < k THEN o[i] ELSE IF i = Associativity[l] - 1 THEN o[k] ELSE o[i + 1]]

\* the single changes of a link
SetPrev(r, n, k) == [r EXCEPT ![n].prev = k]
SetNext(r, n, k) == [r EXCEPT ![n].next = k]
SetBoth(r, n, p, k) == [r EXCEPT ![n] = [prev |-> p, next |-> k]]

LEMMA Links ==
    ASSUME NEW l \in Levels, NEW r \in Rings(l), NEW n \in Lines(l), NEW k \in Lines(l)
    PROVE  /\ SetPrev(r, n, k) \in Rings(l) /\ SetNext(r, n, k) \in Rings(l)
           /\ \A x \in Lines(l) :
                /\ SetPrev(r, n, k)[x].next = r[x].next
                /\ SetPrev(r, n, k)[x].prev = IF x = n THEN k ELSE r[x].prev
                /\ SetNext(r, n, k)[x].prev = r[x].prev
                /\ SetNext(r, n, k)[x].next = IF x = n THEN k ELSE r[x].next
BY DEF Rings, SetPrev, SetNext

LEMMA BothLinks ==
    ASSUME NEW l \in Levels, NEW r \in Rings(l), NEW n \in Lines(l), NEW p \in Lines(l),
           NEW k \in Lines(l)
    PROVE  /\ SetBoth(r, n, p, k) \in Rings(l)
           /\ \A x \in Lines(l) :
                /\ SetBoth(r, n, p, k)[x].prev = IF x = n THEN p ELSE r[x].prev
                /\ SetBoth(r, n, p, k)[x].next = IF x = n THEN k ELSE r[x].next
BY DEF Rings, SetBoth

\* What relinking a line does to each link (CacheLevel::MarkUsed).
LEMMA Relinked ==
    ASSUME NEW l \in Levels, NEW ring \in Rings(l), NEW line \in Lines(l), NEW head \in Lines(l),
           NEW P \in Lines(l), NEW N \in Lines(l), NEW T \in Lines(l), NEW Q \in Lines(l),
           ring[line] = [prev |-> P, next |-> N], ring[head].prev = T,
           line # head, line # P, line # N, line # Q,
           head = N => Q = P, head # N => Q = T
    PROVE  LET new == InsertBefore(Unlink(ring, line), line, head)
           IN \A x \in Lines(l) :
                /\ new[x].next = IF x = Q THEN line ELSE IF x = line THEN head
                                 ELSE IF x = P THEN N ELSE ring[x].next
                /\ new[x].prev = IF x = head THEN line ELSE IF x = line THEN Q
                                 ELSE IF x = N THEN P ELSE ring[x].prev
<1>1. PICK back \in Rings(l) :
          /\ back = SetPrev(ring, N, P)
          /\ \A x \in Lines(l) : back[x].next = ring[x].next
                                 /\ back[x].prev = IF x = N THEN P ELSE ring[x].prev
  BY Links
<1>2. PICK out \in Rings(l) :
          /\ out = SetNext(back, P, N)
          /\ \A x \in Lines(l) : out[x].prev = back[x].prev
                                 /\ out[x].next = IF x = P THEN N ELSE back[x].next
  BY Links
<1>3. Unlink(ring, line) = out
  <2>1. ring[line].next = N /\ ring[line].prev = P /\ back[line].prev = P /\ back[line].next = N
    BY <1>1
  <2>2. back = [ring EXCEPT ![ring[line].next].prev = ring[line].prev]
    BY <1>1, <2>1 DEF SetPrev
  <2>3. Unlink(ring, line) = [back EXCEPT ![back[line].prev].next = back[line].next]
    BY <2>2 DEF Unlink
  <2>4. Unlink(ring, line) = [back EXCEPT ![P].next = N]
    BY <2>1, <2>3
  <2> QED  BY <1>2, <2>4 DEF SetNext
<1>4. out[head].prev = Q
  BY <1>1, <1>2
<1>5. PICK both \in Rings(l) :
          /\ both = SetBoth(out, line, Q, head)
          /\ \A x \in Lines(l) : /\ both[x].prev = IF x = line THEN Q ELSE out[x].prev
                                 /\ both[x].next = IF x = line THEN head ELSE out[x].next
  <2> DEFINE both == SetBoth(out, line, Q, head)
  <2>1. /\ both \in Rings(l)
        /\ \A x \in Lines(l) : /\ both[x].prev = IF x = line THEN Q ELSE out[x].prev
                               /\ both[x].next = IF x = line THEN head ELSE out[x].next
    BY BothLinks
  <2> HIDE DEF both
  <2> QED  BY <2>1 DEF both
<1>6. PICK linked \in Rings(l) :
          /\ linked = SetPrev(both, head, line)
          /\ \A x \in Lines(l) : linked[x].next = both[x].next
                                 /\ linked[x].prev = IF x = head THEN line ELSE both[x].prev
  BY Links
<1>7. PICK new \in Rings(l) :
          /\ new = SetNext(linked, Q, line)
          /\ \A x \in Lines(l) : new[x].prev = linked[x].prev
                                 /\ new[x].next = IF x = Q THEN line ELSE linked[x].next
  <2> DEFINE new == SetNext(linked, Q, line)
  <2>1. /\ new \in Rings(l)
        /\ \A x \in Lines(l) : new[x].prev = linked[x].prev
                               /\ new[x].next = IF x = Q THEN line ELSE linked[x].next
    BY Links
  <2> HIDE DEF new
  <2> QED  BY <2>1 DEF new
<1>8. InsertBefore(out, line, head) = new
  <2>1. linked[line].prev = Q
    BY <1>5, <1>6
  <2>2. linked = [out EXCEPT ![line] = [prev |-> out[head].prev, next |-> head],
                             ![head].prev = line]
    BY <1>4, <1>5, <1>6 DEF SetBoth, SetPrev
  <2>3. new = [linked EXCEPT ![Q].next = line]
    BY <1>7 DEF SetNext
  <2> QED  BY <2>1, <2>2, <2>3 DEF InsertBefore
<1>9. \A x \in Lines(l) :
          /\ new[x].next = IF x = Q THEN line ELSE IF x = line THEN head
                           ELSE IF x = P THEN N ELSE ring[x].next
          /\ new[x].prev = IF x = head THEN line ELSE IF x = line THEN Q
                           ELSE IF x = N THEN P ELSE ring[x].prev
  BY <1>1, <1>2, <1>5, <1>6, <1>7
<1> QED  BY <1>3, <1>8, <1>9

\* The new order is an order of the same lines.
LEMMA EndOrder ==
    ASSUME NEW l \in Levels, NEW o \in Orders(l), NEW k \in Lines(l)
    PROVE  ToEnd(l, o, k) \in Orders(l)
<1> DEFINE A == Associativity[l]
           p == ToEnd(l, o, k)
<1>1. A \in Nat \ {0} /\ Lines(l) = 0 .. A - 1
  BY SizeAssumption DEF Lines
<1>2. \A i \in Lines(l) : p[i] = IF i < k THEN o[i] ELSE IF i = A - 1 THEN o[k] ELSE o[i + 1]
  BY DEF ToEnd
<1>3. p \in [Lines(l) -> Lines(l)]
  <2>1. \A i \in Lines(l) : o[i] \in Lines(l)
    BY DEF Orders
  <2>2. \A i \in Lines(l) : i # A - 1 => i + 1 \in Lines(l)
    BY <1>1
  <2> QED  BY <2>1, <2>2 DEF ToEnd
<1>4. \A i, j \in Lines(l) : o[i] = o[j] => i = j
  BY DEF Orders
<1> HIDE DEF p
<1>5. ASSUME NEW i \in Lines(l), NEW j \in Lines(l), p[i] = p[j] PROVE i = j
  <2> DEFINE from(x) == IF x < k THEN x ELSE IF x = A - 1 THEN k ELSE x + 1
  <2>1. p[i] = o[from(i)] /\ p[j] = o[from(j)] /\ from(i) \in Lines(l) /\ from(j) \in Lines(l)
    BY <1>1, <1>2
  <2>2. from(i) = from(j)
    BY <1>4, <1>5, <2>1
  <2> QED  BY <1>1, <2>2
<1>6. ASSUME NEW n \in Lines(l) PROVE \E i \in Lines(l) : p[i] = n
  <2>1. PICK j \in Lines(l) : o[j] = n
    BY DEF Orders
  <2>2. CASE j < k
    BY <1>1, <1>2, <2>1, <2>2
  <2>3. CASE j = k
    <3>1. A - 1 \in Lines(l) /\ ~(A - 1 < k)
      BY <1>1
    <3> QED  BY <1>2, <2>1, <2>3, <3>1
  <2>4. CASE j > k
    <3>1. j - 1 \in Lines(l) /\ ~(j - 1 < k) /\ j - 1 # A - 1 /\ (j - 1) + 1 = j
      BY <1>1, <2>4
    <3>2. p[j - 1] = o[j]
      BY <1>2, <3>1
    <3> QED  BY <2>1, <3>1, <3>2
  <2> QED  BY <1>1, <2>2, <2>3, <2>4
<1>7. p \in Orders(l)
  BY <1>3, <1>5, <1>6 DEF Orders
<1> QED  BY <1>7 DEF p

\* Using the line that is next to be replaced: the ring begins one line later.
LEMMA HeadUsed ==
    ASSUME NEW l \in Levels, Associativity[l] > 1, NEW ring \in Rings(l), NEW head \in Lines(l),
           NEW o \in Orders(l), Linked(l, ring, head, o)
    PROVE  Linked(l, ring, ring[head].next, ToEnd(l, o, 0))
<1> DEFINE A == Associativity[l]
           p == ToEnd(l, o, 0)
<1>1. A \in Nat \ {0, 1} /\ Lines(l) = 0 .. A - 1
  BY SizeAssumption DEF Lines
<1>2. \A i \in Lines(l) : p[i] = IF i = A - 1 THEN o[0] ELSE o[i + 1]
  BY <1>1 DEF ToEnd
<1>3. \A i \in Lines(l) : p[i] = o[After(l, i)] /\ After(l, i) \in Lines(l)
  BY <1>1, <1>2 DEF After
<1>4. o[0] = head /\ \A i \in Lines(l) : /\ ring[o[i]].next = o[After(l, i)]
                                         /\ ring[o[After(l, i)]].prev = o[i]
  BY DEF Linked
<1> HIDE DEF p
<1>5. p[0] = ring[head].next
  BY <1>1, <1>3, <1>4
<1>6. \A i \in Lines(l) : ring[p[i]].next = p[After(l, i)] /\ ring[p[After(l, i)]].prev = p[i]
  BY <1>3, <1>4
<1>7. Linked(l, ring, ring[head].next, p)
  BY <1>5, <1>6 DEF Linked
<1> QED  BY <1>7 DEF p

\* Using another line: it moves in front of the first line of the ring.
LEMMA OtherUsed ==
    ASSUME NEW l \in Levels, NEW ring \in Rings(l), NEW head \in Lines(l),
           NEW o \in Orders(l), Linked(l, ring, head, o), NEW k \in Lines(l), k # 0
    PROVE  Linked(l, InsertBefore(Unlink(ring, o[k]), o[k], head), head, ToEnd(l, o, k))
<1> DEFINE A == Associativity[l]
           p == ToEnd(l, o, k)
           line == o[k]
           P == o[k - 1]
           N == o[After(l, k)]
           T == o[A - 1]
           Q == IF head = N THEN P ELSE T
           new == InsertBefore(Unlink(ring, line), line, head)
<1>1. A \in Nat /\ Lines(l) = 0 .. A - 1 /\ k \in 1 .. A - 1
      /\ 0 \in Lines(l) /\ k - 1 \in Lines(l) /\ A - 1 \in Lines(l)
  BY SizeAssumption DEF Lines
<1>2. \A i \in Lines(l) : After(l, i) \in Lines(l)
  BY <1>1 DEF After
<1>3. \A i, j \in Lines(l) : o[i] = o[j] => i = j
  BY DEF Orders
<1>4. \A i \in Lines(l) : o[i] \in Lines(l)
  BY DEF Orders
<1>5. o[0] = head /\ \A i \in Lines(l) : /\ ring[o[i]].next = o[After(l, i)]
                                         /\ ring[o[After(l, i)]].prev = o[i]
  BY DEF Linked
<1>6. After(l, k - 1) = k /\ After(l, A - 1) = 0
  BY <1>1 DEF After
<1>7. ring[line].prev = P /\ ring[line].next = N /\ ring[head].prev = T
  BY <1>1, <1>5, <1>6
<1>8. line # head /\ line # P /\ line # N
  <2>1. After(l, k) # k /\ k - 1 # k
    BY <1>1 DEF After
  <2> QED  BY <1>1, <1>2, <1>3, <1>5, <2>1
<1>9. head = N <=> k = A - 1
  <2>1. After(l, k) = 0 <=> k = A - 1
    BY <1>1 DEF After
  <2> QED  BY <1>1, <1>2, <1>3, <1>5, <2>1
<1>10. line # Q /\ Q \in Lines(l) /\ P \in Lines(l) /\ N \in Lines(l) /\ T \in Lines(l)
       /\ line \in Lines(l)
  BY <1>1, <1>2, <1>3, <1>4, <1>8, <1>9
<1>11. ring[line] = [prev |-> P, next |-> N]
  BY <1>7, <1>10 DEF Rings
<1>12. \A x \in Lines(l) :
          /\ new[x].next = IF x = Q THEN line ELSE IF x = line THEN head
                           ELSE IF x = P THEN N ELSE ring[x].next
          /\ new[x].prev = IF x = head THEN line ELSE IF x = line THEN Q
                           ELSE IF x = N THEN P ELSE ring[x].prev
  <2> HIDE DEF line, P, N, T
  <2> QED  BY <1>7, <1>8, <1>10, <1>11, Relinked
<1>13. \A i \in Lines(l) : p[i] = IF i < k THEN o[i] ELSE IF i = A - 1 THEN line ELSE o[i + 1]
  BY DEF ToEnd
<1>14. p[0] = head
  BY <1>1, <1>5, <1>13
<1> HIDE DEF p, new
<1>15. ASSUME NEW i \in Lines(l)
       PROVE  new[p[i]].next = p[After(l, i)] /\ new[p[After(l, i)]].prev = p[i]
  <2>1. CASE i = A - 1
    <3>1. p[i] = line /\ p[After(l, i)] = head
      BY <1>1, <1>6, <1>13, <1>14, <2>1
    <3> QED  BY <1>5, <1>8, <1>10, <1>12, <3>1, <1>4, <1>1
  <2>2. CASE i # A - 1 /\ k = A - 1
    <3>1. i < k /\ After(l, i) = i + 1 /\ p[i] = o[i]
      BY <1>1, <1>13, <2>2 DEF After
    <3>2. CASE i + 1 = k
      <4>1. p[After(l, i)] = line /\ o[i] = P /\ Q = P
        BY <1>1, <1>9, <1>13, <2>2, <3>1, <3>2
      <4> QED  BY <1>8, <1>10, <1>12, <3>1, <4>1
    <3>3. CASE i + 1 < k
      <4>1. p[After(l, i)] = o[i + 1] /\ i + 1 \in Lines(l) /\ i # k - 1 /\ i # k /\ i + 1 # 0
            /\ i + 1 # k
        BY <1>1, <1>13, <3>1, <3>3
      <4>2. o[i] # P /\ o[i] # line /\ Q = P /\ o[i + 1] # head /\ o[i + 1] # line /\ head = N
        BY <1>1, <1>3, <1>5, <1>9, <2>2, <4>1
      <4> QED  BY <1>4, <1>5, <1>12, <3>1, <4>1, <4>2
    <3> QED  BY <1>1, <3>1, <3>2, <3>3
  <2>3. CASE i # A - 1 /\ k # A - 1
    <3>1. After(l, i) = i + 1 /\ i + 1 \in Lines(l) /\ After(l, k) = k + 1 /\ k + 1 \in Lines(l)
      BY <1>1, <2>3 DEF After
    <3>2. Q = T /\ head # N /\ N = o[k + 1]
      BY <1>9, <2>3, <3>1
    <3>3. CASE i + 1 < k
      <4>1. p[i] = o[i] /\ p[i + 1] = o[i + 1] /\ i # k - 1 /\ i # k /\ i + 1 # 0 /\ i + 1 # k
            /\ i + 1 # k + 1
        BY <1>1, <1>13, <2>3, <3>1, <3>3
      <4>2. o[i] # P /\ o[i] # line /\ o[i] # T /\ o[i + 1] # head /\ o[i + 1] # line
            /\ o[i + 1] # N
        BY <1>1, <1>3, <1>5, <2>3, <3>1, <3>2, <4>1
      <4> QED  BY <1>4, <1>5, <1>12, <3>1, <3>2, <4>1, <4>2
    <3>4. CASE i + 1 = k
      <4>1. p[i] = P /\ p[i + 1] = N /\ i = k - 1
        BY <1>1, <1>13, <2>3, <3>1, <3>2, <3>4
      <4>2. P # T
        BY <1>1, <1>3
      <4> QED  BY <1>8, <1>10, <1>12, <3>1, <3>2, <4>1, <4>2
    <3>5. CASE i >= k /\ i + 1 # A - 1
      <4>1. p[i] = o[i + 1] /\ p[i + 1] = o[i + 2] /\ i + 2 \in Lines(l) /\ i + 1 # k - 1
            /\ i + 1 # k /\ i + 2 # 0 /\ i + 2 # k /\ i + 2 # k + 1 /\ After(l, i + 1) = i + 2
        BY <1>1, <1>13, <2>3, <3>1, <3>5 DEF After
      <4>2. o[i + 1] # P /\ o[i + 1] # line /\ o[i + 1] # T /\ o[i + 2] # head
            /\ o[i + 2] # line /\ o[i + 2] # N
        BY <1>1, <1>3, <1>5, <3>1, <3>2, <3>5, <4>1
      <4> QED  BY <1>4, <1>5, <1>12, <3>1, <3>2, <4>1, <4>2
    <3>6. CASE i >= k /\ i + 1 = A - 1
      <4>1. p[i] = T /\ p[i + 1] = line
        BY <1>1, <1>13, <2>3, <3>1, <3>6
      <4> QED  BY <1>8, <1>10, <1>12, <3>1, <3>2, <4>1
    <3> QED  BY <1>1, <3>3, <3>4, <3>5, <3>6
  <2> QED  BY <2>1, <2>2, <2>3
<1>16. Linked(l, new, head, p)
  BY <1>14, <1>15 DEF Linked
<1> QED  BY <1>16 DEF p, new

\* what a use of a line does to the pointer and the ring of a set
MarkedAt(l, s, line) ==
    LET head == recentlyUsed[l][s]
        ring == historyUsed[l][s]
    IN /\ Policy[l] = "nmru" => recentlyUsed'[l][s] = line
       /\ Policy[l] = "trulru" =>
            \/ line = head /\ recentlyUsed'[l][s] = ring[head].next /\ historyUsed'[l][s] = ring
            \/ /\ line # head /\ recentlyUsed'[l][s] = head
               /\ historyUsed'[l][s] = InsertBefore(Unlink(ring, line), line, head)
KeptAt(l, s) ==
    recentlyUsed'[l][s] = recentlyUsed[l][s] /\ historyUsed'[l][s] = historyUsed[l][s]

LEMMA MarkedOrKept ==
    ASSUME RecentType, HistoryType, NEW k \in Levels, NEW set \in Sets(k), NEW line \in Lines(k),
           MarkUsed(k, set, line), NEW l \in Levels, NEW s \in Sets(l)
    PROVE  IF l = k /\ s = set THEN MarkedAt(l, s, line) ELSE KeptAt(l, s)
<1>1. ASSUME NEW n, recentlyUsed' = [recentlyUsed EXCEPT ![k][set] = n]
      PROVE  recentlyUsed'[l][s] = IF l = k /\ s = set THEN n ELSE recentlyUsed[l][s]
  BY <1>1 DEF RecentType
<1>2. ASSUME NEW r, historyUsed' = [historyUsed EXCEPT ![k][set] = r]
      PROVE  historyUsed'[l][s] = IF l = k /\ s = set THEN r ELSE historyUsed[l][s]
  BY <1>2 DEF HistoryType
<1> DEFINE head == recentlyUsed[k][set]
           ring == historyUsed[k][set]
           moved == InsertBefore(Unlink(ring, line), line, head)
<1>3. CASE Policy[k] = "nmru"
  <2>1. recentlyUsed' = [recentlyUsed EXCEPT ![k][set] = line] /\ historyUsed' = historyUsed
    BY <1>3 DEF MarkUsed
  <2> QED  BY <1>1, <1>3, <2>1 DEF MarkedAt, KeptAt
<1>4. CASE Policy[k] = "trulru" /\ line = head
  <2>1. recentlyUsed' = [recentlyUsed EXCEPT ![k][set] = ring[line].next]
        /\ historyUsed' = historyUsed
    BY <1>4 DEF MarkUsed
  <2>2. recentlyUsed'[l][s] = IF l = k /\ s = set THEN ring[line].next ELSE recentlyUsed[l][s]
    BY <1>1, <2>1
  <2> QED  BY <1>4, <2>1, <2>2 DEF MarkedAt, KeptAt
<1>5. CASE Policy[k] = "trulru" /\ line # head
  <2>1. historyUsed' = [historyUsed EXCEPT ![k][set] = moved] /\ recentlyUsed' = recentlyUsed
    BY <1>5 DEF MarkUsed
  <2>2. historyUsed'[l][s] = IF l = k /\ s = set THEN moved ELSE historyUsed[l][s]
    BY <1>2, <2>1
  <2> QED  BY <1>5, <2>1, <2>2 DEF MarkedAt, KeptAt
<1>6. CASE Policy[k] \notin {"nmru", "trulru"}
  <2>1. UNCHANGED <<recentlyUsed, historyUsed>>
    BY <1>6 DEF MarkUsed
  <2> QED  BY <1>6, <2>1 DEF MarkedAt, KeptAt
<1> QED  BY <1>3, <1>4, <1>5, <1>6

\* In a level of either policy a visit uses one line of a set, if any.
LEMMA OneLine ==
    ASSUME Shape, NEW l \in Levels, Policy[l] \in {"nmru", "trulru"}, NEW s \in Sets(l),
           NEW store \in AnyStore
    PROVE  /\ \A m, n \in Search(l, store) : m = n
           /\ \A m, n \in LineToReplace(l, s) : m = n
           /\ \A m, n \in VictimLines(l, s) : m = n
<1>1. \A m, n \in LineToReplace(l, s) : m = n
  BY DEF LineToReplace
<1>2. \A m, n \in VictimLines(l, s) : m = n
  BY <1>1 DEF VictimLines
<1>3. \A m, n \in Search(l, store) : m = n
  <2>1. Search(l, store) \subseteq Nat
    BY SearchLine, LinesType DEF Shape
  <2>2. CASE l \in HighAssoc
    BY <2>2 DEF Search
  <2>3. CASE l \notin HighAssoc
    <3>1. \A m, n \in Search(l, store) : m <= n
      BY <2>3 DEF Search
    <3> QED  BY <2>1, <3>1
  <2> QED  BY <2>2, <2>3
<1> QED  BY <1>1, <1>2, <1>3

\* The lines used are those that MarkUsed is called with, in every action.
LEMMA VisitMarks ==
    ASSUME Shape, Next, NEW l \in Levels, Policy[l] \in {"nmru", "trulru"}, NEW s \in Sets(l)
    PROVE  \/ UsedNow(l, s) = {} /\ KeptAt(l, s)
           \/ \E line \in Lines(l) : UsedNow(l, s) = {line} /\ MarkedAt(l, s, line)
<1>1. CASE \E a \in Addresses, m \in MemIds : Start(a, m)
  <2>1. next # l /\ UNCHANGED caches
    BY <1>1 DEF Start, Busy
  <2> QED  BY <2>1 DEF UsedNow, KeptAt, caches
<1>2. CASE \E k \in Levels : ProcessLevel(k)
  <2>1. PICK k \in Levels : ProcessLevel(k)
    BY <1>2
  <2>2. next = k
    BY <2>1 DEF ProcessLevel, Hit, Miss, ExclusiveHit, ExclusiveMiss, Victimize
  <2> DEFINE store == GetStorage(k, access.addr)
             set == GetSet(k, store)
             place == GetSet(k, evict.addr)
  <2>3. store \in AnyStore /\ evict.addr \in AnyStore
    BY StoreType DEF Shape, WalkType, EvictType
  <2>4. set \in Sets(k) /\ place \in Sets(k)
    BY <2>3, SetType
  <2>5. Search(k, store) \subseteq Lines(k) /\ LineToReplace(k, set) \subseteq Lines(k)
        /\ LineToReplace(k, place) \subseteq Lines(k)
    BY <2>3, <2>4, SearchLine, ReplaceLine DEF Shape
  <2>6. VictimLines(k, place) \subseteq Lines(k)
    BY <2>5 DEF VictimLines, Shape, EvictType
  <2>7. l # k => UsedNow(l, s) = {}
    BY <2>2 DEF UsedNow
  <2>8. ASSUME NEW line \in Lines(k), NEW t \in Sets(k), MarkUsed(k, t, line),
               k = l => UsedNow(k, t) = {line} /\ \A u \in Sets(k) : u # t => UsedNow(k, u) = {}
        PROVE  \/ UsedNow(l, s) = {} /\ KeptAt(l, s)
               \/ \E n \in Lines(l) : UsedNow(l, s) = {n} /\ MarkedAt(l, s, n)
    <3>1. IF l = k /\ s = t THEN MarkedAt(l, s, line) ELSE KeptAt(l, s)
      BY <2>8, MarkedOrKept DEF Shape
    <3> QED  BY <2>7, <2>8, <3>1
  <2>9. CASE Hit(k)
    <3>1. PICK line \in Search(k, store) : MarkUsed(k, set, line)
      BY <2>9 DEF Hit
    <3>2. ~IsExclusive(k)
      BY <2>9 DEF Hit
    <3>3. k = l => Search(k, store) = {line}
      BY <2>3, <2>4, <3>1, OneLine
    <3>4. k = l => UsedNow(k, set) = {line} /\ \A u \in Sets(k) : u # set => UsedNow(k, u) = {}
      BY <2>2, <2>5, <3>1, <3>2, <3>3 DEF UsedNow
    <3> QED  BY <2>4, <2>5, <2>8, <3>1, <3>4
  <2>10. CASE Miss(k)
    <3>1. PICK line \in LineToReplace(k, set) : Replace(k, store, set, line)
      BY <2>10 DEF Miss
    <3>2. ~IsExclusive(k) /\ Search(k, store) = {}
      BY <2>10 DEF Miss
    <3>3. k = l => LineToReplace(k, set) = {line}
      BY <2>3, <2>4, <3>1, OneLine
    <3>4. k = l => UsedNow(k, set) = {line} /\ \A u \in Sets(k) : u # set => UsedNow(k, u) = {}
      BY <2>2, <2>5, <3>1, <3>2, <3>3 DEF UsedNow
    <3>5. MarkUsed(k, set, line)
      BY <3>1 DEF Replace
    <3> QED  BY <2>4, <2>5, <2>8, <3>1, <3>4, <3>5
  <2>11. CASE ExclusiveHit(k)
    <3>1. PICK line \in Search(k, store) : MarkUsed(k, set, line)
      BY <2>11 DEF ExclusiveHit
    <3>2. IsExclusive(k) /\ evict.level = Invalid
      BY <2>11 DEF ExclusiveHit
    <3>3. k = l => Search(k, store) = {line}
      BY <2>3, <2>4, <3>1, OneLine
    <3>4. k = l => UsedNow(k, set) = {line} /\ \A u \in Sets(k) : u # set => UsedNow(k, u) = {}
      BY <2>2, <2>5, <3>1, <3>2, <3>3 DEF UsedNow
    <3> QED  BY <2>4, <2>5, <2>8, <3>1, <3>4
  <2>12. CASE ExclusiveMiss(k)
    <3>1. IsExclusive(k) /\ evict.level = Invalid /\ Search(k, store) = {} /\ UNCHANGED caches
      BY <2>12 DEF ExclusiveMiss
    <3>2. KeptAt(l, s)
      BY <3>1 DEF KeptAt, caches
    <3>3. k = l => UsedNow(l, s) = {}
      BY <3>1 DEF UsedNow
    <3> QED  BY <2>7, <3>2, <3>3
  <2>13. CASE Victimize(k)
    <3>1. PICK line \in VictimLines(k, place) : Replace(k, evict.addr, place, line)
      BY <2>13 DEF Victimize
    <3>2. IsExclusive(k) /\ evict.level # Invalid
      BY <2>13 DEF Victimize
    <3>3. k = l => VictimLines(k, place) = {line}
      BY <2>3, <2>4, <3>1, OneLine
    <3>4. k = l => UsedNow(k, place) = {line} /\ \A u \in Sets(k) : u # place => UsedNow(k, u) = {}
      BY <2>2, <2>6, <3>1, <3>2, <3>3 DEF UsedNow
    <3>5. MarkUsed(k, place, line)
      BY <3>1 DEF Replace
    <3> QED  BY <2>4, <2>6, <2>8, <3>1, <3>4, <3>5
  <2> QED  BY <2>1, <2>9, <2>10, <2>11, <2>12, <2>13 DEF ProcessLevel
<1> QED  BY <1>1, <1>2 DEF Next

\* A use of one line keeps an order of use: the line goes to its end.
LEMMA UseKeepsOrder ==
    ASSUME Shape, NEW l \in Levels, Policy[l] = "trulru", NEW s \in Sets(l), NEW o \in Orders(l),
           Linked(l, historyUsed[l][s], recentlyUsed[l][s], o), InOrderOfUse(l, s, o),
           NEW line \in Lines(l), UsedNow(l, s) = {line}, MarkedAt(l, s, line),
           \A n \in Lines(l) : since'[l][s][n] = UsedSince(l, s, n)
    PROVE  \E p \in Orders(l) :
              Linked(l, historyUsed'[l][s], recentlyUsed'[l][s], p) /\ InOrderOfUse(l, s, p)'
<1> DEFINE A == Associativity[l]
           head == recentlyUsed[l][s]
           ring == historyUsed[l][s]
<1>1. A \in Nat \ {0, 1} /\ Lines(l) = 0 .. A - 1
  BY SizeAssumption, PolicyAssumption DEF Lines
<1>2. head \in Lines(l) /\ ring \in Rings(l)
  BY DEF Shape, RecentType, HistoryType
<1>3. PICK k \in Lines(l) : o[k] = line
  BY DEF Orders
<1> DEFINE p == ToEnd(l, o, k)
<1>4. p \in Orders(l)
  BY EndOrder
<1>5. o[0] = head /\ \A i, j \in Lines(l) : o[i] = o[j] => i = j
  BY DEF Linked, Orders
<1>6. Linked(l, historyUsed'[l][s], recentlyUsed'[l][s], p)
  <2>1. CASE k = 0
    <3>1. line = head /\ recentlyUsed'[l][s] = ring[head].next /\ historyUsed'[l][s] = ring
      BY <1>3, <1>5, <2>1 DEF MarkedAt
    <3>2. Linked(l, ring, ring[head].next, p)
      BY <1>1, <1>2, <2>1, HeadUsed
    <3> QED  BY <3>1, <3>2
  <2>2. CASE k # 0
    <3>1. line # head
      BY <1>1, <1>3, <1>5, <2>2
    <3>2. recentlyUsed'[l][s] = head
          /\ historyUsed'[l][s] = InsertBefore(Unlink(ring, line), line, head)
      BY <3>1 DEF MarkedAt
    <3>3. Linked(l, InsertBefore(Unlink(ring, o[k]), o[k], head), head, p)
      BY <1>2, <2>2, OtherUsed
    <3> QED  BY <1>3, <3>2, <3>3
  <2> QED  BY <2>1, <2>2
<1>7. ASSUME NEW i \in Lines(l), NEW j \in Lines(l), i < j PROVE p[i] \notin since'[l][s][p[j]]
  <2> DEFINE from(x) == IF x < k THEN x ELSE IF x = A - 1 THEN k ELSE x + 1
  <2>1. p[i] = o[from(i)] /\ p[j] = o[from(j)] /\ from(i) \in Lines(l) /\ from(j) \in Lines(l)
    BY <1>1 DEF ToEnd
  <2>2. p[j] \in Lines(l)
    BY <1>4 DEF Orders
  <2>3. CASE j = A - 1
    <3>1. p[j] = line
      BY <1>1, <1>3, <2>1, <2>3
    <3> QED  BY <2>2, <3>1 DEF UsedSince
  <2>4. CASE j # A - 1
    <3>1. from(i) < from(j) /\ from(i) # k /\ from(j) # k
      BY <1>1, <1>7, <2>4
    <3>2. p[i] # line /\ p[j] # line
      BY <1>3, <1>5, <2>1, <3>1
    <3>3. o[from(i)] \notin since[l][s][o[from(j)]]
      BY <2>1, <3>1 DEF InOrderOfUse
    <3>4. since'[l][s][p[j]] = since[l][s][p[j]] \cup {line}
      BY <2>2, <3>2 DEF UsedSince
    <3> QED  BY <2>1, <3>2, <3>3, <3>4
  <2> QED  BY <2>3, <2>4
<1> HIDE DEF p
<1>8. InOrderOfUse(l, s, p)'
  BY <1>7 DEF InOrderOfUse
<1> QED  BY <1>4, <1>6, <1>8

LEMMA NoneUsed ==
    ASSUME NEW l, NEW s, NEW n, UsedNow(l, s) = {} PROVE UsedSince(l, s, n) = since[l][s][n]
BY Zenon DEF UsedSince

LEMMA RingStep ==
    Shape /\ RingInv /\ LatestInv /\ [HistoryNext]_<<vars, since>> => RingInv' /\ LatestInv'
<1>1. RingInv /\ LatestInv /\ UNCHANGED <<vars, since>> => RingInv' /\ LatestInv'
  BY DEF vars, caches, RingInv, LatestInv, InOrderOfUse
<1> SUFFICES ASSUME Shape, RingInv, LatestInv, HistoryNext PROVE RingInv' /\ LatestInv'
  BY <1>1
<1>2. \A l \in Levels : \A s \in Sets(l) : \A n \in Lines(l) : since'[l][s][n] = UsedSince(l, s, n)
  BY DEF HistoryNext
<1>3. Next
  BY DEF HistoryNext
<1>4. RingInv'
  <2> SUFFICES ASSUME NEW l \in Levels, Policy[l] = "trulru", NEW s \in Sets(l)
               PROVE  \E p \in Orders(l) : Linked(l, historyUsed'[l][s], recentlyUsed'[l][s], p)
                                           /\ InOrderOfUse(l, s, p)'
    BY DEF RingInv
  <2>1. PICK o \in Orders(l) :
            Linked(l, historyUsed[l][s], recentlyUsed[l][s], o) /\ InOrderOfUse(l, s, o)
    BY DEF RingInv
  <2>2. CASE UsedNow(l, s) = {} /\ KeptAt(l, s)
    <3>1. \A n \in Lines(l) : since'[l][s][n] = since[l][s][n]
      BY <1>2, <2>2, NoneUsed
    <3>2. \A i \in Lines(l) : o[i] \in Lines(l)
      BY DEF Orders
    <3>3. InOrderOfUse(l, s, o)'
      BY <2>1, <3>1, <3>2 DEF InOrderOfUse
    <3> QED  BY <2>1, <2>2, <3>3 DEF KeptAt
  <2>3. ASSUME NEW line \in Lines(l), UsedNow(l, s) = {line}, MarkedAt(l, s, line)
        PROVE  \E p \in Orders(l) : Linked(l, historyUsed'[l][s], recentlyUsed'[l][s], p)
                                    /\ InOrderOfUse(l, s, p)'
    BY <1>2, <2>1, <2>3, UseKeepsOrder
  <2> QED  BY <1>3, <2>2, <2>3, VisitMarks
<1>5. LatestInv'
  <2> SUFFICES ASSUME NEW l \in Levels, Policy[l] = "nmru", NEW s \in Sets(l)
               PROVE  LET last == recentlyUsed'[l][s]
                      IN \/ \A n \in Lines(l) : since'[l][s][n] = {}
                         \/ \A n \in Lines(l) : n # last => last \in since'[l][s][n]
    BY DEF LatestInv
  <2>1. CASE UsedNow(l, s) = {} /\ KeptAt(l, s)
    <3>1. \A n \in Lines(l) : since'[l][s][n] = since[l][s][n]
      BY <1>2, <2>1, NoneUsed
    <3> QED  BY <2>1, <3>1 DEF KeptAt, LatestInv
  <2>2. ASSUME NEW line \in Lines(l), UsedNow(l, s) = {line}, MarkedAt(l, s, line)
        PROVE  \A n \in Lines(l) : n # recentlyUsed'[l][s] => recentlyUsed'[l][s] \in since'[l][s][n]
    <3>1. recentlyUsed'[l][s] = line
      BY <2>2 DEF MarkedAt
    <3>2. \A n \in Lines(l) : n # line => since'[l][s][n] = since[l][s][n] \cup {line}
      BY <1>2, <2>2 DEF UsedSince
    <3> QED  BY <3>1, <3>2
  <2> QED  BY <1>3, <2>1, <2>2, VisitMarks
<1> QED  BY <1>4, <1>5

LEMMA RingInit == HistoryInit => RingInv /\ LatestInv
<1> SUFFICES ASSUME HistoryInit PROVE RingInv /\ LatestInv
  OBVIOUS
<1>1. \A l \in Levels : \A s \in Sets(l) : \A n \in Lines(l) : since[l][s][n] = {}
  BY DEF HistoryInit
<1>2. LatestInv
  BY <1>1 DEF LatestInv
<1>3. ASSUME NEW l \in Levels, Policy[l] = "trulru", NEW s \in Sets(l)
      PROVE  \E o \in Orders(l) :
                Linked(l, historyUsed[l][s], recentlyUsed[l][s], o) /\ InOrderOfUse(l, s, o)
  <2> DEFINE o == [i \in Lines(l) |-> i]
             A == Associativity[l]
  <2>1. A \in Nat \ {0, 1} /\ Lines(l) = 0 .. A - 1
    <3>1. Associativity[l] \in Nat \ {0} /\ Associativity[l] > 1
      BY <1>3, SizeAssumption, PolicyAssumption
    <3> QED  BY <3>1 DEF Lines
  <2>2. o \in Orders(l)
    BY DEF Orders
  <2>3. historyUsed[l][s] = InitialRing(l) /\ recentlyUsed[l][s] = 0
    BY DEF HistoryInit, Init
  <2>4. ASSUME NEW i \in Lines(l)
        PROVE  (i + 1) % A = After(l, i) /\ (After(l, i) - 1) % A = i /\ After(l, i) \in Lines(l)
    <3>1. CASE i = A - 1
      <4>1. After(l, i) = 0 /\ i + 1 = A /\ After(l, i) \in Lines(l) /\ After(l, i) - 1 = -1
        BY <2>1, <3>1 DEF After
      <4>2. A % A = 0 /\ (-1) % A = A - 1
        BY <2>1
      <4>3. (i + 1) % A = 0
        BY <4>1, <4>2
      <4>4. (After(l, i) - 1) % A = i
        BY <3>1, <4>1, <4>2
      <4> QED  BY <4>1, <4>3, <4>4
    <3>2. CASE i # A - 1
      <4>1. After(l, i) = i + 1 /\ i + 1 \in Lines(l) /\ (i + 1) - 1 = i
        BY <2>1, <3>2 DEF After
      <4>2. \A x \in 0 .. A - 1 : x % A = x
        BY <2>1
      <4>3. (i + 1) % A = i + 1 /\ i % A = i
        BY <2>1, <4>1, <4>2
      <4> QED  BY <4>1, <4>3
    <3> QED  BY <3>1, <3>2
  <2>5. Linked(l, InitialRing(l), 0, o)
    <3>1. \A i \in Lines(l) : InitialRing(l)[i].next = (i + 1) % A
                             /\ InitialRing(l)[i].prev = (i - 1) % A
      BY DEF InitialRing
    <3>2. \A i \in Lines(l) : /\ InitialRing(l)[i].next = After(l, i)
                              /\ InitialRing(l)[After(l, i)].prev = i
      BY <2>4, <3>1
    <3>3. 0 \in Lines(l) /\ \A i \in Lines(l) : o[i] = i /\ o[After(l, i)] = After(l, i)
      BY <2>1, <2>4
    <3> HIDE DEF o
    <3> QED  BY <3>2, <3>3 DEF Linked
  <2>6. InOrderOfUse(l, s, o)
    BY <1>1 DEF InOrderOfUse
  <2> HIDE DEF o
  <2> QED  BY <2>2, <2>3, <2>5, <2>6
<1> QED  BY <1>2, <1>3 DEF RingInv

LEMMA RingAlways == HistorySpec => [](Shape /\ RingInv /\ LatestInv)
<1>1. HistoryInit => Shape /\ RingInv /\ LatestInv
  BY InitType, RingInit DEF HistoryInit
<1>2. Shape /\ [HistoryNext]_<<vars, since>> => Shape'
  <2>1. [HistoryNext]_<<vars, since>> => [Next]_vars
    BY DEF HistoryNext
  <2> QED  BY <2>1, TypeStep
<1> QED  BY <1>1, <1>2, RingStep, PTL DEF HistorySpec

\* True LRU, for any number of lines: the line that is given up was used after
\* no other line of its set, whatever the relinking of the ring did before
\* (CacheLevel::MarkUsed, TRULRUCacheLevel::LineToReplace).
THEOREM GivesUpTheOldest == HistorySpec => []LeastRecent
<1>1. Shape /\ RingInv => LeastRecent
  <2> SUFFICES ASSUME Shape, RingInv, NEW l \in Levels, Policy[l] = "trulru", NEW s \in Sets(l),
                      NEW line \in LineToReplace(l, s), NEW n \in Lines(l), n # line
               PROVE  line \notin since[l][s][n]
    BY DEF LeastRecent
  <2>1. line = recentlyUsed[l][s]
    BY DEF LineToReplace
  <2>2. PICK o \in Orders(l) :
            Linked(l, historyUsed[l][s], recentlyUsed[l][s], o) /\ InOrderOfUse(l, s, o)
    BY DEF RingInv
  <2>3. o[0] = line
    BY <2>1, <2>2 DEF Linked
  <2>4. PICK j \in Lines(l) : o[j] = n
    BY DEF Orders
  <2>5. 0 \in Lines(l) /\ 0 < j
    BY <2>3, <2>4, SizeAssumption DEF Lines
  <2> QED  BY <2>2, <2>3, <2>4, <2>5 DEF InOrderOfUse
<1> QED  BY <1>1, RingAlways, PTL

\* The default policy: a line just used is never the next to be given up
\* (CacheLevel::LineToReplace).
THEOREM SparesTheLatest == HistorySpec => []NeverTheLatest
<1>1. Shape /\ LatestInv => NeverTheLatest
  <2> SUFFICES ASSUME Shape, LatestInv, NEW l \in Levels, Policy[l] = "nmru",
                      Associativity[l] > 1, NEW s \in Sets(l), NEW line \in LineToReplace(l, s),
                      since[l][s][line] = {}
               PROVE  \A n \in Lines(l) : since[l][s][n] = {}
    BY DEF NeverTheLatest
  <2> DEFINE A == Associativity[l]
             last == recentlyUsed[l][s]
  <2>1. last \in 0 .. A - 1 /\ A \in Nat \ {0, 1} /\ Lines(l) = 0 .. A - 1
    BY SizeAssumption DEF Shape, RecentType, Lines
  <2>2. line = (last + 1) % A
    BY DEF LineToReplace
  <2>3. line # last /\ line \in Lines(l)
    <3>1. CASE last = A - 1
      <4>1. A % A = 0
        BY <2>1
      <4> QED  BY <2>1, <2>2, <3>1, <4>1
    <3>2. CASE last # A - 1
      <4>1. \A x \in 0 .. A - 1 : x % A = x
        BY <2>1
      <4>2. line = last + 1
        BY <2>1, <2>2, <3>2, <4>1
      <4> QED  BY <2>1, <3>2, <4>2
    <3> QED  BY <3>1, <3>2
  <2> QED  BY <2>3 DEF LatestInv
<1> QED  BY <1>1, RingAlways, PTL
=============================================================================
