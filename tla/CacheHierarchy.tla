---------------------------- MODULE CacheHierarchy ----------------------------
(***************************************************************************)
(* A simulated cache structure: CacheStructureHandler::Process walks one   *)
(* access through the levels, and a level answers with the level to go to  *)
(* next.  Levels before FirstExclusive are looked up independently; those  *)
(* from FirstExclusive on form a victim hierarchy: the line that was hit,  *)
(* or missed everywhere, enters at FirstExclusive and every level hands    *)
(* the line it gives up to the next.                                       *)
(*                                                                         *)
(* A store is an address without the bits within a line; 0 is both the     *)
(* store of the lowest addresses and what an empty line holds, and only    *)
(* accesses with other stores are modelled.  The counters of hits and      *)
(* misses are kept modulo 2^64 in the program, modulo W here.              *)
(***************************************************************************)
EXTENDS Integers, FiniteSets, Sequences

CONSTANTS LevelCount,
          SetCount, Associativity, LineSize,    \* of each level
          Policy,           \* of each level: nmru (lru), trulru, direct, random
          FirstExclusives,  \* where the exclusive levels may begin
          HighAssoc,        \* levels that are searched through a map
          Addresses, MemIds,
          W

Levels == 0 .. LevelCount - 1
LastExclusive == LevelCount - 1
Invalid == LevelCount + 1           \* INVALID_CACHE_LEVEL
Sets(l) == 0 .. SetCount[l] - 1
Lines(l) == 0 .. Associativity[l] - 1

ASSUME LevelAssumption ==
    LevelCount \in Nat \ {0} /\ FirstExclusives \subseteq 0 .. LevelCount /\ HighAssoc \subseteq Levels
ASSUME SizeAssumption ==
    /\ SetCount \in [Levels -> Nat \ {0}]
    /\ Associativity \in [Levels -> Nat \ {0}]
    /\ LineSize \in [Levels -> Nat \ {0}]
ASSUME PolicyAssumption ==
    /\ Policy \in [Levels -> {"nmru", "trulru", "direct", "random"}]
    /\ \A l \in Levels : Policy[l] = "trulru" => Associativity[l] > 1
ASSUME StatsAssumption == W \in Nat \ {0}

\* linesizeBits is the logarithm of LineSize, rounded down
LineBits(l) == CHOOSE n \in 0 .. LineSize[l] : 2 ^ n <= LineSize[l] /\ LineSize[l] < 2 ^ (n + 1)
GetStorage(l, addr) == addr \div 2 ^ LineBits(l)
GetSet(l, store) == store % SetCount[l]

ASSUME AddressAssumption ==
    Addresses \subseteq Nat /\ \A a \in Addresses, l \in Levels : GetStorage(l, a) \in Nat \ {0}

VARIABLES contents,       \* the store in each line of each set of each level
          recentlyUsed,   \* nmru: the last line used; trulru: the next to replace
          historyUsed,    \* trulru: the lines of a set in a ring
          fastcontents,   \* a map from stores to lines, for levels in HighAssoc
          hitCount, missCount,
          next,           \* the level to go to, outside Levels when done
          access,         \* the address and memid in progress
          evict,          \* EvictionInfo
          FirstExclusive  \* of the structure, LevelCount: no level is exclusive

caches == <<contents, recentlyUsed, historyUsed, fastcontents>>
vars == <<caches, hitCount, missCount, next, access, evict, FirstExclusive>>

IsExclusive(l) == l >= FirstExclusive
Busy == next \in Levels

Stores(l) == {GetStorage(l, a) : a \in Addresses}
AnyStore == (UNION {Stores(l) : l \in Levels}) \cup {0}

TypeOK ==
    /\ \A l \in Levels :
          /\ contents[l] \in [Sets(l) -> [Lines(l) -> AnyStore]]
          /\ recentlyUsed[l] \in [Sets(l) -> Lines(l)]
          /\ historyUsed[l] \in [Sets(l) -> [Lines(l) -> [prev : Lines(l), next : Lines(l)]]]
          /\ \A s \in Sets(l) : DOMAIN fastcontents[l][s] \subseteq AnyStore
    /\ hitCount \in [MemIds -> [Levels -> 0 .. W - 1]]
    /\ missCount \in [MemIds -> [Levels -> 0 .. W - 1]]
    /\ next \in Levels \cup {LevelCount, Invalid}
    /\ access \in [addr : Addresses, memid : MemIds]
    /\ evict.level \in Levels \cup {LevelCount, Invalid} /\ evict.addr \in AnyStore
    /\ FirstExclusive \in FirstExclusives

\* the ring of a set as CacheLevel::Init builds it
InitialRing(l) ==
    [n \in Lines(l) |-> [prev |-> (n - 1) % Associativity[l], next |-> (n + 1) % Associativity[l]]]

NoEviction == [level |-> Invalid, addr |-> 0, setid |-> 0, lineid |-> 0]

Init ==
    /\ contents = [l \in Levels |-> [s \in Sets(l) |-> [n \in Lines(l) |-> 0]]]
    /\ recentlyUsed = [l \in Levels |-> [s \in Sets(l) |-> 0]]
    /\ historyUsed = [l \in Levels |-> [s \in Sets(l) |-> InitialRing(l)]]
    /\ fastcontents = [l \in Levels |-> [s \in Sets(l) |-> <<>>]]
    /\ hitCount = [m \in MemIds |-> [l \in Levels |-> 0]]
    /\ missCount = [m \in MemIds |-> [l \in Levels |-> 0]]
    /\ next = Invalid
    /\ access \in [addr : Addresses, memid : MemIds]
    /\ evict = NoEviction
    /\ FirstExclusive \in FirstExclusives

-----------------------------------------------------------------------------
(* Replacement.                                                             *)

Unlink(ring, line) ==
    LET back == [ring EXCEPT ![ring[line].next].prev = ring[line].prev]
    IN [back EXCEPT ![back[line].prev].next = back[line].next]

InsertBefore(ring, line, head) ==
    LET linked == [ring EXCEPT ![line] = [prev |-> ring[head].prev, next |-> head],
                               ![head].prev = line]
    IN [linked EXCEPT ![linked[line].prev].next = line]

\* a defective variant: only a line that is not the next to replace is moved
MarkUsedUnlessHead(l, set, line) ==
    LET head == recentlyUsed[l][set]
    IN IF Policy[l] = "nmru"
         THEN recentlyUsed' = [recentlyUsed EXCEPT ![l][set] = line] /\ UNCHANGED historyUsed
       ELSE IF Policy[l] = "trulru" /\ line # head
         THEN /\ historyUsed' = [historyUsed EXCEPT ![l][set] = InsertBefore(Unlink(@, line), line, head)]
              /\ UNCHANGED recentlyUsed
       ELSE UNCHANGED <<recentlyUsed, historyUsed>>

\* the ring starts at the line used least recently
MarkUsed(l, set, line) ==
    LET head == recentlyUsed[l][set]
        ring == historyUsed[l][set]
    IN CASE Policy[l] = "nmru" ->
              /\ recentlyUsed' = [recentlyUsed EXCEPT ![l][set] = line]
              /\ UNCHANGED historyUsed
         [] Policy[l] = "trulru" /\ line = head ->
              /\ recentlyUsed' = [recentlyUsed EXCEPT ![l][set] = ring[line].next]
              /\ UNCHANGED historyUsed
         [] Policy[l] = "trulru" /\ line # head ->
              /\ historyUsed' = [historyUsed EXCEPT
                                   ![l][set] = InsertBefore(Unlink(ring, line), line, head)]
              /\ UNCHANGED recentlyUsed
         [] OTHER -> UNCHANGED <<recentlyUsed, historyUsed>>

LineToReplace(l, set) ==
    CASE Policy[l] = "nmru" -> {(recentlyUsed[l][set] + 1) % Associativity[l]}
      [] Policy[l] = "trulru" -> {recentlyUsed[l][set]}
      [] Policy[l] = "random" -> Lines(l)
      [] Policy[l] = "direct" -> {0}

Remember(fast, prev, store, line) ==
    [x \in (DOMAIN fast \ {prev}) \cup {store} |-> IF x = store THEN line ELSE fast[x]]

Replace(l, store, set, line) ==
    /\ contents' = [contents EXCEPT ![l][set][line] = store]
    /\ fastcontents' =
         IF l \in HighAssoc
           THEN [fastcontents EXCEPT ![l][set] =
                   Remember(@, contents[l][set][line], store, line)]
           ELSE fastcontents
    /\ MarkUsed(l, set, line)

\* the line Search finds, none if the set is empty
Search(l, store) ==
    LET set == GetSet(l, store)
        found == {n \in Lines(l) : contents[l][set][n] = store}
    IN IF l \in HighAssoc
         THEN {fastcontents[l][set][x] : x \in DOMAIN fastcontents[l][set] \cap {store}}
         ELSE {n \in found : \A k \in found : n <= k}

-----------------------------------------------------------------------------
(* CacheStructureHandler::Process: one action per visit of a level.         *)

Start(a, m) ==
    /\ ~Busy
    /\ next' = 0
    /\ access' = [addr |-> a, memid |-> m]
    /\ evict' = NoEviction
    /\ UNCHANGED <<caches, hitCount, missCount>>

Count(counter, l) == [counter EXCEPT ![access.memid][l] = (@ + 1) % W]

(* CacheLevel::Process                                                      *)
Hit(l) ==
    /\ next = l /\ ~IsExclusive(l)
    /\ LET store == GetStorage(l, access.addr)
       IN \E line \in Search(l, store) : MarkUsed(l, GetSet(l, store), line)
    /\ hitCount' = Count(hitCount, l)
    /\ next' = Invalid
    /\ UNCHANGED <<contents, fastcontents, missCount, access, evict>>

\* a defective variant: the next level is not asked
MissStops(l) ==
    /\ next = l /\ ~IsExclusive(l)
    /\ LET store == GetStorage(l, access.addr)
           set == GetSet(l, store)
       IN /\ Search(l, store) = {}
          /\ \E line \in LineToReplace(l, set) : Replace(l, store, set, line)
    /\ missCount' = Count(missCount, l)
    /\ next' = Invalid
    /\ UNCHANGED <<hitCount, access, evict>>

Miss(l) ==
    /\ next = l /\ ~IsExclusive(l)
    /\ LET store == GetStorage(l, access.addr)
           set == GetSet(l, store)
       IN /\ Search(l, store) = {}
          /\ \E line \in LineToReplace(l, set) : Replace(l, store, set, line)
    /\ missCount' = Count(missCount, l)
    /\ next' = l + 1
    /\ UNCHANGED <<hitCount, access, evict>>

(* ExclusiveCacheLevel::Process                                             *)
ExclusiveHit(l) ==
    /\ next = l /\ IsExclusive(l) /\ evict.level = Invalid
    /\ LET store == GetStorage(l, access.addr)
           set == GetSet(l, store)
       IN \E line \in Search(l, store) :
             /\ MarkUsed(l, set, line)
             /\ evict' = [level |-> l, addr |-> store, setid |-> set, lineid |-> line]
    /\ hitCount' = Count(hitCount, l)
    /\ next' = IF l = FirstExclusive THEN Invalid ELSE FirstExclusive
    /\ UNCHANGED <<contents, fastcontents, missCount, access>>

\* a defective variant: the eviction is not recorded after the last level
ExclusiveMissForgets(l) ==
    /\ next = l /\ IsExclusive(l) /\ evict.level = Invalid
    /\ Search(l, GetStorage(l, access.addr)) = {}
    /\ missCount' = Count(missCount, l)
    /\ next' = IF l = LastExclusive THEN FirstExclusive ELSE l + 1
    /\ UNCHANGED <<caches, hitCount, access, evict>>

ExclusiveMiss(l) ==
    /\ next = l /\ IsExclusive(l) /\ evict.level = Invalid
    /\ LET store == GetStorage(l, access.addr)
       IN /\ Search(l, store) = {}
          /\ evict' = IF l = LastExclusive
                        THEN [evict EXCEPT !.level = LastExclusive + 1, !.addr = store]
                        ELSE evict
    /\ missCount' = Count(missCount, l)
    /\ next' = IF l = LastExclusive THEN FirstExclusive ELSE l + 1
    /\ UNCHANGED <<caches, hitCount, access>>

\* a defective variant: the line that was hit is not given up
VictimLinesAlways(l, set) == LineToReplace(l, set)

\* the line that was hit is reused when the victim belongs to its set
VictimLines(l, set) ==
    IF evict.level = l /\ evict.setid = set THEN {evict.lineid} ELSE LineToReplace(l, set)

Victimize(l) ==
    /\ next = l /\ IsExclusive(l) /\ evict.level # Invalid
    /\ LET set == GetSet(l, evict.addr)
       IN \E line \in VictimLines(l, set) :
             /\ Replace(l, evict.addr, set, line)
             /\ evict' = [evict EXCEPT !.addr = contents[l][set][line]]
    /\ next' = IF evict.level = l THEN Invalid ELSE l + 1
    /\ UNCHANGED <<hitCount, missCount, access>>

ProcessLevel(l) ==
    Hit(l) \/ Miss(l) \/ ExclusiveHit(l) \/ ExclusiveMiss(l) \/ Victimize(l)

Next ==
    /\ \/ \E a \in Addresses, m \in MemIds : Start(a, m)
       \/ \E l \in Levels : ProcessLevel(l)
    /\ UNCHANGED FirstExclusive

Spec == Init /\ [][Next]_vars
FairSpec == Spec /\ WF_vars(UNCHANGED FirstExclusive /\ \E l \in Levels : ProcessLevel(l))

-----------------------------------------------------------------------------
(* Properties.                                                              *)

(* CacheStats::Verify: between accesses every level has been asked exactly  *)
(* for the accesses that the level before it missed, for each memid, also   *)
(* when an access visits the victim levels a second time.                   *)
FlowsDown ==
    ~Busy => \A m \in MemIds, l \in Levels \ {0} :
                (hitCount[m][l] + missCount[m][l]) % W = missCount[m][l - 1]

Holds(l, store) == \E s \in Sets(l), n \in Lines(l) : contents[l][s][n] = store

(* A store is where it is said to be, and nowhere else: the map of a highly *)
(* associative level finds exactly the stores that are in its lines, and    *)
(* between accesses no store is in two exclusive levels.                    *)
StoredOnce ==
    /\ \A l \in HighAssoc : \A s \in Sets(l) :
          {<<x, fastcontents[l][s][x]>> : x \in DOMAIN fastcontents[l][s] \ {0}}
            = {<<contents[l][s][n], n>> : n \in {n \in Lines(l) : contents[l][s][n] # 0}}
    /\ ~Busy => \A store \in AnyStore \ {0} :
                   Cardinality({l \in FirstExclusive .. LastExclusive : Holds(l, store)}) <= 1

(* Every access comes to an end: the second walk through the exclusive      *)
(* levels does not start a third one.                                       *)
AccessEnds == Busy ~> ~Busy
=============================================================================
