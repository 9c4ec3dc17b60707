------------------------ MODULE CacheSettings_proofs ------------------------
(* What CacheSettings guarantees for any files of cache descriptions: each  *)
(* line that makes sense becomes the structure that it describes, and the   *)
(* threads get equal copies of them (BuiltRight).  The argument goes token  *)
(* by token: what has been read of a line, together with the three numbers  *)
(* of the level that is not finished yet and the first victim cache, is     *)
(* what the line says up to there (ReadSoFar).                              *)
EXTENDS CacheSettings, FiniteSetTheorems, TLAPS

NumberToken == [kind : {"number"}, n : Nat, unit : STRING, b : BOOLEAN]
PolicyToken == [kind : {"policy"}, name : STRING, vc : BOOLEAN]
PolicyNames == {Policies[name] : name \in DOMAIN Policies}
LevelsMade == {NewLevel(a, v, r, f, z) : a \in Int, v \in [1 .. 3 -> Nat], r \in PolicyNames, f \in Int, z \in Int}
Structure == [sysId : Nat, levelCount : Nat, levels : Seq(LevelsMade)]

-----------------------------------------------------------------------------
(* The invariant. *)

pos == Len(given) - Len(cacheFile)     \* how many lines are read
line == given[pos]                     \* and the last of them
\* A level from the first victim cache of the first n levels on is exclusive.
FirstIs(aLine, n, f) ==
    \/ f = NoLevel /\ \A j \in 1 .. n : ~At(aLine, j, 4).vc
    \/ f \in 0 .. n - 1 /\ At(aLine, f + 1, 4).vc /\ \A j \in 1 .. f : ~At(aLine, j, 4).vc
LevelIs(lev, aLine, l, count) == LevelAsDescribed(lev, aLine, l, count) /\ FirstIs(aLine, l, lev.first)
ReadSoFar(h, aLine, w, values, first) ==
    /\ w < 2 => Len(h.levels) = 0
    /\ w >= 2 => Len(h.levels) = (w - 2) \div 4
    /\ w >= 1 => Reads(h.sysId, aLine[1])
    /\ w >= 2 => Reads(h.levelCount, aLine[2])
    /\ w >= 2 => \A p \in 1 .. 3 : p <= (w - 2) % 4 => Reads(values[p], aLine[2 + 4 * Len(h.levels) + p])
    /\ \A l \in 1 .. Len(h.levels) : LevelIs(h.levels[l], aLine, l, h.levelCount)
    /\ FirstIs(aLine, Len(h.levels), first)

FileInv ==
    /\ stage \in {"lines", "tokens", "ready", "stopped"}
    /\ given \in CacheFiles /\ cacheFile \in Seq(Seq(Token)) /\ Len(cacheFile) <= Len(given)
    /\ \A k \in 1 .. Len(cacheFile) : cacheFile[k] = given[pos + k]
    /\ cacheValues \in [1 .. 3 -> Nat] /\ firstExcl \in Int /\ current \in Structure
    /\ caches \in Seq(Structure) /\ windows \in SUBSET {"reuse", "spatial"}
LineInv ==
    stage = "tokens" =>
        /\ pos \in DescribedLines
        /\ whichTok \in Nat /\ tokens \in Seq(Token) /\ whichTok + Len(tokens) = Len(line)
        /\ \A k \in 1 .. Len(tokens) : tokens[k] = line[whichTok + k]
        /\ \A k \in 1 .. whichTok : line[k].kind # "comment"
        /\ ReadSoFar(current, line, whichTok, cacheValues, firstExcl)

\* The lines whose structures are read.
handled == IF stage \in {"lines", "ready"} THEN pos ELSE pos - 1
UpTo(m) == {i \in DescribedLines : i <= m}
CachesInv ==
    /\ Len(caches) = Cardinality(UpTo(handled))
    /\ \A i \in DescribedLines : i <= handled => AsDescribed(caches[Nth(i)], given[i])
    /\ \A n \in 1 .. Len(caches) : Len(caches[n].levels) = caches[n].levelCount
StopInv == stage = "stopped" => (DescribedLines = {} \/ \E i \in DescribedLines : ~WellFormed(given[i]))

\* Where the handlers have their places.
Places(n, which) ==
    LET reuse == IF "reuse" \in which THEN 0 ELSE -1
    IN  [range |-> n, reuse |-> reuse, spatial |-> IF "spatial" \in which THEN reuse + 1 ELSE -1,
         memory |-> n + 1, reuses |-> Cardinality(which)]
ReadyInv == stage = "ready" => cacheFile = << >> /\ indices = Places(Len(caches), windows)
Owns(mine, them, which) ==
    /\ \A i \in DOMAIN them : /\ mine.memory[i] = <<"cache", them[i]>>
                                /\ mine.stats[i] = <<"cache", them[i].sysId, Len(them[i].levels)>>
    /\ mine.memory[Len(them) + 1] = <<"ranges">> /\ mine.stats[Len(them) + 1] = <<"ranges">>
    /\ DOMAIN mine.reuse = 1 .. Cardinality(which) /\ {mine.reuse[i] : i \in DOMAIN mine.reuse} = which
HandlersInv == /\ stage # "ready" => DOMAIN Handlers = {}
               /\ \A t \in DOMAIN Handlers : Owns(Handlers[t], caches, windows)
IInv == FileInv /\ LineInv /\ CachesInv /\ StopInv /\ ReadyInv /\ HandlersInv

-----------------------------------------------------------------------------
(* Lines and tokens. *)

(* What is read of a line before its end or its comment is what counts.     *)
LEMMA Counted ==
    ASSUME NEW aLine \in Seq(Token), NEW w \in 0 .. Len(aLine),
           \A k \in 1 .. w : aLine[k].kind # "comment"
    PROVE  /\ 1 .. w \subseteq Uncommented(aLine)
           /\ IsFiniteSet(Uncommented(aLine)) /\ Cardinality(Uncommented(aLine)) \in Nat
           /\ w <= Cardinality(Uncommented(aLine))
           /\ (w < Len(aLine) => aLine[w + 1].kind = "comment") => Cardinality(Uncommented(aLine)) = w
<1>1. 1 .. w \subseteq Uncommented(aLine)
  BY DEF Uncommented
<1>2. Uncommented(aLine) \subseteq 1 .. Len(aLine)
  BY DEF Uncommented
<1>3. IsFiniteSet(1 .. Len(aLine)) /\ IsFiniteSet(1 .. w) /\ Cardinality(1 .. w) = w
  BY FS_Interval
<1>4. IsFiniteSet(Uncommented(aLine)) /\ Cardinality(Uncommented(aLine)) \in Nat
  BY <1>2, <1>3, FS_Subset, FS_CardinalityType
<1>5. w <= Cardinality(Uncommented(aLine))
  BY <1>1, <1>3, <1>4, FS_Subset
<1>6. ASSUME w < Len(aLine) => aLine[w + 1].kind = "comment" PROVE Uncommented(aLine) = 1 .. w
  <2>1. ASSUME NEW i \in Uncommented(aLine) PROVE i \in 1 .. w
    <3>1. i \in 1 .. Len(aLine) /\ (w < Len(aLine) => w + 1 \in 1 .. Len(aLine))
      BY <1>2, <2>1
    <3>2. w < Len(aLine) => i < w + 1
      BY <1>6, <2>1, <3>1 DEF Uncommented
    <3> QED  BY <3>1, <3>2
  <2> QED  BY <1>1, <2>1
<1> QED  BY <1>1, <1>3, <1>4, <1>5, <1>6

(* What ParseInt32 makes of a number: it is as it is written.               *)
LEMMA Parsed ==
    ASSUME DescriptionAssumption, NEW token \in NumberToken, NEW min \in Nat
    PROVE  /\ ParseInt32(token, min).ok <=> Readable(token) /\ token.n >= min
           /\ ParseInt32(token, min).value \in Nat
           /\ ParseInt32(token, min).ok => Reads(ParseInt32(token, min).value, token)
<1> DEFINE mult == IF token.unit \in DOMAIN Units THEN Units[token.unit] ELSE 1
           product == token.n * mult
<1>1. KILO \in Nat /\ Word \in Nat \ {0} /\ token.n \in Nat
  BY DEF DescriptionAssumption, NumberToken
<1>2. KILO * KILO \in Nat
  BY <1>1
<1>3. KILO * KILO * KILO \in Nat
  BY <1>1, <1>2
<1>4. DOMAIN Units = {"k", "m", "g"} /\ \A u \in DOMAIN Units : Units[u] \in Nat
  BY <1>1, <1>2, <1>3 DEF Units
<1>5. mult \in Nat
  BY <1>4
<1>6. product \in Nat
  BY <1>1, <1>5
<1>7. ParseInt32(token, min) = [ok |-> Readable(token) /\ token.n >= min, value |-> product % Word]
  BY DEF ParseInt32, Readable
<1>8. product % Word \in Nat /\ (product < Word => product % Word = product)
  BY <1>1, <1>6
<1>9. Readable(token) => product = Plain(token)
  BY <1>4 DEF Readable, Plain
<1>10. /\ ParseInt32(token, min).ok = (Readable(token) /\ token.n >= min)
       /\ ParseInt32(token, min).value = product % Word
  BY <1>7
<1> HIDE DEF product
<1> QED  BY <1>8, <1>9, <1>10 DEF Reads

(* A copy of a level, and of a structure, is equal to it.                   *)
LEMMA EqualLevels ==
    ASSUME NEW l \in LevelsMade
    PROVE  Copy(l) = l
<1>1. PICK a \in Int, v \in [1 .. 3 -> Nat], r \in PolicyNames, f \in Int, z \in Int : l = NewLevel(a, v, r, f, z)
  BY DEF LevelsMade
<1> QED  BY <1>1 DEF Copy, NewLevel

LEMMA EqualStructures ==
    ASSUME NEW h \in Structure
    PROVE  CacheStructureHandler(h) = h
<1>1. h.levels \in Seq(LevelsMade)
  BY DEF Structure
<1>2. \A i \in DOMAIN h.levels : Copy(h.levels[i]) = h.levels[i]
  BY <1>1, EqualLevels
<1>3. [i \in DOMAIN h.levels |-> Copy(h.levels[i])] = h.levels
  BY <1>1, <1>2
<1> QED  BY <1>3 DEF CacheStructureHandler, Structure

(* The first victim cache is the one that FirstVictim finds.                *)
LEMMA FirstFound ==
    ASSUME NEW aLine, NEW n \in Nat, NEW f, FirstIs(aLine, n, f)
    PROVE  FirstVictim(aLine, n) = f /\ f \in Int
<1> DEFINE vcs == {j \in 1 .. n : At(aLine, j, 4).vc}
           IsLeast(j) == j \in vcs /\ \A k \in vcs : j <= k
<1>1. CASE f = NoLevel /\ \A j \in 1 .. n : ~At(aLine, j, 4).vc
  BY <1>1 DEF FirstVictim, NoLevel
<1>2. CASE f \in 0 .. n - 1 /\ At(aLine, f + 1, 4).vc /\ \A j \in 1 .. f : ~At(aLine, j, 4).vc
  <2>1. f + 1 \in vcs /\ \A k \in vcs : f + 1 <= k
    BY <1>2
  <2>2. \A j : IsLeast(j) => j = f + 1
    BY <2>1, <1>2
  <2>3. (CHOOSE j : IsLeast(j)) = f + 1
    BY <2>1, <2>2
  <2>4. FirstVictim(aLine, n) = (CHOOSE j \in vcs : \A k \in vcs : j <= k) - 1
    BY <2>1 DEF FirstVictim
  <2>5. (CHOOSE j \in vcs : \A k \in vcs : j <= k) = f + 1
    BY <2>3
  <2> QED  BY <2>4, <2>5, <1>2
<1> QED  BY <1>1, <1>2 DEF FirstIs

-----------------------------------------------------------------------------
(* What is read of a line, a token at a time: the identifier, the number of *)
(* levels, a number of a level and the policy that ends it.                 *)

LEMMA IdentifierRead ==
    ASSUME NEW h \in Structure, NEW aLine, NEW values, NEW first, NEW v \in Nat,
           ReadSoFar(h, aLine, 0, values, first), Reads(v, aLine[1])
    PROVE  /\ [h EXCEPT !.sysId = v] \in Structure
           /\ ReadSoFar([h EXCEPT !.sysId = v], aLine, 1, values, first)
<1> DEFINE g == [h EXCEPT !.sysId = v]
<1>1. g \in Structure /\ g.levels = h.levels /\ g.levelCount = h.levelCount /\ g.sysId = v
  BY DEF Structure
<1>2. Len(h.levels) = 0
  BY DEF ReadSoFar
<1> HIDE DEF g
<1>3. ReadSoFar(g, aLine, 1, values, first)
  BY <1>1, <1>2 DEF ReadSoFar
<1> QED  BY <1>1, <1>3 DEF g

LEMMA CountRead ==
    ASSUME NEW h \in Structure, NEW aLine, NEW values, NEW first, NEW v \in Nat,
           ReadSoFar(h, aLine, 1, values, first), Reads(v, aLine[2])
    PROVE  /\ [h EXCEPT !.levelCount = v] \in Structure
           /\ ReadSoFar([h EXCEPT !.levelCount = v], aLine, 2, values, first)
<1> DEFINE g == [h EXCEPT !.levelCount = v]
<1>1. g \in Structure /\ g.levels = h.levels /\ g.levelCount = v /\ g.sysId = h.sysId
  BY DEF Structure
<1>2. Len(h.levels) = 0
  BY DEF ReadSoFar
<1> HIDE DEF g
<1>3. ReadSoFar(g, aLine, 2, values, first)
  BY <1>1, <1>2 DEF ReadSoFar
<1> QED  BY <1>1, <1>3 DEF g

LEMMA LevelNumberRead ==
    ASSUME NEW h \in Structure, NEW aLine, NEW values \in [1 .. 3 -> Nat], NEW first, NEW v \in Nat,
           NEW w \in Nat, w >= 2, (w - 2) % 4 # 3, NEW place, place = ((w - 2) % 4) + 1,
           ReadSoFar(h, aLine, w, values, first), Reads(v, aLine[w + 1])
    PROVE  /\ [values EXCEPT ![place] = v] \in [1 .. 3 -> Nat]
           /\ ReadSoFar(h, aLine, w + 1, [values EXCEPT ![place] = v], first)
<1> DEFINE new == [values EXCEPT ![place] = v]
           q == (w - 2) \div 4
<1>1. place \in 1 .. 3 /\ q \in Nat /\ w = 2 + 4 * q + (place - 1)
  OBVIOUS
<1>2. (w + 1 - 2) % 4 = place /\ (w + 1 - 2) \div 4 = q
  BY <1>1
<1>3. new \in [1 .. 3 -> Nat] /\ new[place] = v /\ \A p \in 1 .. 3 : p # place => new[p] = values[p]
  BY <1>1
<1>4. Len(h.levels) = q
  BY DEF ReadSoFar
<1> HIDE DEF new, q
<1>5. \A p \in 1 .. 3 : p <= place => Reads(new[p], aLine[2 + 4 * q + p])
  <2> SUFFICES ASSUME NEW p \in 1 .. 3, p <= place PROVE Reads(new[p], aLine[2 + 4 * q + p])
    OBVIOUS
  <2>1. CASE p = place
    <3>1. 2 + 4 * q + p = w + 1
      BY <1>1, <2>1
    <3> QED  BY <1>3, <2>1, <3>1
  <2>2. CASE p # place
    <3>1. p <= (w - 2) % 4
      BY <1>1, <2>2
    <3> QED  BY <1>3, <1>4, <2>2, <3>1 DEF ReadSoFar
  <2> QED  BY <2>1, <2>2
<1>6. ReadSoFar(h, aLine, w + 1, new, first)
  BY <1>2, <1>4, <1>5 DEF ReadSoFar
<1> QED  BY <1>3, <1>6 DEF new

(* A level of which all is read but the policy gets the next place.         *)
LEMMA FirstKept ==
    ASSUME NEW aLine, NEW q \in Nat, NEW f, FirstIs(aLine, q, f), At(aLine, q + 1, 4).vc \in BOOLEAN,
           NEW g, g = IF At(aLine, q + 1, 4).vc /\ f = NoLevel THEN q ELSE f
    PROVE  FirstIs(aLine, q + 1, g)
<1>1. q + 1 \in Nat /\ 0 .. q + 1 - 1 = 0 .. q /\ \A j \in 1 .. q + 1 : j \in 1 .. q \/ j = q + 1
  OBVIOUS
<1> QED  BY <1>1 DEF FirstIs, NoLevel

LEMMA LevelMade ==
    ASSUME NEW a \in Int, NEW v \in [1 .. 3 -> Nat], NEW r \in PolicyNames, NEW f \in Int, NEW z \in Int,
           NEW lev, lev = NewLevel(a, v, r, f, z)
    PROVE  /\ lev \in LevelsMade
           /\ lev.level = a /\ lev.size = v[1] /\ lev.assoc = v[2] /\ lev.line = v[3] /\ lev.policy = r
           /\ lev.first = f /\ (f # NoLevel => lev.last = z)
           /\ lev.high <=> v[2] >= MinimumHighAssociativity
<1>1. lev \in LevelsMade
  BY DEF LevelsMade
<1> QED  BY <1>1 DEF NewLevel

LEMMA PolicyRead ==
    ASSUME NEW h \in Structure, NEW aLine, NEW values \in [1 .. 3 -> Nat], NEW first \in Int,
           NEW w \in Nat, w >= 2, (w - 2) % 4 = 3,
           NEW q, q = (w - 2) \div 4, NEW token \in PolicyToken, aLine[w + 1] = token,
           ReadSoFar(h, aLine, w, values, first), token.name \in DOMAIN Policies,
           NEW g, g = FirstExclusive(token, q), firstExcl = first,
           NEW lev, lev = NewLevel(q, values, Policies[token.name], g, h.levelCount - 1)
    PROVE  /\ [h EXCEPT !.levels = Append(@, lev)] \in Structure
           /\ g \in Int
           /\ ReadSoFar([h EXCEPT !.levels = Append(@, lev)], aLine, w + 1, values, g)
<1> DEFINE new == [h EXCEPT !.levels = Append(@, lev)]
<1>1. q \in Nat /\ w + 1 = 2 + 4 * (q + 1 - 1) + 4 /\ (w + 1 - 2) % 4 = 0 /\ (w + 1 - 2) \div 4 = q + 1
  OBVIOUS
<1>2. Len(h.levels) = q /\ FirstIs(aLine, q, first)
  BY DEF ReadSoFar
<1>3. At(aLine, q + 1, 4) = token /\ token.vc \in BOOLEAN
  BY <1>1 DEF At, PolicyToken
<1>4. FirstIs(aLine, q + 1, g)
  <2>1. g = IF At(aLine, q + 1, 4).vc /\ first = NoLevel THEN q ELSE first
    BY <1>3 DEF FirstExclusive
  <2> QED  BY <1>1, <1>2, <1>3, <2>1, FirstKept
<1>5. g \in Int /\ FirstVictim(aLine, q + 1) = g
  BY <1>1, <1>4, FirstFound
<1>6. h.levels \in Seq(LevelsMade) /\ h.levelCount \in Nat
  BY DEF Structure
<1>7. /\ lev \in LevelsMade
      /\ lev.level = q /\ lev.size = values[1] /\ lev.assoc = values[2] /\ lev.line = values[3]
      /\ lev.policy = Policies[token.name] /\ lev.first = g
      /\ (g # NoLevel => lev.last = h.levelCount - 1)
      /\ lev.high <=> values[2] >= MinimumHighAssociativity
  <2> DEFINE r == Policies[token.name]
             z == h.levelCount - 1
  <2>1. r \in PolicyNames
    BY DEF PolicyNames
  <2>2. z \in Int /\ q \in Int
    BY <1>1, <1>6
  <2>3. lev = NewLevel(q, values, r, g, z)
    OBVIOUS
  <2> HIDE DEF r, z
  <2>4. /\ lev \in LevelsMade
        /\ lev.level = q /\ lev.size = values[1] /\ lev.assoc = values[2] /\ lev.line = values[3] /\ lev.policy = r
        /\ lev.first = g /\ (g # NoLevel => lev.last = z)
        /\ lev.high <=> values[2] >= MinimumHighAssociativity
    BY <1>5, <2>1, <2>2, <2>3, LevelMade
  <2> QED  BY <2>4 DEF r, z
<1>8. new \in Structure /\ new.levels = Append(h.levels, lev) /\ new.levelCount = h.levelCount /\ new.sysId = h.sysId
  <2> DEFINE more == Append(h.levels, lev)
  <2>1. more \in Seq(LevelsMade)
    BY <1>6, <1>7
  <2>2. new = [h EXCEPT !.levels = more]
    OBVIOUS
  <2> HIDE DEF more, new
  <2>3. new \in Structure /\ new.levels = more /\ new.levelCount = h.levelCount /\ new.sysId = h.sysId
    BY <2>1, <2>2 DEF Structure
  <2> QED  BY <2>3 DEF more
<1>9. /\ Len(new.levels) = q + 1 /\ new.levels[q + 1] = lev
      /\ \A l \in 1 .. q : new.levels[l] = h.levels[l]
  <2> HIDE DEF new
  <2>1. new.levels = Append(h.levels, lev) /\ h.levels \in Seq(LevelsMade) /\ Len(h.levels) = q
    BY <1>2, <1>6, <1>8
  <2> QED  BY <2>1, <1>7
<1>10. LevelIs(lev, aLine, q + 1, h.levelCount)
  <2>2. \A p \in 1 .. 3 : Reads(values[p], At(aLine, q + 1, p))
    <3>1. \A p \in 1 .. 3 : Reads(values[p], aLine[2 + 4 * q + p])
      <4>1. Len(h.levels) = q /\ \A p \in 1 .. 3 : p <= (w - 2) % 4
        BY <1>2
      <4> QED  BY <4>1 DEF ReadSoFar
    <3>2. q + 1 - 1 = q
      BY <1>1
    <3> QED  BY <3>1, <3>2 DEF At
  <2>3. LevelAsDescribed(lev, aLine, q + 1, h.levelCount)
    BY <1>1, <1>3, <1>5, <1>7, <2>2 DEF LevelAsDescribed, IsExclusive
  <2> QED  BY <1>4, <1>7, <2>3 DEF LevelIs
<1> HIDE DEF new
<1>11. \A l \in 1 .. q + 1 : LevelIs(new.levels[l], aLine, l, new.levelCount)
  <2>1. \A l \in 1 .. q : LevelIs(h.levels[l], aLine, l, h.levelCount)
    BY <1>2 DEF ReadSoFar
  <2>2. \A l \in 1 .. q + 1 : l \in 1 .. q \/ l = q + 1
    BY <1>1
  <2> QED  BY <1>8, <1>9, <1>10, <2>1, <2>2
<1>12. ReadSoFar(new, aLine, w + 1, values, g)
  <2> DEFINE u == w + 1
  <2>1. u >= 2 /\ u >= 1 /\ ~(u < 2) /\ (u - 2) % 4 = 0 /\ (u - 2) \div 4 = q + 1
    BY <1>1
  <2>2. Reads(new.sysId, aLine[1]) /\ Reads(new.levelCount, aLine[2])
    BY <1>8 DEF ReadSoFar
  <2> HIDE DEF u
  <2>3. \A p \in 1 .. 3 : ~(p <= (u - 2) % 4)
    BY <2>1
  <2>4. ReadSoFar(new, aLine, u, values, g)
    BY <1>4, <1>9, <1>11, <2>1, <2>2, <2>3 DEF ReadSoFar
  <2> QED  BY <2>4 DEF u
<1> QED  BY <1>5, <1>8, <1>12 DEF new

-----------------------------------------------------------------------------
(* Lines that make sense: nothing that is read of them is a reason to stop. *)

LEMMA Kinds ==
    ASSUME NEW aLine \in Seq(Token), InPlace(aLine), NEW w \in Nat, w < Len(aLine),
           \A k \in 1 .. w : aLine[k].kind # "comment", aLine[w + 1].kind # "comment"
    PROVE  /\ w + 1 \in Uncommented(aLine)
           /\ w < 2 \/ (w - 2) % 4 # 3 => aLine[w + 1] \in NumberToken
           /\ w >= 2 /\ (w - 2) % 4 = 3 => aLine[w + 1] \in PolicyToken
<1>1. w + 1 \in Uncommented(aLine)
  <2>1. w + 1 \in 0 .. Len(aLine) /\ \A k \in 1 .. w + 1 : k \in 1 .. w \/ k = w + 1
    OBVIOUS
  <2> QED  BY <2>1 DEF Uncommented
<1>2. aLine[w + 1].kind = IF w + 1 > 2 /\ (w + 1 - 3) % 4 = 3 THEN "policy" ELSE "number"
  BY <1>1 DEF InPlace
<1>3. w + 1 - 3 = w - 2 /\ (w + 1 > 2 <=> w >= 2)
  OBVIOUS
<1>4. aLine[w + 1] \in Token
  OBVIOUS
<1> DEFINE token == aLine[w + 1]
<1> HIDE DEF token
<1>5. /\ token.kind = "number" => token \in NumberToken
      /\ token.kind = "policy" => token \in PolicyToken
  BY <1>4 DEF Token, NumberToken, PolicyToken, token
<1> QED  BY <1>1, <1>2, <1>3, <1>5 DEF token

LEMMA PlainNumber ==
    ASSUME KILO \in Nat, NEW token \in NumberToken, Readable(token)
    PROVE  Plain(token) \in Nat /\ (Plain(token) > 0 => token.n > 0)
<1> DEFINE mult == IF token.unit = "" THEN 1 ELSE Units[token.unit]
<1>1. KILO * KILO \in Nat
  OBVIOUS
<1>2. KILO * KILO * KILO \in Nat
  BY <1>1
<1>3. DOMAIN Units = {"k", "m", "g"} /\ \A u \in DOMAIN Units : Units[u] \in Nat
  BY <1>1, <1>2 DEF Units
<1>4. mult \in Nat /\ token.n \in Nat /\ Plain(token) = token.n * mult
  BY <1>3 DEF Readable, Plain, NumberToken
<1> HIDE DEF mult
<1>5. token.n = 0 => token.n * mult = 0
  BY <1>4
<1> QED  BY <1>4, <1>5

LEMMA PlaceInLine ==
    ASSUME NEW aLine, NEW l, NEW i, NEW k, k = 2 + 4 * (l - 1) + i
    PROVE  At(aLine, l, i) = aLine[k]
  BY DEF At

LEMMA NextPlace ==
    ASSUME NEW aLine, NEW q \in Int, NEW p
    PROVE  At(aLine, q + 1, p) = aLine[2 + 4 * q + p]
<1>1. q + 1 - 1 = q
  OBVIOUS
<1> QED  BY <1>1 DEF At

LEMMA NothingWrong ==
    ASSUME DescriptionAssumption,
           NEW aLine \in Seq(Token), InPlace(aLine), NEW w \in Nat, w < Len(aLine),
           \A k \in 1 .. w : aLine[k].kind # "comment", aLine[w + 1].kind # "comment", WellFormed(aLine)
    PROVE  /\ w = 0 => Readable(aLine[1])
           /\ w = 1 => Readable(aLine[2]) /\ aLine[2].n >= 1
           /\ w >= 2 /\ (w - 2) % 4 # 3 => Readable(aLine[w + 1]) /\ aLine[w + 1].n >= 1
           /\ w >= 2 /\ (w - 2) % 4 = 3 =>
                  /\ aLine[w + 1].name \in DOMAIN Policies
                  /\ Plain(At(aLine, ((w - 2) \div 4) + 1, 1)) \in Plain(At(aLine, ((w - 2) \div 4) + 1, 3)) .. Word - 1
                  /\ Plain(At(aLine, ((w - 2) \div 4) + 1, 3)) \in Nat
<1> DEFINE n == Cardinality(Uncommented(aLine))
           P == Plain(aLine[2])
           q == (w - 2) \div 4
<1>1. w + 1 <= n /\ n \in Nat
  <2>1. w + 1 \in 0 .. Len(aLine) /\ \A k \in 1 .. w + 1 : k \in 1 .. w \/ k = w + 1
    OBVIOUS
  <2> QED  BY <2>1, Counted
<1>2. /\ Readable(aLine[1]) /\ Readable(aLine[2]) /\ P \in 1 .. 3 /\ n = 2 + 4 * P
      /\ \A l \in 1 .. P :
             /\ \A i \in 1 .. 3 : Readable(At(aLine, l, i)) /\ At(aLine, l, i).n > 0
             /\ At(aLine, l, 4).name \in DOMAIN Policies
             /\ Plain(At(aLine, l, 1)) \in Plain(At(aLine, l, 3)) .. Word - 1
  BY DEF WellFormed
<1> HIDE DEF n, P
<1>3. w = 1 => aLine[2].n >= 1
  <2> SUFFICES ASSUME w = 1 PROVE aLine[2].n >= 1
    OBVIOUS
  <2>1. aLine[2] \in NumberToken /\ KILO \in Nat /\ Plain(aLine[2]) > 0
    BY <1>2, Kinds DEF DescriptionAssumption, P
  <2> QED  BY <1>2, <2>1, PlainNumber DEF NumberToken
<1>4. w >= 2 => q + 1 \in 1 .. P /\ q + 1 - 1 = q /\ w = 2 + 4 * q + ((w - 2) % 4) /\ (w - 2) % 4 \in 0 .. 3 /\ q \in Nat
  <2> SUFFICES ASSUME w >= 2
               PROVE  q + 1 \in 1 .. P /\ q + 1 - 1 = q /\ w = 2 + 4 * q + ((w - 2) % 4) /\ (w - 2) % 4 \in 0 .. 3 /\ q \in Nat
    OBVIOUS
  <2>1. w - 2 \in Nat /\ q \in Nat /\ (w - 2) % 4 \in 0 .. 3 /\ w - 2 = 4 * q + ((w - 2) % 4)
    OBVIOUS
  <2>2. P \in Int /\ w + 1 <= 2 + 4 * P
    BY <1>1, <1>2
  <2> HIDE DEF q
  <2> QED  BY <2>1, <2>2
<1>5. w >= 2 /\ (w - 2) % 4 # 3 => Readable(aLine[w + 1]) /\ aLine[w + 1].n >= 1
  <2> SUFFICES ASSUME w >= 2, (w - 2) % 4 # 3 PROVE Readable(aLine[w + 1]) /\ aLine[w + 1].n >= 1
    OBVIOUS
  <2> DEFINE i == ((w - 2) % 4) + 1
  <2>1. i \in 1 .. 3 /\ w + 1 = 2 + 4 * (q + 1 - 1) + i
    BY <1>4
  <2>2. At(aLine, q + 1, i) = aLine[w + 1]
    BY <2>1 DEF At
  <2>3. aLine[w + 1] \in NumberToken
    BY Kinds
  <2> HIDE DEF i, q
  <2>4. Readable(aLine[w + 1]) /\ aLine[w + 1].n > 0
    BY <1>2, <1>4, <2>1, <2>2
  <2> QED  BY <2>3, <2>4 DEF NumberToken
<1>6. ASSUME w >= 2, (w - 2) % 4 = 3
      PROVE  /\ aLine[w + 1].name \in DOMAIN Policies
             /\ Plain(At(aLine, q + 1, 1)) \in Plain(At(aLine, q + 1, 3)) .. Word - 1
             /\ Plain(At(aLine, q + 1, 3)) \in Nat
  <2>1. w + 1 = 2 + 4 * (q + 1 - 1) + 4 /\ w = 2 + 4 * (q + 1 - 1) + 3
    BY <1>4, <1>6
  <2>2. At(aLine, q + 1, 4) = aLine[w + 1] /\ At(aLine, q + 1, 3) = aLine[w]
    BY <2>1, PlaceInLine
  <2>3. aLine[w] \in NumberToken
    <3> DEFINE u == w - 1
    <3>1. u \in Nat /\ u < Len(aLine) /\ u + 1 = w /\ (u - 2) % 4 # 3 /\ w \in 1 .. w /\ 1 .. u \subseteq 1 .. w
      BY <1>6
    <3>2. \A k \in 1 .. u : aLine[k].kind # "comment"
      BY <3>1
    <3>3. aLine[u + 1].kind # "comment"
      BY <3>1
    <3> HIDE DEF u
    <3>4. aLine[u + 1] \in NumberToken
      BY <3>1, <3>2, <3>3, Kinds
    <3> QED  BY <3>1, <3>4
  <2> HIDE DEF q
  <2>4. KILO \in Nat /\ Readable(At(aLine, q + 1, 3)) /\ At(aLine, q + 1, 3) \in NumberToken
    BY <1>2, <1>4, <1>6, <2>2, <2>3 DEF DescriptionAssumption
  <2>5. Plain(At(aLine, q + 1, 3)) \in Nat
    BY <2>4, PlainNumber
  <2> QED  BY <1>2, <1>4, <1>6, <2>2, <2>5
<1> QED  BY <1>2, <1>3, <1>5, <1>6

(* The whole of a line that makes sense passes the check of its end.        *)
LEMMA NothingMissing ==
    ASSUME DescriptionAssumption, NEW aLine, NEW w \in Nat, NEW h \in Structure, NEW values, NEW first,
           w = Cardinality(Uncommented(aLine)), ReadSoFar(h, aLine, w, values, first), WellFormed(aLine)
    PROVE  w = 4 * h.levelCount + 2 /\ Verify(h)
<1> DEFINE P == Plain(aLine[2])
<1>1. w > 2 /\ P \in 1 .. 3 /\ w = 2 + 4 * P
  BY DEF WellFormed
<1>2. h.levelCount = P
  BY <1>1 DEF ReadSoFar, Reads, DescriptionAssumption
<1>3. Len(h.levels) = P
  <2>1. Len(h.levels) = (w - 2) \div 4
    BY <1>1 DEF ReadSoFar
  <2> HIDE DEF P
  <2> QED  BY <1>1, <2>1
<1>4. \A l \in 1 .. P : LevelIs(h.levels[l], aLine, l, P)
  BY <1>2, <1>3 DEF ReadSoFar
<1> HIDE DEF P
<1>5. ASSUME NEW i \in 1 .. P, IsExclusive(h.levels[i]), NEW j \in i .. h.levels[i].last + 1
      PROVE  IsExclusive(h.levels[j])
  <2>1. h.levels[i].last = P - 1
    BY <1>4, <1>5 DEF LevelIs, LevelAsDescribed
  <2>2. j \in 1 .. P /\ i <= j
    BY <1>1, <1>5, <2>1
  <2> DEFINE f == h.levels[i].first
             g == h.levels[j].first
  <2>3. FirstIs(aLine, i, f) /\ FirstIs(aLine, j, g) /\ f # NoLevel
    BY <1>4, <1>5, <2>2 DEF LevelIs, IsExclusive
  <2> HIDE DEF f, g
  <2>4. f \in 0 .. i - 1 /\ At(aLine, f + 1, 4).vc
    BY <2>3 DEF FirstIs
  <2>5. f + 1 \in 1 .. j
    BY <2>2, <2>4
  <2>6. g # NoLevel
    BY <2>2, <2>3, <2>4, <2>5 DEF FirstIs, NoLevel
  <2> QED  BY <2>6 DEF g, IsExclusive
<1> QED  BY <1>1, <1>2, <1>5 DEF Verify

(* A line that passes it is as it reads.                                    *)
LEMMA ReadToTheEnd ==
    ASSUME NEW aLine, NEW w \in Nat, NEW h \in Structure, NEW values, NEW first,
           w = Cardinality(Uncommented(aLine)), ReadSoFar(h, aLine, w, values, first),
           w = 4 * h.levelCount + 2, Verify(h)
    PROVE  AsDescribed(h, aLine) /\ Len(h.levels) = h.levelCount
<1>1. h.levelCount \in 1 .. 3 /\ w >= 2 /\ w >= 1 /\ (w - 2) \div 4 = h.levelCount
  <2>1. h.levelCount \in 1 .. 3
    BY DEF Verify
  <2> QED  BY <2>1
<1>2. Len(h.levels) = h.levelCount /\ h.levels \in Seq(LevelsMade)
  BY <1>1 DEF ReadSoFar, Structure
<1>3. \A l \in DOMAIN h.levels : LevelAsDescribed(h.levels[l], aLine, l, h.levelCount)
  <2>1. DOMAIN h.levels = 1 .. Len(h.levels)
    BY <1>2
  <2> QED  BY <1>2, <2>1 DEF ReadSoFar, LevelIs
<1>4. Cardinality(Uncommented(aLine)) = 2 + 4 * h.levelCount
  BY <1>1
<1> QED  BY <1>1, <1>2, <1>3, <1>4 DEF AsDescribed, ReadSoFar

-----------------------------------------------------------------------------
(* Lines of a file, by their numbers. *)

LEMMA Finite ==
    ASSUME NEW m, given \in Seq(Seq(Token))
    PROVE  /\ IsFiniteSet(UpTo(m)) /\ Cardinality(UpTo(m)) \in Nat
           /\ IsFiniteSet(DescribedLines)
<1>1. UpTo(m) \subseteq 1 .. Len(given) /\ DescribedLines \subseteq 1 .. Len(given)
  BY DEF UpTo, DescribedLines
<1>2. IsFiniteSet(1 .. Len(given))
  BY FS_Interval
<1> QED  BY <1>1, <1>2, FS_Subset, FS_CardinalityType

LEMMA NextLine ==
    ASSUME NEW m \in Int, given \in Seq(Seq(Token))
    PROVE  Cardinality(UpTo(m + 1)) = IF m + 1 \in DescribedLines THEN Cardinality(UpTo(m)) + 1 ELSE Cardinality(UpTo(m))
<1>1. \A j \in DescribedLines : j \in Int
  BY DEF DescribedLines
<1>2. CASE m + 1 \in DescribedLines
  <2>1. UpTo(m + 1) = UpTo(m) \cup {m + 1} /\ m + 1 \notin UpTo(m)
    BY <1>1, <1>2 DEF UpTo
  <2> QED  BY <1>2, <2>1, Finite, FS_AddElement
<1>3. CASE m + 1 \notin DescribedLines
  <2>1. UpTo(m + 1) = UpTo(m)
    BY <1>1, <1>3 DEF UpTo
  <2> QED  BY <1>3, <2>1
<1> QED  BY <1>2, <1>3

LEMMA Numbers ==
    ASSUME NEW m \in Int, NEW i \in DescribedLines, given \in Seq(Seq(Token))
    PROVE  /\ Nth(i) \in Nat /\ Nth(i) >= 1
           /\ i <= m => Nth(i) <= Cardinality(UpTo(m))
           /\ i > m => Nth(i) > Cardinality(UpTo(m))
<1>1. (\A j \in DescribedLines : j \in Int) /\ Nth(i) = Cardinality(UpTo(i))
  BY DEF DescribedLines, Nth, UpTo
<1>2. Nth(i) \in Nat /\ IsFiniteSet(UpTo(i)) /\ IsFiniteSet(UpTo(m))
  BY <1>1, Finite
<1>3. Nth(i) >= 1
  <2>1. {i} \subseteq UpTo(i)
    BY <1>1 DEF UpTo
  <2>2. IsFiniteSet({i}) /\ Cardinality({i}) = 1
    BY FS_Singleton
  <2> QED  BY <1>1, <1>2, <2>1, <2>2, FS_Subset
<1>4. i <= m => Nth(i) <= Cardinality(UpTo(m))
  <2> SUFFICES ASSUME i <= m PROVE Nth(i) <= Cardinality(UpTo(m))
    OBVIOUS
  <2>1. UpTo(i) \subseteq UpTo(m)
    BY <1>1 DEF UpTo
  <2> QED  BY <1>1, <1>2, <2>1, FS_Subset
<1>5. i > m => Nth(i) > Cardinality(UpTo(m))
  <2> SUFFICES ASSUME i > m PROVE Nth(i) > Cardinality(UpTo(m))
    OBVIOUS
  <2>1. UpTo(m) \subseteq UpTo(i) /\ i \in UpTo(i) /\ i \notin UpTo(m)
    BY <1>1 DEF UpTo
  <2>2. UpTo(m) \cup {i} \subseteq UpTo(i) /\ Cardinality(UpTo(m) \cup {i}) = Cardinality(UpTo(m)) + 1
    BY <1>2, <2>1, FS_AddElement
  <2>3. Cardinality(UpTo(m) \cup {i}) <= Cardinality(UpTo(i)) /\ Cardinality(UpTo(m)) \in Nat
    BY <1>2, <2>2, FS_Subset, FS_CardinalityType
  <2> QED  BY <1>1, <1>2, <2>2, <2>3
<1> QED  BY <1>2, <1>3, <1>4, <1>5

-----------------------------------------------------------------------------
(* The actions keep the invariant. *)

LEMMA GivenLines ==
    ASSUME DescriptionAssumption, FileInv
    PROVE  /\ given \in Seq(Seq(Token)) /\ pos \in Nat /\ pos \in 0 .. Len(given)
           /\ \A i \in DescribedLines : i \in 1 .. Len(given) /\ given[i] \in Seq(Token) /\ InPlace(given[i])
<1>1. given \in Seq(Seq(Token)) /\ \A i \in DOMAIN given : InPlace(given[i])
  BY DEF DescriptionAssumption, FileInv
<1>2. cacheFile \in Seq(Seq(Token)) /\ Len(cacheFile) <= Len(given)
  BY DEF FileInv
<1>3. DOMAIN given = 1 .. Len(given) /\ \A i \in 1 .. Len(given) : given[i] \in Seq(Token)
  BY <1>1
<1>4. Len(given) \in Nat /\ Len(cacheFile) \in Nat
  BY <1>1, <1>2
<1>5. pos \in Nat /\ pos \in 0 .. Len(given)
  BY <1>2, <1>4 DEF pos
<1> QED  BY <1>1, <1>3, <1>5 DEF DescribedLines

\* What the token that is read leaves.
Going(aLine, w) ==
    /\ current' \in Structure /\ cacheValues' \in [1 .. 3 -> Nat] /\ firstExcl' \in Int
    /\ stage' \in {"tokens", "stopped"}
    /\ stage' = "stopped" => ~WellFormed(aLine)
    /\ stage' = "tokens" => ReadSoFar(current', aLine, w + 1, cacheValues', firstExcl')

(* Where a token stands in its line.                                        *)
LEMMA NextToken ==
    ASSUME DescriptionAssumption, FileInv, LineInv, stage = "tokens", tokens # << >>
    PROVE  /\ line \in Seq(Token) /\ InPlace(line) /\ whichTok \in Nat /\ whichTok < Len(line)
           /\ Head(tokens) = line[whichTok + 1] /\ Tail(tokens) \in Seq(Token)
           /\ Len(Tail(tokens)) = Len(tokens) - 1
           /\ \A k \in 1 .. Len(Tail(tokens)) : Tail(tokens)[k] = line[whichTok + 1 + k]
<1>1. /\ pos \in DescribedLines
      /\ whichTok \in Nat /\ tokens \in Seq(Token) /\ whichTok + Len(tokens) = Len(line)
      /\ \A k \in 1 .. Len(tokens) : tokens[k] = line[whichTok + k]
  BY DEF LineInv
<1>2. line \in Seq(Token) /\ InPlace(line)
  BY <1>1, GivenLines DEF line
<1>3. /\ Len(tokens) \in Nat /\ Len(tokens) >= 1 /\ Head(tokens) = tokens[1] /\ Tail(tokens) \in Seq(Token)
      /\ Len(Tail(tokens)) = Len(tokens) - 1
      /\ \A k \in 1 .. Len(Tail(tokens)) : Tail(tokens)[k] = tokens[k + 1] /\ k + 1 \in 1 .. Len(tokens)
  BY <1>1
<1>4. \A k \in 1 .. Len(Tail(tokens)) : whichTok + (k + 1) = whichTok + 1 + k
  BY <1>1, <1>3
<1> QED  BY <1>1, <1>2, <1>3, <1>4

LEMMA NumberStep ==
    ASSUME DescriptionAssumption, FileInv, LineInv, stage = "tokens", tokens # << >>, Head(tokens).kind # "comment",
           ~(whichTok >= 2 /\ (whichTok - 2) % 4 = 3), Number(Head(tokens))
    PROVE  Going(line, whichTok)
<1> DEFINE w == whichTok
           token == Head(tokens)
           place == ((w - 2) % 4) + 1
           parsed == IF w = 0 THEN ParseInt32(token, 0) ELSE ParsePositiveInt32(token)
           aLine == line
<1>1. /\ aLine \in Seq(Token) /\ InPlace(aLine) /\ w \in Nat /\ w < Len(aLine) /\ token = aLine[w + 1]
      /\ \A k \in 1 .. w : aLine[k].kind # "comment"
      /\ ReadSoFar(current, aLine, w, cacheValues, firstExcl)
  BY NextToken DEF LineInv
<1>2. current \in Structure /\ cacheValues \in [1 .. 3 -> Nat] /\ firstExcl \in Int
  BY DEF FileInv
<1>3. token.kind # "comment" /\ (w < 2 \/ (w >= 2 /\ (w - 2) % 4 # 3))
  BY <1>1
<1>4. IF ~parsed.ok THEN Rejected
      ELSE /\ current' = CASE w = 0 -> [current EXCEPT !.sysId = parsed.value]
                           [] w = 1 -> [current EXCEPT !.levelCount = parsed.value]
                           [] OTHER -> current
           /\ cacheValues' = IF w < 2 THEN cacheValues ELSE [cacheValues EXCEPT ![place] = parsed.value]
           /\ UNCHANGED <<stage, firstExcl>>
  BY DEF Number
<1> HIDE DEF w, token, aLine, parsed, place
<1>5. token \in NumberToken
  BY <1>1, <1>3, Kinds
<1>6. /\ parsed.value \in Nat /\ (parsed.ok => Reads(parsed.value, token))
      /\ w = 0 => (parsed.ok <=> Readable(token) /\ token.n >= 0)
      /\ w # 0 => (parsed.ok <=> Readable(token) /\ token.n >= 1)
  BY <1>5, Parsed DEF parsed, ParsePositiveInt32
<1>7. CASE ~parsed.ok
  <2>1. stage' = "stopped" /\ UNCHANGED <<cacheValues, firstExcl, current>>
    BY <1>4, <1>7 DEF Rejected
  <2>2. token.n >= 0
    BY <1>5 DEF NumberToken
  <2>3. ~WellFormed(aLine)
    BY <1>1, <1>3, <1>6, <1>7, <2>2, NothingWrong
  <2> QED  BY <1>2, <2>1, <2>3 DEF Going, w, aLine
<1>8. CASE parsed.ok
  <2> DEFINE v == parsed.value
  <2>1. /\ current' = CASE w = 0 -> [current EXCEPT !.sysId = v]
                        [] w = 1 -> [current EXCEPT !.levelCount = v]
                        [] OTHER -> current
        /\ cacheValues' = IF w < 2 THEN cacheValues ELSE [cacheValues EXCEPT ![place] = v]
        /\ stage' = "tokens" /\ firstExcl' = firstExcl
    BY <1>4, <1>8
  <2>2. v \in Nat /\ Reads(v, aLine[w + 1])
    BY <1>1, <1>6, <1>8
  <2> HIDE DEF v
  <2>3. CASE w = 0
    <3>1. current' = [current EXCEPT !.sysId = v] /\ cacheValues' = cacheValues
      BY <2>1, <2>3
    <3>2. /\ [current EXCEPT !.sysId = v] \in Structure
          /\ ReadSoFar([current EXCEPT !.sysId = v], aLine, 1, cacheValues, firstExcl)
      BY <1>1, <1>2, <2>2, <2>3, IdentifierRead
    <3> QED  BY <1>2, <2>1, <2>3, <3>1, <3>2 DEF Going, w, aLine
  <2>4. CASE w = 1
    <3>1. current' = [current EXCEPT !.levelCount = v] /\ cacheValues' = cacheValues
      BY <2>1, <2>4
    <3>2. /\ [current EXCEPT !.levelCount = v] \in Structure
          /\ ReadSoFar([current EXCEPT !.levelCount = v], aLine, 2, cacheValues, firstExcl)
      BY <1>1, <1>2, <2>2, <2>4, CountRead
    <3> QED  BY <1>2, <2>1, <2>4, <3>1, <3>2 DEF Going, w, aLine
  <2>5. CASE w >= 2
    <3>1. current' = current /\ cacheValues' = [cacheValues EXCEPT ![place] = v]
      BY <1>1, <2>1, <2>5
    <3>2. (w - 2) % 4 # 3 /\ place = ((w - 2) % 4) + 1
      BY <1>1, <1>3, <2>5 DEF place
    <3>3. /\ [cacheValues EXCEPT ![place] = v] \in [1 .. 3 -> Nat]
          /\ ReadSoFar(current, aLine, w + 1, [cacheValues EXCEPT ![place] = v], firstExcl)
      BY <1>1, <1>2, <2>2, <2>5, <3>2, LevelNumberRead
    <3> QED  BY <1>2, <2>1, <3>1, <3>3 DEF Going, w, aLine
  <2> QED  BY <1>1, <2>3, <2>4, <2>5
<1> QED  BY <1>7, <1>8

LEMMA PolicyStep ==
    ASSUME DescriptionAssumption, FileInv, LineInv, stage = "tokens", tokens # << >>, Head(tokens).kind # "comment",
           whichTok >= 2, (whichTok - 2) % 4 = 3, Policy(Head(tokens))
    PROVE  Going(line, whichTok)
<1> DEFINE w == whichTok
           token == Head(tokens)
           q == (w - 2) \div 4
           aLine == line
           g == FirstExclusive(token, q)
           lev == NewLevel(q, cacheValues, Policies[token.name], g, current.levelCount - 1)
<1>1. /\ aLine \in Seq(Token) /\ InPlace(aLine) /\ w \in Nat /\ w < Len(aLine) /\ token = aLine[w + 1]
      /\ \A k \in 1 .. w : aLine[k].kind # "comment"
      /\ ReadSoFar(current, aLine, w, cacheValues, firstExcl)
  BY NextToken DEF LineInv
<1>2. current \in Structure /\ cacheValues \in [1 .. 3 -> Nat] /\ firstExcl \in Int
  BY DEF FileInv
<1>3. token.kind # "comment" /\ w >= 2 /\ (w - 2) % 4 = 3 /\ q = (w - 2) \div 4
  OBVIOUS
<1>4. IF token.name \notin DOMAIN Policies THEN Rejected
      ELSE /\ firstExcl' = g
           /\ IF cacheValues[1] < cacheValues[3] THEN stage' = "stopped" /\ UNCHANGED current
              ELSE current' = [current EXCEPT !.levels = Append(@, lev)] /\ UNCHANGED stage
           /\ UNCHANGED cacheValues
  BY DEF Policy
<1> HIDE DEF w, token, aLine, q
<1>5. token \in PolicyToken
  BY <1>1, <1>3, Kinds
<1>6. ASSUME WellFormed(aLine) PROVE token.name \in DOMAIN Policies /\ ~(cacheValues[1] < cacheValues[3])
  <2>1. /\ token.name \in DOMAIN Policies
        /\ Plain(At(aLine, q + 1, 1)) \in Plain(At(aLine, q + 1, 3)) .. Word - 1
        /\ Plain(At(aLine, q + 1, 3)) \in Nat
    BY <1>1, <1>3, <1>6, NothingWrong
  <2>2. \A p \in {1, 3} : Reads(cacheValues[p], At(aLine, q + 1, p))
    <3>1. Len(current.levels) = q
      BY <1>1, <1>3 DEF ReadSoFar
    <3>2. \A p \in 1 .. 3 : Reads(cacheValues[p], aLine[2 + 4 * q + p])
      <4>1. \A p \in 1 .. 3 : p <= (w - 2) % 4
        BY <1>3
      <4> QED  BY <1>1, <1>3, <3>1, <4>1 DEF ReadSoFar
    <3>3. \A p \in 1 .. 3 : At(aLine, q + 1, p) = aLine[2 + 4 * q + p]
      <4>1. q \in Int
        BY <1>1, <1>3
      <4> QED  BY <4>1, NextPlace
    <3>4. \A p \in {1, 3} : p \in 1 .. 3
      OBVIOUS
    <3> QED  BY <3>2, <3>3, <3>4
  <2>3. Word \in Nat
    BY DEF DescriptionAssumption
  <2> QED  BY <2>1, <2>2, <2>3 DEF Reads
<1>7. CASE token.name \notin DOMAIN Policies
  BY <1>2, <1>4, <1>6, <1>7 DEF Rejected, Going, w, aLine
<1>8. CASE token.name \in DOMAIN Policies
  <2>1. firstExcl' = g /\ cacheValues' = cacheValues
    BY <1>4, <1>8
  <2>2. /\ [current EXCEPT !.levels = Append(@, lev)] \in Structure
        /\ g \in Int
        /\ ReadSoFar([current EXCEPT !.levels = Append(@, lev)], aLine, w + 1, cacheValues, g)
    BY <1>1, <1>2, <1>3, <1>5, <1>8, PolicyRead
  <2> HIDE DEF g, lev
  <2>3. CASE cacheValues[1] < cacheValues[3]
    <3>1. stage' = "stopped" /\ current' = current /\ ~WellFormed(aLine)
      BY <1>4, <1>6, <1>8, <2>3
    <3> QED  BY <1>2, <2>1, <2>2, <3>1 DEF Going, w, aLine
  <2>4. CASE ~(cacheValues[1] < cacheValues[3])
    <3>1. stage' = "tokens" /\ current' = [current EXCEPT !.levels = Append(@, lev)]
      BY <1>4, <1>8, <2>4
    <3> QED  BY <1>2, <2>1, <2>2, <3>1 DEF Going, w, aLine
  <2> QED  BY <2>3, <2>4
<1> QED  BY <1>7, <1>8

(* The file itself never changes, and its lines keep their numbers.         *)
LEMMA SameNumbers ==
    ASSUME given' = given
    PROVE  DescribedLines' = DescribedLines /\ (\A m : UpTo(m)' = UpTo(m)) /\ (\A i : Nth(i)' = Nth(i))
<1>1. DescribedLines' = DescribedLines
  BY DEF DescribedLines
<1> QED  BY <1>1 DEF UpTo, Nth

LEMMA SameCaches ==
    ASSUME CachesInv, given' = given, caches' = caches, handled' = handled
    PROVE  CachesInv'
<1>1. UpTo(handled)' = UpTo(handled)
  BY SameNumbers DEF UpTo
<1> QED  BY <1>1, SameNumbers DEF CachesInv

LEMMA SameHandlers ==
    ASSUME HandlersInv, caches' = caches, windows' = windows, Handlers' = Handlers, stage # "ready"
    PROVE  HandlersInv'
  BY DEF HandlersInv

LEMMA ReadTokenStep ==
    ASSUME DescriptionAssumption, IInv, ReadToken
    PROVE  IInv'
<1>1. /\ stage = "tokens" /\ tokens # << >> /\ Head(tokens).kind # "comment"
      /\ tokens' = Tail(tokens) /\ whichTok' = whichTok + 1
      /\ UNCHANGED <<cacheFile, caches, windows, indices, Handlers, given>>
  BY DEF ReadToken
<1>2. FileInv /\ LineInv /\ CachesInv /\ HandlersInv
  BY DEF IInv
<1>3. Going(line, whichTok)
  BY <1>1, <1>2, NumberStep, PolicyStep DEF ReadToken
<1>4. pos' = pos /\ line' = line
  BY <1>1 DEF pos, line
<1>5. FileInv'
  BY <1>1, <1>2, <1>3, <1>4 DEF FileInv, Going
<1>6. LineInv'
  <2> SUFFICES ASSUME stage' = "tokens"
               PROVE  /\ pos' \in DescribedLines'
                      /\ whichTok' \in Nat /\ tokens' \in Seq(Token) /\ whichTok' + Len(tokens') = Len(line')
                      /\ \A k \in 1 .. Len(tokens') : tokens'[k] = line'[whichTok' + k]
                      /\ \A k \in 1 .. whichTok' : line'[k].kind # "comment"
                      /\ ReadSoFar(current', line', whichTok', cacheValues', firstExcl')
    BY DEF LineInv
  <2>1. pos' \in DescribedLines'
    BY <1>1, <1>2, <1>4, SameNumbers DEF LineInv
  <2>2. /\ whichTok \in Nat /\ Head(tokens) = line[whichTok + 1] /\ Tail(tokens) \in Seq(Token)
        /\ Len(Tail(tokens)) = Len(tokens) - 1
        /\ \A k \in 1 .. Len(Tail(tokens)) : Tail(tokens)[k] = line[whichTok + 1 + k]
    BY <1>1, <1>2, NextToken
  <2>3. tokens \in Seq(Token) /\ whichTok + Len(tokens) = Len(line) /\ \A k \in 1 .. whichTok : line[k].kind # "comment"
    BY <1>1, <1>2 DEF LineInv
  <2>4. whichTok + 1 + (Len(tokens) - 1) = Len(line)
    BY <2>2, <2>3
  <2>5. \A k \in 1 .. whichTok + 1 : line[k].kind # "comment"
    <3>1. \A k \in 1 .. whichTok + 1 : k \in 1 .. whichTok \/ k = whichTok + 1
      BY <2>2
    <3> QED  BY <1>1, <2>2, <2>3, <3>1
  <2>6. ReadSoFar(current', line, whichTok + 1, cacheValues', firstExcl')
    BY <1>3 DEF Going
  <2> QED  BY <1>1, <1>4, <2>1, <2>2, <2>4, <2>5, <2>6
<1>7. CachesInv'
  <2>1. handled' = handled
    BY <1>1, <1>3, <1>4 DEF handled, Going
  <2> QED  BY <1>1, <1>2, <2>1, SameCaches
<1>8. StopInv'
  <2> SUFFICES ASSUME stage' = "stopped" PROVE \E i \in DescribedLines' : ~WellFormed(given'[i])
    BY DEF StopInv
  <2>1. pos \in DescribedLines /\ ~WellFormed(line)
    BY <1>1, <1>2, <1>3 DEF LineInv, Going
  <2> QED  BY <1>1, <2>1, SameNumbers DEF line
<1>9. ReadyInv'
  BY <1>3 DEF ReadyInv, Going
<1>10. HandlersInv'
  BY <1>1, <1>2, SameHandlers
<1> QED  BY <1>5, <1>6, <1>7, <1>8, <1>9, <1>10 DEF IInv

LEMMA EndOfLineStep ==
    ASSUME DescriptionAssumption, IInv, EndOfLine
    PROVE  IInv'
<1> DEFINE w == whichTok
           aLine == line
<1>1. /\ stage = "tokens" /\ (tokens # << >> => Head(tokens).kind = "comment")
      /\ UNCHANGED <<cacheFile, tokens, whichTok, cacheValues, firstExcl, current, windows, indices, Handlers, given>>
      /\ \/ w = 4 * current.levelCount + 2 /\ Verify(current) /\ stage' = "lines" /\ caches' = Append(caches, current)
         \/ ~(w = 4 * current.levelCount + 2 /\ Verify(current)) /\ stage' = "stopped" /\ caches' = caches
  BY DEF EndOfLine
<1>2. FileInv /\ LineInv /\ CachesInv /\ HandlersInv
  BY DEF IInv
<1>3. pos' = pos /\ line' = line
  BY <1>1 DEF pos, line
<1>4. current \in Structure /\ caches \in Seq(Structure)
  BY <1>2 DEF FileInv
<1>5. FileInv'
  <2>1. caches' \in Seq(Structure)
    BY <1>1, <1>4
  <2> QED  BY <1>1, <1>2, <1>3, <2>1 DEF FileInv
<1>6. /\ pos \in DescribedLines /\ w \in Nat /\ tokens \in Seq(Token) /\ w + Len(tokens) = Len(aLine)
      /\ \A k \in 1 .. Len(tokens) : tokens[k] = aLine[w + k]
      /\ \A k \in 1 .. w : aLine[k].kind # "comment"
      /\ ReadSoFar(current, aLine, w, cacheValues, firstExcl)
  BY <1>1, <1>2 DEF LineInv
<1>7. given \in Seq(Seq(Token)) /\ pos \in Nat /\ aLine \in Seq(Token)
  BY <1>2, <1>6, GivenLines DEF line
<1> HIDE DEF w, aLine
<1>8. w = Cardinality(Uncommented(aLine))
  <2>1. w \in 0 .. Len(aLine) /\ (w < Len(aLine) => tokens # << >> /\ 1 \in 1 .. Len(tokens) /\ Head(tokens) = tokens[1])
    BY <1>6, <1>7
  <2>2. w < Len(aLine) => aLine[w + 1].kind = "comment"
    BY <1>1, <1>6, <2>1
  <2> QED  BY <1>6, <1>7, <2>1, <2>2, Counted
<1>9. LineInv' /\ ReadyInv'
  BY <1>1 DEF LineInv, ReadyInv
<1>10. CASE ~(w = 4 * current.levelCount + 2 /\ Verify(current)) /\ stage' = "stopped" /\ caches' = caches
  <2>1. handled' = handled
    BY <1>1, <1>3, <1>10 DEF handled
  <2>2. CachesInv'
    BY <1>1, <1>2, <1>10, <2>1, SameCaches
  <2>3. ~WellFormed(aLine)
    BY <1>4, <1>6, <1>8, <1>10, NothingMissing
  <2>4. StopInv'
    BY <1>1, <1>6, <2>3, SameNumbers DEF StopInv, aLine, line
  <2>5. HandlersInv'
    BY <1>1, <1>2, <1>10, SameHandlers
  <2> QED  BY <1>5, <1>9, <2>2, <2>4, <2>5 DEF IInv
<1>11. CASE w = 4 * current.levelCount + 2 /\ Verify(current) /\ stage' = "lines" /\ caches' = Append(caches, current)
  <2>1. AsDescribed(current, aLine) /\ Len(current.levels) = current.levelCount
    BY <1>4, <1>6, <1>8, <1>11, ReadToTheEnd
  <2>2. /\ Len(caches') = Len(caches) + 1 /\ caches'[Len(caches) + 1] = current /\ Len(caches) \in Nat
        /\ \A n \in 1 .. Len(caches) : caches'[n] = caches[n]
    BY <1>4, <1>11
  <2>3. handled = pos - 1 /\ handled' = pos
    BY <1>1, <1>3, <1>11 DEF handled
  <2>4. Len(caches) = Cardinality(UpTo(pos - 1))
    BY <1>2, <2>3 DEF CachesInv
  <2>5. Cardinality(UpTo(pos)) = Cardinality(UpTo(pos - 1)) + 1
    <3>1. pos - 1 \in Int /\ pos - 1 + 1 = pos
      BY <1>7
    <3> QED  BY <1>6, <1>7, <3>1, NextLine
  <2>6. Nth(pos) = Len(caches) + 1
    <3>1. Nth(pos) = Cardinality(UpTo(pos))
      BY DEF Nth, UpTo
    <3> QED  BY <2>4, <2>5, <3>1
  <2>7. UpTo(handled)' = UpTo(pos)
    BY <1>1, <2>3, SameNumbers DEF UpTo
  <2>8. ASSUME NEW i \in DescribedLines, i <= pos PROVE AsDescribed(caches'[Nth(i)], given[i])
    <3>1. CASE i = pos
      BY <2>1, <2>2, <2>6, <3>1 DEF aLine, line
    <3>2. CASE i # pos
      <4>1. i \in Int /\ i <= pos - 1 /\ pos - 1 \in Int
        BY <1>2, <1>7, <2>8, <3>2, GivenLines
      <4>2. Nth(i) \in 1 .. Len(caches)
        BY <1>7, <2>2, <2>4, <4>1, Numbers
      <4>3. AsDescribed(caches[Nth(i)], given[i])
        BY <1>2, <2>3, <4>1 DEF CachesInv
      <4> QED  BY <2>2, <4>2, <4>3
    <3> QED  BY <3>1, <3>2
  <2>9. \A n \in 1 .. Len(caches') : Len(caches'[n].levels) = caches'[n].levelCount
    <3>1. \A n \in 1 .. Len(caches') : n \in 1 .. Len(caches) \/ n = Len(caches) + 1
      BY <2>2
    <3> QED  BY <1>2, <2>1, <2>2, <3>1 DEF CachesInv
  <2>10. CachesInv'
    BY <1>1, <2>2, <2>3, <2>4, <2>5, <2>7, <2>8, <2>9, SameNumbers DEF CachesInv
  <2>11. StopInv'
    BY <1>11 DEF StopInv
  <2>12. HandlersInv'
    BY <1>1, <1>2, <1>11 DEF HandlersInv
  <2> QED  BY <1>5, <1>9, <2>10, <2>11, <2>12 DEF IInv
<1> QED  BY <1>1, <1>10, <1>11

LEMMA ReadLineStep ==
    ASSUME DescriptionAssumption, IInv, ReadLine
    PROVE  IInv'
<1>1. /\ stage = "lines" /\ cacheFile # << >> /\ cacheFile' = Tail(cacheFile)
      /\ UNCHANGED <<cacheValues, caches, windows, indices, Handlers, given>>
      /\ \/ IsEmptyComment(Head(cacheFile)) /\ UNCHANGED <<stage, tokens, whichTok, firstExcl, current>>
         \/ /\ ~IsEmptyComment(Head(cacheFile))
            /\ stage' = "tokens" /\ tokens' = Head(cacheFile)
            /\ whichTok' = 0 /\ firstExcl' = NoLevel /\ current' = NoStructure
  BY DEF ReadLine
<1>2. FileInv /\ CachesInv /\ HandlersInv
  BY DEF IInv
<1>3. /\ given \in Seq(Seq(Token)) /\ cacheFile \in Seq(Seq(Token)) /\ Len(cacheFile) <= Len(given)
      /\ \A k \in 1 .. Len(cacheFile) : cacheFile[k] = given[pos + k]
      /\ pos \in Nat
  BY <1>2, GivenLines DEF FileInv
<1>4. /\ Len(cacheFile) \in Nat /\ Len(cacheFile) >= 1 /\ Head(cacheFile) = cacheFile[1]
      /\ cacheFile' \in Seq(Seq(Token)) /\ Len(cacheFile') = Len(cacheFile) - 1
      /\ \A k \in 1 .. Len(cacheFile') : cacheFile'[k] = cacheFile[k + 1] /\ k + 1 \in 1 .. Len(cacheFile)
  BY <1>1, <1>3
<1>5. pos' = pos + 1 /\ pos + 1 \in 1 .. Len(given) /\ Head(cacheFile) = given[pos + 1]
  <2>1. Len(given) \in Nat /\ pos = Len(given) - Len(cacheFile)
    BY <1>3 DEF pos
  <2>2. pos' = pos + 1
    BY <1>1, <1>4, <2>1 DEF pos
  <2> QED  BY <1>3, <1>4, <2>1, <2>2
<1>6. pos + 1 \in DescribedLines <=> ~IsEmptyComment(Head(cacheFile))
  BY <1>3, <1>5 DEF DescribedLines
<1>7. current' \in Structure /\ firstExcl' \in Int
  <2>1. << >> \in Seq(LevelsMade)
    OBVIOUS
  <2>2. NoStructure \in Structure /\ NoLevel \in Int
    BY <2>1 DEF NoStructure, Structure, NoLevel
  <2> QED  BY <1>1, <1>2, <2>2 DEF FileInv
<1>8. FileInv'
  <2>1. \A k \in 1 .. Len(cacheFile') : cacheFile'[k] = given[pos' + k]
    <3> SUFFICES ASSUME NEW k \in 1 .. Len(cacheFile') PROVE cacheFile'[k] = given[pos' + k]
      OBVIOUS
    <3>1. cacheFile'[k] = given[pos + (k + 1)]
      BY <1>3, <1>4
    <3>2. pos + (k + 1) = pos' + k
      BY <1>3, <1>4, <1>5
    <3> QED  BY <3>1, <3>2
  <2>2. Len(cacheFile') <= Len(given)
    BY <1>3, <1>4
  <2> QED  BY <1>1, <1>2, <1>4, <1>7, <2>1, <2>2 DEF FileInv
<1>9. ReadyInv' /\ StopInv' /\ HandlersInv'
  BY <1>1, <1>2, SameHandlers DEF ReadyInv, StopInv
<1>10. CASE IsEmptyComment(Head(cacheFile)) /\ UNCHANGED <<stage, tokens, whichTok, firstExcl, current>>
  <2>1. LineInv'
    BY <1>1, <1>10 DEF LineInv
  <2>2. handled = pos /\ handled' = pos + 1
    BY <1>1, <1>5, <1>10 DEF handled
  <2>3. Cardinality(UpTo(pos + 1)) = Cardinality(UpTo(pos))
    BY <1>3, <1>6, <1>10, NextLine
  <2>4. UpTo(handled)' = UpTo(pos + 1)
    BY <1>1, <2>2, SameNumbers DEF UpTo
  <2>5. \A i \in DescribedLines : i <= pos + 1 => i <= pos
    <3>1. \A i \in DescribedLines : i \in Int /\ i # pos + 1
      BY <1>2, <1>6, <1>10, GivenLines
    <3> QED  BY <1>3, <3>1
  <2>6. CachesInv'
    BY <1>1, <1>2, <2>2, <2>3, <2>4, <2>5, SameNumbers DEF CachesInv
  <2> QED  BY <1>8, <1>9, <2>1, <2>6 DEF IInv
<1>11. CASE /\ ~IsEmptyComment(Head(cacheFile))
            /\ stage' = "tokens" /\ tokens' = Head(cacheFile)
            /\ whichTok' = 0 /\ firstExcl' = NoLevel /\ current' = NoStructure
  <2>1. handled' = handled
    <3>1. handled = pos /\ handled' = pos' - 1
      BY <1>1, <1>11 DEF handled
    <3> QED  BY <1>3, <1>5, <3>1
  <2>2. CachesInv'
    BY <1>1, <1>2, <2>1, SameCaches
  <2>3. line' = tokens' /\ tokens' \in Seq(Token) /\ pos' \in DescribedLines'
    BY <1>1, <1>3, <1>5, <1>6, <1>11, SameNumbers DEF line
  <2>4. ReadSoFar(current', line', 0, cacheValues', firstExcl')
    <3>1. current'.levels = << >> /\ Len(<< >>) = 0 /\ firstExcl' = NoLevel
      BY <1>11 DEF NoStructure
    <3>2. FirstIs(line', 0, NoLevel)
      BY DEF FirstIs
    <3> QED  BY <3>1, <3>2 DEF ReadSoFar
  <2>5. LineInv'
    <3>1. /\ 0 \in Nat /\ 0 + Len(tokens') = Len(line')
          /\ \A k \in 1 .. Len(tokens') : tokens'[k] = line'[0 + k]
          /\ \A k \in 1 .. 0 : line'[k].kind # "comment"
      BY <2>3
    <3> QED  BY <1>11, <2>3, <2>4, <3>1 DEF LineInv
  <2> QED  BY <1>8, <1>9, <2>2, <2>5 DEF IInv
<1> QED  BY <1>1, <1>10, <1>11

LEMMA ReadSettingsStep ==
    ASSUME DescriptionAssumption, IInv, ReadSettings
    PROVE  IInv'
<1>1. /\ stage = "lines" /\ cacheFile = << >>
      /\ stage' = IF caches = << >> THEN "stopped" ELSE "ready"
      /\ indices' = Places(Len(caches), windows)
      /\ UNCHANGED <<cacheFile, tokens, whichTok, cacheValues, firstExcl, current, caches, windows, Handlers, given>>
  BY DEF ReadSettings, Places
<1>2. FileInv /\ CachesInv /\ HandlersInv
  BY DEF IInv
<1>3. given \in Seq(Seq(Token)) /\ pos = Len(given) /\ Len(given) \in Nat /\ pos' = pos
  <2>1. given \in Seq(Seq(Token)) /\ Len(cacheFile) = 0
    BY <1>1, <1>2, GivenLines
  <2> QED  BY <1>1, <2>1 DEF pos
<1>4. FileInv'
  BY <1>1, <1>2, <1>3 DEF FileInv
<1>5. LineInv' /\ ReadyInv'
  BY <1>1 DEF LineInv, ReadyInv
<1>6. handled = pos /\ UpTo(pos) = DescribedLines /\ Len(caches) = Cardinality(DescribedLines)
  <2>1. \A i \in DescribedLines : i <= pos
    BY <1>2, <1>3, GivenLines
  <2>2. UpTo(pos) = DescribedLines
    BY <2>1 DEF UpTo
  <2> QED  BY <1>1, <1>2, <2>2 DEF handled, CachesInv
<1>7. HandlersInv'
  <2>1. DOMAIN Handlers = {}
    BY <1>1, <1>2 DEF HandlersInv
  <2> QED  BY <1>1, <2>1 DEF HandlersInv
<1>8. CASE caches = << >>
  <2>1. Cardinality(DescribedLines) = 0 /\ IsFiniteSet(DescribedLines)
    BY <1>3, <1>6, <1>8, Finite
  <2>2. DescribedLines = {}
    BY <2>1, FS_EmptySet
  <2>3. StopInv'
    BY <1>1, <2>2, SameNumbers DEF StopInv
  <2>4. UpTo(handled)' = {} /\ Cardinality({}) = 0
    BY <1>1, <2>2, SameNumbers, FS_EmptySet DEF UpTo
  <2>5. CachesInv'
    BY <1>1, <1>2, <1>8, <2>2, <2>4, SameNumbers DEF CachesInv
  <2> QED  BY <1>4, <1>5, <1>7, <2>3, <2>5 DEF IInv
<1>9. CASE caches # << >>
  <2>1. handled' = handled /\ stage' = "ready"
    BY <1>1, <1>3, <1>9 DEF handled
  <2>2. CachesInv'
    BY <1>1, <1>2, <2>1, SameCaches
  <2>3. StopInv'
    BY <2>1 DEF StopInv
  <2> QED  BY <1>4, <1>5, <1>7, <2>2, <2>3 DEF IInv
<1> QED  BY <1>8, <1>9

(* The places of reuse distances and spatial locality are the first ones of *)
(* their array, for any choice of the two.                                  *)
OwnReuse(places, which) ==
    [i \in {places[w] + 1 : w \in which} |-> IF i = places.spatial + 1 THEN "spatial" ELSE "reuse"]
LEMMA OwnPlaces ==
    ASSUME NEW n, NEW which \in SUBSET {"reuse", "spatial"}, NEW places, places = Places(n, which),
           NEW mine, mine = OwnReuse(places, which)
    PROVE  DOMAIN mine = 1 .. Cardinality(which) /\ {mine[i] : i \in DOMAIN mine} = which
<1>1. /\ places.reuse = IF "reuse" \in which THEN 0 ELSE -1
      /\ places.spatial = IF "spatial" \in which THEN (IF "reuse" \in which THEN 0 ELSE -1) + 1 ELSE -1
      /\ places["reuse"] = places.reuse /\ places["spatial"] = places.spatial
  BY DEF Places
<1>2. /\ DOMAIN mine = {places[w] + 1 : w \in which}
      /\ \A i \in DOMAIN mine : mine[i] = IF i = places.spatial + 1 THEN "spatial" ELSE "reuse"
  BY DEF OwnReuse
<1>3. CASE which = {}
  BY <1>2, <1>3, FS_EmptySet
<1>4. CASE which = {"reuse"}
  <2>1. DOMAIN mine = {1} /\ places.spatial = -1
    BY <1>1, <1>2, <1>4
  <2>2. mine[1] = "reuse"
    BY <1>2, <2>1
  <2>3. Cardinality(which) = 1
    BY <1>4, FS_Singleton
  <2> QED  BY <1>4, <2>1, <2>2, <2>3
<1>5. CASE which = {"spatial"}
  <2>1. DOMAIN mine = {1} /\ places.spatial = 0
    BY <1>1, <1>2, <1>5
  <2>2. mine[1] = "spatial"
    BY <1>2, <2>1
  <2>3. Cardinality(which) = 1
    BY <1>5, FS_Singleton
  <2> QED  BY <1>5, <2>1, <2>2, <2>3
<1>6. CASE which = {"reuse", "spatial"}
  <2>1. DOMAIN mine = {1, 2} /\ places.spatial = 1
    BY <1>1, <1>2, <1>6
  <2>2. mine[1] = "reuse" /\ mine[2] = "spatial"
    BY <1>2, <2>1
  <2>3. Cardinality(which) = 2
    <3>1. which = {"reuse"} \cup {"spatial"} /\ "spatial" \notin {"reuse"}
      BY <1>6
    <3>2. IsFiniteSet({"reuse"}) /\ Cardinality({"reuse"}) = 1
      BY FS_Singleton
    <3>3. Cardinality({"reuse"} \cup {"spatial"}) = 1 + 1
      BY <3>1, <3>2, FS_AddElement
    <3> QED  BY <3>1, <3>3
  <2> QED  BY <1>6, <2>1, <2>2, <2>3
<1> QED  BY <1>3, <1>4, <1>5, <1>6

LEMMA CacheStatsForStep ==
    ASSUME DescriptionAssumption, IInv, NEW t \in Readers, CacheStatsFor(t)
    PROVE  IInv'
<1> DEFINE stats == [i \in 1 .. indices.memory |->
                        IF i = indices.range + 1 THEN <<"ranges">> ELSE <<"cache", caches[i].sysId, caches[i].levelCount>>]
           memory == [i \in 1 .. indices.memory |->
                         IF i = indices.range + 1 THEN <<"ranges">> ELSE <<"cache", CacheStructureHandler(caches[i])>>]
           reuse == OwnReuse(indices, windows)
           mine == [stats |-> stats, memory |-> memory, reuse |-> reuse]
<1>1. /\ stage = "ready"
      /\ Handlers' = [u \in DOMAIN Handlers \cup {t} |-> IF u = t THEN mine ELSE Handlers[u]]
      /\ UNCHANGED <<stage, cacheFile, tokens, whichTok, cacheValues, firstExcl, current, caches, windows, indices, given>>
  BY DEF CacheStatsFor, OwnReuse
<1>2. FileInv /\ LineInv /\ CachesInv /\ StopInv /\ ReadyInv /\ HandlersInv
  BY DEF IInv
<1>3. pos' = pos
  BY <1>1 DEF pos
<1>4. FileInv' /\ LineInv' /\ ReadyInv'
  BY <1>1, <1>2, <1>3 DEF FileInv, LineInv, ReadyInv
<1>5. CachesInv' /\ StopInv'
  <2>1. handled' = handled
    BY <1>1, <1>3 DEF handled
  <2> QED  BY <1>1, <1>2, <2>1, SameCaches DEF StopInv
<1>6. /\ caches \in Seq(Structure) /\ Len(caches) \in Nat /\ indices = Places(Len(caches), windows)
      /\ windows \in SUBSET {"reuse", "spatial"}
      /\ \A n \in 1 .. Len(caches) : Len(caches[n].levels) = caches[n].levelCount
  BY <1>1, <1>2 DEF FileInv, ReadyInv, CachesInv
<1>7. indices.memory = Len(caches) + 1 /\ indices.range = Len(caches)
  BY <1>6 DEF Places
<1>8. Owns(mine, caches, windows)
  <2>1. DOMAIN reuse = 1 .. Cardinality(windows) /\ {reuse[i] : i \in DOMAIN reuse} = windows
    BY <1>6, OwnPlaces
  <2>2. ASSUME NEW i \in DOMAIN caches
        PROVE  memory[i] = <<"cache", caches[i]>> /\ stats[i] = <<"cache", caches[i].sysId, Len(caches[i].levels)>>
    <3>1. i \in 1 .. Len(caches) /\ caches[i] \in Structure /\ i \in 1 .. indices.memory /\ i # indices.range + 1
      BY <1>6, <1>7
    <3>2. CacheStructureHandler(caches[i]) = caches[i] /\ Len(caches[i].levels) = caches[i].levelCount
      BY <1>6, <3>1, EqualStructures
    <3> QED  BY <3>1, <3>2
  <2>3. memory[Len(caches) + 1] = <<"ranges">> /\ stats[Len(caches) + 1] = <<"ranges">>
    BY <1>6, <1>7
  <2>4. mine.memory = memory /\ mine.stats = stats /\ mine.reuse = reuse
    OBVIOUS
  <2> HIDE DEF mine, memory, stats, reuse
  <2> QED  BY <2>1, <2>2, <2>3, <2>4 DEF Owns
<1> HIDE DEF mine
<1>9. HandlersInv'
  <2>1. \A u \in DOMAIN Handlers : Owns(Handlers[u], caches, windows)
    BY <1>2 DEF HandlersInv
  <2>2. \A u \in DOMAIN Handlers' : Owns(Handlers'[u], caches, windows)
    BY <1>1, <1>8, <2>1
  <2>3. \A u \in DOMAIN Handlers' : Owns(Handlers'[u], caches', windows')
    BY <1>1, <2>2
  <2> QED  BY <1>1, <2>3 DEF HandlersInv
<1> QED  BY <1>4, <1>5, <1>9 DEF IInv

LEMMA InitInv ==
    ASSUME DescriptionAssumption, SettingsInit
    PROVE  IInv
<1>1. /\ stage = "lines" /\ cacheFile \in CacheFiles /\ windows \in SUBSET {"reuse", "spatial"} /\ cacheValues = <<1, 1, 1>>
      /\ firstExcl = NoLevel /\ current = NoStructure /\ caches = << >> /\ Handlers = << >> /\ given = cacheFile
  BY DEF SettingsInit
<1>2. cacheFile \in Seq(Seq(Token)) /\ Len(cacheFile) \in Nat
  BY <1>1 DEF DescriptionAssumption
<1>3. pos = 0
  BY <1>1, <1>2 DEF pos
<1>4. FileInv
  <2>1. cacheValues \in [1 .. 3 -> Nat] /\ caches \in Seq(Structure)
    BY <1>1
  <2>2. current \in Structure /\ firstExcl \in Int
    <3>1. << >> \in Seq(LevelsMade)
      OBVIOUS
    <3> QED  BY <1>1, <3>1 DEF NoStructure, Structure, NoLevel
  <2>3. \A k \in 1 .. Len(cacheFile) : cacheFile[k] = given[pos + k]
    BY <1>1, <1>2, <1>3
  <2> QED  BY <1>1, <1>2, <2>1, <2>2, <2>3 DEF FileInv
<1>5. LineInv /\ StopInv /\ ReadyInv
  BY <1>1 DEF LineInv, StopInv, ReadyInv
<1>6. HandlersInv
  BY <1>1 DEF HandlersInv
<1>7. CachesInv
  <2>1. handled = 0 /\ \A i \in DescribedLines : ~(i <= 0)
    BY <1>1, <1>2, <1>3 DEF handled, DescribedLines
  <2>2. UpTo(handled) = {} /\ Cardinality({}) = 0
    BY <2>1, FS_EmptySet DEF UpTo
  <2>3. Len(caches) = 0 /\ \A i \in DescribedLines : ~(i <= handled)
    BY <1>1, <2>1
  <2> QED  BY <2>2, <2>3 DEF CachesInv
<1> QED  BY <1>4, <1>5, <1>6, <1>7 DEF IInv

LEMMA NextInv ==
    ASSUME DescriptionAssumption, IInv, [SettingsNext]_settingsVars
    PROVE  IInv'
<1>1. CASE UNCHANGED settingsVars
  <2>1. /\ UNCHANGED <<stage, cacheFile, tokens, whichTok, cacheValues, firstExcl, current>>
        /\ UNCHANGED <<caches, windows, indices, Handlers, given>>
    BY <1>1 DEF settingsVars
  <2>2. FileInv /\ LineInv /\ CachesInv /\ StopInv /\ ReadyInv /\ HandlersInv
    BY DEF IInv
  <2>3. pos' = pos /\ line' = line /\ handled' = handled
    BY <2>1 DEF pos, line, handled
  <2>4. FileInv' /\ LineInv' /\ ReadyInv'
    BY <2>1, <2>2, <2>3, SameNumbers DEF FileInv, LineInv, ReadyInv
  <2>5. CachesInv' /\ StopInv'
    BY <2>1, <2>2, <2>3, SameCaches, SameNumbers DEF StopInv
  <2>6. HandlersInv'
    BY <2>1, <2>2 DEF HandlersInv
  <2> QED  BY <2>4, <2>5, <2>6 DEF IInv
<1> QED  BY <1>1, ReadLineStep, ReadTokenStep, EndOfLineStep, ReadSettingsStep, CacheStatsForStep DEF SettingsNext, Done

LEMMA InvSays ==
    ASSUME DescriptionAssumption, IInv
    PROVE  BuiltAsDescribed
<1>1. FileInv /\ CachesInv /\ StopInv /\ ReadyInv /\ HandlersInv
  BY DEF IInv
<1>2. given \in Seq(Seq(Token)) /\ pos \in Nat
  BY <1>1, GivenLines
<1>3. handled \in Int
  BY <1>2 DEF handled
<1>4. /\ Len(caches) = Cardinality(UpTo(handled)) /\ caches \in Seq(Structure)
      /\ \A i \in DescribedLines : i <= handled => AsDescribed(caches[Nth(i)], given[i])
  BY <1>1 DEF CachesInv, FileInv
<1>5. Len(caches) <= Cardinality(DescribedLines)
  <2>1. UpTo(handled) \subseteq DescribedLines
    BY DEF UpTo
  <2> QED  BY <1>2, <1>4, <2>1, Finite, FS_Subset
<1>6. ASSUME NEW i \in DescribedLines, Nth(i) <= Len(caches) PROVE AsDescribed(caches[Nth(i)], given[i])
  <2>1. i \in Int /\ Nth(i) \in Nat /\ (i > handled => Nth(i) > Len(caches)) /\ Len(caches) \in Nat
    BY <1>1, <1>2, <1>3, <1>4, Numbers, GivenLines
  <2>2. i <= handled
    BY <1>3, <1>6, <2>1
  <2> QED  BY <1>4, <2>2
<1>7. stage = "ready" => Len(caches) = Cardinality(DescribedLines)
  <2> SUFFICES ASSUME stage = "ready" PROVE Len(caches) = Cardinality(DescribedLines)
    OBVIOUS
  <2>1. cacheFile = << >> /\ handled = pos
    BY <1>1 DEF ReadyInv, handled
  <2>2. pos = Len(given)
    BY <1>2, <2>1 DEF pos
  <2>3. UpTo(handled) = DescribedLines
    BY <1>1, <2>1, <2>2, GivenLines DEF UpTo
  <2> QED  BY <1>4, <2>3
<1>8. \A t \in DOMAIN Handlers : Owns(Handlers[t], caches, windows)
  BY <1>1 DEF HandlersInv
<1> QED  BY <1>1, <1>5, <1>6, <1>7, <1>8 DEF BuiltAsDescribed, StopInv, Owns

(* CacheStructureHandler::Init: of any files of descriptions whose tokens   *)
(* are numbers and policies in their places, whatever the numbers, every    *)
(* line that makes sense is read as the structure that it describes, and    *)
(* each thread that is made gets structures equal to those read, each in a  *)
(* place of its own.                                                        *)
THEOREM BuiltRight == DescriptionAssumption => (SettingsSpec => []BuiltAsDescribed)
<1> SUFFICES ASSUME DescriptionAssumption PROVE SettingsSpec => []BuiltAsDescribed
  OBVIOUS
<1>1. SettingsInit => IInv
  BY InitInv
<1>2. IInv /\ [SettingsNext]_settingsVars => IInv'
  BY NextInv
<1>3. IInv => BuiltAsDescribed
  BY InvSays
<1> QED  BY <1>1, <1>2, <1>3, PTL DEF SettingsSpec
=============================================================================
