--------------------------- MODULE CacheSettings ---------------------------
(* How the cache simulation learns what it simulates (Simulation.cpp): each *)
(* line of the cache descriptions is read one token at a time into a cache  *)
(* structure, the structures and the other handlers of the memory accesses  *)
(* get their places, and each thread gets a copy of its own.                *)
(*                                                                          *)
(* A token is a number with a unit, a replacement policy or the start of a  *)
(* comment.  What a word does where a number belongs is not defined (the    *)
(* number is then not assigned), and there are no such lines.               *)
EXTENDS Integers, Sequences, FiniteSets

CONSTANTS CacheFiles,    \* sequences of lines, sequences of tokens
          MinimumHighAssociativity,
          KILO,          \* a kilobyte, and
          Word,          \* what a uint32_t wraps at, both smaller than they are
          Readers        \* threads
VARIABLES stage,         \* "lines", "tokens", "settings", "ready" or "stopped"
          cacheFile,     \* the lines that are not read yet,
          tokens,        \* the tokens of this one,
          whichTok, cacheValues, firstExcl,
          current,       \* and the structure it describes
          caches,        \* the structures read before
          windows,       \* which of METASIM_REUSE_WINDOW and METASIM_SPATIAL_WINDOW are set
          indices,       \* the places of the handlers
          Handlers,      \* the handlers of each thread, and their statistics
          given          \* the file
settingsVars == <<stage, cacheFile, tokens, whichTok, cacheValues, firstExcl, current, caches, windows, indices, Handlers, given>>

-----------------------------------------------------------------------------
(* Tokens. *)

Units == [k |-> KILO, m |-> KILO * KILO, g |-> KILO * KILO * KILO]
\* After a unit there must be a b: without one, the end of the token is only
\* noticed by reading on, and what was read last is not a b.
ParseInt32(token, min) ==
    LET known == token.unit = "" \/ (token.unit \in DOMAIN Units /\ token.b)
        mult == IF token.unit \in DOMAIN Units THEN Units[token.unit] ELSE 1
    IN  [ok |-> known /\ token.n >= min, value |-> (token.n * mult) % Word]
ParsePositiveInt32(token) == ParseInt32(token, 1)

Policies == [lru |-> "nmru", rand |-> "random", trulru |-> "trulru", dir |-> "direct"]
IsEmptyComment(line) == line = << >> \/ line[1].kind = "comment"

-----------------------------------------------------------------------------
(* Structures. *)

NoLevel == -1     \* INVALID_CACHE_LEVEL
\* CacheLevel::Init and those of the classes of levels.
NewLevel(level, v, repl, first, last) ==
    [level |-> level, size |-> v[1], assoc |-> v[2], line |-> v[3], policy |-> repl,
     countsets |-> v[1] \div ((v[2] * v[3]) % Word),
     high |-> v[2] >= MinimumHighAssociativity, first |-> first, last |-> IF first = NoLevel THEN NoLevel ELSE last]
IsExclusive(l) == l.first # NoLevel
\* The kind of each level is taken from the level that is copied.
Copy(l) == [NewLevel(l.level, <<l.size, l.assoc, l.line>>, l.policy, l.first, l.last) EXCEPT !.high = l.high]
CacheStructureHandler(h) == [h EXCEPT !.levels = [i \in DOMAIN h.levels |-> Copy(h.levels[i])]]

Verify(h) ==
    /\ h.levelCount \in 1 .. 3
    /\ \A i \in 1 .. h.levelCount : IsExclusive(h.levels[i]) =>
           \A j \in i .. h.levels[i].last + 1 : IsExclusive(h.levels[j])

NoStructure == [sysId |-> 0, levelCount |-> 0, levels |-> << >>]

SettingsInit ==
    /\ stage = "lines" /\ cacheFile \in CacheFiles
    /\ windows \in SUBSET {"reuse", "spatial"}
    /\ tokens = << >> /\ whichTok = 0 /\ cacheValues = <<1, 1, 1>> /\ firstExcl = NoLevel
    /\ current = NoStructure /\ caches = << >> /\ indices = << >> /\ Handlers = << >>
    /\ given = cacheFile

ReadLine ==
    /\ stage = "lines" /\ cacheFile # << >> /\ cacheFile' = Tail(cacheFile)
    /\ IF IsEmptyComment(Head(cacheFile))
       THEN UNCHANGED <<stage, tokens, whichTok, firstExcl, current>>
       ELSE /\ stage' = "tokens" /\ tokens' = Head(cacheFile)
            /\ whichTok' = 0 /\ firstExcl' = NoLevel /\ current' = NoStructure
    /\ UNCHANGED <<cacheValues, caches, windows, indices, Handlers, given>>

Rejected == stage' = "stopped" /\ UNCHANGED <<cacheValues, firstExcl, current>>
\* The number at one of the first two places, or of a level.
Number(token) ==
    LET place == ((whichTok - 2) % 4) + 1
        parsed == IF whichTok = 0 THEN ParseInt32(token, 0) ELSE ParsePositiveInt32(token)
    IN  IF ~parsed.ok THEN Rejected
        ELSE /\ current' = CASE whichTok = 0 -> [current EXCEPT !.sysId = parsed.value]
                             [] whichTok = 1 -> [current EXCEPT !.levelCount = parsed.value]
                             [] OTHER -> current
             /\ cacheValues' = IF whichTok < 2 THEN cacheValues ELSE [cacheValues EXCEPT ![place] = parsed.value]
             /\ UNCHANGED <<stage, firstExcl>>
\* Mutant: the last victim cache.
FirstExclusiveReset(token, levelId) == IF token.vc THEN levelId ELSE firstExcl
\* The first level that is a victim cache, so far.
FirstExclusive(token, levelId) == IF token.vc /\ firstExcl = NoLevel THEN levelId ELSE firstExcl
\* The policy ends a level: from the first victim cache on, all are exclusive.
\* Levels beyond the number that is declared are made too, behind the end of the array.
Policy(token) ==
    LET levelId == (whichTok - 2) \div 4
    IN  IF token.name \notin DOMAIN Policies THEN Rejected
        ELSE /\ firstExcl' = FirstExclusive(token, levelId)
             /\ IF cacheValues[1] < cacheValues[3] THEN stage' = "stopped" /\ UNCHANGED current
                ELSE /\ current' = [current EXCEPT !.levels =
                                        Append(@, NewLevel(levelId, cacheValues, Policies[token.name], firstExcl', current.levelCount - 1))]
                     /\ UNCHANGED stage
             /\ UNCHANGED cacheValues
ReadToken ==
    /\ stage = "tokens" /\ tokens # << >> /\ Head(tokens).kind # "comment"
    /\ tokens' = Tail(tokens) /\ whichTok' = whichTok + 1
    /\ IF whichTok >= 2 /\ (whichTok - 2) % 4 = 3 THEN Policy(Head(tokens)) ELSE Number(Head(tokens))
    /\ UNCHANGED <<cacheFile, caches, windows, indices, Handlers, given>>
EndOfLine ==
    /\ stage = "tokens" /\ (tokens # << >> => Head(tokens).kind = "comment")
    /\ IF whichTok = 4 * current.levelCount + 2 /\ Verify(current)
       THEN stage' = "lines" /\ caches' = Append(caches, current)
       ELSE stage' = "stopped" /\ UNCHANGED caches
    /\ UNCHANGED <<cacheFile, tokens, whichTok, cacheValues, firstExcl, current, windows, indices, Handlers, given>>

\* The structures come first, then the ranges; reuse distances and spatial
\* locality have an array of their own.
ReadSettings ==
    /\ stage = "lines" /\ cacheFile = << >>
    /\ stage' = IF caches = << >> THEN "stopped" ELSE "ready"
    /\ LET reuse == IF "reuse" \in windows THEN 0 ELSE -1
       IN  indices' = [range |-> Len(caches), reuse |-> reuse,
                       spatial |-> IF "spatial" \in windows THEN reuse + 1 ELSE -1,
                       memory |-> Len(caches) + 1, reuses |-> Cardinality(windows)]
    /\ UNCHANGED <<cacheFile, tokens, whichTok, cacheValues, firstExcl, current, caches, windows, Handlers, given>>

\* For a new thread: what is at each place of its arrays.
CacheStatsFor(t) ==
    /\ stage = "ready" /\ t \notin DOMAIN Handlers
    /\ LET mine == [stats |-> [i \in 1 .. indices.memory |->
                                  IF i = indices.range + 1 THEN <<"ranges">>
                                  ELSE <<"cache", caches[i].sysId, caches[i].levelCount>>],
                    memory |-> [i \in 1 .. indices.memory |->
                                  IF i = indices.range + 1 THEN <<"ranges">> ELSE <<"cache", CacheStructureHandler(caches[i])>>],
                    reuse |-> [i \in {indices[w] + 1 : w \in windows} |->
                                  IF i = indices.spatial + 1 THEN "spatial" ELSE "reuse"]]
       IN  Handlers' = [u \in DOMAIN Handlers \cup {t} |-> IF u = t THEN mine ELSE Handlers[u]]
    /\ UNCHANGED <<stage, cacheFile, tokens, whichTok, cacheValues, firstExcl, current, caches, windows, indices, given>>
Done == stage \in {"stopped", "ready"} /\ UNCHANGED settingsVars

SettingsNext == ReadLine \/ ReadToken \/ EndOfLine \/ ReadSettings \/ (\E t \in Readers : CacheStatsFor(t)) \/ Done
SettingsSpec == SettingsInit /\ [][SettingsNext]_settingsVars

-----------------------------------------------------------------------------
(* What a line describes, token by token. *)

\* The lines that are not comments, and which of them a line is.
DescribedLines == {i \in DOMAIN given : ~IsEmptyComment(given[i])}
Nth(i) == Cardinality({j \in DescribedLines : j <= i})
Uncommented(line) ==
    LET cut == {i \in DOMAIN line : line[i].kind = "comment"}
    IN  {i \in DOMAIN line : \A j \in cut : i < j}
Plain(token) == token.n * (IF token.unit = "" THEN 1 ELSE Units[token.unit])
\* A number is as it is written, up to the size of a word.
Reads(value, token) == Plain(token) < Word => value = Plain(token)
Readable(token) == token.unit = "" \/ (token.unit \in DOMAIN Units /\ token.b)
At(line, level, i) == line[2 + 4 * (level - 1) + i]
FirstVictim(line, level) ==
    LET vcs == {j \in 1 .. level : At(line, j, 4).vc} IN IF vcs = {} THEN NoLevel ELSE (CHOOSE j \in vcs : \A k \in vcs : j <= k) - 1
LevelAsDescribed(lev, line, l, levelCount) ==
    /\ Reads(lev.size, At(line, l, 1)) /\ Reads(lev.assoc, At(line, l, 2)) /\ Reads(lev.line, At(line, l, 3))
    /\ lev.policy = Policies[At(line, l, 4).name]
    /\ lev.level = l - 1
    /\ lev.first = FirstVictim(line, l) /\ (IsExclusive(lev) => lev.last = levelCount - 1)
    /\ lev.high <=> lev.assoc >= MinimumHighAssociativity
AsDescribed(h, line) ==
    /\ Reads(h.sysId, line[1]) /\ Reads(h.levelCount, line[2]) /\ Len(h.levels) = h.levelCount
    /\ Cardinality(Uncommented(line)) = 2 + 4 * h.levelCount
    /\ \A l \in DOMAIN h.levels : LevelAsDescribed(h.levels[l], line, l, h.levelCount)
WellFormed(line) ==
    LET n == Cardinality(Uncommented(line))
    IN  /\ n > 2 /\ Readable(line[1]) /\ Readable(line[2]) /\ Plain(line[2]) \in 1 .. 3 /\ n = 2 + 4 * Plain(line[2])
        /\ \A l \in 1 .. Plain(line[2]) :
               /\ \A i \in 1 .. 3 : Readable(At(line, l, i)) /\ At(line, l, i).n > 0
               /\ At(line, l, 4).name \in DOMAIN Policies
               /\ Plain(At(line, l, 1)) \in Plain(At(line, l, 3)) .. Word - 1

\* What there is to read: numbers and policies, each in its places.
Token == [kind : {"number"}, n : Nat, unit : STRING, b : BOOLEAN]
             \cup [kind : {"policy"}, name : STRING, vc : BOOLEAN] \cup [kind : {"comment"}]
InPlace(line) == \A i \in Uncommented(line) : line[i].kind = IF i > 2 /\ (i - 3) % 4 = 3 THEN "policy" ELSE "number"
DescriptionAssumption ==
    /\ KILO \in Nat /\ Word \in Nat /\ Word > 3 /\ MinimumHighAssociativity \in Nat
    /\ \A f \in CacheFiles : f \in Seq(Seq(Token)) /\ \A i \in DOMAIN f : InPlace(f[i])

\* CacheStructureHandler::Init: every line that makes sense is read, as the
\* structure that it describes; a thread's copies are equal to what was read,
\* with statistics that fit, and each handler has a place of its own.
BuiltAsDescribed ==
    /\ Len(caches) <= Cardinality(DescribedLines)
    /\ \A i \in DescribedLines : Nth(i) <= Len(caches) => AsDescribed(caches[Nth(i)], given[i])
    /\ stage = "stopped" => (DescribedLines = {} \/ \E i \in DescribedLines : ~WellFormed(given[i]))
    /\ stage = "ready" => Len(caches) = Cardinality(DescribedLines)
    /\ \A t \in DOMAIN Handlers :
           LET mine == Handlers[t]
           IN  /\ \A i \in DOMAIN caches : /\ mine.memory[i] = <<"cache", caches[i]>>
                                           /\ mine.stats[i] = <<"cache", caches[i].sysId, Len(caches[i].levels)>>
               /\ mine.memory[Len(caches) + 1] = <<"ranges">> /\ mine.stats[Len(caches) + 1] = <<"ranges">>
               /\ DOMAIN mine.reuse = 1 .. Cardinality(windows) /\ {mine.reuse[i] : i \in DOMAIN mine.reuse} = windows
=============================================================================
