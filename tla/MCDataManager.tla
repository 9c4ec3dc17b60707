--------------------------- MODULE MCDataManager ---------------------------
(* Three threads, two of them with the same slot in ThreadData; a created *)
(* thread's pthread_t may be below that of the main thread.  What the      *)
(* cache simulation does before, reading its settings, is a behaviour of   *)
(* its own.                                                                *)
EXTENDS DataManager, CacheSettings
K(type, leader) == [type |-> type, leader |-> leader]
MCKinds == [counter |-> <<K("basicblock", 1), K("instruction", 1), K("loop", 3)>>,
            simulation |-> <<K("basicblock", 1), K("basicblock", 2)>>,
            function |-> <<K("function", 1)>>,
            loop |-> <<K("loop", 1)>>]
MCMemops == <<{1, 2}, {3}>>
MCMaxEvents == [counter |-> 2, simulation |-> 3, function |-> 4, loop |-> 3]

VARIABLE part

-----------------------------------------------------------------------------
(* Cache descriptions. *)

N(n, unit, b) == [kind |-> "number", n |-> n, unit |-> unit, b |-> b]
Plainly(n) == N(n, "", FALSE)
P(name, vc) == [kind |-> "policy", name |-> name, vc |-> vc]
Hash == [kind |-> "comment"]
\* Sizes of one word or more, with units that are and are not known, and
\* smaller than a line.
Sizes == {Plainly(0), Plainly(3), Plainly(16), N(2, "k", TRUE), N(2, "k", FALSE), N(2, "x", TRUE), N(3, "m", TRUE), N(5, "g", TRUE)}
SomeLevels == {<<s, Plainly(a), Plainly(4), p>> : s \in Sizes, a \in {0, 1, 2, 4}, p \in {P("lru", FALSE), P("dir", TRUE), P("ran", FALSE)}}
FewLevels == {<<Plainly(16), Plainly(a), Plainly(4), P(n, vc)>> : a \in {2, 4}, n \in {"lru", "trulru"}, vc \in BOOLEAN}
Good == <<N(2, "k", TRUE), Plainly(2), Plainly(4), P("rand", FALSE)>>
Begin(n) == <<Plainly(7), n>>
Counts == {Plainly(0), Plainly(1), N(1, "k", TRUE), Plainly(2)}
Lines == {Begin(n) \o l : n \in Counts, l \in SomeLevels}
             \cup {Begin(Plainly(2)) \o l \o m : l \in {Good}, m \in SomeLevels}
             \cup {Begin(Plainly(n)) \o l \o m \o k : n \in 2 .. 3, l \in FewLevels, m \in FewLevels, k \in FewLevels}
             \cup {Begin(Plainly(4)) \o Good \o Good \o Good \o Good}
\* Lines that end too early, with and without a comment.
Cut == {SubSeq(Begin(Plainly(2)) \o Good \o Good, 1, n) \o c : n \in 1 .. 10, c \in {<< >>, <<Hash>>, <<Hash, Plainly(1)>>}}
MCCacheFiles == {<<l>> : l \in Lines \cup Cut} \cup {<< >>, <<<<Hash>>, << >>>>}
                    \cup {<<l, <<Hash, Plainly(1)>>, k>> : l \in Cut, k \in {Begin(Plainly(1)) \o Good, Begin(Plainly(2)) \o Good \o Good}}
ASSUME DescriptionAssumption

-----------------------------------------------------------------------------
None == << >>
DataInit ==
    \/ /\ part = "data" /\ Init
       /\ stage = "none" /\ cacheFile = None /\ tokens = None /\ whichTok = None /\ cacheValues = None /\ firstExcl = None
       /\ current = None /\ caches = None /\ windows = None /\ indices = None /\ Handlers = None /\ given = None
    \/ /\ part = "settings" /\ SettingsInit
       /\ tool = "none" /\ pc = None /\ heap = None /\ buffers = None /\ datamap = None /\ allthreads = {} /\ threadseq = None
       /\ images = {} /\ firstimage = None /\ threaddata = None /\ fast = None /\ failed = "no" /\ report = {} /\ log = None
DataNext == \/ part = "data" /\ Next /\ UNCHANGED <<part, settingsVars>>
            \/ part = "settings" /\ SettingsNext /\ UNCHANGED <<part, vars>>
DataSpec == DataInit /\ [][DataNext]_<<part, vars, settingsVars>>
=============================================================================
