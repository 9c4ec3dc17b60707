--------------------------- MODULE LengauerTarjan ---------------------------
(***************************************************************************)
(* LengauerTarjan.C: immediate dominators by the algorithm of Lengauer and *)
(* Tarjan with balanced links.  The arrays of the object are one record    *)
(* s; index 0 is the vertex that does not exist.  A graph g gives the      *)
(* targets and the sources of every block as sequences, in the order in    *)
(* which they were added, and the set of unreachable blocks.               *)
(***************************************************************************)
LOCAL INSTANCE Naturals
LOCAL INSTANCE Sequences
LOCAL INSTANCE FiniteSets
LOCAL INSTANCE SequencesExt

Blocks(g) == DOMAIN g.targets
Reachable(g) == Blocks(g) \ g.unreachable

\* The constructor: reachable blocks get the locations from 1 on, in their
\* order, unreachable ones from the other end.
Location(g, b) == IF b \in g.unreachable
                  THEN Cardinality(Blocks(g)) - Cardinality({c \in g.unreachable : c < b})
                  ELSE Cardinality({c \in Reachable(g) : c <= b})
BlockAt(g, v) == CHOOSE b \in Blocks(g) : Location(g, b) = v

Fresh(g) == LET zero == [v \in 0 .. Cardinality(Reachable(g)) |-> 0]
            IN  [no |-> 0, semi |-> zero, vertex |-> zero, label |-> zero, ancestor |-> zero,
                 child |-> zero, size |-> zero, parent |-> zero, dom |-> zero,
                 bucket |-> [v \in DOMAIN zero |-> << >>]]

RECURSIVE depthFirstSearch(_, _, _)
depthFirstSearch(g, v, s) ==
    LET numbered == [s EXCEPT !.no = @ + 1, !.semi[v] = s.no + 1, !.vertex[s.no + 1] = v,
                              !.label[v] = v, !.size[v] = 1]
        visit(t, target) ==
            LET w == Location(g, target)
            IN  IF t.semi[w] = 0 THEN depthFirstSearch(g, w, [t EXCEPT !.parent[w] = v]) ELSE t
    IN  FoldLeft(visit, numbered, g.targets[BlockAt(g, v)])

RECURSIVE COMPRESS(_, _)
COMPRESS(s, v) ==
    IF s.ancestor[s.ancestor[v]] = 0 THEN s
    ELSE LET t == COMPRESS(s, s.ancestor[v])
             above == t.ancestor[v]
         IN  [t EXCEPT !.label[v] = IF t.semi[t.label[above]] < t.semi[@] THEN t.label[above] ELSE @,
                       !.ancestor[v] = t.ancestor[above]]

\* EVAL returns a vertex and, by COMPRESS, changes the forest.
EVAL(s, v) ==
    IF s.ancestor[v] = 0 THEN [s |-> s, u |-> s.label[v]]
    ELSE LET t == COMPRESS(s, v)
             above == t.label[t.ancestor[v]]
         IN  [s |-> t, u |-> IF t.semi[above] >= t.semi[t.label[v]] THEN t.label[v] ELSE above]

RECURSIVE Rebalance(_, _, _)
Rebalance(s, w, x) ==
    LET c == s.child[x]
        cc == s.child[c]
    IN  IF s.semi[s.label[w]] >= s.semi[s.label[c]] THEN [s |-> s, x |-> x]
        ELSE IF s.size[x] + s.size[cc] >= 2 * s.size[c]
             THEN Rebalance([s EXCEPT !.ancestor[c] = x, !.child[x] = cc], w, x)
             ELSE Rebalance([s EXCEPT !.size[c] = s.size[x], !.ancestor[x] = c], w, c)

RECURSIVE Adopt(_, _, _)
Adopt(s, v, x) == IF x = 0 THEN s ELSE Adopt([s EXCEPT !.ancestor[x] = v], v, s.child[x])

LINK(s, v, w) ==
    LET r == Rebalance(s, w, w)
        t == [r.s EXCEPT !.label[r.x] = r.s.label[w], !.size[v] = @ + r.s.size[w]]
    IN  IF t.size[v] < 2 * t.size[w]
        THEN Adopt([t EXCEPT !.child[v] = r.x], v, t.child[v])
        ELSE Adopt(t, v, r.x)

\* The vertices of a bucket are dominated by their parent or, for now, by the
\* vertex that EVAL finds.
EmptyBucket(s, p) ==
    LET settle(t, v) == LET e == EVAL(t, v)
                        IN  [e.s EXCEPT !.dom[v] = IF e.s.semi[e.u] < e.s.semi[v] THEN e.u ELSE p]
    IN  [FoldLeft(settle, s, s.bucket[p]) EXCEPT !.bucket[p] = << >>]

Semidominate(g, s, w) ==
    LET look(t, source) ==
            IF source \in g.unreachable THEN t
            ELSE LET e == EVAL(t, Location(g, source))
                 IN  [e.s EXCEPT !.semi[w] = IF e.s.semi[e.u] < @ THEN e.s.semi[e.u] ELSE @]
    IN  FoldLeft(look, s, g.sources[BlockAt(g, w)])

ProcessVertex(g, s, w) ==
    LET t == Semidominate(g, s, w)
        filed == [t EXCEPT !.bucket[t.vertex[t.semi[w]]] = <<w>> \o @]
    IN  EmptyBucket(LINK(filed, s.parent[w], w), s.parent[w])

\* Taking the bucket's answer as it is (a mistake to compare with).
LeaveDominator(s, w) == s
FixDominator(s, w) == IF s.dom[w] # s.vertex[s.semi[w]] THEN [s EXCEPT !.dom[w] = s.dom[s.dom[w]]] ELSE s

\* The immediate dominator of every block: 0 for the root; an unreachable
\* block gets the root.
immediateDominators(g, root) ==
    LET n == Cardinality(Reachable(g))
        numbered == depthFirstSearch(g, Location(g, root), Fresh(g))
        order == [i \in 1 .. n - 1 |-> i + 1]
        linked == FoldRight(LAMBDA i, s : ProcessVertex(g, s, s.vertex[i]), order, numbered)
        fixed == FoldLeft(LAMBDA s, i : FixDominator(s, s.vertex[i]), linked, order)
    IN  [b \in Blocks(g) |-> IF b \in g.unreachable THEN root
                             ELSE IF b = root THEN 0
                             ELSE BlockAt(g, fixed.dom[Location(g, b)])]
=============================================================================
