------------------------------- MODULE Loops -------------------------------
(***************************************************************************)
(* FlowGraph::buildLoops, the depth-first search below it and the queries  *)
(* on the loops it finds.  A graph g gives the targets and the sources of  *)
(* every block; a loop is [head, tail, blocks].                            *)
(***************************************************************************)
LOCAL INSTANCE Naturals
LOCAL INSTANCE Sequences
LOCAL INSTANCE FiniteSets
LOCAL INSTANCE SequencesExt

\* FlowGraph::depthFirstSearch with all its arguments.  The list of back
\* edges is extended at its front.
RECURSIVE depthFirstSearch(_, _, _)
depthFirstSearch(g, b, s) ==
    LET visit(t, target) ==
            IF target \notin t.visited THEN depthFirstSearch(g, target, t)
            ELSE IF target \notin t.completed THEN [t EXCEPT !.backEdges = <<<<b, target>>>> \o @]
            ELSE t
        done == FoldLeft(visit, [s EXCEPT !.visited = @ \cup {b}], g.targets[b])
    IN  [done EXCEPT !.completed = @ \cup {b}]

Search(g, root) == depthFirstSearch(g, root, [visited |-> {}, completed |-> {}, backEdges |-> << >>])

\* BasicBlock::isDominatedBy
RECURSIVE isDominatedBy(_, _, _)
isDominatedBy(idom, b, d) == b = d \/ (idom[b] # 0 /\ isDominatedBy(idom, idom[b], d))

\* The stack of blocks whose sources are still to be added.
RECURSIVE Grow(_, _, _)
Grow(g, inLoop, stack) ==
    IF stack = << >> THEN inLoop
    ELSE LET new == Range(g.sources[Last(stack)]) \ inLoop
         IN  Grow(g, inLoop \cup new, Front(stack) \o SetToSeq(new))
LoopBody(g, from, to) == Grow(g, {to, from}, IF from = to THEN << >> ELSE <<from>>)

\* Every back edge whose source is dominated by its target is a loop, unless
\* the source ends with a call.  calls: the blocks that do.  The list of loops
\* is reversed and then sorted by the address, that is the index, of the head.
buildLoops(g, idom, calls) ==
    LET found == SelectSeq(Search(g, 1).backEdges,
                           LAMBDA e : isDominatedBy(idom, e[1], e[2]) /\ e[1] \notin calls)
        loops == [i \in DOMAIN found |-> [head |-> found[i][2], tail |-> found[i][1],
                                          blocks |-> LoopBody(g, found[i][1], found[i][2])]]
        InOrder(s, l) == SelectSeq(s, LAMBDA x : x.head <= l.head) \o <<l>>
                            \o SelectSeq(s, LAMBDA x : x.head > l.head)
    IN  FoldLeft(InOrder, << >>, Reverse(loops))

-----------------------------------------------------------------------------
(* Queries; loops are named by their index. *)
isBlockInLoop(loops, b) == \E i \in DOMAIN loops : b \in loops[i].blocks

\* The first of the smallest loops that contain the block; 0 for none.
getInnermostLoopForBlock(loops, b) ==
    LET around == {i \in DOMAIN loops : b \in loops[i].blocks}
        smaller(i, j) == Cardinality(loops[i].blocks) < Cardinality(loops[j].blocks)
    IN  IF around = {} THEN 0
        ELSE CHOOSE i \in around : \A j \in around : ~smaller(j, i) /\ (j < i => smaller(i, j))

isInnerLoopOf(l, k) == l.blocks \subseteq k.blocks

\* The first loop that contains it, which may be the loop itself.
getOuterLoop(loops, i) ==
    CHOOSE j \in DOMAIN loops : /\ isInnerLoopOf(loops[i], loops[j])
                                /\ \A k \in 1 .. j - 1 : ~isInnerLoopOf(loops[i], loops[k])

RECURSIVE getOuterMostLoopForLoop(_, _)
getOuterMostLoopForLoop(loops, i) ==
    LET j == getOuterLoop(loops, i) IN IF j = i THEN i ELSE getOuterMostLoopForLoop(loops, j)

DepthOfLoop(loops, i) == 1 + Cardinality({j \in DOMAIN loops \ {i} : isInnerLoopOf(loops[i], loops[j])})
getLoopDepth(loops, b) ==
    LET i == getInnermostLoopForBlock(loops, b) IN IF i = 0 THEN 0 ELSE DepthOfLoop(loops, i)

\* A loop without a parent is its own.
getParentLoop(loops, i) ==
    LET up == {j \in DOMAIN loops :
                   /\ isInnerLoopOf(loops[i], loops[j])
                   /\ getLoopDepth(loops, loops[i].head) = getLoopDepth(loops, loops[j].head) + 1}
    IN  IF up = {} THEN i ELSE CHOOSE j \in up : \A k \in up : j <= k
=============================================================================
