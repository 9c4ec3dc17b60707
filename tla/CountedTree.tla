---------------------------- MODULE CountedTree ----------------------------
(***************************************************************************)
(* The counted 2-3-4 tree that holds the window of a reuse handler         *)
(* (tree234.c).  A node has one to three entries, sorted by sequence       *)
(* number, and as many children and one more, or none; counts are the      *)
(* number of entries below each child.  The null pointers behind the last  *)
(* entry and child, and the links to the parents, are left out.            *)
(***************************************************************************)
EXTENDS Integers, Sequences, FiniteSets, SequencesExt

CONSTANTS Numbers,   \* sequence numbers
          IntRange   \* half of the values of an int

VARIABLE root

Empty == << >>
Node(elems, kids, counts) == [elems |-> elems, kids |-> kids, counts |-> counts]
IsLeaf(n) == n.kids = << >>
Sum(s) == FoldLeft(LAMBDA a, b : a + b, 0, s)
countnode234(n) == Sum(n.counts) + Len(n.elems)
\* The difference of two sequence numbers is returned as an int: in a window that
\* spans half of its values or more, the order of two entries is not theirs.
reusecmp(a, b) == ((a - b + IntRange) % (2 * IntRange)) - IntRange

WithKid(n, k, kid) == [n EXCEPT !.kids[k] = kid, !.counts[k] = countnode234(kid)]

\* How many entries of a node are before e.
Before(n, e) == CHOOSE k \in 0 .. Len(n.elems) :
                   /\ \A j \in 1 .. k : reusecmp(e, n.elems[j]) > 0
                   /\ k < Len(n.elems) => reusecmp(e, n.elems[k + 1]) <= 0
IsHere(n, e) == Before(n, e) < Len(n.elems) /\ reusecmp(e, n.elems[Before(n, e) + 1]) = 0
\* How many entries are in front of child k.
Skipped(n, k) == (IF IsLeaf(n) THEN 0 ELSE Sum(SubSeq(n.counts, 1, k))) + k

-----------------------------------------------------------------------------
(* Searching. *)

RECURSIVE find(_, _, _)
find(n, e, idx) ==
    LET k == Before(n, e)
    IN  IF IsHere(n, e) THEN idx + Skipped(n, k) + (IF IsLeaf(n) THEN 0 ELSE n.counts[k + 1])
        ELSE IF IsLeaf(n) THEN -1
        ELSE find(n.kids[k + 1], e, idx + Skipped(n, k))
\* The position of an entry, from 0, or -1.
findrelpos234(e) == IF root = Empty THEN -1 ELSE find(root, e, 0)

\* Where position i is: in which child, or which entry is it.
ChildAt(n, i) == {k \in DOMAIN n.kids : Skipped(n, k - 1) <= i /\ i < Skipped(n, k - 1) + n.counts[k]}
EntryAt(n, i) == CHOOSE k \in DOMAIN n.elems : i = Skipped(n, k) - 1

RECURSIVE index(_, _)
index(n, i) == IF ChildAt(n, i) = {} THEN n.elems[EntryAt(n, i)]
               ELSE LET k == CHOOSE x \in ChildAt(n, i) : TRUE IN index(n.kids[k], i - Skipped(n, k - 1))
index234(i) == index(root, i)

-----------------------------------------------------------------------------
(* Adding. *)

\* The entry, with the children beside it, comes to place p of the node; a node
\* that has four is split, the first one gets two.
Put(n, p, e, beside) ==
    LET Beside(s, new) == IF IsLeaf(n) THEN << >> ELSE SubSeq(s, 1, p) \o new \o SubSeq(s, p + 2, Len(s))
    IN  Node(InsertAt(n.elems, p + 1, e), Beside(n.kids, beside), Beside(n.counts, [k \in DOMAIN beside |-> countnode234(beside[k])]))
Half(n, from, to) == Node(SubSeq(n.elems, from, to),
                          IF IsLeaf(n) THEN << >> ELSE SubSeq(n.kids, from, to + 1),
                          IF IsLeaf(n) THEN << >> ELSE SubSeq(n.counts, from, to + 1))
\* What takes the place of a node: itself, or two with an entry between them.
Parts(n) == IF Len(n.elems) < 4 THEN [up |-> << >>, nodes |-> <<n>>]
            ELSE [up |-> <<n.elems[3]>>, nodes |-> <<Half(n, 1, 2), Half(n, 4, 4)>>]

RECURSIVE insert(_, _)
insert(n, e) ==
    LET p == Before(n, e)
    IN  IF IsLeaf(n) THEN Parts(Put(n, p, e, << >>))
        ELSE LET below == insert(n.kids[p + 1], e)
             IN  IF below.up # << >> THEN Parts(Put(n, p, below.up[1], below.nodes))
                 ELSE Parts(WithKid(n, p + 1, below.nodes[1]))

add234(e) ==
    LET r == insert(root, e)
    IN  IF root = Empty THEN Node(<<e>>, << >>, << >>)
        ELSE IF findrelpos234(e) # -1 THEN root
        ELSE IF r.up = << >> THEN r.nodes[1]
        ELSE Node(r.up, r.nodes, [k \in 1 .. 2 |-> countnode234(r.nodes[k])])

-----------------------------------------------------------------------------
(* Deleting.  On the way down a child with one entry gets another one, from a *)
(* sibling or from its parent. *)

FirstOf(s) == SubSeq(s, 1, IF s = << >> THEN 0 ELSE 1)
LastOf(s) == IF s = << >> THEN << >> ELSE <<Last(s)>>
Rest(s) == IF s = << >> THEN s ELSE Tail(s)
AllButLast(s) == SubSeq(s, 1, Len(s) - 1)
\* One entry fewer below child k: the counts are decremented, not counted again.
Less(n, k, kid) == [n EXCEPT !.kids[k] = kid, !.counts[k] = @ - 1]

\* Case 3a: child k gets the separating entry and the nearest child of its
\* sibling, which gives its own nearest entry up.
FromLeft(n, k) ==
    LET sib == n.kids[k - 1]
        sub == n.kids[k]
        new == Node(<<n.elems[k - 1]>> \o sub.elems, LastOf(sib.kids) \o sub.kids, LastOf(sib.counts) \o sub.counts)
        rest == Node(AllButLast(sib.elems), AllButLast(sib.kids), AllButLast(sib.counts))
    IN  [WithKid(WithKid(n, k, new), k - 1, rest) EXCEPT !.elems[k - 1] = Last(sib.elems)]
FromRight(n, k) ==
    LET sib == n.kids[k + 1]
        sub == n.kids[k]
        new == Node(sub.elems \o <<n.elems[k]>>, sub.kids \o FirstOf(sib.kids), sub.counts \o FirstOf(sib.counts))
        rest == Node(Tail(sib.elems), Rest(sib.kids), Rest(sib.counts))
    IN  [WithKid(WithKid(n, k, new), k + 1, rest) EXCEPT !.elems[k] = Head(sib.elems)]
\* Cases 3b and 2c: children k and k + 1 and the entry between them are one node.
Merged(n, k) ==
    LET a == n.kids[k]
        b == n.kids[k + 1]
        new == Node(a.elems \o <<n.elems[k]>> \o b.elems, a.kids \o b.kids, a.counts \o b.counts)
    IN  WithKid(Node(RemoveAt(n.elems, k), RemoveAt(n.kids, k + 1), RemoveAt(n.counts, k + 1)), k, new)

RECURSIVE largest(_)
largest(n) == IF IsLeaf(n) THEN Last(n.elems) ELSE largest(Last(n.kids))
RECURSIVE smallest(_)
smallest(n) == IF IsLeaf(n) THEN Head(n.elems) ELSE smallest(Head(n.kids))

Single(n) == Len(n.elems) = 1
\* The node without its entry at position i.  Only the root is entered with one
\* entry; left with none, it hands the root over to its child.
RECURSIVE delete(_, _)
Below(n, k, i) == IF n.elems = << >> THEN delete(n.kids[1], i) ELSE Less(n, k, delete(n.kids[k], i))
\* The mutant keeps the position that was right before the merge.
DescendUnadjusted(n, k, i) ==
    LET LeftRotated == FromLeft(n, k)
    IN  IF ~Single(n.kids[k]) THEN Below(n, k, i - Skipped(n, k - 1))
        ELSE IF k > 1 /\ ~Single(n.kids[k - 1]) THEN Below(LeftRotated, k, i - Skipped(LeftRotated, k - 1))
        ELSE IF k < Len(n.kids) /\ ~Single(n.kids[k + 1]) THEN Below(FromRight(n, k), k, i - Skipped(n, k - 1))
        ELSE LET first == IF k > 1 THEN k - 1 ELSE k IN Below(Merged(n, first), first, i - Skipped(n, k - 1))
Descend(n, k, i) ==
    LET LeftRotated == FromLeft(n, k)
    IN  IF ~Single(n.kids[k]) THEN Below(n, k, i - Skipped(n, k - 1))
        ELSE IF k > 1 /\ ~Single(n.kids[k - 1]) THEN Below(LeftRotated, k, i - Skipped(LeftRotated, k - 1))
        ELSE IF k < Len(n.kids) /\ ~Single(n.kids[k + 1]) THEN Below(FromRight(n, k), k, i - Skipped(n, k - 1))
        ELSE LET first == IF k > 1 THEN k - 1 ELSE k IN Below(Merged(n, first), first, i - Skipped(n, first - 1))
delete(n, i) ==
    LET k == EntryAt(n, i)
    IN  IF ChildAt(n, i) # {} THEN Descend(n, CHOOSE x \in ChildAt(n, i) : TRUE, i)
        ELSE IF IsLeaf(n) THEN [n EXCEPT !.elems = RemoveAt(@, k)]
        ELSE IF ~Single(n.kids[k]) THEN Below([n EXCEPT !.elems[k] = largest(n.kids[k])], k, n.counts[k] - 1)
        ELSE IF ~Single(n.kids[k + 1]) THEN Below([n EXCEPT !.elems[k] = smallest(n.kids[k + 1])], k + 1, 0)
        ELSE Below(Merged(n, k), k, countnode234(n.kids[k]))

delpos234(i) ==
    LET rest == delete(root, i)
    IN  IF rest.elems = << >> THEN Empty ELSE rest

-----------------------------------------------------------------------------
Init == root = Empty
Add(e) == root' = add234(e)
RemovePosition(i) == root' = delpos234(i)
Next == \/ \E e \in Numbers : Add(e)
        \/ root # Empty /\ \E i \in 0 .. countnode234(root) - 1 : RemovePosition(i)
Spec == Init /\ [][Next]_root

-----------------------------------------------------------------------------
(* Properties. *)

RECURSIVE Entries(_)
Entries(n) == IF IsLeaf(n) THEN n.elems
              ELSE FlattenSeq([k \in DOMAIN n.elems |-> Append(Entries(n.kids[k]), n.elems[k])]) \o Entries(Last(n.kids))
RECURSIVE Depths(_)
Depths(n) == IF IsLeaf(n) THEN {0} ELSE {d + 1 : d \in UNION {Depths(n.kids[k]) : k \in DOMAIN n.kids}}
RECURSIVE Counted(_)
Counted(n) == /\ Len(n.elems) \in 1 .. 3
              /\ ~IsLeaf(n) => /\ Len(n.kids) = Len(n.elems) + 1
                               /\ \A k \in DOMAIN n.kids : n.counts[k] = Len(Entries(n.kids[k])) /\ Counted(n.kids[k])

Window(tree) == IF tree = Empty THEN << >> ELSE Entries(tree)
With(s, e) == SelectSeq(s, LAMBDA x : x < e) \o <<e>> \o SelectSeq(s, LAMBDA x : x > e)

\* Whatever was added and removed before, in whatever order, the tree is a sorted
\* sequence: an entry that is added comes to its place, and the one that goes is
\* the one at the position asked for, through every split, rotation and merge.
KeepsTheWindow ==
    /\ \A e \in Numbers : Window(add234(e)) = With(Window(root), e)
    /\ \A i \in DOMAIN Window(root) : Window(delpos234(i - 1)) = RemoveAt(Window(root), i)

\* The tree is a 2-3-4 tree, all of whose leaves are equally deep, and its counts
\* are right, so that each entry is found, at its position, from both sides.
Balanced == root # Empty =>
    /\ Counted(root) /\ Cardinality(Depths(root)) = 1
    /\ LET entries == Entries(root)
       IN  \A i \in DOMAIN entries : findrelpos234(entries[i]) = i - 1 /\ index234(i - 1) = entries[i]
=============================================================================
