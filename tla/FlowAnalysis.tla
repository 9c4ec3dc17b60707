---------------------------- MODULE FlowAnalysis ----------------------------
(***************************************************************************)
(* The analysis of one function: disassembly by recursive descent          *)
(* (Function::digestRecursive) or, when that fails, in a line              *)
(* (TextObject::digestLinear), the control flow graph (Function::          *)
(* generateCFG, FlowGraph::connectGraph), dominators, live registers       *)
(* (FlowGraph::computeLiveness), loops, and the distance from a definition *)
(* to its nearest use (FlowGraph::computeDefUseDist).                      *)
(*                                                                         *)
(* The function occupies the addresses 1 .. Size; text says what           *)
(* instruction the disassembler finds at each of them: its kind and size,  *)
(* its targets (one for a branch or a call, the entries of its table for   *)
(* an indirect jump) and the locations it uses and defines.                *)
(***************************************************************************)
EXTENDS Integers, Sequences, FiniteSets, SequencesExt, FiniteSetsExt

CONSTANTS Texts,        \* the functions to analyse
          Registers,    \* the registers, flags excluded
          Flags,
          Memory,       \* the registers that address a memory operand, a function
          Size          \* sizeInBytes

VARIABLES text, phase, instrs, unprocessed, bad, graph, idom, live, loops, du
vars == <<text, phase, instrs, unprocessed, bad, graph, idom, live, loops, du>>

LT == INSTANCE LengauerTarjan
LP == INSTANCE Loops
PQ == INSTANCE PriorityQueue

Outside == 0
InRange(a) == a \in 1 .. Size
Kind(a) == text[a].kind
isBranch(a) == Kind(a) \in {"jump", "branch", "table"}
usesControlTarget(a) == Kind(a) \in {"jump", "branch", "call", "syscall", "table"}
isCall(a) == Kind(a) \in {"call", "syscall"}
isControl(a) == usesControlTarget(a) \/ Kind(a) = "return"
controlFallsThrough(a) == Kind(a) \notin {"halt", "return", "jump", "table"}

\* getSizeInBytes: an instruction that exceeds the function is cut.
SizeAt(a) == Min({text[a].size, Size + 1 - a})
NextAddr(a) == a + SizeAt(a)

\* getTargetAddress of anything but a branch or a call, a return included, is
\* the address behind it.
TargetAddress(a) == CASE Kind(a) \in {"jump", "branch", "call"} -> text[a].targets[1]
                      [] Kind(a) \in {"table", "syscall"} -> Outside
                      [] OTHER -> NextAddr(a)

\* The instruction that covers an address, as the binary search finds it.
Covering(found, a) == {i \in found : i <= a /\ a < i + text[i].size}

Init == /\ text \in Texts
        /\ phase = "recursive" /\ instrs = {} /\ unprocessed = <<1>> /\ bad = FALSE
        /\ graph = << >> /\ idom = << >> /\ live = << >> /\ loops = << >> /\ du = << >>

-----------------------------------------------------------------------------
(* Disassembly. *)

\* An indirect jump without entries is one whose table was not found.
ControlTargets(a) == CASE Kind(a) = "table" -> text[a].targets
                       [] usesControlTarget(a) /\ Kind(a) # "table" -> <<TargetAddress(a)>>
                       [] OTHER -> << >>

\* The fall-through is pushed first, so that a target is followed before it.
Pushed(a, found) ==
    LET next == a + text[a].size
        falls == Covering(found, next) = {} /\ controlFallsThrough(a)
        new(t) == Covering(found, t) = {} /\ InRange(t) /\ ~(falls /\ t = next)
    IN  (IF falls THEN <<next>> ELSE << >>) \o SelectSeq(ControlTargets(a), new)

\* Something jumps or falls into the middle of an instruction.
Enters(a, found) ==
    \E t \in {a + text[a].size} \cup Range(ControlTargets(a)) : Covering(found, t) \notin {{}, {t}}

Bad(a) == Kind(a) = "invalid" \/ (Kind(a) = "table" /\ text[a].targets = << >>)

\* One turn of the loop of digestRecursive.  An address that was pushed and
\* that an instruction found since covers with its middle fails an assertion.
digestRecursive ==
    /\ phase = "recursive" /\ unprocessed # << >> /\ ~bad
    /\ LET a == Last(unprocessed)
           rest == Front(unprocessed)
           covering == Covering(instrs, a)
           found == instrs \cup {a}
       IN  IF covering # {}
           THEN /\ phase' = IF covering = {a} THEN phase ELSE "aborted"
                /\ unprocessed' = rest
                /\ UNCHANGED <<instrs, bad>>
           ELSE /\ unprocessed' = IF InRange(a) THEN rest \o Pushed(a, found) ELSE rest
                /\ instrs' = IF InRange(a) THEN found ELSE instrs
                /\ bad' = (InRange(a) /\ (Bad(a) \/ Enters(a, found)))
                /\ UNCHANGED phase
    /\ UNCHANGED <<text, graph, idom, live, loops, du>>

Overlap(found) == \E i, j \in found : i < j /\ j < i + text[i].size

EndRecursive ==
    /\ phase = "recursive" /\ (unprocessed = << >> \/ bad)
    /\ bad' = (bad \/ Overlap(instrs))
    /\ phase' = IF bad' THEN "linear" ELSE "graph"
    /\ UNCHANGED <<text, instrs, unprocessed, graph, idom, live, loops, du>>

LinearFrom[a \in 1 .. Size + 1] == IF a > Size THEN {} ELSE {a} \cup LinearFrom[NextAddr(a)]
digestLinear ==
    /\ phase = "linear"
    /\ instrs' = LinearFrom[1]
    /\ phase' = "graph"
    /\ UNCHANGED <<text, unprocessed, bad, graph, idom, live, loops, du>>

-----------------------------------------------------------------------------
(* The control flow graph. *)

\* Targets, and what follows control; an address inside an instruction makes
\* the instruction a leader.
Leaders ==
    {1} \cup UNION {{i \in instrs : i <= t /\ t < NextAddr(i)} :
        t \in UNION {Range(ControlTargets(a)) \cup {NextAddr(a)} : a \in {b \in instrs : isControl(b)}}}

\* Blocks are sequences of addresses, in the order of their leaders.
BasicBlocks ==
    LET order == SetToSortSeq(instrs, <)
        heads == SetToSortSeq(Leaders, <)
    IN  [b \in DOMAIN heads |-> SelectSeq(order, LAMBDA a :
            heads[b] <= a /\ (b < Len(heads) => a < heads[b + 1]))]

BlockBegin(blocks, b) == blocks[b][1]
BlockEnd(blocks, b) == NextAddr(Last(blocks[b]))

\* Only the edge to the target (a mistake to compare with).
JumpBlocks(blocks, b) ==
    SelectSeq([c \in DOMAIN blocks |-> c], LAMBDA c : BlockBegin(blocks, c) = TargetAddress(Last(blocks[b])))

\* An edge to the block behind, unless that is also the target, and then an
\* edge to the block at the target address.
TargetBlocks(blocks, b) ==
    LET exit == Last(blocks[b])
        falls == /\ controlFallsThrough(exit) /\ b < Len(blocks)
                 /\ TargetAddress(exit) # BlockBegin(blocks, b + 1)
    IN  (IF falls THEN <<b + 1>> ELSE << >>)
        \o SelectSeq([c \in DOMAIN blocks |-> c], LAMBDA c :
              InRange(TargetAddress(exit)) /\ BlockBegin(blocks, c) = TargetAddress(exit))

\* The sources of a block, in the order in which its edges were found.
SourceBlocks(targets, b) == SelectSeq([c \in DOMAIN targets |-> c], LAMBDA c : b \in Range(targets[c]))

connectGraph(blocks) ==
    LET targets == [b \in DOMAIN blocks |-> TargetBlocks(blocks, b)]
        sources == [b \in DOMAIN blocks |-> SourceBlocks(targets, b)]
        edges == [targets |-> targets, sources |-> sources]
    IN  [blocks |-> blocks, targets |-> targets, sources |-> sources,
         unreachable |-> DOMAIN blocks \ LP!Search(edges, 1).visited]

\* What no block covers, as <<first, behind>>.
RawBlocks(blocks) ==
    {<<BlockEnd(blocks, b), BlockBegin(blocks, b + 1)>> : b \in {c \in 1 .. Len(blocks) - 1 :
            BlockEnd(blocks, c) < BlockBegin(blocks, c + 1)}}
    \cup {gap \in {<<BlockEnd(blocks, Len(blocks)), Size + 1>>} : gap[1] < gap[2]}

NotLive(is) == [a \in is |-> {}]

generateCFG ==
    /\ phase = "graph"
    /\ graph' = connectGraph(BasicBlocks)
    /\ idom' = LT!immediateDominators(graph', 1)
    /\ live' = [in |-> NotLive(instrs), out |-> NotLive(instrs), changed |-> TRUE]
    /\ phase' = "liveness"
    /\ UNCHANGED <<text, instrs, unprocessed, bad, loops, du>>

-----------------------------------------------------------------------------
(* Live registers and flags. *)

AddressRegs(locations) == UNION {Memory[l] : l \in locations \cap DOMAIN Memory}

\* A branch out of the function uses what its operands say (a mistake to
\* compare with).
UsedByOperands(a) == (text[a].uses \ DOMAIN Memory) \cup AddressRegs(text[a].uses \cup text[a].defs)
getRegistersUsed(a) ==
    IF isBranch(a) /\ ~InRange(TargetAddress(a)) THEN Registers \cup Flags
    ELSE (text[a].uses \ DOMAIN Memory) \cup AddressRegs(text[a].uses \cup text[a].defs)
getRegistersDefined(a) == text[a].defs \ DOMAIN Memory

BlockOf(g, a) == CHOOSE b \in DOMAIN g.blocks : a \in Range(g.blocks[b])
Successors(g, a) ==
    LET b == BlockOf(g, a)
        block == g.blocks[b]
    IN  IF a = Last(block) THEN {g.blocks[c][1] : c \in Range(g.targets[b])}
        ELSE {block[SelectInSeq(block, LAMBDA x : x = a) + 1]}

\* One pass over the instructions, from the last to the first.
Sweep(l, a) ==
    LET out == l.out[a] \cup UNION {l.in[s] : s \in Successors(graph, a)}
    IN  [l EXCEPT !.out[a] = out, !.in[a] = getRegistersUsed(a) \cup (out \ getRegistersDefined(a))]

computeLiveness ==
    /\ phase = "liveness"
    /\ LET order == SetToSortSeq(instrs, >)
           swept == FoldLeft(Sweep, live, order)
           changed == swept.in # live.in \/ swept.out # live.out
       IN  /\ live' = [swept EXCEPT !.changed = changed]
           /\ phase' = IF changed THEN phase ELSE "loops"
    /\ UNCHANGED <<text, instrs, unprocessed, bad, graph, idom, loops, du>>

\* The same on both sides of an instruction (a mistake to compare with).
DeadInFront(p) == (Registers \cup Flags) \ live.in[p[1]]
\* A position is <<instruction, side>>: 0 in front of it, 1 behind it.
DeadAt(p) == (Registers \cup Flags) \ (IF p[2] = 0 THEN live.in[p[1]] ELSE live.out[p[1]])

\* BasicBlock::findBestInstPoint: with the flags dead if that is possible, and
\* then the first position with the most dead registers; the entry block is
\* instrumented at its end.
findBestInstPoint(b, valid, attendFlags) ==
    LET block == graph.blocks[b]
        exit == Last(block)
        open == IF isControl(exit) THEN Front(block) ELSE block
        positions == [i \in 1 .. 2 * Len(open) |-> <<open[(i + 1) \div 2], (i + 1) % 2>>]
        quiet == IF attendFlags THEN {i \in DOMAIN positions : Flags \subseteq DeadAt(positions[i])} ELSE {}
        allowed == IF quiet = {} THEN DOMAIN positions ELSE quiet
        dead(i) == Cardinality(DeadAt(positions[i]) \cap valid)
        most == {i \in allowed : dead(i) > 0 /\ \A j \in allowed : dead(j) <= dead(i)}
    IN  CASE b = 1 -> <<exit, IF isControl(exit) THEN 0 ELSE 1>>
          [] b # 1 /\ most # {} -> positions[Min(most)]
          [] b # 1 /\ most = {} /\ quiet # {} -> positions[Max(quiet)]
          [] OTHER -> <<block[1], 0>>

\* Function::findDeadRegs
findDeadRegs == Registers \ UNION {live.in[a] \cup live.out[a] : a \in instrs}

-----------------------------------------------------------------------------
(* Loops. *)
FindLoops ==
    /\ phase = "loops"
    /\ loops' = LP!buildLoops(graph, idom, {b \in DOMAIN graph.blocks : isCall(Last(graph.blocks[b]))})
    /\ du' = [a \in instrs |-> [dist |-> 0, xiter |-> FALSE]]
    /\ phase' = "defuse"
    /\ UNCHANGED <<text, instrs, unprocessed, bad, graph, idom, live>>

-----------------------------------------------------------------------------
(* Distances from a definition to its nearest use. *)

\* ReachingDefinition::invalidatedBy
InvalidatedBy(l, other) == l = other \/ (l \in DOMAIN Memory /\ other \in Memory[l])
getDefs(a) == text[a].defs \ Flags
getUses(a) == text[a].uses \ Flags
anyDefsAreUsed(defs, a) == \E d \in defs, u \in getUses(a) : InvalidatedBy(u, d)
removeInvalidated(defs, a) == {d \in defs : \A e \in getDefs(a) : ~InvalidatedBy(d, e)}

InScope(b, scope) == scope = << >> \/ b \in scope.blocks
Leader(b) == graph.blocks[b][1]
LoopLeader(scope) == IF scope = << >> THEN Outside ELSE Leader(scope.head)
Fcnt == Cardinality(instrs)

\* The head of the loop is like any block (a mistake to compare with).
EnterAny(s, b, defs, dist, scope) ==
    IF b \in s.touched \/ ~InScope(b, scope) THEN s
    ELSE [s EXCEPT !.touched = @ \cup {b}, !.paths = PQ!insert(@, [ins |-> Leader(b), defs |-> defs], dist + 1)]

\* A path that enters the head of the loop again is longer by the function.
Enter(s, b, defs, dist, scope) ==
    IF b \in s.touched \/ ~InScope(b, scope) THEN s
    ELSE [s EXCEPT !.touched = @ \cup {b},
                   !.paths = PQ!insert(@, [ins |-> Leader(b), defs |-> defs],
                                       IF Leader(b) = LoopLeader(scope) THEN dist + 1 + Fcnt ELSE dist + 1)]

FollowTarget(s, cand, defs, dist, scope) ==
    IF usesControlTarget(cand) /\ ~isCall(cand) /\ TargetAddress(cand) \in instrs
    THEN Enter(s, BlockOf(graph, TargetAddress(cand)), defs, dist, scope) ELSE s

FollowFallThrough(s, cand, defs, dist, scope) ==
    LET next == NextAddr(cand)
        b == BlockOf(graph, next)
    IN  IF ~controlFallsThrough(cand) \/ next \notin instrs THEN s
        ELSE IF next = Leader(b) THEN Enter(s, b, defs, dist, scope)
        ELSE IF InScope(b, scope) THEN [s EXCEPT !.paths = PQ!insert(@, [ins |-> next, defs |-> defs], dist + 1)]
        ELSE s

trueDefUseDist(d) == IF d > Fcnt THEN d - Fcnt ELSE d

\* The paths of the queue, shortest first, until none is left or a use is
\* found that lies behind the head of the loop.
RECURSIVE FollowPaths(_, _)
FollowPaths(s, scope) ==
    IF s.paths = << >> THEN s
    ELSE LET dist == s.paths[1].prio
             p == s.paths[1].data
             t == [s EXCEPT !.paths = PQ!deleteMin(@)]
             true == trueDefUseDist(dist)
             near == IF s.dist = 0 \/ s.dist > true THEN true ELSE s.dist
             defs == removeInvalidated(p.defs, p.ins)
         IN  IF anyDefsAreUsed(p.defs, p.ins)
             THEN IF dist > Fcnt THEN [t EXCEPT !.dist = near, !.xiter = TRUE]
                  ELSE FollowPaths([t EXCEPT !.dist = near], scope)
             ELSE IF defs = {} THEN FollowPaths(t, scope)
             ELSE FollowPaths(FollowFallThrough(FollowTarget(t, p.ins, defs, dist, scope),
                                                p.ins, defs, dist, scope), scope)

\* What a use behind the head leaves in the queue costs the result.
singleDefUse(result, a, scope) ==
    LET b == BlockOf(graph, a)
        start == IF a # Last(graph.blocks[b])
                 THEN <<[prio |-> 1, data |-> [ins |-> CHOOSE n \in Successors(graph, a) : TRUE, defs |-> getDefs(a)]]>>
                 ELSE [i \in 1 .. Cardinality({c \in Range(graph.targets[b]) : InScope(c, scope)}) |->
                        [prio |-> 1, data |-> [ins |-> Leader(graph.targets[b][1]), defs |-> getDefs(a)]]]
        s == FollowPaths([paths |-> start, touched |-> {}, dist |-> result[a].dist, xiter |-> result[a].xiter], scope)
    IN  [result EXCEPT ![a] = [dist |-> IF s.paths # << >> THEN 0 ELSE s.dist, xiter |-> s.xiter]]

\* The instructions that can define something.
Defining(bs) == SelectSeq(SetToSortSeq(instrs, <), LAMBDA a :
                    BlockOf(graph, a) \in bs /\ Kind(a) = "op" /\ getDefs(a) # {})

\* Every loop that contains it, and the whole function for what is in none.
computeDefUseDist ==
    /\ phase = "defuse"
    /\ LET InLoop(result, l) == FoldLeft(LAMBDA r, a : singleDefUse(r, a, l), result, Defining(l.blocks))
           alone == {b \in DOMAIN graph.blocks : ~LP!isBlockInLoop(loops, b)}
       IN  du' = FoldLeft(LAMBDA r, a : singleDefUse(r, a, << >>), FoldLeft(InLoop, du, loops), Defining(alone))
    /\ phase' = "done"
    /\ UNCHANGED <<text, instrs, unprocessed, bad, graph, idom, live, loops>>

Finished == phase \in {"done", "aborted"} /\ UNCHANGED vars

-----------------------------------------------------------------------------
(* What the static file of a tool says, with a row for every block or, in  *)
(* the other form, for every instruction.                                  *)

getMemoryOps(as) == {a \in as : (text[a].uses \cup text[a].defs) \cap DOMAIN Memory # {}}
BlockHeading ==
    LET Add(total, block) == [insns |-> total.insns + Len(block),
                              memops |-> total.memops + Cardinality(getMemoryOps(Range(block)))]
    IN  FoldLeft(Add, [insns |-> 0, memops |-> 0], graph.blocks)
InstructionHeading == [insns |-> Cardinality(instrs), memops |-> Cardinality(getMemoryOps(instrs))]

\* +lpi and +lpc.  loc tells the first block (or instruction) of the
\* innermost loop, 1, from the last one, 2, and from the others.
NoLoop == [id |-> 0, depth |-> 0, loc |-> 0, head |-> Outside, parent |-> Outside]
LoopRow(b, first, last) ==
    LET i == LP!getInnermostLoopForBlock(loops, b)
    IN  IF i = 0 THEN NoLoop
        ELSE [id |-> i, depth |-> LP!getLoopDepth(loops, b),
              loc |-> CASE loops[i].head = b /\ first -> 1
                        [] loops[i].head # b /\ loops[i].tail = b /\ last -> 2
                        [] OTHER -> 0,
              head |-> Leader(loops[i].head), parent |-> Leader(loops[LP!getParentLoop(loops, i)].head)]

getDefXIter(b) == Cardinality({a \in Range(graph.blocks[b]) : du[a].xiter})

\* dud: how often each distance occurs; dxi: how many definitions are used in
\* a later iteration; ipa: what a call at the end calls.
BlockRow(b) ==
    LET body == Range(graph.blocks[b])
        exit == Last(graph.blocks[b])
        idist(d) == Cardinality({a \in body : du[a].dist = d})
    IN  [loop |-> LoopRow(b, TRUE, TRUE),
         dud |-> {<<d, idist(d)>> : d \in {du[a].dist : a \in body} \ {0}},
         dxi |-> getDefXIter(b),
         call |-> isCall(exit), ipa |-> IF isCall(exit) THEN TargetAddress(exit) ELSE Outside]
InstructionRow(a) ==
    LET b == BlockOf(graph, a)
    IN  [loop |-> LoopRow(b, a = Leader(b), a = Last(graph.blocks[b])),
         dud |-> {<<d, 1>> : d \in {du[a].dist} \ {0}},
         dxi |-> IF du[a].xiter THEN 1 ELSE 0,
         call |-> isCall(a), ipa |-> IF isCall(a) THEN TargetAddress(a) ELSE Outside]

Next == \/ digestRecursive
        \/ EndRecursive
        \/ digestLinear
        \/ generateCFG
        \/ computeLiveness
        \/ FindLoops
        \/ computeDefUseDist
        \/ Finished

Spec == Init /\ [][Next]_vars

-----------------------------------------------------------------------------
(* What the program does, instruction by instruction. *)
Steps(a) == (IF controlFallsThrough(a) THEN {NextAddr(a)} ELSE {})
            \cup (IF Kind(a) \in {"jump", "branch"} THEN {TargetAddress(a)} ELSE {})
RealSteps(a) == {t \in Steps(a) \cup (IF Kind(a) = "table" THEN Range(text[a].targets) ELSE {}) : InRange(t)}
Complete == ~bad /\ phase \notin {"recursive", "aborted", "linear", "graph"}

\* What can be reached from the members of S.
Closure(S, Step(_)) ==
    LET RECURSIVE Reached(_)
        Reached(R) == LET T == R \cup UNION {Step(x) : x \in R} IN IF T = R THEN R ELSE Reached(T)
    IN  Reached(S)

\* Of a function that was disassembled completely: every address that control
\* reaches is an instruction; blocks and raw bytes tile the function; control
\* enters a block only at its leader and along an edge of the graph, except
\* from an indirect jump, and leaves it only at its end.
GraphCoversControl ==
    Complete /\ phase = "liveness" =>
        /\ Closure({1}, RealSteps) = instrs
        /\ LET extents == {<<BlockBegin(graph.blocks, b), BlockEnd(graph.blocks, b)>> : b \in DOMAIN graph.blocks}
                              \cup RawBlocks(graph.blocks)
           IN  \A a \in 1 .. Size : Cardinality({e \in extents : e[1] <= a /\ a < e[2]}) = 1
        /\ \A a \in instrs : \A t \in RealSteps(a) :
              \/ t \in Successors(graph, a)
              \/ Kind(a) = "table" /\ t = Leader(BlockOf(graph, t))

\* d is on every path from the entry to b.
Dominates(d, b) ==
    b \notin Closure({1} \ {d}, LAMBDA x : Range(graph.targets[x]) \ {d})

\* isDominatedBy agrees with the definition of dominance on every pair of
\* reachable blocks, for the graph that connectGraph built.
DominatorsRight ==
    phase = "liveness" =>
        \A b \in DOMAIN graph.blocks \ graph.unreachable : \A d \in DOMAIN graph.blocks \ graph.unreachable :
            LP!isDominatedBy(idom, b, d) <=> Dominates(d, b)

\* A register or flag that is read on some path of the program before it is
\* written is live, in front of every instruction and behind it: nothing that
\* an inserted piece of code may overwrite is needed.
ReadLater(a, r) ==
    \E b \in Closure({a}, LAMBDA x : IF r \in getRegistersDefined(x) THEN {} ELSE RealSteps(x)) :
        r \in getRegistersUsed(b)
LivenessSafe ==
    Complete /\ phase = "loops" =>
        \A a \in instrs : \A r \in Registers \cup Flags :
            /\ ReadLater(a, r) => r \in live.in[a]
            /\ (\E b \in RealSteps(a) : ReadLater(b, r)) => r \in live.out[a] \cup IF Kind(a) = "table" THEN {r} ELSE {}

\* For every edge to a block that dominates its source there is one loop, and
\* no other, unless the source ends with a call; the loop is what reaches its
\* tail without passing its head, and loops are ordered by their heads.
LoopsAreNatural ==
    phase = "defuse" =>
        LET reachable == DOMAIN graph.blocks \ graph.unreachable
            back == {<<h, t>> \in reachable \X reachable :
                        h \in Range(graph.targets[t]) /\ Dominates(h, t) /\ ~isCall(Last(graph.blocks[t]))}
        IN  /\ {<<loops[i].head, loops[i].tail>> : i \in DOMAIN loops} = back
            /\ Len(loops) = Cardinality(back)
            /\ \A i, j \in DOMAIN loops : i < j => loops[i].head <= loops[j].head
            /\ \A i \in DOMAIN loops : \A b \in DOMAIN graph.blocks :
                  b \in loops[i].blocks <=>
                      \/ b = loops[i].head
                      \/ loops[i].tail \in Closure({b} \ {loops[i].head}, LAMBDA x : Range(graph.targets[x]) \ {loops[i].head})

\* Loops with different heads nest: the depth of a block is the number of
\* loops around it, the parent of a loop is the smallest loop around it, and
\* its outermost loop is the first one around it, by the address of the head.
LoopsNest ==
    phase = "defuse" /\ graph.unreachable = {} /\ (\A i, j \in DOMAIN loops : loops[i].head = loops[j].head => i = j) =>
        /\ \A b \in DOMAIN graph.blocks :
              LP!getLoopDepth(loops, b) = Cardinality({i \in DOMAIN loops : b \in loops[i].blocks})
        /\ \A i \in DOMAIN loops :
              LET around == {j \in DOMAIN loops \ {i} : loops[i].blocks \subseteq loops[j].blocks}
                  p == LP!getParentLoop(loops, i)
              IN  IF around = {} THEN p = i
                  ELSE p \in around /\ \A j \in around : loops[p].blocks \subseteq loops[j].blocks
        /\ \A i \in DOMAIN loops :
              LET o == LP!getOuterMostLoopForLoop(loops, i)
              IN  loops[i].blocks \subseteq loops[o].blocks /\ \A j \in 1 .. o - 1 : ~(loops[i].blocks \subseteq loops[j].blocks)

\* From the rows of the static file, by the heads and the parent heads alone,
\* a reader finds the loops around a block: the head of a loop has the row of
\* that loop, and each parent is one level up, until a loop is its own.
RowsNest ==
    phase = "done" /\ graph.unreachable = {} /\ (\A i, j \in DOMAIN loops : loops[i].head = loops[j].head => i = j) =>
        LET rows == [a \in instrs |-> InstructionRow(a).loop]
        IN  \A a \in instrs :
            LET row == rows[a]
                head == rows[row.head]
                parent == rows[row.parent]
            IN  /\ row.depth = 0 => \A i \in DOMAIN loops : BlockOf(graph, a) \notin loops[i].blocks
                /\ row.depth > 0 => /\ head.loc = 1 /\ head.id = row.id /\ parent.head = row.parent
                                    /\ parent.depth = (IF row.depth = 1 THEN 1 ELSE row.depth - 1)
                                    /\ row.depth = 1 <=> row.parent = row.head

\* What buildLoops finds: natural loops, that nest.
LoopsRight == DominatorsRight /\ LoopsAreNatural /\ LoopsNest /\ RowsNest

\* Where flags can be dead in a block, the best point is one where no flag is
\* read later, and none such has more registers that are dead.
BestPointIsBest ==
    Complete /\ phase = "loops" =>
        \A b \in DOMAIN graph.blocks \ {1} :
            LET p == findBestInstPoint(b, Registers, TRUE)
                body == {a \in Range(graph.blocks[b]) : ~isControl(a)}
                good == {q \in body \X {0, 1} : Flags \subseteq DeadAt(q)}
            IN  good # {} =>
                    /\ \A r \in DeadAt(p) : \A a \in (IF p[2] = 0 THEN {p[1]} ELSE RealSteps(p[1])) : ~ReadLater(a, r)
                    /\ Flags \subseteq DeadAt(p)
                    /\ \A q \in good : Cardinality(DeadAt(q)) <= Cardinality(DeadAt(p))

\* The steps from a definition to the nearest use of it that no other
\* definition precedes, within a loop or the function; 0 if there is none.
\* Within an iteration a path does not enter the head of the loop, except by
\* its first step, which the code does not look at.
FlowIn(a, scope, again) ==
    {t \in Steps(a) \cap instrs : InScope(BlockOf(graph, t), scope) /\ (again \/ t # LoopLeader(scope))}
Nearest(a, scope, again) ==
    LET front[k \in 1 .. 2 * Fcnt] ==
            IF k = 1 THEN FlowIn(a, scope, TRUE)
            ELSE UNION {FlowIn(x, scope, again) : x \in {y \in front[k - 1] : removeInvalidated(getDefs(a), y) # {}}}
        hits == {k \in DOMAIN front : \E x \in front[k] : anyDefsAreUsed(getDefs(a), x)}
    IN  IF hits = {} THEN 0 ELSE Min(hits)

\* The distance of an instruction with one definition is that of its nearest
\* use in the same iteration of the loops around it or, outside loops, in the
\* function; it is marked when there is a use in a later iteration that is
\* nearer or the only one, and then the distance may be lost but is not wrong.
UseIsNearest ==
    phase = "done" =>
        \A a \in {x \in instrs : Kind(x) = "op" /\ Cardinality(getDefs(x)) = 1} :
            LET around == {l \in Range(loops) : BlockOf(graph, a) \in l.blocks}
                scopes == IF around = {} THEN {<< >>} ELSE around
                near == {Nearest(a, l, TRUE) : l \in scopes} \ {0}
                same == {Nearest(a, l, FALSE) : l \in scopes} \ {0}
            IN  IF du[a].xiter
                THEN /\ near # {}
                     /\ du[a].dist # 0 => du[a].dist >= Min(near) /\ \A d \in same : du[a].dist <= d
                ELSE /\ du[a].dist = (IF same = {} THEN 0 ELSE Min(same))
                     /\ same = {} => near = {}

\* The two forms of the static file agree: the row of a block sums up the rows
\* of its instructions, of which one bears its mark, and the headings agree.
RowsAgree ==
    phase = "done" =>
        /\ BlockHeading = InstructionHeading
        /\ \A b \in DOMAIN graph.blocks :
              LET row == BlockRow(b)
                  body == Range(graph.blocks[b])
                  rows == [a \in body |-> InstructionRow(a)]
                  marked == {a \in body : rows[a].loop = row.loop}
              IN  /\ row.dud = {<<d, Cardinality({a \in body : rows[a].dud = {<<d, 1>>}})>> :
                                    d \in UNION {{entry[1] : entry \in rows[a].dud} : a \in body}}
                  /\ row.dxi = Cardinality({a \in body : rows[a].dxi = 1})
                  /\ \A a \in body : rows[a].call => row.call /\ rows[a].ipa = row.ipa
                  /\ IF row.loop.loc = 0 THEN marked = body ELSE Cardinality(marked) = 1

\* The distances are right, and the rows of the static file report them.
DefUseIsNearest == UseIsNearest /\ RowsAgree
=============================================================================
