----------------------------- MODULE ToolPoints -----------------------------
(***************************************************************************)
(* What the tools attach to a function that was analysed: the points of    *)
(* BasicBlockCounter, FunctionCounter, FunctionTimer, LoopIntercept,       *)
(* TauFunctionTrace and CacheSimulation, and what their events add up to   *)
(* while the function runs.                                                *)
(*                                                                         *)
(* A point is [place, x, row, add]: its code runs "prior" to instruction   *)
(* x, "after" instruction x when control goes on to the next one, or on    *)
(* the "edge" x = <<source, target>>, in a block that the rewriter puts    *)
(* there, and adds to a row of the tool.  Control is followed instruction  *)
(* by instruction, as the processor does, not along the graph.             *)
(***************************************************************************)
EXTENDS FlowAnalysis

VARIABLES tool,    \* which tool
          wanted,  \* the blocks its input file lists
          plan,    \* [rows, points]: what the tool sets up
          at,      \* the instruction that is next; 0 outside the function
          count    \* row -> what its events added up to, less what they stand for
toolVars == <<tool, wanted, plan, at, count>>

Blocks == DOMAIN graph.blocks
Exit(b) == Last(graph.blocks[b])
Adjacent(b, c) == BlockEnd(graph.blocks, b) = Leader(c)
endsWithReturn(b) == Kind(Exit(b)) = "return"
IsMemoryOperation(a) == (text[a].uses \cup text[a].defs) \cap DOMAIN Memory # {}
Ordered(S) == SetToSortSeq(S, <)

Prior(a, row) == [place |-> "prior", x |-> a, row |-> row, add |-> 1]
After(a, row) == [place |-> "after", x |-> a, row |-> row, add |-> 1]
OnEdge(b, c, row) == [place |-> "edge", x |-> <<b, c>>, row |-> row, add |-> 1]
Less(p) == [p EXCEPT !.add = -1]

\* Between two blocks: behind the source if control falls into the target,
\* and otherwise in a block of its own.
Between(b, c, row) == IF Adjacent(b, c) THEN After(Exit(b), row) ELSE OnEdge(b, c, row)

-----------------------------------------------------------------------------
(* BasicBlockCounter and FunctionCounter.  A row is [type, leader, of]: of *)
(* is the block, instruction or loop it is about; leader is what is stored *)
(* in its counter.                                                         *)

\* InstrumentationTool::insertBlockCounter
insertBlockCounter(row, b) ==
    LET best == findBestInstPoint(b, Registers, TRUE)
    IN  IF best[2] = 0 THEN Prior(best[1], row) ELSE After(best[1], row)

\* The innermost loop of every block, but none that has the same blocks as one
\* that is there already.
LoopsFound ==
    LET inner == [b \in Blocks |-> LP!getInnermostLoopForBlock(loops, b)]
        AddNew(s, i) == IF i = 0 \/ \E j \in Range(s) : loops[i].blocks = loops[j].blocks THEN s ELSE Append(s, i)
    IN  FoldLeft(AddNew, << >>, inner)

\* One counter per block, or one per instruction, of which only that of a
\* leader counts and the others hold its number; rows are numbered from 0.
CodeRows(perInstruction) ==
    IF perInstruction
    THEN LET order == Ordered(instrs)
             leader(a) == Cardinality({b \in instrs : b < Leader(BlockOf(graph, a))})
         IN  [k \in DOMAIN order |->
                LET leads == order[k] = Leader(BlockOf(graph, order[k]))
                IN  [type |-> IF leads THEN "basicblock" ELSE "instruction",
                     leader |-> IF leads THEN 0 ELSE leader(order[k]), of |-> order[k]]]
    ELSE [b \in Blocks |-> [type |-> "basicblock", leader |-> 0, of |-> Leader(b)]]

\* The count of a loop goes up at its head and down on its back edge, which
\* the tail reaches the head by.
CountHead(row, l) == <<insertBlockCounter(row, l.head)>>
LoopPoints(row, l) ==
    CountHead(row, l)
    \o (IF l.head \in Range(graph.targets[l.tail]) THEN <<Less(Between(l.tail, l.head, row))>> ELSE << >>)

BasicBlockCounter(perInstruction) ==
    LET code == CodeRows(perInstruction)
        n == Len(code)
        counted == SelectSeq([k \in DOMAIN code |-> k], LAMBDA k : code[k].type = "basicblock")
        found == LoopsFound
    IN  [rows |-> code \o [k \in DOMAIN found |-> [type |-> "loop", leader |-> 0, of |-> found[k]]],
         points |-> [k \in DOMAIN counted |-> insertBlockCounter(counted[k] - 1, BlockOf(graph, code[counted[k]].of))]
                    \o FlattenSeq([k \in DOMAIN found |-> LoopPoints(n + k - 1, loops[found[k]])])]

\* FunctionCounter: the entry block must not be the target of another.
FunctionCounter ==
    [rows |-> <<[type |-> "function", leader |-> 0, of |-> 1]>>, points |-> <<insertBlockCounter(0, 1)>>]

-----------------------------------------------------------------------------
(* FunctionTimer, ExternalFunctionTimer and the functions of               *)
(* TauFunctionTrace.                                                       *)

\* BasicBlock::findExitInstruction; an indirect jump leads outside, too.
isExit(b) == endsWithReturn(b) \/ \E a \in Range(graph.blocks[b]) : isBranch(a) /\ ~InRange(TargetAddress(a))
getExitBlocks == SelectSeq([b \in Blocks |-> b], isExit)

\* In front of the last instruction with dead flags, or of the exit.
QuietPlace(b, row) ==
    LET quiet == {a \in Range(graph.blocks[b]) : live.in[a] \cap Flags = {}}
    IN  Prior(IF quiet = {} THEN Exit(b) ELSE Max(quiet), row)

None == 0
Timed(row) == [type |-> "function", leader |-> 0, of |-> row]
FunctionTimer ==
    LET exits == IF getExitBlocks = << >> THEN <<Len(graph.blocks)>> ELSE getExitBlocks
    IN  [rows |-> <<Timed(1)>>,
         points |-> <<QuietPlace(1, 0)>> \o [k \in DOMAIN exits |-> Less(QuietPlace(exits[k], 0))]]

\* At the leader of the entry and at the ends of the exits.
TauFunctions ==
    [rows |-> <<Timed(1)>>,
     points |-> <<Prior(1, 0)>> \o [k \in DOMAIN getExitBlocks |-> Less(Prior(Exit(getExitBlocks[k]), 0))]]

\* Every call of another function is a site of its own.
ExternalFunctionTimer ==
    LET sites == Ordered({a \in instrs : Kind(a) = "call" /\ TargetAddress(a) # 1})
    IN  [rows |-> [k \in DOMAIN sites |-> Timed(sites[k])],
         points |-> FlattenSeq([k \in DOMAIN sites |-> <<Prior(sites[k], k - 1), Less(After(sites[k], k - 1))>>])]

-----------------------------------------------------------------------------
(* LoopIntercept. *)
\* The loop of a listed head: of the loops around it, from the innermost to
\* its parents, the first with that head.
RECURSIVE UpTo(_, _)
UpTo(i, head) ==
    LET p == LP!getParentLoop(loops, i) IN IF loops[i].head = head \/ p = i THEN i ELSE UpTo(p, head)
LoopOf(head) == UpTo(LP!getInnermostLoopForBlock(loops, head), head)

RECURSIVE Parents(_)
Parents(i) == LET p == LP!getParentLoop(loops, i) IN IF p = i THEN {} ELSE {p} \cup Parents(p)

SharesItsHead(i) == \E j \in DOMAIN loops : loops[j].head = loops[i].head /\ loops[j].blocks # loops[i].blocks
Leaving(i) == {e \in loops[i].blocks \X Blocks : e[2] \in Range(graph.targets[e[1]]) \ loops[i].blocks}
isIndirectBranch(b) == Kind(Exit(b)) = "table"
JumpsByTable(i) == \E b \in loops[i].blocks : isIndirectBranch(b)

\* The heads of listed parents that an edge leaves with the loop.  Edges are
\* looked at in the order of the blocks and their targets.
LeftBy(i, e) == {loops[j].head : j \in {k \in Parents(i) : e[2] \notin loops[k].blocks}} \cap wanted
LeavesListed(i) == {e \in Leaving(i) : LeftBy(i, e) # {}}
FirstEdge(i) ==
    LET b == Min({e[1] : e \in LeavesListed(i)})
        c == SelectSeq(graph.targets[b], LAMBDA t : <<b, t>> \in LeavesListed(i))[1]
    IN  <<b, c>>

\* Whether a loop is intercepted; s is [found, rejected].
Judge(s, head) ==
    LET i == LoopOf(head)
    IN  CASE head \in s.rejected -> s
          [] SharesItsHead(i) \/ (JumpsByTable(i) /\ LeavesListed(i) = {}) ->
                [s EXCEPT !.rejected = @ \cup {head}]
          [] ~SharesItsHead(i) /\ LeavesListed(i) # {} ->
                [s EXCEPT !.rejected = @ \cup {head} \cup LeftBy(i, FirstEdge(i))]
          [] OTHER -> [s EXCEPT !.found = Append(@, i)]

\* Entries from the sources of the head, exits where control leaves a block
\* for one outside, or in front of a return.
Entries(l, row) ==
    LET from == SelectSeq(graph.sources[l.head], LAMBDA b : b \notin l.blocks)
    IN  [k \in DOMAIN from |-> Between(from[k], l.head, row)]
JumpsOut(l, b, row) ==
    LET to == SelectSeq(graph.targets[b], LAMBDA c : c \notin l.blocks)
    IN  [k \in DOMAIN to |-> Less(Between(b, to[k], row))]
ExitsOfBlock(l, b, row) ==
    IF endsWithReturn(b) THEN <<Less(Prior(Exit(b), row))>> ELSE JumpsOut(l, b, row)
Exits(l, row) == FlattenSeq([k \in 1 .. Cardinality(l.blocks) |-> ExitsOfBlock(l, Ordered(l.blocks)[k], row)])

\* discoverAllLoops lists the heads of the innermost loops.
discoverAllLoops == {loops[LP!getInnermostLoopForBlock(loops, b)].head : b \in {c \in Blocks : LP!isBlockInLoop(loops, c)}}

\* A loop's row is the place of its head in the list, and there are as many rows
\* in the end as there are intercepted loops.
LoopIntercept ==
    LET judged == FoldLeft(Judge, [found |-> << >>, rejected |-> {}],
                           SelectSeq([b \in Blocks |-> b], LAMBDA b : b \in wanted /\ LP!isBlockInLoop(loops, b)))
        site(i) == Cardinality({h \in wanted : h < loops[i].head})
        Found(k) == {i \in Range(judged.found) : site(i) = k - 1}
    IN  [rows |-> [k \in 1 .. Cardinality(wanted) |->
                     [type |-> "loop", leader |-> 0, of |-> IF Found(k) = {} THEN None ELSE CHOOSE i \in Found(k) : TRUE]],
         points |-> FlattenSeq([k \in DOMAIN judged.found |->
                        LET i == judged.found[k] IN Entries(loops[i], site(i)) \o Exits(loops[i], site(i))]),
         loopCount |-> Len(judged.found)]

-----------------------------------------------------------------------------
(* The loops of TauFunctionTrace: the outermost ones; those with the same  *)
(* head are one row.  An entry by which control falls is noted at the      *)
(* beginning of the block it falls from, and every loop adds its exits.    *)
TauExitsOfBlock(l, b, row) ==
    LET to == SelectSeq(graph.targets[b], LAMBDA c : c \notin l.blocks)
        point(c) == IF ~Adjacent(b, c) THEN OnEdge(b, c, row)
                    ELSE IF endsWithReturn(b) THEN Prior(Exit(b), row) ELSE After(Exit(b), row)
    IN  (IF endsWithReturn(b) THEN <<Less(Prior(Exit(b), row))>> ELSE << >>)
        \o [k \in DOMAIN to |-> Less(point(to[k]))]
TauLoops ==
    LET outer == SelectSeq([i \in DOMAIN loops |-> i], LAMBDA i : LP!DepthOfLoop(loops, i) = 1 /\ ~JumpsByTable(i))
        heads == Ordered({loops[i].head : i \in Range(outer)})
        Of(h) == SelectSeq(outer, LAMBDA i : loops[i].head = h)
        ExitsOf(l, row) ==
            FlattenSeq([k \in 1 .. Cardinality(l.blocks) |-> TauExitsOfBlock(l, Ordered(l.blocks)[k], row)])
        EntriesOf(l, row) ==
            LET from == SelectSeq(graph.sources[l.head], LAMBDA b : b \notin l.blocks)
            IN  [k \in DOMAIN from |-> IF Adjacent(from[k], l.head) THEN Prior(Leader(from[k]), row)
                                       ELSE OnEdge(from[k], l.head, row)]
    IN  [rows |-> [k \in DOMAIN heads |-> [type |-> "loop", leader |-> 0, of |-> Of(heads[k])[1]]],
         points |-> FlattenSeq([k \in DOMAIN heads |->
             EntriesOf(loops[Of(heads[k])[1]], k - 1)
             \o FlattenSeq([j \in DOMAIN Of(heads[k]) |-> ExitsOf(loops[Of(heads[k])[j]], k - 1)])])]

-----------------------------------------------------------------------------
(* CacheSimulation. *)

\* filterBBs: the listed blocks, with the loops around them if loopIncl; all
\* blocks of an executable if that leaves none.
filterBBs(loopIncl) ==
    LET listed == wanted \cap Blocks
        inLoops == {b \in listed : loopIncl /\ LP!isBlockInLoop(loops, b)}
        chosen == listed \cup UNION {loops[LP!getInnermostLoopForBlock(loops, b)].blocks : b \in inLoops}
    IN  IF chosen = {} THEN Blocks ELSE chosen

MemopsOf(b) == SelectSeq(graph.blocks[b], IsMemoryOperation)
Numbered(q, x) == SelectInSeq(q, LAMBDA y : y = x) - 1

\* The rows are blocks, or the memory instructions with the first one of a
\* block as its leader; BlockIds and MemopIds are kept for every memory
\* instruction, and the points of a block have its number in their key.
CacheSimulation(perInstruction, loopIncl) ==
    LET chosen == Ordered(filterBBs(loopIncl))
        memops == FlattenSeq([k \in DOMAIN chosen |-> MemopsOf(chosen[k])])
        block(m) == Numbered(chosen, BlockOf(graph, memops[m]))
        first(b) == Numbered(memops, MemopsOf(b)[1])
        leads(m) == first(BlockOf(graph, memops[m])) = m - 1
        busy == SelectSeq([k \in DOMAIN chosen |-> k], LAMBDA k : MemopsOf(chosen[k]) # << >>)
    IN  [rows |-> IF perInstruction
                  THEN [m \in DOMAIN memops |->
                          [type |-> IF leads(m) THEN "basicblock" ELSE "instruction",
                           leader |-> IF leads(m) THEN 0 ELSE first(BlockOf(graph, memops[m])), of |-> memops[m]]]
                  ELSE [k \in DOMAIN chosen |-> [type |-> "basicblock", leader |-> 0, of |-> Leader(chosen[k])]],
         points |-> [k \in DOMAIN busy |->
                       insertBlockCounter(IF perInstruction THEN first(chosen[busy[k]]) ELSE busy[k] - 1, chosen[busy[k]])],
         memops |-> memops,
         BlockIds |-> [m \in DOMAIN memops |-> IF perInstruction THEN m - 1 ELSE block(m)],
         MemopIds |-> [m \in DOMAIN memops |-> IF perInstruction THEN block(m)
                                               ELSE Numbered(MemopsOf(BlockOf(graph, memops[m])), memops[m])],
         keys |-> [m \in DOMAIN memops |-> block(m)],
         perInstruction |-> perInstruction]

-----------------------------------------------------------------------------
(* The tool at work. *)
Counting == {"blocks", "instructions", "calls counted", "simulation", "simulated instructions"}

ToolOf(t) ==
    CASE t = "blocks" -> BasicBlockCounter(FALSE)
      [] t = "instructions" -> BasicBlockCounter(TRUE)
      [] t = "calls counted" -> FunctionCounter
      [] t = "functions" -> FunctionTimer
      [] t = "traced functions" -> TauFunctions
      [] t = "calls" -> ExternalFunctionTimer
      [] t = "loops" -> LoopIntercept
      [] t = "traced loops" -> TauLoops
      [] t = "simulation" -> CacheSimulation(FALSE, TRUE)
      [] t = "simulated instructions" -> CacheSimulation(TRUE, FALSE)

\* FlowGraph::interposeBlock stops the rewriter at an edge that is not a
\* direct jump, or that has a block already; TauFunctionTrace asks for one
\* block per edge.
CanInterpose(t, points) ==
    LET edges == SelectSeq(points, LAMBDA p : p.place = "edge")
    IN  /\ \A k \in DOMAIN edges : LET e == edges[k].x IN
              Kind(Exit(e[1])) \in {"jump", "branch"} /\ TargetAddress(Exit(e[1])) = Leader(e[2])
        /\ t # "traced loops" => \A j, k \in DOMAIN edges : edges[j].x = edges[k].x => j = k

\* LoopIntercept is given heads that it has discovered, the simulation any block.
Lists(t) == CASE t = "loops" -> SUBSET discoverAllLoops \ {{}}
              [] t \in {"simulation", "simulated instructions"} -> {{}} \cup {{b} : b \in Blocks}
              [] OTHER -> {{}}

instrument(t) ==
    /\ phase = "done" /\ tool = "none"
    /\ t = "calls counted" => graph.sources[1] = << >>
    /\ tool' = t
    /\ wanted' \in Lists(t)
    /\ phase' = "chosen"
    /\ UNCHANGED <<text, instrs, unprocessed, bad, graph, idom, live, loops, du, plan, at, count>>

\* The points are set up, and blocks put on the edges that need one.
Interpose ==
    /\ phase = "chosen"
    /\ plan' = ToolOf(tool)
    /\ phase' = IF CanInterpose(tool, plan'.points) THEN "run" ELSE "stopped"
    /\ count' = [r \in 0 .. Len(plan'.rows) - 1 |-> 0]
    /\ UNCHANGED <<text, instrs, unprocessed, bad, graph, idom, live, loops, du, tool, wanted, at>>

\* The events when control goes from a to t, one of which may be outside.
Passes(p, a, t) ==
    CASE p.place = "prior" -> p.x = t
      [] p.place = "after" -> p.x = a /\ t = NextAddr(a) /\ controlFallsThrough(a)
      [] p.place = "edge" -> a # Outside /\ a = Exit(p.x[1]) /\ Kind(a) \in {"jump", "branch"}
                                /\ t = TargetAddress(a) /\ t = Leader(p.x[2])

Row(r) == plan.rows[r + 1]
\* The counter that is read for a row.
Index(r) == IF Row(r).type = "instruction" THEN Row(r).leader ELSE r

\* What the count of a row should be of.
InLoop(a, l) == a # Outside /\ BlockOf(graph, a) \in l.blocks
StandsFor(r, a, t) ==
    CASE tool \notin Counting -> 0
      [] tool \in Counting /\ Row(r).type = "function" -> IF a = Outside THEN 1 ELSE 0
      [] tool \in Counting /\ Row(r).type = "loop" ->
            LET l == loops[Row(r).of] IN IF InLoop(t, l) /\ ~InLoop(a, l) THEN 1 ELSE 0
      [] OTHER -> IF a = Row(r).of THEN 1 ELSE 0

Go(a, t) ==
    LET events == SelectSeq(plan.points, LAMBDA p : Passes(p, a, t))
        total(r) == FoldLeft(LAMBDA n, p : IF p.row = Index(r) THEN n + p.add ELSE n, 0, events)
    IN  /\ at' = t
        /\ count' = [r \in DOMAIN count |-> count[r] + total(r) - StandsFor(r, a, t)]
        /\ UNCHANGED <<vars, tool, wanted, plan>>

Leaves(a) == Kind(a) = "return" \/ \E t \in Steps(a) : ~InRange(t)

\* Bound: a function is not followed further when a count is out of -MaxCount
\* .. MaxCount, where no property allows it to be.
MaxCount == 1
Bounded == \A r \in DOMAIN count : count[r] \in -MaxCount .. MaxCount

Call == phase = "run" /\ Bounded /\ at = Outside /\ Go(Outside, 1)
Step == phase = "run" /\ Bounded /\ at # Outside /\ \E t \in RealSteps(at) : Go(at, t)
Leave == phase = "run" /\ Bounded /\ at # Outside /\ Leaves(at) /\ Go(at, Outside)

ToolsFinished == phase = "stopped" \/ (phase = "run" /\ ~Bounded)
ToolsInit == tool = "none" /\ wanted = {} /\ plan = << >> /\ at = Outside /\ count = << >>
Tools == Counting \cup {"functions", "traced functions", "calls", "loops", "traced loops"}
ToolsNext ==
    \/ \E t \in Tools : instrument(t)
    \/ Interpose
    \/ Call
    \/ Step
    \/ Leave

-----------------------------------------------------------------------------
(* What the events should add up to. *)
Running == phase = "run"
In(l) == InLoop(at, l)
\* No indirect jump leads into the loop, from where the graph has no edge.
Direct(l) == \A a \in instrs : Kind(a) = "table" => \A t \in Range(text[a].targets) : ~InLoop(t, l)
Lone(l) == \A j \in DOMAIN loops : loops[j].head = l.head => loops[j] = l

\* When control is in none of the blocks that are concerned, every counter is
\* the number of executions of its block or instruction, of entries into its
\* loop if no other loop has that head and no indirect jump leads into it, or
\* of calls of the function.
EventsAreCounted ==
    Running /\ tool \in Counting =>
        \A r \in DOMAIN count :
            LET about == CASE Row(r).type = "loop" -> loops[Row(r).of].head
                           [] Row(r).type = "function" -> 1
                           [] OTHER -> BlockOf(graph, Row(r).of)
            IN  \/ at # Outside /\ BlockOf(graph, at) = about
                \/ Row(r).type = "loop" /\ ~(Lone(loops[Row(r).of]) /\ Direct(loops[Row(r).of]))
                \/ tool = "simulation" /\ MemopsOf(about) = << >>
                \/ count[r] = 0

\* Loops whose entries and exits are all edges of the graph: not the loop of
\* the entry block, none that an indirect jump enters or a direct one leaves
\* the function from.
Followed(l) ==
    /\ l.head # 1 /\ Direct(l)
    /\ \A b \in l.blocks : endsWithReturn(b) \/ ~Leaves(Exit(b))
\* TauFunctionTrace: a loop without a return, behind a block that control can
\* only leave by falling into it.
Traced(l) ==
    /\ Lone(l) /\ \A b \in l.blocks : ~endsWithReturn(b)
    /\ \A b \in Blocks \ l.blocks : Adjacent(b, l.head) => RealSteps(Exit(b)) = {Leader(l.head)}
InFront(l) == at # Outside /\ Adjacent(BlockOf(graph, at), l.head)

\* BasicBlock::isExit is right when no block ends with an indirect jump, or
\* with a branch that may leave the function or not.
Timeable ==
    /\ graph.sources[1] = << >> /\ ~isExit(1)
    /\ \A b \in Blocks : Kind(Exit(b)) # "table" /\ (Kind(Exit(b)) = "branch" => ~Leaves(Exit(b)))
    /\ getExitBlocks # << >>

\* Rows of intercepted loops; they exist unless a loop before them in the list
\* was rejected.
Sites == {r \in DOMAIN count : Row(r).of # None}
SitesFit == \A r \in Sites : r < plan.loopCount

\* A timer runs exactly while control is in its loop, up to a return; for the
\* whole of a call of the function, except in the blocks in which it starts
\* and ends; or during the call it is for.
EventsBalance ==
    /\ Running /\ tool = "loops" /\ SitesFit =>
          \A r \in Sites : LET l == loops[Row(r).of] IN
              Followed(l) => count[r] = IF In(l) /\ Kind(at) # "return" THEN 1 ELSE 0
    /\ Running /\ tool = "traced loops" =>
          \A r \in DOMAIN count : LET l == loops[Row(r).of] IN
              Followed(l) /\ Traced(l) =>
                  count[r] \in IF In(l) THEN {1} ELSE IF InFront(l) THEN {0, 1} ELSE {0}
    /\ Running /\ tool \in {"functions", "traced functions"} /\ Timeable =>
          LET b == BlockOf(graph, at) IN
              CASE at = Outside -> count[0] = 0
                [] at # Outside /\ b # 1 /\ ~isExit(b) -> count[0] = 1
                [] OTHER -> count[0] \in {0, 1}
    /\ Running /\ tool = "calls" =>
          \A r \in DOMAIN count : count[r] = IF at = Row(r).of THEN 1 ELSE 0

\* Simulation.cpp, when it has processed a buffer: the counter that is held
\* against the limit, and the key of the points to be removed, for the access
\* number m.  Every access is held to the count of its own block, and removes
\* the points of its own block.
CounterOf(m) == LET row == plan.BlockIds[m] IN IF Row(row).type = "instruction" THEN Row(row).leader ELSE row
KeyOf(m) == IF plan.perInstruction THEN plan.MemopIds[m] ELSE plan.BlockIds[m]
RowsNameTheirBlocks ==
    Running /\ tool \in {"simulation", "simulated instructions"} =>
        \A m \in DOMAIN plan.memops :
            LET b == BlockOf(graph, plan.memops[m])
            IN  /\ \E p \in Range(plan.points) : p.row = CounterOf(m) /\ p = insertBlockCounter(p.row, b)
                /\ Row(CounterOf(m)).of \in Range(graph.blocks[b])
                /\ KeyOf(m) = plan.keys[m]
                /\ \A n \in DOMAIN plan.memops : (plan.keys[n] = plan.keys[m]) <=> (BlockOf(graph, plan.memops[n]) = b)
\* BasicBlockCounter, FunctionCounter, CacheSimulation: what a tool counts is
\* what was executed, and the run time finds the counter by its row.
CountersCount == EventsAreCounted /\ RowsNameTheirBlocks
=============================================================================
