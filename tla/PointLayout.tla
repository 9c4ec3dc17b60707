---------------------------- MODULE PointLayout ----------------------------
(***************************************************************************)
(* How instrumentation points get their place in the rewritten code        *)
(* (ElfFileInst): interposed blocks, the move of a function to the added   *)
(* text with room (no-ops) for its points, the address anchors that keep   *)
(* branches and calls together with what they lead to, the offsets of the  *)
(* points, and the exchange of the room for jumps to trampolines or for    *)
(* inlined code.                                                           *)
(*                                                                         *)
(* An instruction is an item [id, size].  Ids are <<"prog", f, b, i>>,     *)
(* <<"edge", f, b, 0>> (the jump of the block interposed behind block b),  *)
(* <<"link", f, 0, 0>> (what is left at the old place of a function),      *)
(* <<"tail", f, 0, 0>>, and <<"nop" or "jump" or "core", p, k, 0>> for     *)
(* point p.                                                                *)
(***************************************************************************)
EXTENDS Integers, Sequences, FiniteSets, SequencesExt, TLC

CONSTANTS Program,    \* functions, as [base, blocks]; instructions as [size, kind, target]
          Data,       \* words of the data section: [target, table], table for those of a known jump table
          ExtraText,  \* the address of the added text section
          Layouts     \* what a tool may ask for: [points, edges]

JumpSize == 5         \* Size__uncond_jump
MaxNop == 8           \* MAX_NOP_LENGTH
Functions == DOMAIN Program
ProgIds == UNION {{<<"prog", f, b, i>> : i \in DOMAIN Program[f].blocks[b]} :
                     <<f, b>> \in {<<g, c>> \in Functions \X (1 .. 9) : c \in DOMAIN Program[g].blocks}}
Instr(x) == Program[x[2]].blocks[x[3]][x[4]]
FirstOf(f, b) == <<"prog", f, b, 1>>
LastOf(f, b) == <<"prog", f, b, Len(Program[f].blocks[b])>>
Targets(x) == Instr(x).kind \in {"branch", "call"}
TargetOf(x) == FirstOf(Instr(x).target[1], Instr(x).target[2])
EdgeOf(x) == <<"edge", x[2], x[3], 0>>
\* Words that are the address of a function are found by looking at all but
\* the last one of the section (anchorProgramElements), those of a jump table
\* with the jump (generateCFG).
FunctionWords == {k \in 1 .. Len(Data) - 1 : \E f \in Functions : Data[k].target = FirstOf(f, 1)}
TableWords == {k \in DOMAIN Data : Data[k].table}
Words == FunctionWords \cup TableWords
Anchored == {x \in ProgIds : Targets(x)} \cup {<<"data", k, 0, 0>> : k \in Words}
InitialLink(a) == IF a[1] = "data" THEN Data[a[2]].target ELSE TargetOf(a)
IsCall(a) == a[1] = "prog" /\ Instr(a).kind = "call"
\* An anchored instruction's function; the rewriter's own jumps have none.
InFunction(a, f) == a[1] \in {"prog", "edge"} /\ a[2] = f
InAnother(a, f) == a[1] \in {"prog", "edge"} /\ a[2] # f

VARIABLES phase,    \* what the rewriter is about to do
          edges,    \* branches whose taken edge gets a block of its own
          order,    \* the points, as they were last sorted
          code,     \* f -> the blocks of f, sequences of items
          at,       \* id -> base address
          moved,    \* functions that were relocated
          freeText, \* how much of the added text is used
          anchors,  \* id of an anchored instruction -> [link, cached]
          offset,   \* point -> offset of its code from its source object
          dynamic,  \* point -> [address, size], as the run time will see it
          tramp,    \* point -> [address, items, back]
          todo,     \* functions or points still to do
          pending   \* anchors to update, and with what

vars == <<phase, edges, order, code, at, moved, freeText, anchors, offset, dynamic, tramp, todo, pending>>

-----------------------------------------------------------------------------
Put(f, x, v) == (x :> v) @@ f

\* CodeBlock::setBaseAddress, FlowGraph::setBaseAddress: items in a row.
Place(q, base) ==
    LET addr[i \in 1 .. Len(q) + 1] == IF i = 1 THEN base ELSE addr[i - 1] + q[i - 1].size
    IN  [x \in {q[i].id : i \in 1 .. Len(q)} |-> addr[CHOOSE i \in 1 .. Len(q) : q[i].id = x]]
SizeOf(q) == FoldLeft(LAMBDA n, it : n + it.size, 0, q)
Flat(blocks) == FlattenSeq(blocks)
End(f) == at[code[f][1][1].id] + SizeOf(Flat(code[f]))

\* AddressAnchor::updateLink, which refreshes the cached address.
Link(x, places) == [link |-> x, cached |-> places[x]]
searchAddressAnchors(addr) == {a \in DOMAIN anchors : anchors[a].cached = addr}

\* compareInstBaseAddress
LocRank(p) == CASE p.loc = "prior" -> 1 [] p.loc = "after" -> 2 [] p.loc = "replace" -> 3
Before(p, q) ==
    \/ at[p.src] < at[q.src]
    \/ at[p.src] = at[q.src] /\ p.src # q.src /\ p.src[1] = "edge"
    \/ p.src = q.src /\ LocRank(p) < LocRank(q)
    \/ p.src = q.src /\ LocRank(p) = LocRank(q) /\ p.priority < q.priority
\* Vector::sort is qsort, which merges in the C library of PEBIL's systems and
\* so leaves equal points in the order they had.
StablySorted(s, Less(_, _)) ==
    CHOOSE t \in SetToSeqs(Range(s)) :
        \A i, j \in DOMAIN t : i < j =>
            \/ Less(t[i], t[j])
            \/ ~Less(t[j], t[i]) /\ SelectInSeq(s, LAMBDA p : p = t[i]) < SelectInSeq(s, LAMBDA p : p = t[j])
BaseOf(p) == at[code[p.src[2]][1][1].id]
BeforeInFunction(p, q) == BaseOf(p) < BaseOf(q) \/ (BaseOf(p) = BaseOf(q) /\ Before(p, q))
Points == Range(order)

-----------------------------------------------------------------------------
OriginalCode == [f \in Functions |-> [b \in DOMAIN Program[f].blocks |->
                    [i \in DOMAIN Program[f].blocks[b] |->
                        [id |-> <<"prog", f, b, i>>, size |-> Program[f].blocks[b][i].size]]]]

Init == /\ phase = "interpose"
        /\ \E l \in Layouts : edges = l.edges /\ order \in SetToSeqs(l.points)
        /\ code = OriginalCode
        /\ at = [x \in ProgIds |-> Place(Flat(OriginalCode[x[2]]), Program[x[2]].base)[x]]
        /\ anchors = [a \in Anchored |-> Link(InitialLink(a), at)]
        /\ moved = {} /\ freeText = 0 /\ offset = << >> /\ dynamic = << >> /\ tramp = << >>
        /\ todo = edges /\ pending = << >>

\* initInterposeBlock and FlowGraph::interposeBlock: the new block is already
\* the last one when its jump's address is computed from the last block.
interposeBlock(x) ==
    LET f == x[2]
        jump == EdgeOf(x)
        places == Put(at, jump, End(f) + 1)
    IN  /\ phase = "interpose" /\ x \in todo
        /\ todo' = todo \ {x}
        /\ code' = [code EXCEPT ![f] = Append(@, <<[id |-> jump, size |-> JumpSize]>>)]
        /\ at' = places
        /\ anchors' = Put(Put(anchors, jump, Link(TargetOf(x), at)), x, Link(jump, places))
        /\ UNCHANGED <<phase, edges, order, moved, freeText, offset, dynamic, tramp, pending>>

SortByFunction ==
    /\ phase = "interpose" /\ todo = {}
    /\ phase' = "relocate"
    /\ order' = StablySorted(order, BeforeInFunction)
    /\ todo' = Functions
    /\ UNCHANGED <<edges, code, at, moved, freeText, anchors, offset, dynamic, tramp, pending>>

-----------------------------------------------------------------------------
(* Relocation. *)

Bytes(p) == IF p.mode = "inline" THEN p.bytes ELSE JumpSize

\* The longest no-ops are inserted first, the rest in front of them.
Room(p) ==
    LET rest == Bytes(p) % MaxNop
        sizes == (IF rest = 0 THEN << >> ELSE <<rest>>) \o [k \in 1 .. Bytes(p) \div MaxNop |-> MaxNop]
    IN  [k \in 1 .. Len(sizes) |-> [id |-> <<"nop", p.n, k, 0>>, size |-> sizes[k]]]

IndexIn(block, x) == CHOOSE i \in DOMAIN block : block[i].id = x

\* A replace point gets an index that is too large, so that it gets no room.
ExpansionIndex(block, p) ==
    CASE p.loc = "prior" -> IndexIn(block, p.src)
      [] p.loc = "after" -> IndexIn(block, p.src) + 1
      [] p.loc = "replace" -> Len(block) + 3

InsertRoom(block, i, room) == SubSeq(block, 1, i - 1) \o room \o SubSeq(block, i, Len(block))

\* convertTo4ByteTargetOperand
Widened(it) == IF it.id[1] = "prog" /\ Instr(it.id).kind = "branch" /\ it.size = 2
               THEN [it EXCEPT !.size = 6] ELSE it

bloat(block) ==
    LET here == SelectSeq(order, LAMBDA p : \E i \in DOMAIN block : block[i].id = p.src)
        roomy == FoldRight(LAMBDA p, acc : IF ExpansionIndex(block, p) > Len(acc) + 1 THEN acc
                                           ELSE InsertRoom(acc, ExpansionIndex(block, p), Room(p)),
                           here, block)
    IN  [i \in DOMAIN roomy |-> Widened(roomy[i])]

\* addSafetyJump, to the function that follows in the same section.
WithTail(f, blocks) ==
    IF f = Len(Program) THEN blocks
    ELSE [blocks EXCEPT ![Len(blocks)] = Append(@, [id |-> <<"tail", f, 0, 0>>, size |-> JumpSize])]

bloatBasicBlocks(f) == [b \in DOMAIN code[f] |-> bloat(WithTail(f, code[f])[b])]

Leader(f) == code[f][1][1].id

\* Every anchor at the old place follows the function (a mistake to compare with).
FollowAll(f) == searchAddressAnchors(at[Leader(f)])

\* Branches of another function are left alone: the jump of an interposed
\* block may have the address of the function that comes next.
FollowConnector(f) == {a \in searchAddressAnchors(at[Leader(f)]) : InAnother(a, f) => IsCall(a)}

needsRelocate(f) == \/ \E x \in edges : x[2] = f
                    \/ \E p \in Points : p.src[2] = f /\ p.loc # "replace"

relocateAndBloatFunction(f) ==
    LET connector == <<"link", f, 0, 0>>
        tail == <<"tail", f, 0, 0>>
        blocks == bloatBasicBlocks(f)
        places == Place(Flat(blocks), ExtraText + freeText) @@ Put(at, connector, at[Leader(f)])
    IN  /\ phase = "relocate" /\ f \in todo
        /\ \A g \in todo : at[Leader(f)] <= at[Leader(g)]
        /\ needsRelocate(f)
        /\ code' = [code EXCEPT ![f] = blocks]
        /\ at' = places
        /\ freeText' = freeText + SizeOf(Flat(blocks))
        /\ moved' = moved \cup {f}
        /\ anchors' = (IF f = Len(Program) THEN << >> ELSE tail :> Link(FirstOf(f + 1, 1), at))
                          @@ (connector :> Link(Leader(f), at))
                          @@ [a \in FollowConnector(f) |-> Link(connector, places)] @@ anchors
        /\ todo' = todo \ {f}
        /\ UNCHANGED <<phase, edges, order, offset, dynamic, tramp, pending>>

LeaveInPlace(f) ==
    /\ phase = "relocate" /\ f \in todo
    /\ \A g \in todo : at[Leader(f)] <= at[Leader(g)]
    /\ ~needsRelocate(f)
    /\ todo' = todo \ {f}
    /\ UNCHANGED <<phase, edges, order, code, at, moved, freeText, anchors, offset, dynamic, tramp, pending>>

\* The caches are refreshed; what leads to a block whose first instruction
\* has a point leads to the room in front of it from now on.
IsLeader(x) == x[1] = "edge" \/ x[4] = 1
BlockOf(x) == CHOOSE b \in DOMAIN code[x[2]] : \E i \in DOMAIN code[x[2]][b] : code[x[2]][b][i].id = x
ToLeaders(links) ==
    [a \in DOMAIN links |->
        IF \E p \in Points : IsLeader(p.src) /\ links[a].cached = at[p.src]
        THEN LET p == CHOOSE p \in Points : IsLeader(p.src) /\ links[a].cached = at[p.src]
             IN  Link(code[p.src[2]][BlockOf(p.src)][1].id, at)
        ELSE links[a]]
Reanchor ==
    /\ phase = "relocate" /\ todo = {}
    /\ phase' = "offsets"
    /\ anchors' = ToLeaders([a \in DOMAIN anchors |-> Link(anchors[a].link, at)])
    /\ UNCHANGED <<edges, order, code, at, moved, freeText, offset, dynamic, tramp, todo, pending>>

-----------------------------------------------------------------------------
(* Offsets and dynamic points. *)

At(s, p) == SelectSeq(s, LAMBDA q : q.src = p.src /\ q.loc = p.loc)
Position(s, p) == CHOOSE i \in DOMAIN s : s[i] = p
SumBytes(s) == FoldLeft(LAMBDA n, p : n + Bytes(p), 0, s)
SourceSize(p) == IF p.src[1] = "edge" THEN JumpSize ELSE Widened([id |-> p.src, size |-> Instr(p.src).size]).size

OffsetOf(s, p) ==
    LET group == At(s, p)
        k == Position(group, p)
    IN  CASE p.loc = "prior" -> -SumBytes(SubSeq(group, k, Len(group)))
          [] p.loc = "after" -> SourceSize(p) + SumBytes(SubSeq(group, 1, k - 1))
          [] p.loc = "replace" -> 0

\* The points have been sorted again in between, by their old addresses: what
\* counts is the order of those with the same source.
computeInstrumentationOffsets ==
    /\ phase = "offsets"
    /\ phase' = "dynamic"
    /\ LET s == StablySorted(order, Before) IN
          /\ order' = s
          /\ offset' = [n \in {p.n : p \in Points} |-> OffsetOf(s, CHOOSE p \in Points : p.n = n)]
    /\ UNCHANGED <<edges, code, at, moved, freeText, anchors, dynamic, tramp, todo, pending>>

SourceAddress(p) == at[p.src] + offset[p.n]

\* The size of a jump whatever the mode (a mistake to compare with).
SizeOfJump(p) == JumpSize
DynamicSize(p) == Bytes(p)

applyDynamicPoints ==
    /\ phase = "dynamic"
    /\ phase' = "generate"
    /\ dynamic' = [n \in {p.n : p \in Points} |->
                      LET p == CHOOSE p \in Points : p.n = n
                      IN  [address |-> SourceAddress(p), size |-> DynamicSize(p)]]
    /\ todo' = Points
    /\ order' = StablySorted(order, Before)
    /\ UNCHANGED <<edges, code, at, moved, freeText, anchors, offset, tramp, pending>>

-----------------------------------------------------------------------------
(* Generation. *)

\* swapInstructions: from the instruction at addr on, as many as the new one
\* needs; it must be there, and the block must not end before.
Taken(block, i, n) == CHOOSE k \in 0 .. Len(block) - i + 1 :
    /\ SizeOf(SubSeq(block, i, i + k - 1)) >= n
    /\ \A l \in 0 .. k - 1 : SizeOf(SubSeq(block, i, i + l - 1)) < n
\* swapInstructions: the first block in whose range the address is, and the
\* instruction there.
InRange(block, addr) == block # << >> /\ addr \in at[block[1].id] .. at[block[1].id] + SizeOf(block) - 1
Cantidate(f, addr) == {b \in DOMAIN code[f] : /\ InRange(code[f][b], addr)
                                              /\ \A c \in 1 .. b - 1 : ~InRange(code[f][c], addr)}
getInstructionAtAddress(block, addr) == {i \in DOMAIN block : at[block[i].id] = addr}
Padding(p, n) == [k \in 1 .. n |-> [id |-> <<"nop", p.n, 10 + k, 0>>, size |-> 1]]

generateInstrumentation(p) ==
    LET f == p.src[2]
        addr == SourceAddress(p)
        repl == [id |-> <<IF p.mode = "inline" THEN "core" ELSE "jump", p.n, 0, 0>>, size |-> Bytes(p)]
    IN  /\ phase = "generate" /\ p \in todo
        /\ p = SelectSeq(order, LAMBDA q : q \in todo)[1]
        /\ \E b \in Cantidate(f, addr) : \E i \in getInstructionAtAddress(code[f][b], addr) :
             LET block == code[f][b]
                 k == Taken(block, i, Bytes(p))
                 displaced == SubSeq(block, i, i + k - 1)
                 new == SubSeq(block, 1, i - 1) \o <<repl>> \o Padding(p, SizeOf(displaced) - Bytes(p))
                            \o SubSeq(block, i + k, Len(block))
             IN  /\ SizeOf(SubSeq(block, i, Len(block))) >= Bytes(p)
                 /\ code' = [code EXCEPT ![f][b] = new]
                 /\ at' = Place(new, at[block[1].id]) @@ at
                 /\ pending' = [a \in searchAddressAnchors(addr) |-> repl.id] @@ pending
                 /\ tramp' = IF p.mode = "inline" THEN tramp
                             ELSE Put(tramp, p.n,
                                      [address |-> ExtraText + freeText,
                                       items |-> IF p.loc = "replace" THEN << >>
                                                 ELSE SelectSeq(displaced, LAMBDA it : it.id[1] # "nop"),
                                       back |-> addr + repl.size])
        /\ freeText' = freeText + (IF p.mode = "inline" THEN 0 ELSE 16)
        /\ todo' = todo \ {p}
        /\ UNCHANGED <<phase, edges, order, moved, anchors, offset, dynamic>>

updateAnchors ==
    /\ phase = "generate" /\ todo = {}
    /\ phase' = "done"
    /\ anchors' = [a \in DOMAIN pending |-> Link(pending[a], at)] @@ anchors
    /\ UNCHANGED <<edges, order, code, at, moved, freeText, offset, dynamic, tramp, todo, pending>>

Finished == phase = "done" /\ UNCHANGED vars

Next == \/ \E x \in ProgIds : interposeBlock(x)
        \/ SortByFunction
        \/ \E f \in Functions : relocateAndBloatFunction(f) \/ LeaveInPlace(f)
        \/ Reanchor
        \/ computeInstrumentationOffsets
        \/ applyDynamicPoints
        \/ \E p \in Points : generateInstrumentation(p)
        \/ updateAnchors
        \/ Finished

Spec == Init /\ [][Next]_vars

-----------------------------------------------------------------------------
(* What the rewritten program does. *)

Connectors == {[id |-> <<"link", f, 0, 0>>, size |-> JumpSize] : f \in moved}
Items == Connectors \cup UNION {Range(Flat(code[f])) : f \in Functions}
ItemOf(x) == CHOOSE it \in Items : it.id = x
Memory == [a \in {at[it.id] : it \in Items} |-> CHOOSE it \in Items : at[it.id] = a]
\* AddressAnchor::dump: the distance to the link, in the bytes that the
\* instruction has for it; that the rest is lost goes unnoticed.
Dumped(it) ==
    LET d == at[anchors[it.id].link] - at[it.id] - it.size
    IN  IF it.size = 2 THEN ((d + 128) % 256) - 128 ELSE d
Destination(it) == at[it.id] + it.size + Dumped(it)
Nowhere == <<"nowhere", 0, 0, 0>>

\* Control from address a up to the next instruction of the program: the
\* points that run on the way, and that instruction.
RECURSIVE Walk(_, _, _)
Walk(mem, a, fuel) ==
    IF a \notin DOMAIN mem \/ fuel = 0 THEN [ran |-> << >>, to |-> Nowhere]
    ELSE LET it == mem[a]
             Then(p, b) == LET w == Walk(mem, b, fuel - 1) IN [w EXCEPT !.ran = <<p>> \o @]
         IN  CASE it.id[1] = "prog" -> [ran |-> << >>, to |-> it.id]
               [] it.id[1] = "nop" -> Walk(mem, a + it.size, fuel - 1)
               [] it.id[1] = "core" -> Then(it.id[2], a + it.size)
               [] it.id[1] = "jump" -> IF tramp[it.id[2]].items = << >>
                                       THEN Then(it.id[2], tramp[it.id[2]].back)
                                       ELSE [ran |-> << >>, to |-> Nowhere]
               [] it.id[1] \in {"link", "tail", "edge"} -> Walk(mem, Destination(it), fuel - 1)
Follow(mem, a) == Walk(mem, a, 40)

\* What was asked for: the points at a place, the next instruction of the
\* program, and what runs up to the one that is reached.
Asked(x, loc) == {p \in Points : p.src = x /\ p.loc = loc}
Replaced(x) == Asked(x, "replace") # {}
NextOf(x) == IF x[4] < Len(Program[x[2]].blocks[x[3]]) THEN <<"prog", x[2], x[3], x[4] + 1>>
             ELSE IF x[3] < Len(Program[x[2]].blocks) THEN FirstOf(x[2], x[3] + 1)
             ELSE FirstOf(x[2] + 1, 1)
\* w does what the groups of points, one after the other, ask for, each by
\* priority, and arrives at y.
Does(w, groups, y) ==
    /\ w.to = y
    /\ Len(w.ran) = FoldLeft(LAMBDA n, g : n + Cardinality(g), 0, groups)
    /\ \A i \in DOMAIN w.ran : \E g \in Range(groups) : \E p \in g : p.n = w.ran[i]
    /\ \A i, j \in DOMAIN w.ran : i < j =>
          \A g, h \in DOMAIN groups : \A p \in groups[g], q \in groups[h] :
              p.n = w.ran[i] /\ q.n = w.ran[j] => g < h \/ (g = h /\ p.priority <= q.priority)
Arrives(w, before, y) ==
    IF Replaced(y)
    THEN Does(w, before \o <<Asked(y, "prior"), Asked(y, "replace"), Asked(y, "after"), Asked(NextOf(y), "prior")>>,
              NextOf(y))
    ELSE Does(w, before \o <<Asked(y, "prior")>>, y)

\* From every instruction of the program, from the old address of every
\* function and from every address in the data, control reaches the instruction it reached before, and on the
\* way it runs the points asked for there, each of them once, in the order of
\* their priorities (relocateAndBloatFunction, computeInstrumentationOffsets,
\* generateInstrumentation and the updates of the address anchors).
RunsAsPlanned ==
    phase = "done" =>
        LET mem == Memory
        IN  /\ \A f \in Functions : Arrives(Follow(mem, Program[f].base), << >>, FirstOf(f, 1))
            /\ \A k \in Words : Arrives(Follow(mem, at[anchors[<<"data", k, 0, 0>>].link]), << >>, Data[k].target)
            /\ \A x \in {y \in ProgIds : ~Replaced(y)} :
                 /\ Instr(x).kind # "ret" =>
                      Arrives(Follow(mem, at[x] + ItemOf(x).size),
                              <<Asked(x, "after")>>, NextOf(x))
                 /\ Targets(x) =>
                      Arrives(Follow(mem, Destination(ItemOf(x))),
                              IF x \in edges THEN <<Asked(EdgeOf(x), "prior")>> ELSE << >>, TargetOf(x))

\* What the run time may overwrite to switch a point off is the code of that
\* point and nothing else (applyDynamicPoints writes address and size before
\* any code is exchanged).
DynamicPointIsWhole ==
    phase = "done" =>
        \A p \in Points :
            LET d == dynamic[p.n]
                inside == {it \in Items : at[it.id] < d.address + d.size /\ at[it.id] + it.size > d.address}
            IN  /\ \A it \in inside : it.id[1] \in {"core", "jump"} /\ it.id[2] = p.n
                /\ \E it \in inside : at[it.id] = d.address /\ it.size = d.size
=============================================================================
