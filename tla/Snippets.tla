------------------------------ MODULE Snippets ------------------------------
(***************************************************************************)
(* The code PEBIL puts at an instrumentation point: what the tools ask for *)
(* (a counter, the check, increment and fill of the address buffer, a call *)
(* with arguments, a replaced call), the scratch registers they take, and  *)
(* the protection of registers, flags and stack around it.                 *)
(*                                                                         *)
(* A point is a record: kind, loc (prior, after or replace), liveIn and    *)
(* liveOut (registers), flags (live ones), frame (the function is a leaf   *)
(* or the block its entry), threadReg, memop, args, skipped.  Instructions *)
(* are tuples: their name, then operands.                                  *)
(***************************************************************************)
EXTENDS InstructionFactory, FiniteSets, SequencesExt

CONSTANTS AutoInc,      \* Size__trampoline_autoinc
          StackAlign    \* Size__trampoline_stackalign

ASSUME SizesAssumption == AutoInc \in Nat /\ StackAlign \in Nat \ {0}

R14 == 14
R15 == 15
GPRs == 0 .. 15
Light == {"CF"}         \* carry, parity, adjust, zero, sign: lahf and sahf
Full == {"OF", "DF"}    \* the others of the full mask
Flags == Light \cup Full
AluFlags == {"CF", "OF"}

-----------------------------------------------------------------------------
(* Instructions. *)

\* d becomes a value made from the registers of the sequence s.
Op(d, tag, s) == <<"op", d, tag, s, {}>>
Alu(d, tag, s) == <<"op", d, tag, s, AluFlags>>
Mov(s, d) == <<"mov", s, d>>
AddSP(n) == <<"addsp", n>>
Push(r) == <<"push", r>>
Pop(r) == <<"pop", r>>
\* Effects on memory other than the stack: b is a base or NoReg.
Store(b, field, r) == <<"store", b, field, r>>
Add(b, field) == <<"add", b, field>>

RegistersDefined(i) == CASE i[1] = "op" -> {i[2]}
                         [] i[1] = "mov" -> {i[3]}
                         [] i[1] \in {"pop", "restore"} -> {i[2]}
                         [] OTHER -> {}
FlagsDefined(i) == CASE i[1] = "op" -> i[5]
                     [] i[1] \in {"add", "cmp"} -> AluFlags
                     [] OTHER -> {}

-----------------------------------------------------------------------------
(* Registers to use. *)

Nth(S, k) == IF Cardinality(S) < k THEN NoReg ELSE CHOOSE r \in S : Cardinality(S \cap 0 .. r) = k
Ascending(S) == [k \in 1 .. Cardinality(S) |-> Nth(S, k)]
Lowest(S, k) == {r \in S : Cardinality(S \cap 0 .. r) <= k}

Live(pt) == IF pt.loc = "after" THEN pt.liveOut ELSE pt.liveIn

\* getDeadRegIn(inv, cnt): the dead ones, and the first that are allowed
\* when these are too few.
getDeadRegIn(pt, inv, cnt) ==
    LET dead == (GPRs \ pt.liveIn) \ inv
    IN  dead \cup Lowest((GPRs \ inv) \ dead, cnt - Cardinality(dead))

\* The pair of a counter: from what is dead at the best place, CX and DX
\* when that is not enough.
CounterRegs(pt) ==
    LET useRegs == (GPRs \ Live(pt)) \ {AX, SP}
        sr1 == Nth(useRegs, 1)
        sr2 == Nth(useRegs, 2)
    IN  CASE sr1 = NoReg -> <<CX, DX>>
          [] sr1 # NoReg /\ sr2 = NoReg -> <<sr1, IF sr1 = DX THEN CX ELSE DX>>
          [] OTHER -> <<sr1, sr2>>

NotThreadReg(pt) == {pt.threadReg} \ {NoReg}

\* The register that holds the thread data comes first when there is one.
WithThreadReg(pt, dead) ==
    IF pt.threadReg = NoReg THEN <<Nth(dead, 1), Nth(dead, 2), Nth(dead, 3)>>
    ELSE <<pt.threadReg, Nth(dead, 1), Nth(dead, 2)>>

CheckRegs(pt) == WithThreadReg(pt, getDeadRegIn(pt, {AX, SP, BP} \cup NotThreadReg(pt), 2))

\* getUnusableRegisters: the loop over the source operands starts at an index
\* that is not initialised; pt.skipped says that it finds nothing to do.
UsesOf(m) == {m.base, m.index} \ {NoReg}
OnlyImplicit(pt) == IF pt.memop.implicit THEN {SP} ELSE {}   \* (a mistake to compare with)
getUnusableRegisters(pt) ==
    (IF pt.memop.stores \/ ~pt.skipped THEN UsesOf(pt.memop) ELSE {})
        \cup (IF pt.memop.implicit THEN {SP} ELSE {})

FillRegs(pt) ==
    WithThreadReg(pt, getDeadRegIn(pt, {AX, SP} \cup NotThreadReg(pt) \cup getUnusableRegisters(pt), 3))

ArgRegs == <<7, 6, DX, CX, 8, 9>>      \* map64BitArgToReg

-----------------------------------------------------------------------------
(* What the tools insert. *)

storeThreadData(s, d) ==
    <<Op(d, "fs:0x10", << >>), Alu(d, "shr", <<d>>), Alu(d, "and", <<d>>), Op(s, "TData", << >>),
      Alu(d, "shl", <<d>>), Op(d, "lea", <<s, d>>), Op(d, "load", <<d>>)>>
ThreadDataUnlessKept(pt, s, d) == IF pt.threadReg = NoReg THEN storeThreadData(s, d) ELSE << >>

insertInlinedTripCounter(pt) ==
    LET sr == CounterRegs(pt)
    IN  CASE pt.kind = "counter" -> <<Add(NoReg, "counter")>>
          [] pt.kind = "libcounter" -> <<Op(sr[1], "&counter", << >>), Add(sr[1], "")>>
          [] pt.kind = "threadcounter" ->
               ThreadDataUnlessKept(pt, sr[2], sr[1])
                   \o <<Add(IF pt.threadReg = NoReg THEN sr[1] ELSE pt.threadReg, "counter")>>

\* At a function's entry and after its calls, when a register is free in it:
\* the scratch register is looked for before the instruction in either case.
instrumentForThreading(pt) ==
    LET s == Nth(getDeadRegIn(pt, {AX, SP, pt.threadReg}, 1), 1)
    IN  storeThreadData(s, pt.threadReg)

BufferCheck(pt) ==
    LET sr == CheckRegs(pt)
    IN  ThreadDataUnlessKept(pt, sr[2], sr[1])
          \o <<Op(sr[2], "Buffer", <<sr[1]>>), Op(sr[2], "current", <<sr[2]>>), <<"cmp", sr[2]>>, <<"jl">>>>

BufferIncrement(pt) ==
    LET sr == CheckRegs(pt)
    IN  ThreadDataUnlessKept(pt, sr[2], sr[1])
          \o <<Op(sr[2], "Buffer", <<sr[1]>>), Add(sr[2], "current")>>

\* emitAddressComputation in one step; "fs:" stands for a segment override.
AddressComputation(m, d) ==
    Op(d, m.how, (IF m.base = NoReg THEN << >> ELSE <<m.base>>)
                     \o (IF m.index = NoReg THEN << >> ELSE <<m.index>>))

BufferFill(pt) ==
    LET sr == FillRegs(pt)
    IN  ThreadDataUnlessKept(pt, sr[2], sr[1])
          \o <<Op(sr[2], "Buffer", <<sr[1]>>), Op(sr[3], "current", <<sr[2]>>), Alu(sr[3], "shl", <<sr[3]>>),
               Op(sr[2], "lea", <<sr[2], sr[3]>>), AddressComputation(pt.memop, sr[3]),
               Store(sr[2], "address", sr[3]), Op(sr[3], "memseq", << >>),
               Store(sr[2], "memseq", sr[3]), Op(sr[3], "image", << >>),
               Store(sr[2], "imageid", sr[3]), Op(sr[3], "fs:0x10", << >>), Store(sr[2], "threadid", sr[3])>>

\* assignStoragePrior, with a register and with a place in memory.
ConstantArgument(k) == Op(ArgRegs[k], "constant", << >>)
StoreSite == <<<<"save", CX>>, Op(CX, "site", << >>), Store(NoReg, "site", CX), <<"restore", CX>>>>

Arguments(pt) ==
    LET constants == {k \in DOMAIN pt.args : pt.args[k] = "constant"}
    IN  [n \in 1 .. Cardinality(constants) |-> ConstantArgument(Nth(constants, n))]

\* Core instructions, or those before a call.
Inserted(pt) ==
    CASE pt.kind \in {"counter", "libcounter", "threadcounter"} -> insertInlinedTripCounter(pt)
      [] pt.kind = "threadinit" -> instrumentForThreading(pt)
      [] pt.kind = "check" -> BufferCheck(pt)
      [] pt.kind = "increment" -> BufferIncrement(pt)
      [] pt.kind = "fill" -> BufferFill(pt)
      [] pt.kind = "call" -> Arguments(pt)
      [] pt.kind = "replace" -> StoreSite

Inline(pt) == pt.kind \in {"counter", "libcounter", "threadcounter", "threadinit", "increment"}
Calls(pt) == pt.kind \in {"check", "call", "replace"}
canOverflow(pt) == pt.kind \notin {"counter", "libcounter", "threadcounter"}
=============================================================================
