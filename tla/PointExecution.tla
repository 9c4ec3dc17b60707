--------------------------- MODULE PointExecution ---------------------------
(***************************************************************************)
(* The protected code of an instrumentation point, executed.  An abstract  *)
(* processor runs the trampoline or the inlined code (text.point) and the  *)
(* wrapper of the instrumentation function (text.wrapper), instruction by  *)
(* instruction, on values that are terms: what the program had in a        *)
(* register is <<"program", r>>, everything computed names its sources.    *)
(***************************************************************************)
EXTENDS Snippets

CONSTANTS Points,       \* the instrumentation points to execute
          OthersSave    \* other threads use the register storage, too

RedZone == 128  \* bytes below SP that the calling convention leaves to leaf functions
Kinds == {"counter", "libcounter", "threadcounter", "threadinit", "check", "increment", "fill", "call", "replace"}
\* The register for the thread data is dead in the whole function (getDeadGPR).
\* AX and SP are not where the function returns or calls (itab.c:2272), and
\* only the tools that count and simulate ask for one.
KeepsThreadData(p) ==
    /\ p.threadReg \in GPRs \ (p.liveIn \cup p.liveOut \cup {AX, SP})
    /\ p.kind \in {"threadcounter", "threadinit", "check", "increment", "fill"}
IsPoint(p) ==
    /\ p.kind \in Kinds /\ p.loc \in {"prior", "after", "replace"} /\ (p.kind = "replace" <=> p.loc = "replace")
    /\ p.liveIn \subseteq GPRs /\ p.liveOut \subseteq GPRs /\ p.flags \subseteq Flags
    /\ p.threadReg = NoReg \/ KeepsThreadData(p)
    /\ p.kind = "threadinit" => p.threadReg # NoReg
    /\ p.sp \in Int /\ p.sp % 8 = 0 /\ p.frame \in BOOLEAN
    /\ p.args \in Seq({"constant", "address"}) /\ Len(p.args) <= Len(ArgRegs)
    /\ p.kind = "check" => \A k \in DOMAIN p.args : p.args[k] = "address"
    /\ UsesOf(p.memop) \subseteq GPRs
ASSUME ExecutionAssumption ==
    /\ \A p \in Points : IsPoint(p)
    /\ OthersSave \in BOOLEAN
    /\ AutoInc >= RedZone
    /\ StackAlign % 16 = 0

VARIABLES pt,       \* the point
          text,     \* its code
          pc,       \* the part of the text, and the instruction in it
          reg, flags, stack, fp,
          effects,  \* what was written outside the stack, in order
          called    \* how the instrumentation function was entered

vars == <<pt, text, pc, reg, flags, stack, fp, effects, called>>

-----------------------------------------------------------------------------
(* Protection. *)

\* Whatever the place, the registers live before it (a mistake to compare with).
ProtectedAsPrior(p, code) == p.liveIn \cap UNION {RegistersDefined(code[i]) : i \in 1 .. Len(code)}

\* getProtectedRegs: the live registers the inserted code defines.
getProtectedRegisters(p, code) ==
    Live(p) \cap UNION {RegistersDefined(code[i]) : i \in 1 .. Len(code)}

getFlagsProtectionMethod(p, code) ==
    LET squashed == (UNION {FlagsDefined(code[i]) : i \in 1 .. Len(code)})
                        \ (IF canOverflow(p) THEN {} ELSE {"OF"})
        protect == p.flags \cap squashed
    IN  CASE p.loc = "replace" \/ protect = {} -> "none"
          [] p.loc # "replace" /\ protect \cap Full # {} -> "full"
          [] OTHER -> "light"

OnEach(F(_), q) == [k \in 1 .. Len(q) |-> F(q[k])]
Pushes(S) == OnEach(Push, Ascending(S))
Pops(S) == OnEach(Pop, Reverse(Ascending(S)))
SaveFlags(method) == CASE method = "full" -> <<<<"pushf">>>>
                       [] method = "light" -> <<Push(AX), <<"lahf">>>>
                       [] method = "none" -> << >>
RestoreFlags(method) == CASE method = "full" -> <<<<"popf">>>>
                          [] method = "light" -> <<<<"sahf">>, Pop(AX)>>
                          [] method = "none" -> << >>
Around(needed, code) == IF needed THEN <<AddSP(-AutoInc)>> \o code \o <<AddSP(AutoInc)>> ELSE code

\* insertStateProtection: the pushes are prepended one by one, so that they
\* come out in descending order, inside the saving of the flags.
insertStateProtection(p, code) ==
    LET regs == getProtectedRegisters(p, code) \ {SP}
        method == getFlagsProtectionMethod(p, code)
    IN  Around(p.frame /\ (regs # {} \/ method # "none"),
               SaveFlags(method) \o Reverse(Pushes(regs)) \o code \o Reverse(Pops(regs)) \o RestoreFlags(method))

\* generateTrampoline, up to the displaced instructions: the flags are saved
\* inside the registers, and a call follows what was inserted before it.  A
\* function without a wrapper is called directly and counts as safe.
generateTrampoline(p, code) ==
    LET regs == getProtectedRegisters(p, code)
        method == getFlagsProtectionMethod(p, code)
        stackIsSafe == ~p.frame \/ p.kind = "replace"
    IN  Around(method # "none" \/ ~stackIsSafe \/ regs # {},
               Pushes(regs) \o SaveFlags(method) \o code
                   \o (CASE p.kind = "replace" -> <<<<"external">>>>
                         [] p.kind \in {"check", "call"} -> <<<<"call">>>>
                         [] OTHER -> << >>)
                   \o RestoreFlags(method) \o Pops(regs))

PointCode(p) == IF Inline(p) THEN insertStateProtection(p, Inserted(p))
                ELSE generateTrampoline(p, Inserted(p))

-----------------------------------------------------------------------------
(* The wrapper of an instrumentation function. *)

PassArguments(args) ==
    Reverse([k \in 1 .. Len(args) |-> IF args[k] = "address" THEN Op(ArgRegs[k], "&data", << >>)
                                      ELSE Mov(ArgRegs[k], ArgRegs[k])])
AlignStack == <<Mov(SP, R14), AddSP(-StackAlign), Op(R15, "mask", << >>), <<"andsp">>, Pop(R15), Push(R14)>>

generateWrapperInstructions(args) ==
    <<AddSP(-AutoInc), <<"pushf">>>> \o Pushes(GPRs) \o PassArguments(args) \o AlignStack
      \o <<AddSP(-StackAlign), <<"fxsave">>, AddSP(-StackAlign), <<"external">>,
           AddSP(StackAlign), <<"fxrstor">>, AddSP(StackAlign), Pop(R14), Mov(R14, SP)>>
      \o Pops(GPRs) \o <<<<"popf">>, AddSP(AutoInc), <<"ret">>>>

-----------------------------------------------------------------------------
(* The processor. *)

SPvalue(n) == <<"sp", n>>
sp == reg[SP][2]
Junk == <<"junk", 0>>
\* What the program has on its stack: its frame and the red zone of a leaf.  A
\* function that keeps the address of its thread data has it in a register.
ProgramStack(p) == [a \in {p.sp + 8 * k : k \in -(RedZone \div 8) .. 1} |-> <<"program", a>>]
ProgramReg(p) == [r \in GPRs |-> IF r = SP THEN SPvalue(p.sp)
                                 ELSE IF r = p.threadReg /\ p.kind # "threadinit" THEN <<"threaddata", 0>>
                                 ELSE <<"program", r>>]
Top(a) == IF a \in DOMAIN stack THEN stack[a] ELSE Junk
Put(a, v) == [x \in DOMAIN stack \cup {a} |-> IF x = a THEN v ELSE stack[x]]

\* What storeThreadData computes is the one value abbreviated, as it is in
\* the register kept for it.
T(tag, args) == <<tag, args>>
ThreadDataTerm ==
    T("load", <<T("lea", <<T("TData", << >>),
        T("shl", <<T("and", <<T("shr", <<T("fs:0x10", << >>)>>)>>)>>)>>)>>)
Computed(tag, args) == IF T(tag, args) = ThreadDataTerm THEN <<"threaddata", 0>> ELSE T(tag, args)

Init == /\ pt \in Points
        /\ text = [point |-> PointCode(pt),
                   wrapper |-> IF Calls(pt) THEN generateWrapperInstructions(pt.args) ELSE << >>]
        /\ pc = <<"point", 1>>
        /\ reg = ProgramReg(pt)
        /\ stack = ProgramStack(pt)
        /\ flags = [f \in Flags |-> <<"program", f>>]
        /\ fp = <<"program", 0>>
        /\ effects = << >>
        /\ called = << >>

Done == pc[1] = "point" /\ pc[2] > Len(text.point)
current == text[pc[1]][pc[2]]
Is(name) == ~Done /\ current[1] = name
Advance(k) == pc' = <<pc[1], pc[2] + k>>

\* Computations, moves and the flags that go with them.
Compute ==
    \/ /\ Is("op")
       /\ reg' = [reg EXCEPT ![current[2]] = Computed(current[3], [k \in 1 .. Len(current[4]) |-> reg[current[4][k]]])]
       /\ flags' = [f \in Flags |-> IF f \in current[5] THEN Junk ELSE flags[f]]
       /\ Advance(1)
       /\ UNCHANGED <<pt, text, stack, fp, effects, called>>
    \/ /\ Is("mov") \/ Is("addsp") \/ Is("andsp")
       /\ reg' = CASE current[1] = "mov" -> [reg EXCEPT ![current[3]] = reg[current[2]]]
                   [] current[1] = "addsp" -> [reg EXCEPT ![SP] = SPvalue(sp + current[2])]
                   [] current[1] = "andsp" -> [reg EXCEPT ![SP] = SPvalue(sp - (sp % StackAlign))]
       /\ flags' = [f \in Flags |-> IF current[1] = "andsp" /\ f \in AluFlags THEN Junk ELSE flags[f]]
       /\ Advance(1)
       /\ UNCHANGED <<pt, text, stack, fp, effects, called>>

\* The light flags go to the upper half of AX and come from there.
TransferFlags ==
    /\ Is("lahf") \/ Is("sahf")
    /\ IF current[1] = "lahf"
       THEN /\ reg' = [reg EXCEPT ![AX] = <<"ah", [f \in Light |-> flags[f]]>>]
            /\ UNCHANGED flags
       ELSE /\ flags' = [f \in Flags |-> IF f \in Full THEN flags[f]
                                         ELSE IF reg[AX][1] = "ah" THEN reg[AX][2][f] ELSE Junk]
            /\ UNCHANGED reg
    /\ Advance(1)
    /\ UNCHANGED <<pt, text, stack, fp, effects, called>>

\* push puts the old SP when it is SP that is pushed; pop of SP takes the value.
PushOrPop ==
    /\ Is("push") \/ Is("pushf") \/ Is("pop") \/ Is("popf")
    /\ IF current[1] \in {"push", "pushf"}
       THEN /\ stack' = Put(sp - 8, IF current[1] = "push" THEN reg[current[2]] ELSE <<"flags", flags>>)
            /\ reg' = [reg EXCEPT ![SP] = SPvalue(sp - 8)]
            /\ UNCHANGED flags
       ELSE /\ reg' = IF current[1] = "pop" THEN [reg EXCEPT ![SP] = SPvalue(sp + 8), ![current[2]] = Top(sp)]
                      ELSE [reg EXCEPT ![SP] = SPvalue(sp + 8)]
            /\ flags' = CASE current[1] = "pop" -> flags
                          [] current[1] = "popf" /\ Top(sp)[1] = "flags" -> Top(sp)[2]
                          [] OTHER -> [f \in Flags |-> Junk]
            /\ UNCHANGED stack
    /\ Advance(1)
    /\ UNCHANGED <<pt, text, fp, effects, called>>

\* The data the point writes: counters, and fields of the run time's structures.
Base(b) == IF b = NoReg THEN << >> ELSE reg[b]
WriteData ==
    /\ Is("store") \/ Is("add")
    /\ effects' = Append(effects, IF current[1] = "store"
                                  THEN <<"store", Base(current[2]), current[3], reg[current[4]]>>
                                  ELSE <<"add", Base(current[2]), current[3]>>)
    /\ flags' = [f \in Flags |-> IF f \in FlagsDefined(current) THEN Junk ELSE flags[f]]
    /\ Advance(1)
    /\ UNCHANGED <<pt, text, reg, stack, fp, called>>

\* The register storage: save and restore of one register around a constant.
\* The storage is one for all threads.
SaveOrRestore ==
    /\ Is("save") \/ Is("restore")
    /\ IF current[1] = "save"
       THEN effects' = Append(effects, <<"save", reg[current[2]]>>) /\ UNCHANGED reg
       ELSE /\ \E v \in {effects[1][2]} \cup (IF OthersSave THEN {Junk} ELSE {}) :
                 reg' = [reg EXCEPT ![current[2]] = v]
            /\ UNCHANGED effects
    /\ Advance(1)
    /\ UNCHANGED <<pt, text, flags, stack, fp, called>>

\* The comparison with the limit, and the branch over the call that follows.
Compare ==
    /\ Is("cmp")
    /\ flags' = [f \in Flags |-> IF f \in AluFlags THEN Junk ELSE flags[f]]
    /\ Advance(1)
    /\ UNCHANGED <<pt, text, reg, stack, fp, effects, called>>
BranchJL ==
    /\ Is("jl")
    /\ \E taken \in BOOLEAN : Advance(IF taken THEN 2 ELSE 1)
    /\ UNCHANGED <<pt, text, reg, flags, stack, fp, effects, called>>

CallWrapper ==
    /\ Is("call")
    /\ stack' = Put(sp - 8, <<"return", pc[2] + 1>>)
    /\ reg' = [reg EXCEPT ![SP] = SPvalue(sp - 8)]
    /\ pc' = <<"wrapper", 1>>
    /\ UNCHANGED <<pt, text, flags, fp, effects, called>>
ReturnFromWrapper ==
    /\ Is("ret")
    /\ Top(sp)[1] = "return"
    /\ pc' = <<"point", Top(sp)[2]>>
    /\ reg' = [reg EXCEPT ![SP] = SPvalue(sp + 8)]
    /\ UNCHANGED <<pt, text, flags, stack, fp, effects, called>>

\* The function itself, by the calling convention: it keeps BX, BP, SP and
\* R12 to R15, and writes wherever it wants below its return address.
CalleeSaved == {3, SP, BP, 12, 13, 14, 15}
ExternalCall ==
    /\ Is("external")
    /\ called' = [reg |-> reg, flags |-> flags]
    /\ reg' = [r \in GPRs |-> IF r \in CalleeSaved THEN reg[r] ELSE Junk]
    /\ flags' = [f \in Flags |-> Junk]
    /\ fp' = Junk
    /\ stack' = [a \in {x \in DOMAIN stack : x >= sp} |-> stack[a]]
    /\ Advance(1)
    /\ UNCHANGED <<pt, text, effects>>

\* The floating point registers, 512 bytes; the address must be aligned.
FxSaveOrRestore ==
    /\ Is("fxsave") \/ Is("fxrstor")
    /\ sp % 16 = 0
    /\ IF current[1] = "fxsave"
       THEN stack' = Put(sp, fp) /\ UNCHANGED fp
       ELSE fp' = Top(sp) /\ UNCHANGED stack
    /\ Advance(1)
    /\ UNCHANGED <<pt, text, reg, flags, effects, called>>

Next == \/ Compute \/ TransferFlags \/ PushOrPop \/ WriteData \/ SaveOrRestore \/ Compare
        \/ BranchJL \/ CallWrapper \/ ReturnFromWrapper \/ ExternalCall \/ FxSaveOrRestore
        \/ Done /\ UNCHANGED vars

Spec == Init /\ [][Next]_vars

-----------------------------------------------------------------------------
(* Properties. *)

\* After the point the program finds everything it may still read as it was:
\* the live registers and flags, SP, the floating point registers, its stack
\* frame and the red zone of a leaf; a function that keeps the address of its
\* thread data in a register finds it there.  A counter is allowed to lose the
\* overflow flag (setOverflowable), a replaced call what any call loses.
ProgramUndisturbed ==
    Done =>
        /\ reg[SP] = SPvalue(pt.sp)
        /\ \A a \in DOMAIN ProgramStack(pt) :
              (a >= pt.sp \/ (pt.frame /\ pt.kind # "replace")) => Top(a) = <<"program", a>>
        /\ pt.kind # "replace" =>
              /\ \A r \in Live(pt) \ {SP} : reg[r] = <<"program", r>>
              /\ fp = <<"program", 0>>
              /\ \A f \in pt.flags : (f = "OF" => canOverflow(pt)) => flags[f] = <<"program", f>>
        /\ pt.threadReg # NoReg => reg[pt.threadReg] = <<"threaddata", 0>>

\* The instrumentation function is entered with the arguments the tool added,
\* on a stack aligned by 16; a function that replaces another one sees what
\* that one would have seen.  Live CX is the exception: protecting it moves
\* the stack below the arguments of the replaced call; and CX is only safe
\* while no other thread uses the storage between its save and its restore.
CalledAsDeclared ==
    called # << >> =>
        IF pt.kind = "replace"
        THEN CX \notin pt.liveIn =>
                \A r \in GPRs : (r = CX => ~OthersSave) => called.reg[r] = ProgramReg(pt)[r]
        ELSE /\ called.reg[SP][2] % 16 = 0
             /\ \A k \in 1 .. Len(pt.args) :
                  called.reg[ArgRegs[k]] = T(IF pt.args[k] = "constant" THEN "constant" ELSE "&data", << >>)

\* What is to be written: one increment of the right counter, the four fields
\* of this access's entry of the buffer.
BufferTerm == T("Buffer", <<<<"threaddata", 0>>>>)
EntryTerm == T("lea", <<BufferTerm, T("shl", <<T("current", <<BufferTerm>>)>>)>>)
UsedAddress(p) == LET i == AddressComputation(p.memop, NoReg)
                  IN  T(i[3], [k \in 1 .. Len(i[4]) |-> ProgramReg(p)[i[4][k]]])
Meant(p) ==
    CASE p.kind = "counter" -> << <<"add", << >>, "counter">> >>
      [] p.kind = "libcounter" -> << <<"add", T("&counter", << >>), "">> >>
      [] p.kind = "threadcounter" -> << <<"add", <<"threaddata", 0>>, "counter">> >>
      [] p.kind = "increment" -> << <<"add", BufferTerm, "current">> >>
      [] p.kind = "fill" -> << <<"store", EntryTerm, "address", UsedAddress(p)>>,
                               <<"store", EntryTerm, "memseq", T("memseq", << >>)>>,
                               <<"store", EntryTerm, "imageid", T("image", << >>)>>,
                               <<"store", EntryTerm, "threadid", T("fs:0x10", << >>)>> >>
      [] p.kind = "replace" -> << <<"save", <<"program", CX>>>>, <<"store", << >>, "site", T("site", << >>)>> >>
      [] OTHER -> << >>

\* "sr3 holds the memory address being used by memop" (CacheSimulation.C:567).
\* It does unless the address depends on SP, which the protection has moved,
\* or on AX while it holds the flags, and unless the operand's registers were
\* not looked at; everything else is written as it is meant.
MovedSP == SP \in UsesOf(pt.memop)
FlagsInAX == AX \in UsesOf(pt.memop) /\ getFlagsProtectionMethod(pt, Inserted(pt)) = "light"
WritesWhatWasMeant ==
    Done /\ (pt.kind = "fill" => ~(MovedSP \/ FlagsInAX \/ pt.skipped)) => effects = Meant(pt)
DoesWhatWasMeant == CalledAsDeclared /\ WritesWhatWasMeant
=============================================================================
