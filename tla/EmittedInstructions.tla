------------------------ MODULE EmittedInstructions ------------------------
(***************************************************************************)
(* The life of an emitted instruction.  A method of the factory is called  *)
(* and fills a buffer (Emit); emitInstructionBase has the bytes            *)
(* disassembled and asserts their number (Disassemble); from an            *)
(* instruction that touches memory emitAddressComputation makes one that   *)
(* loads the address (ComputeAddress), which is disassembled in its turn.  *)
(*                                                                         *)
(* A call is recorded with what the caller expects of it, in the terms of  *)
(* InstructionDecoder: the method's name and parameters say what that is.  *)
(***************************************************************************)
EXTENDS InstructionDecoder

CONSTANTS Registers,   \* the registers passed, a part of GPRs64
          Words,       \* the constants and offsets passed
          Addresses,   \* the addresses passed, words below 2^31
          Places       \* where relative jumps are and go

ASSUME CallAssumption ==
    /\ Registers \subseteq GPRs64
    /\ \A w \in Words \cup Addresses : w \in [1 .. 8 -> 0 .. 255]
    /\ \A a \in Addresses : IsUint32(a) /\ a[4] < 128

VARIABLES call,         \* the call made last
          code,         \* the bytes it left in the buffer
          instruction   \* what they were disassembled to

factoryVars == <<call, code, instruction>>

-----------------------------------------------------------------------------
(* FactoryCalls: method, class, bytes, what is expected. *)

Call(method, is64, bytes, op, width, dst, src) ==
    [method |-> method, is64 |-> is64, bytes |-> bytes,
     op |-> op, width |-> width, dst |-> dst, src |-> src]

Low == Registers \cap GPRs32
\* Registers the forms without displacement can have as base.
PlainLow == Low \ {SP, BP}
NotBP == {b \in Registers : Lo(b) # BP}
Words32 == {w \in Words : IsUint32(w)}
Sext(w) == Imm(Extend(Bytes(w, 4)))     \* what remains of a word in a long constant
Zext(w) == Imm(ZeroExtend(Bytes(w, 4)))
Sext1(w) == Imm(Extend(Bytes(w, 1)))
At(a) == Mem(NoReg, NoReg, NoReg, 1, a)
Based(b, off) == Mem(NoReg, b, NoReg, 1, Extend(Bytes(off, 4)))
Zero == ZeroExtend(<<0>>)

RegisterCalls ==
    UNION { {Call("emitMoveRegToReg", TRUE, emitMoveRegToReg64(s, d), "mov", 8, R(d), R(s)),
             Call("emitRegAddReg2OpForm", TRUE, emitRegAddReg2OpForm64(s, d), "add", 8, R(d), R(s)),
             Call("emitRegAndReg", TRUE, emitRegAndReg(d, s), "and", 8, R(d), R(s)),
             Call("emitRegOrReg", TRUE, emitRegOrReg(d, s), "or", 8, R(d), R(s))}
            : s \in Registers, d \in Registers }
    \cup
    UNION { {Call("emitMoveRegToReg", FALSE, emitMoveRegToReg32(s, d), "mov", 4, R(d), R(s)),
             Call("emitRegAddReg2OpForm", FALSE, emitRegAddReg2OpForm32(s, d), "add", 4, R(d), R(s)),
             Call("emitXorRegReg", FALSE, emitXorRegReg32(s, d), "xor", 4, R(d), R(s)),
             Call("emitXorRegReg", TRUE, emitXorRegReg64(s, d), "xor", 8, R(d), R(s))}
            : s \in Low, d \in Low }

ConstantCalls ==
    UNION { {Call("emitMoveImm64ToReg", TRUE, emitMoveImm64ToReg(w, d), "mov", 8, R(d), Imm(w)),
             Call("emitImmAndReg", TRUE, emitImmAndReg(w, d), "and", 8, R(d), Sext(w)),
             Call("emitImmOrReg", TRUE, emitImmOrReg(w, d), "or", 8, R(d), Sext(w)),
             Call("emitRegImmMultReg", TRUE, emitRegImmMultReg(d, w, d), "imul", 8, R(d), <<"both", R(d), Sext(w)>>),
             Call("emitShiftRightLogical", TRUE, emitShiftRightLogical64(w[1], d), "shr", 8, R(d), Sext1(w)),
             Call("emitShiftLeftLogical", TRUE, emitShiftLeftLogical64(w[1], d), "shl", 8, R(d), Sext1(w))}
            : w \in Words, d \in Registers }
    \cup
    UNION { {Call("emitMoveImmToReg", TRUE, emitMoveImmToReg64(w, d), "mov", 8, R(d), Sext(w)),
             Call("emitCompareImmReg", TRUE, emitCompareImmReg64(w, d), "cmp", 8, R(d), Sext(w))}
            : w \in Words32, d \in Registers }
    \cup
    UNION { {Call("emitMoveImmToReg", FALSE, emitMoveImmToReg(w, d), "mov", 4, R(d), Zext(w)),
             Call("emitCompareImmReg", FALSE, emitCompareImmReg32(w, d), "cmp", 4, R(d), Sext(w)),
             Call("emitRegAddImm", FALSE, emitRegAddImm32(d, w), "add", 4, R(d), Sext(w)),
             Call("emitShiftRightLogical", FALSE, emitShiftRightLogical32(w[1], d), "shr", 4, R(d), Sext1(w)),
             Call("emitShiftLeftLogical", FALSE, emitShiftLeftLogical32(w[1], d), "shl", 4, R(d), Sext1(w)),
             Call("emitStackPushImm", FALSE, emitStackPushImm(w), "push", 4, None, Sext(w))}
            : w \in Words32, d \in Low }
    \cup
    UNION { {Call("emitRegImm1ByteMultReg", FALSE, emitRegImm1ByteMultReg(s, w[1], d), "imul", 4, R(d), <<"both", R(s), Sext1(w)>>)}
            : w \in Words32, s \in Low, d \in Low }
    \cup
    {Call("emitRegSubImm", FALSE, emitRegSubImm32(d, w), "sub", 4, R(d), Sext(w)) : w \in Words32, d \in Low \ {AX}}
    \* The subtraction reaches the lower registers only, the addition not AX;
    \* a constant of 0 is replaced by a nop.
    \cup
    {Call("emitRegSubImm", TRUE, emitRegSubImm(d, w), "sub", 8, R(d), Sext(w)) : w \in Words32 \ {Zero}, d \in Low \ {AX}}
    \cup
    {Call("emitRegAddImm", TRUE, emitRegAddImm(d, w), "add", 8, R(d), Sext(w)) : w \in Words32 \ {Zero}, d \in Registers \ {AX}}
    \cup
    {Call("emitMoveImmByteToReg", FALSE, emitMoveImmByteToReg(w[1], d), "mov", IF d > 3 THEN 2 ELSE 1, R(d),
          IF d > 3 THEN Imm(ZeroExtend(Bytes(w, 1))) ELSE Sext1(w)) : w \in Words32, d \in Low}
    \cup
    {Call("emitRegIncrement", FALSE, emitRegIncrement(d), "inc", 4, R(d), None) : d \in Low}

MemoryCalls ==
    UNION { {Call("emitMoveRegToMem", TRUE, emitMoveRegToMem64(r, a), "mov", 8, At(a), R(r)),
             Call("emitMoveMemToReg", TRUE, emitMoveMemToReg64(a, r, TRUE), "mov", 8, R(r), At(a)),
             Call("emitMoveTLSOffsetToReg", TRUE, emitMoveTLSOffsetToReg(a, r), "mov", 8, R(r), Mem(FS, NoReg, NoReg, 1, a)),
             Call("emitMoveThreadIdToReg", TRUE, emitMoveThreadIdToReg(r), "mov", 8, R(r),
                  Mem(FS, NoReg, NoReg, 1, ZeroExtend(<<16>>))),
             Call("emitLoadRipImmToReg", TRUE, emitLoadRipImmToReg(a, r), "lea", 8, R(r), Mem(NoReg, RIP, NoReg, 1, a)),
             Call("emitMoveMemToXMMReg", TRUE, emitMoveMemToXMMReg(a, r), "movs", 8, X(r), At(a))}
            : a \in Addresses, r \in Registers }
    \cup
    UNION { {Call("emitMoveRegToMem", FALSE, emitMoveRegToMem32(r, a), "mov", 4, At(a), R(r)),
             Call("emitMoveMemToReg", FALSE, emitMoveMemToReg32(a, r), "mov", 4, R(r), At(a)),
             Call("emitMoveMemToReg", TRUE, emitMoveMemToReg64(a, r, FALSE), "mov", 4, R(r), At(a)),
             Call("emitExchangeMemReg", FALSE, emitExchangeMemReg(a, r), "xchg", 4, At(a), R(r)),
             Call("emitFxSave", FALSE, emitFxSave(a), "fxsave", 512, At(a), None),
             Call("emitFxRstor", FALSE, emitFxRstor(a), "fxrstor", 512, At(a), None)}
            : a \in Addresses, r \in Low }
    \cup
    UNION { {Call("emitMoveImmToMem", TRUE, emitMoveImmToMem64(w, a), "mov", 4, At(a), Sext(w)),
             Call("emitMoveImmToMem", FALSE, emitMoveImmToMem32(w, a), "mov", 4, At(a), Sext(w)),
             Call("emitAddImmToMem", TRUE, emitAddImmToMem(w, a), "add", 8, At(a), Sext(w)),
             Call("emitAddImmByteToMem", TRUE, emitAddImmByteToMem64(w[1], a), "add", 8, At(a), Sext1(w)),
             Call("emitSubImmByteToMem", TRUE, emitSubImmByteToMem64(w[1], a), "sub", 8, At(a), Sext1(w)),
             Call("emitAddImmByteToMem", FALSE, emitAddImmByteToMem32(w[1], a), "add", 4, At(a), Sext1(w)),
             Call("emitSubImmByteToMem", FALSE, emitSubImmByteToMem32(w[1], a), "sub", 4, At(a), Sext1(w))}
            : w \in Words, a \in Addresses }

BasedCalls ==
    UNION { {Call("emitMoveRegaddrImmToReg", TRUE, emitMoveRegaddrImmToReg64(b, w, r), "mov", 8, R(r), Based(b, w)),
             Call("emitMoveRegToRegaddrImm", TRUE, emitMoveRegToRegaddrImm64(r, b, w, TRUE), "mov", 8, Based(b, w), R(r)),
             Call("emitMoveRegToRegaddrImm", TRUE, emitMoveRegToRegaddrImm64(r, b, w, FALSE), "mov", 4, Based(b, w), R(r))}
            : b \in Registers, w \in Words, r \in Registers }
    \cup
    UNION { {Call("emitAddImmToRegaddrImm", TRUE, emitAddImmToRegaddrImm(v, b, w), "add", 4, Based(b, w), Sext(v)),
             Call("emitAddImmByteToRegaddrImm", TRUE, emitAddImmByteToRegaddrImm(v[1], b, w), "add", 4, Based(b, w), Sext1(v)),
             Call("emitMoveImmToRegaddrImm", TRUE, emitMoveImmToRegaddrImm64(v, b, w), "mov", 8, Mem32(Based(b, w)), Sext(v))}
            : b \in Registers, w \in Words, v \in Words }
    \cup
    UNION { {Call("emitMoveRegaddrImmToReg", FALSE, emitMoveRegaddrImmToReg32(b, w, r), "mov", 4, R(r), Based(b, w)),
             Call("emitMoveRegToRegaddrImm", FALSE, emitMoveRegToRegaddrImm32(r, b, w), "mov", 4, Based(b, w), R(r)),
             Call("emitLoadRegImmReg", FALSE, emitLoadRegImmReg32(r, w, b), "lea", 4, R(r), Based(b, w)),
             Call("emitMoveImmToRegaddrImm", FALSE, emitMoveImmToRegaddrImm(w, b, w), "mov", 4, Based(b, w), Sext(w)),
             Call("emitMoveRegToRegaddrImm4Byte", TRUE, emitMoveRegToRegaddrImm4Byte(r, b, w), "mov", 8, Based(b, w), R(r)),
             Call("emitMoveRegToRegaddrImm1Byte", TRUE, emitMoveRegToRegaddrImm1Byte(r, b, w), "mov", 8,
                  Mem(NoReg, b, NoReg, 1, Extend(Bytes(w, 1))), R(r))}
            : b \in Low, w \in Words, r \in Low }
    \cup
    \* R12 as base of emitLoadRegImmReg and SP as result of emitLoadRipImmReg
    \* are encoded wrongly; no caller passes them.
    UNION { {Call("emitLoadRegImmReg", TRUE, emitLoadRegImmReg64(r, w, b), "lea", 8, R(r), Based(b, w)) : b \in Registers \ {12}}
            : w \in Words, r \in Registers }
    \cup
    \* Both bits of the prefix follow the result, the second one is without
    \* effect as there is no base.
    {Call("emitLoadRipImmReg", TRUE, emitLoadRipImmReg(w, r), "lea", 8, R(r), Mem(NoReg, RIP, NoReg, 1, Extend(Bytes(w, 4))))
        : w \in Words, r \in Registers \ {SP}}

\* Bases without an offset.  BP and R13 have a form of their own in two of
\* the methods only, SP and R12 in all but two.
PointerCalls ==
    UNION { {Call("emitMoveRegToRegaddr", TRUE, emitMoveRegToRegaddr64(r, b), "mov", 8, Based(b, Zero), R(r)),
             Call("emitMoveRegaddrToReg", TRUE, emitMoveRegaddrToReg64(b, r), "mov", 8, R(r), Based(b, Zero))}
            : r \in Registers, b \in Registers }
    \cup
    {Call("emitExchangeAdd", TRUE, emitExchangeAdd(r, b, lock), "xadd", 8, Based(b, Zero), R(r))
        : r \in Registers, b \in NotBP, lock \in BOOLEAN}
    \cup
    UNION { {Call("emitFxSaveReg", TRUE, emitFxSaveReg(b), "fxsave", 512, Based(b, Zero), None),
             Call("emitFxRstorReg", TRUE, emitFxRstorReg(b), "fxrstor", 512, Based(b, Zero), None)} : b \in NotBP }
    \cup
    UNION { {Call("emitMoveRegToRegaddr", FALSE, emitMoveRegToRegaddr(r, b), "mov", 4, Based(b, Zero), R(r)),
             Call("emitMoveRegaddrToReg", FALSE, emitMoveRegaddrToReg32(b, r), "mov", 4, R(r), Based(b, Zero)),
             Call("emitAddByteToRegaddr", FALSE, emitAddByteToRegaddr(r, b), "add", 4, Based(b, Zero), Imm(ZeroExtend(<<r>>)))}
            : r \in Low, b \in PlainLow }

Segments == {0, 2, 3, 4, 5}     \* all but X86_SEGREG_CS
StackCalls ==
    UNION { {Call("emitStackPush", TRUE, emitStackPush(r), "push", 8, None, R(r)),
             Call("emitStackPop", TRUE, emitStackPop(r), "pop", 8, R(r), None)} : r \in Registers }
    \cup
    UNION { {Call("emitStackPush", FALSE, emitStackPush(r), "push", 4, None, R(r)),
             Call("emitStackPop", FALSE, emitStackPop(r), "pop", 4, R(r), None),
             Call("emitStackPush4Byte", TRUE, emitStackPush4Byte(r), "push", 2, None, R(r))} : r \in Low }
    \cup
    UNION { {Call("emitMoveSegmentRegToReg", TRUE, emitMoveSegmentRegToReg64(s, r), "mov", 2, R(r), S(s))}
            : s \in 0 .. 5, r \in Registers }
    \cup
    UNION { {Call("emitMoveSegmentRegToReg", FALSE, emitMoveSegmentRegToReg32(s, r), "mov", 2, R(r), S(s))}
            : s \in 0 .. 5, r \in Low }
    \cup
    UNION { {Call("emitMoveRipImmToSegmentReg", TRUE, emitMoveRipImmToSegmentReg(a, s), "mov", 2, S(s), Mem(NoReg, RIP, NoReg, 1, a)),
             Call("emitMoveImmToSegmentReg", TRUE, emitMoveImmToSegmentReg(a, s), "mov", 2, S(s), At(a))}
            : a \in Addresses, s \in Segments }
    \cup
    \* FS and GS are encoded wrongly by both; no caller passes them.
    {Call("emitPushSegmentReg", FALSE, emitPushSegmentReg(s), "push", 4, None, S(s)) : s \in Segments \ {FS, GS}}
    \cup
    {Call("emitPopSegmentReg", FALSE, emitPopSegmentReg(s), "pop", 4, S(s), None) : s \in Segments \ {FS, GS}}

Bare(method, bytes, op) == Call(method, TRUE, bytes, op, 0, None, None)
ControlCalls ==
    {Bare("emitPushEflags", emitPushEflags, "pushf"), Bare("emitPopEflags", emitPopEflags, "popf"),
     Bare("emitLoadAHFromFlags", emitLoadAHFromFlags, "lahf"), Bare("emitStoreAHToFlags", emitStoreAHToFlags, "sahf"),
     Bare("emitReturn", emitReturn, "ret")}
    \cup
    {Bare("emitSetDirectionFlag", emitSetDirectionFlag(b), IF b THEN "std" ELSE "cld") : b \in BOOLEAN}
    \cup
    UNION { {Bare("emitSTOSByte", emitSTOSByte(b), IF b THEN "rep stosb" ELSE "stosb"),
             Bare("emitSTOSWord", emitSTOSWord(b), IF b THEN "rep stosd" ELSE "stosd"),
             Bare("emitMoveString", emitMoveString(b), IF b THEN "rep movsd" ELSE "movsd")} : b \in BOOLEAN }
    \cup
    {Bare("emitInterrupt", emitInterrupt(3), "int3"), Bare("emitInterrupt", emitInterrupt(4), "into"),
     Call("emitInterrupt", TRUE, emitInterrupt(128), "int", 0, None, Imm(ZeroExtend(<<128>>)))}
    \cup
    {Bare("emitNop", emitNop(n), "nop") : n \in 1 .. MaxNopLength}
    \cup
    UNION { {Bare("emitRegSubImm", emitRegSubImm(r, Zero), "nop"),
             Bare("emitRegAddImm", emitRegAddImm(r, Zero), "nop")} : r \in Registers \ {AX} }
    \cup
    {Call("emitBranchJL", TRUE, emitBranch("JL", a), "jl", 0, None, Rel(Value32(Bytes(a, 4)))) : a \in Addresses}
    \cup
    {Call("emitBranchJE", TRUE, emitBranch("JE", a), "je", 0, None, Rel(Value32(Bytes(a, 4)))) : a \in Addresses}
    \cup
    {Call("emitBranchJNE", TRUE, emitBranch("JNE", a), "jne", 0, None, Rel(Value32(Bytes(a, 4)))) : a \in Addresses}
    \cup
    UNION { {Call("emitCallRelative", TRUE, emitCallRelative(from, to), "call", 0, None, Rel((to - from) - 5)),
             Call("emitJumpRelative", TRUE, emitJumpRelative(from, to), "jmp", 0, None, Rel((to - from) - 5)),
             Call("emitIndirectRelativeJump", TRUE, emitIndirectRelativeJump(from, to), "jmp", 0, None,
                  Mem(NoReg, RIP, NoReg, 1, Extend(Le32((to - from) - 6))))}
            : from \in Places, to \in Places }
    \cup
    {Call("emitJumpIndirect", FALSE, emitJumpIndirect(a), "jmp", 0, None, At(a)) : a \in Addresses}

\* The operands instructions can have: SP is no index, and RIP has none.
Operands(regs, w) ==
    {Mem(NoReg, b, i, s, w) : b \in regs \cup {NoReg}, i \in regs \ {SP}, s \in {1, 2, 4, 8}}
    \cup {Mem(NoReg, b, NoReg, 1, w) : b \in regs \cup {NoReg}}
OperandWords == {Extend(Bytes(w, 4)) : w \in Words}

AddressCalls ==
    UNION { {Call("emitLoadEffectiveAddress", TRUE, emitLoadEffectiveAddress64(m[3], m[4], m[5], w, r), "lea", 8, R(r), m)
            : m \in Operands(Registers, w), r \in {BX, 12}} : w \in OperandWords }
    \cup
    {Call("emitLoadEffectiveAddress", TRUE, emitLoadEffectiveAddress64(RIP, NoReg, 1, w, r), "lea", 8, R(r),
          Mem(NoReg, RIP, NoReg, 1, w)) : w \in OperandWords, r \in Registers}
    \cup
    UNION { {Call("emitLoadEffectiveAddress", FALSE, emitLoadEffectiveAddress32(m[3], m[4], m[5], w, r), "lea", 4, R(r), m)
            : m \in Operands(Low, w), r \in {BX, BP}} : w \in OperandWords }

FactoryCalls == RegisterCalls \cup ConstantCalls \cup MemoryCalls \cup BasedCalls \cup PointerCalls
            \cup StackCalls \cup ControlCalls \cup AddressCalls

-----------------------------------------------------------------------------
(* The three steps. *)

NoCall == [method |-> "none"]
NoInstruction == Instr("none", 0, None, None, 0)
OnlyInBuffer == NoInstruction

FactoryInit == /\ call = NoCall
               /\ code = << >>
               /\ instruction = NoInstruction

Make(c) == /\ call' = c
           /\ code' = c.bytes
           /\ instruction' = OnlyInBuffer

\* A method other than emitAddressComputation is called.
Emit == /\ call = NoCall
        /\ \E c \in FactoryCalls : Make(c)

\* emitInstructionBase: the X86Instruction is constructed from the bytes.
emitInstructionBase ==
    /\ call # NoCall
    /\ instruction = OnlyInBuffer
    /\ instruction' = Decode(code, call.is64)
    /\ UNCHANGED <<call, code>>

IsMemory(o) == o[1] \in {"mem", "mem32"}
isStackPush(i) == i.op \in {"push", "pushf"}
isStackPop(i) == i.op \in {"pop", "popf"}
isExplicitMemoryOperation(i) ==
    i.op \notin {"lea", "nop"} /\ (IsMemory(i.dst) \/ IsMemory(i.src))
\* The address operand of an explicit memory operation.
MemoryOperand(i) == IF IsMemory(i.dst) THEN i.dst ELSE i.src

MinusWord == Extend(<<\hf8>>)       \* -1 * sizeof(uint64_t)
ProgramAddress == ZeroExtend(<<0, \h10, \h40>>)
\* The sum of a word below 2^31 in size and an address, as a word.
Plus(w, a) == Extend(Le32(Value32(Bytes(w, 4)) + Value32(Bytes(a, 4))))

\* emitAddressComputation(i, d): a segment override yields the selector in
\* place of the address ("FIXME ignores offsets"); relative to RIP the address
\* is known; otherwise lea of the same operand; a push stores below SP.
AddressCall(i, d) ==
    LET m == MemoryOperand(i)
    IN  CASE isExplicitMemoryOperation(i) /\ m[2] # NoReg ->
               Call("emitAddressComputation", TRUE, emitMoveSegmentRegToReg64(m[2], d), "mov", 2, R(d), S(m[2]))
          [] isExplicitMemoryOperation(i) /\ m[2] = NoReg /\ m[3] = RIP ->
               LET a == Plus(Plus(m[6], ProgramAddress), ZeroExtend(<<i.len>>))
               IN  Call("emitAddressComputation", TRUE, emitMoveImmToReg64(a, d), "mov", 8, R(d), Imm(a))
          [] isExplicitMemoryOperation(i) /\ m[2] = NoReg /\ m[3] # RIP ->
               Call("emitAddressComputation", TRUE,
                    emitLoadEffectiveAddress64(m[3], m[4], m[5], m[6], d), "lea", 8, R(d), m)
          [] ~isExplicitMemoryOperation(i) /\ isStackPush(i) ->
               Call("emitAddressComputation", TRUE,
                    emitLoadEffectiveAddress64(SP, NoReg, 1, MinusWord, d), "lea", 8, R(d), Based(SP, MinusWord))
          [] ~isExplicitMemoryOperation(i) /\ isStackPop(i) ->
               Call("emitAddressComputation", TRUE,
                    emitLoadEffectiveAddress64(SP, NoReg, 1, Zero, d), "lea", 8, R(d), Based(SP, Zero))

\* Addresses of 32 bits in 64 bit code have other registers than the factory
\* expects; a relative address must lie above 0, like any in a program.
HasAddress(i) ==
    \/ /\ isExplicitMemoryOperation(i)
       /\ MemoryOperand(i)[1] = "mem"
       /\ MemoryOperand(i)[3] = RIP => Value32(Bytes(MemoryOperand(i)[6], 4)) \in -10000 .. 1000000000
    \/ isStackPush(i) \/ isStackPop(i)

ComputeAddress ==
    /\ call # NoCall
    /\ call.is64
    /\ call.method # "emitAddressComputation"
    /\ HasAddress(instruction)
    /\ \E d \in Registers : Make(AddressCall(instruction, d))

FactoryNext == Emit \/ emitInstructionBase \/ ComputeAddress

FactorySpec == FactoryInit /\ [][FactoryNext]_factoryVars

-----------------------------------------------------------------------------
(* Properties. *)

\* An emitted instruction is the one the method's name and arguments ask
\* for: registers above 7, the forms of SP and BP, offsets and constants of
\* every sign survive the encoding; and it ends where its bytes end (the
\* assertion of emitInstructionBase).
MeansWhatWasCalled ==
    instruction # NoInstruction =>
        /\ instruction.len = Len(code)
        /\ <<instruction.op, instruction.width>> = <<call.op, call.width>>
        /\ instruction.dst = call.dst
        /\ instruction.src = call.src
=============================================================================
