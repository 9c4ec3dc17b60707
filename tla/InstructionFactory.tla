------------------------- MODULE InstructionFactory -------------------------
(***************************************************************************)
(* The emitters of src/X86InstructionFactory.C: each returns the bytes of  *)
(* one instruction.  The suffix tells the class the method belongs to, 64  *)
(* or 32 for X86InstructionFactory64 and -32, none for the common one.     *)
(* Registers are their indices, an immediate or an address is a word: its  *)
(* eight bytes, the lowest first.  A condition the method asserts about a  *)
(* word (its upper half is empty) is named IsUint32 and left to the calls; *)
(* the other asserted conditions are the ranges of registers.              *)
(***************************************************************************)
EXTENDS Integers, Sequences

AX == 0
CX == 1
DX == 2
BX == 3
SP == 4
BP == 5
FS == 4             \* X86_SEGREG_FS
GS == 5
RIP == 16           \* UD_R_RIP - UD_R_RAX
GPRs64 == 0 .. 15   \* X86_64BIT_GPRS
GPRs32 == 0 .. 7    \* X86_32BIT_GPRS
MaxNopLength == 8   \* MAX_NOP_LENGTH

\* The half of the register file, and the number within it.
Hi(r) == IF r >= 8 THEN 1 ELSE 0
Lo(r) == r % 8

\* A prefix that forgets which half the base is in (a mistake to compare with).
RexLowBase(r, x, b) == \h48 + 4 * Hi(r) + 2 * Hi(x)

\* The 64 bit prefix with register field r, index x and register or base b.
Rex(r, x, b) == \h48 + 4 * Hi(r) + 2 * Hi(x) + Hi(b)

\* A base of SP (and R12) needs a second byte that names no index.
Sib(b) == IF Lo(b) = SP THEN <<\h24>> ELSE << >>

Bytes(w, n) == SubSeq(w, 1, n)
Imm32(w) == Bytes(w, 4)
IsUint32(w) == \A i \in 5 .. 8 : w[i] = 0

\* Four bytes of a number, in two's complement.
Le32(n) == <<n % 256, (n \div 256) % 256, (n \div 65536) % 256, (n \div 16777216) % 256>>

-----------------------------------------------------------------------------
(* Moves between registers and constants. *)

emitMoveRegToReg64(s, d) == <<Rex(s, 0, d), \h89, \hc0 + 8 * Lo(s) + Lo(d)>>
emitMoveRegToReg32(s, d) == <<\h89, \hc0 + 8 * s + d>>
emitMoveImmToReg64(w, d) == <<Rex(0, 0, d), \hc7, \hc0 + Lo(d)>> \o Imm32(w)
emitMoveImm64ToReg(w, d) == <<Rex(0, 0, d), \hb8 + Lo(d)>> \o w
emitMoveImmToReg(w, d) == <<\hb8 + d>> \o Imm32(w)
emitMoveImmByteToReg(b, d) ==
    IF d > 3 THEN <<\h66, \hb8 + d, b, 0>> ELSE <<\hb0 + d, b>>
emitMoveSegmentRegToReg64(s, d) == <<Rex(0, 0, d), \h8c, \hc0 + 8 * s + Lo(d)>>
emitMoveSegmentRegToReg32(s, d) == <<\h8c, \hc0 + 8 * s + d>>
emitMoveRipImmToSegmentReg(w, s) == <<\h8e, \h05 + 8 * s>> \o Imm32(w)
emitMoveImmToSegmentReg(w, s) == <<\h8e, \h04 + 8 * s, \h25>> \o Imm32(w)

-----------------------------------------------------------------------------
(* Moves to and from memory: an address, a base, a base and an offset. *)

emitMoveImmToMem32(w, a) == <<\hc7, \h05>> \o Imm32(a) \o Imm32(w)
emitMoveImmToMem64(w, a) == <<\hc7, \h04, \h25>> \o Imm32(a) \o Imm32(w)
emitMoveRegToMem32(s, a) ==
    (IF s = AX THEN <<\ha3>> ELSE <<\h89, \h05 + 8 * s>>) \o Imm32(a)
emitMoveRegToMem64(s, a) == <<Rex(s, 0, 0), \h89, \h04 + 8 * Lo(s), \h25>> \o Imm32(a)
emitMoveMemToReg32(a, d) ==
    (IF d = AX THEN <<\ha1>> ELSE <<\h8b, \h05 + 8 * d>>) \o Imm32(a)
emitMoveMemToReg64(a, d, is64Bit) ==
    (IF is64Bit THEN <<Rex(d, 0, 0)>> ELSE << >>)
        \o <<\h8b, \h04 + 8 * Lo(d), \h25>> \o Imm32(a)
emitMoveMemToXMMReg(a, x) ==
    (IF x < 8 THEN <<\hf2, \h0f>> ELSE <<\hf2, \h44, \h0f>>)
        \o <<\h10, \h04 + 8 * (x % 8), \h25>> \o Imm32(a)
emitMoveTLSOffsetToReg(w, d) == <<\h64, Rex(d, 0, 0), \h8b, \h04 + 8 * Lo(d), \h25>> \o Imm32(w)
emitMoveThreadIdToReg(d) == emitMoveTLSOffsetToReg(<<\h10, 0, 0, 0, 0, 0, 0, 0>>, d)

emitMoveRegaddrImmToReg64(s, w, d) ==
    <<Rex(d, 0, s), \h8b, \h80 + 8 * Lo(d) + Lo(s)>> \o Sib(s) \o Imm32(w)
emitMoveRegaddrImmToReg32(s, w, d) ==
    <<\h8b, \h80 + 8 * d + s>> \o Sib(s) \o Imm32(w)
emitMoveRegToRegaddrImm64(s, d, w, source64Bit) ==
    <<Rex(s, 0, d) - (IF source64Bit THEN 0 ELSE 8), \h89, \h80 + 8 * Lo(s) + Lo(d)>>
        \o Sib(d) \o Imm32(w)
emitMoveRegToRegaddrImm32(s, d, w) ==
    <<\h89, \h80 + 8 * s + d>> \o Sib(d) \o Imm32(w)
emitMoveRegToRegaddrImm1Byte(s, d, w) ==
    <<\h48, \h89, \h40 + 8 * s + d>> \o Sib(d) \o Bytes(w, 1)
emitMoveRegToRegaddrImm4Byte(s, d, w) ==
    <<\h48, \h89, \h80 + 8 * s + d>> \o Sib(d) \o Imm32(w)
emitMoveImmToRegaddrImm(w, b, off) ==
    <<\hc7, \h80 + b>> \o Sib(b) \o Imm32(off) \o Imm32(w)
emitMoveImmToRegaddrImm64(w, b, off) ==
    <<\h67, Rex(0, 0, b), \hc7, \h80 + Lo(b)>> \o Sib(b) \o Imm32(off) \o Imm32(w)

\* The forms without an offset.  For BP (and R13) the two of the 64 bit
\* class use an offset of 0 in one byte; the other two do not.
WithoutOffset(m, b) ==
    IF Lo(b) = BP THEN <<m + \h40, 0>> ELSE <<m>> \o Sib(b)
emitMoveRegToRegaddr64(s, b) ==
    <<Rex(s, 0, b), \h89>> \o WithoutOffset(8 * Lo(s) + Lo(b), b)
emitMoveRegaddrToReg64(b, d) ==
    <<Rex(d, 0, b), \h8b>> \o WithoutOffset(8 * Lo(d) + Lo(b), b)
emitMoveRegToRegaddr(s, b) == <<\h89, 8 * s + b>>
emitMoveRegaddrToReg32(b, d) == <<\h8b, 8 * d + b>>
emitExchangeMemReg(a, r) == <<\h87, \h05 + 8 * r>> \o Imm32(a)
emitExchangeAdd(s, b, lock) ==
    (IF lock THEN <<\hf0>> ELSE << >>)
        \o <<Rex(s, 0, b), \h0f, \hc1, 8 * Lo(s) + Lo(b)>> \o Sib(b)

-----------------------------------------------------------------------------
(* Arithmetic and logic. *)

emitShiftRightLogical64(b, r) == <<Rex(0, 0, r), \hc1, \he8 + Lo(r), b>>
emitShiftLeftLogical64(b, r) == <<Rex(0, 0, r), \hc1, \he0 + Lo(r), b>>
emitShiftRightLogical32(b, r) == <<\hc1, \he8 + r, b>>
emitShiftLeftLogical32(b, r) == <<\hc1, \he0 + r, b>>
emitCompareImmReg64(w, r) == <<Rex(0, 0, r), \h81, \hf8 + Lo(r)>> \o Imm32(w)
emitCompareImmReg32(w, r) == <<\h81, \hf8 + r>> \o Imm32(w)
emitImmAndReg(w, r) == <<Rex(0, 0, r), \h81, \he0 + Lo(r)>> \o Imm32(w)
emitImmOrReg(w, r) == <<Rex(0, 0, r), \h81, \hc8 + Lo(r)>> \o Imm32(w)

\* In the four two-register forms the result is in the register of the r/m
\* field, which the methods name srcreg, src, src and tgt.
emitRegAddReg2OpForm32(r, m) == <<\h01, \hc0 + 8 * r + m>>
emitRegAddReg2OpForm64(r, m) == <<Rex(r, 0, m), \h01, \hc0 + 8 * Lo(r) + Lo(m)>>
emitRegAndReg(m, r) == <<Rex(r, 0, m), \h21, \hc0 + 8 * Lo(r) + Lo(m)>>
emitRegOrReg(m, r) == <<Rex(r, 0, m), \h09, \hc0 + 8 * Lo(r) + Lo(m)>>
emitXorRegReg32(r, m) == <<\h31, \hc0 + m + 8 * r>>
emitXorRegReg64(r, m) == <<\h48, \h31, \hc0 + m + 8 * r>>

emitRegImm1ByteMultReg(s, b, d) == <<\h6b, \hc0 + 8 * d + s, b>>
emitRegImmMultReg(s, w, d) == <<Rex(d, 0, s), \h69, \hc0 + 8 * Lo(d) + Lo(s)>> \o Imm32(w)
emitRegIncrement(r) == <<\h40 + r>>
emitRegAddImm32(r, w) == <<\h81, \hc0 + r>> \o Imm32(w)
emitRegSubImm32(r, w) == <<\h81, \he8 + r>> \o Imm32(w)

\* The short form of AX has an opcode of its own.  The subtraction sets it
\* and no extension bit for the upper registers, the addition neither drops
\* the register byte nor keeps it: the constant takes its place.
emitRegSubImm4Byte(r, w) ==
    (IF r = AX THEN <<\h48, \h2d>> ELSE <<\h48, \h81, \he8 + Lo(r)>>) \o Imm32(w)
emitRegAddImm4Byte(r, w) ==
    (IF r = AX THEN <<\h48, \h81>> ELSE <<Rex(0, 0, r), \h81, \hc0 + Lo(r)>>) \o Imm32(w)

emitAddImmByteToMem32(b, a) == <<\h83, \h05>> \o Imm32(a) \o <<b>>
emitSubImmByteToMem32(b, a) == <<\h83, \h2d>> \o Imm32(a) \o <<b>>
emitAddImmByteToMem64(b, a) == <<\h48, \h83, \h04, \h25>> \o Imm32(a) \o <<b>>
emitSubImmByteToMem64(b, a) == <<\h48, \h83, \h2c, \h25>> \o Imm32(a) \o <<b>>
emitAddImmToMem(w, a) == <<\h48, \h81, \h04, \h25>> \o Imm32(a) \o Imm32(w)

\* Without the 64 bit prefix: a sum of 32 bits.
RegaddrImmPrefix(b) == IF b >= 8 THEN <<\h41>> ELSE << >>
emitAddImmToRegaddrImm(w, b, off) ==
    RegaddrImmPrefix(b) \o <<\h81, \h80 + Lo(b)>> \o Sib(b) \o Imm32(off) \o Imm32(w)
emitAddImmByteToRegaddrImm(i, b, off) ==
    RegaddrImmPrefix(b) \o <<\h83, \h80 + Lo(b)>> \o Sib(b) \o Imm32(off) \o <<i>>
emitAddByteToRegaddr(i, b) == <<\h83, b, i>>

-----------------------------------------------------------------------------
(* No operation: one instruction of each length up to MaxNopLength, and a *)
(* series of them, the longest first.                                     *)

Nops == << <<\h90>>, <<\h66, \h90>>, <<\h0f, \h1f, 0>>, <<\h0f, \h1f, \h40, 0>>,
           <<\h0f, \h1f, \h44, 0, 0>>, <<\h66, \h0f, \h1f, \h44, 0, 0>>,
           <<\h0f, \h1f, \h80, 0, 0, 0, 0>>, <<\h0f, \h1f, \h84, 0, 0, 0, 0, 0>> >>
emitNop(n) == Nops[n]

emitNopSeries(n) ==
    [i \in 1 .. n \div MaxNopLength |-> emitNop(MaxNopLength)]
        \o (IF n % MaxNopLength = 0 THEN << >> ELSE <<emitNop(n % MaxNopLength)>>)

emitRegSubImm(r, w) == IF Imm32(w) = <<0, 0, 0, 0>> THEN emitNop(1) ELSE emitRegSubImm4Byte(r, w)
emitRegAddImm(r, w) == IF Imm32(w) = <<0, 0, 0, 0>> THEN emitNop(1) ELSE emitRegAddImm4Byte(r, w)

-----------------------------------------------------------------------------
(* Stack, flags, strings, control transfer. *)

emitStackPush(r) == IF r >= 8 THEN <<\h41, \h48 + r>> ELSE <<\h50 + r>>
emitStackPop(r) == IF r >= 8 THEN <<\h41, \h50 + r>> ELSE <<\h58 + r>>
emitStackPush4Byte(r) == <<\h66, \h50 + r>>
emitStackPushImm(w) == <<\h68>> \o Imm32(w)
emitPushSegmentReg(s) == IF s \in {FS, GS} THEN <<\h0f, \h80 + s>> ELSE <<\h06 + 8 * s>>
emitPopSegmentReg(s) == IF s \in {FS, GS} THEN <<\h0f, \h81 + s>> ELSE <<\h07 + 8 * s>>
emitPushEflags == <<\h9c>>
emitPopEflags == <<\h9d>>
emitLoadAHFromFlags == <<\h9f>>
emitStoreAHToFlags == <<\h9e>>
emitSetDirectionFlag(backward) == IF backward THEN <<\hfd>> ELSE <<\hfc>>

Repeat(repeat, opcode) == IF repeat THEN <<\hf3, opcode>> ELSE <<opcode>>
emitSTOSByte(repeat) == Repeat(repeat, \haa)
emitSTOSWord(repeat) == Repeat(repeat, \hab)
emitMoveString(repeat) == Repeat(repeat, \ha5)

BranchCodes == [JNE |-> \h85, JE |-> \h84, JL |-> \h8c]
emitBranch(condition, off) == <<\h0f, BranchCodes[condition]>> \o Imm32(off)
emitReturn == <<\hc3>>
emitCallRelative(addr, tgt) == <<\he8>> \o Le32(tgt - addr - 5)
emitJumpRelative(addr, tgt) == <<\he9>> \o Le32(tgt - addr - 5)
emitIndirectRelativeJump(addr, tgt) == <<\hff, \h25>> \o Le32(tgt - addr - 6)
emitJumpIndirect(w) == <<\hff, \h25>> \o Imm32(w)
emitInterrupt(n) == CASE n = 3 -> <<\hcc>>      \* X86TRAPCODE_BREAKPOINT
                      [] n = 4 -> <<\hce>>      \* X86TRAPCODE_OVERFLOW
                      [] OTHER -> <<\hcd, n>>

\* Saving the floating point state, at an address and at what a register
\* points to; the forms of both classes have the same bytes.
emitFxSave(a) == <<\h0f, \hae, \h05>> \o Imm32(a)
emitFxRstor(a) == <<\h0f, \hae, \h0d>> \o Imm32(a)
emitFxSaveReg(b) == RegaddrImmPrefix(b) \o <<\h0f, \hae, Lo(b)>> \o Sib(b)
emitFxRstorReg(b) == RegaddrImmPrefix(b) \o <<\h0f, \hae, \h08 + Lo(b)>> \o Sib(b)

-----------------------------------------------------------------------------
(* Effective addresses. *)

emitLoadRegImmReg32(d, w, b) == <<\h8d, \h80 + 8 * d + b>> \o Sib(b) \o Imm32(w)
\* Only SP gets the second byte here, R12 does not.
emitLoadRegImmReg64(d, w, b) ==
    <<Rex(d, 0, b), \h8d, \h80 + 8 * Lo(d) + Lo(b)>>
        \o (IF b = SP THEN <<\h24>> ELSE << >>) \o Imm32(w)
\* The second byte of SP is put here as well, where there is no base.
emitLoadRipImmReg(w, d) ==
    <<Rex(d, 0, d), \h8d, \h05 + 8 * Lo(d)>>
        \o (IF d = SP THEN <<\h24>> ELSE << >>) \o Imm32(w)
emitLoadRipImmToReg(w, d) == <<Rex(d, 0, 0), \h8d, \h05 + 8 * Lo(d)>> \o Imm32(w)

NoReg == 99     \* no base, no index: hasBase and hasIndex are FALSE
Log2 == [s \in {1, 2, 4, 8} |-> CHOOSE k \in 0 .. 3 : 2 ^ k = s]
IsZero(w) == \A i \in 1 .. 8 : w[i] = 0

\* lea with prefix p.  A scale of 0 is one of 1; an index is taken as it
\* comes, SP too; without base and index the address is a constant.
Lea(p, base, index, scale, w, d) ==
    LET s == 64 * Log2[IF scale = 0 THEN 1 ELSE scale]
        m == 4 + 8 * Lo(d)
        x == 8 * Lo(index)
    IN  p \o <<\h8d>> \o
        ( CASE index # NoReg /\ base # NoReg /\ IsZero(w) ->
                 IF Lo(base) = BP THEN <<m + \h40, x + BP + s, 0>> ELSE <<m, x + Lo(base) + s>>
            [] index # NoReg /\ base # NoReg /\ ~IsZero(w) ->
                 <<m + \h80, x + Lo(base) + s>> \o Imm32(w)
            [] index # NoReg /\ base = NoReg -> <<m, x + 5 + s>> \o Imm32(w)
            [] index = NoReg /\ base = RIP -> <<\h05 + 8 * Lo(d)>> \o Imm32(w)
            [] index = NoReg /\ base \in GPRs64 ->
                 <<\h80 + Lo(base) + 8 * Lo(d)>> \o Sib(base) \o Imm32(w)
            [] index = NoReg /\ base = NoReg -> <<m, \h25>> \o Imm32(w) )

HiOf(r) == IF r = NoReg THEN 0 ELSE Hi(r)
emitLoadEffectiveAddress64(base, index, scale, w, d) ==
    Lea(<<\h48 + 4 * Hi(d) + 2 * HiOf(index) + HiOf(base)>>, base, index, scale, w, d)
emitLoadEffectiveAddress32(base, index, scale, w, d) ==
    Lea(<< >>, base, index, scale, w, d)
=============================================================================
