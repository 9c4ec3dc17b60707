------------------------- MODULE InstructionDecoder -------------------------
(***************************************************************************)
(* What the processor takes a sequence of bytes for: the part of the       *)
(* architecture manuals that the emitters use.  It stands for the vendored *)
(* disassembler as well, which X86Instruction calls on every emitted       *)
(* instruction.  A decoded instruction has an operation, the width of its  *)
(* operands in bytes, a destination, a source and its length; an operand   *)
(* is a register, memory, a constant or an offset relative to the next     *)
(* instruction.  Bytes beyond the end of the sequence read as 0.           *)
(***************************************************************************)
EXTENDS InstructionFactory

None == <<"none">>
R(r) == <<"reg", r>>                    \* an integer register
S(s) == <<"seg", s>>
X(x) == <<"xmm", x>>
\* Memory at segment + base + scale * index + disp, seg = NoReg for none.
Mem(seg, base, index, scale, disp) == <<"mem", seg, base, index, scale, disp>>
\* The same with the address cut to 32 bits, prefix 67.
Mem32(m) == [m EXCEPT ![1] = "mem32"]
Imm(w) == <<"imm", w>>
Rel(n) == <<"rel", n>>

Instr(op, width, dst, src, len) ==
    [op |-> op, width |-> width, dst |-> dst, src |-> src, len |-> len]

\* The sign of n bytes extended to a word, and their value if it is small.
Extend(b) == b \o [i \in 1 .. 8 - Len(b) |-> IF b[Len(b)] >= 128 THEN 255 ELSE 0]
ZeroExtend(b) == b \o [i \in 1 .. 8 - Len(b) |-> 0]
Value32(b) == b[1] + 256 * (b[2] + 256 * (b[3] + 256 * (IF b[4] >= 128 THEN b[4] - 256 ELSE b[4])))

LegacyPrefixes == {\h64, \h65, \h66, \h67, \hf0, \hf2, \hf3}
PrefixCount(b) ==
    CHOOSE n \in 0 .. Len(b) : /\ \A i \in 1 .. n : b[i] \in LegacyPrefixes
                               /\ n = Len(b) \/ b[n + 1] \notin LegacyPrefixes

\* Where the opcode starts and which extension bits are set.
BeforeOpcode(b, is64) ==
    LET n == PrefixCount(b)
        rex == is64 /\ n < Len(b) /\ b[n + 1] \in \h40 .. \h4f
        bit(k) == IF rex THEN (b[n + 1] \div (2 ^ k)) % 2 ELSE 0
    IN  [legacy |-> {b[i] : i \in 1 .. n}, at |-> n + 1 + (IF rex THEN 1 ELSE 0),
         W |-> bit(3), R |-> bit(2), X |-> bit(1), B |-> bit(0)]

Padded(b) == b \o [i \in 1 .. 16 |-> 0]

\* The operand of the r/m field at position p, and the bytes it takes.
RM(b, p, f, is64) ==
    LET mod == b[p] \div 64
        rm == b[p] % 8
        sib == b[p + 1]
        hasSib == mod # 3 /\ rm = 4
        base == IF hasSib THEN sib % 8 ELSE rm
        noBase == mod = 0 /\ base = 5
        index == ((sib \div 8) % 8) + 8 * f.X
        n == 1 + (IF hasSib THEN 1 ELSE 0)
        d == IF mod = 1 THEN 1 ELSE IF mod = 2 \/ noBase THEN 4 ELSE 0
        disp == IF d = 0 THEN ZeroExtend(<<0>>) ELSE Extend(SubSeq(b, p + n, p + n + d - 1))
        noIndex == ~hasSib \/ index = 4
        memory == Mem(IF \h64 \in f.legacy THEN FS ELSE NoReg,
                      IF ~noBase THEN base + 8 * f.B
                      ELSE IF is64 /\ ~hasSib THEN RIP ELSE NoReg,
                      IF noIndex THEN NoReg ELSE index,
                      IF noIndex THEN 1 ELSE 2 ^ (sib \div 64),
                      disp)
    IN  IF mod = 3 THEN [opd |-> R(rm + 8 * f.B), n |-> 1]
        ELSE [opd |-> IF \h67 \in f.legacy THEN Mem32(memory) ELSE memory, n |-> n + d]

Field(b, p) == (b[p] \div 8) % 8

Group1 == <<"add", "or", "adc", "sbb", "and", "sub", "xor", "cmp">>
Group2 == <<"rol", "ror", "rcl", "rcr", "shl", "shr", "sal", "sar">>
\* Opcodes with a register or memory operand and a register, either way.
ToRM == [c \in {\h01, \h09, \h21, \h31, \h87, \h89} |->
           CASE c = \h01 -> "add" [] c = \h09 -> "or" [] c = \h21 -> "and"
             [] c = \h31 -> "xor" [] c = \h87 -> "xchg" [] c = \h89 -> "mov"]
FromRM == [c \in {\h8b, \h8d} |-> IF c = \h8b THEN "mov" ELSE "lea"]
OneByte == [c \in {\h9c, \h9d, \h9f, \h9e, \hfc, \hfd, \hc3, \h90, \haa, \hab, \ha5, \hcc, \hce} |->
           CASE c = \h9c -> "pushf" [] c = \h9d -> "popf" [] c = \h9f -> "lahf"
             [] c = \h9e -> "sahf" [] c = \hfc -> "cld" [] c = \hfd -> "std"
             [] c = \hc3 -> "ret" [] c = \h90 -> "nop" [] c = \haa -> "stosb"
             [] c = \hab -> "stosd" [] c = \ha5 -> "movsd" [] c = \hcc -> "int3"
             [] c = \hce -> "into"]
PushSegment == [c \in {\h06, \h0e, \h16, \h1e} |-> c \div 8]
PopSegment == [c \in {\h07, \h17, \h1f} |-> c \div 8]

\* Two byte opcodes, the second at position p.
DecodeLong(b, p, f, is64, width) ==
    LET c == b[p]
        m == RM(b, p + 1, f, is64)
        reg == Field(b, p + 1)
        rm(op, w, dst, src) == Instr(op, w, dst, src, p + m.n)
    IN  CASE c = \hc1 -> rm("xadd", width, m.opd, R(reg + 8 * f.R))
          [] c = \hae /\ reg \in {0, 1} -> rm(<<"fxsave", "fxrstor">>[reg + 1], 512, m.opd, None)
          [] c = \h1f -> rm("nop", 0, None, None)
          [] c = \h10 -> rm("movs", 8, X(reg + 8 * f.R), m.opd)
          [] c \in {\h84, \h85, \h8c} ->
               Instr(CASE c = \h84 -> "je" [] c = \h85 -> "jne" [] c = \h8c -> "jl",
                     0, None, Rel(Value32(SubSeq(b, p + 1, p + 4))), p + 4)
          [] c \in {\ha0, \ha8} -> Instr("push", IF is64 THEN 8 ELSE 4, None, S((c \div 8) % 8), p)
          [] c \in {\ha1, \ha9} -> Instr("pop", IF is64 THEN 8 ELSE 4, S((c \div 8) % 8), None, p)
          [] OTHER -> Instr("undefined", 0, None, None, 0)

Decode(bytes, is64) ==
    LET f == BeforeOpcode(bytes, is64)
        b == Padded(bytes)
        p == f.at
        c == b[p]
        width == IF f.W = 1 THEN 8 ELSE IF \h66 \in f.legacy THEN 2 ELSE 4
        stack == IF \h66 \in f.legacy THEN 2 ELSE IF is64 THEN 8 ELSE 4
        m == RM(b, p + 1, f, is64)
        field == Field(b, p + 1)
        reg == R(field + 8 * f.R)
        low == R((c % 8) + 8 * f.B)
        imm(q, n) == Imm(Extend(SubSeq(b, q, q + n - 1)))
        rm(op, w, dst, src) == Instr(op, w, dst, src, p + m.n)
        \* with n bytes of a constant behind the operand
        rmImm(op, n) == Instr(op, width, m.opd, imm(p + 1 + m.n, n), p + m.n + n)
        here(op, w, dst, src, n) == Instr(op, w, dst, src, p + n)
    IN  CASE c = \h0f -> DecodeLong(b, p + 1, f, is64, width)
          [] c \in DOMAIN ToRM -> rm(ToRM[c], width, m.opd, reg)
          [] c \in DOMAIN FromRM -> rm(FromRM[c], width, reg, m.opd)
          [] c = \h8c -> rm("mov", 2, m.opd, S(field))
          [] c = \h8e -> rm("mov", 2, S(field), m.opd)
          [] c = \h81 -> rmImm(Group1[field + 1], 4)
          [] c = \h83 -> rmImm(Group1[field + 1], 1)
          [] c = \hc1 -> rmImm(Group2[field + 1], 1)
          [] c = \hc7 -> rmImm("mov", 4)
          [] c \in {\h05, \h2d} -> here(IF c = \h05 THEN "add" ELSE "sub", width, R(AX), imm(p + 1, 4), 4)
          [] c \in {\h69, \h6b} ->
               LET n == IF c = \h69 THEN 4 ELSE 1
               IN  Instr("imul", width, reg, <<"both", m.opd, imm(p + 1 + m.n, n)>>, p + m.n + n)
          [] c \in \h40 .. \h47 /\ ~is64 -> here("inc", 4, low, None, 0)
          [] c \in \h50 .. \h57 -> here("push", stack, None, low, 0)
          [] c \in \h58 .. \h5f -> here("pop", stack, low, None, 0)
          [] c = \h68 -> here("push", stack, None, imm(p + 1, 4), 4)
          [] c \in DOMAIN PushSegment /\ ~is64 -> here("push", 4, None, S(PushSegment[c]), 0)
          [] c \in DOMAIN PopSegment /\ ~is64 -> here("pop", 4, S(PopSegment[c]), None, 0)
          [] c \in \hb0 .. \hb7 -> here("mov", 1, low, imm(p + 1, 1), 1)
          [] c \in \hb8 .. \hbf ->
               here("mov", width, low, Imm(ZeroExtend(SubSeq(b, p + 1, p + width))), width)
          [] c = \ha1 /\ ~is64 -> here("mov", 4, R(AX), Mem(NoReg, NoReg, NoReg, 1, Extend(SubSeq(b, p + 1, p + 4))), 4)
          [] c = \ha3 /\ ~is64 -> here("mov", 4, Mem(NoReg, NoReg, NoReg, 1, Extend(SubSeq(b, p + 1, p + 4))), R(AX), 4)
          [] c \in {\he8, \he9} ->
               here(IF c = \he8 THEN "call" ELSE "jmp", 0, None, Rel(Value32(SubSeq(b, p + 1, p + 4))), 4)
          [] c = \hff /\ field \in {2, 4} -> rm(IF field = 2 THEN "call" ELSE "jmp", 0, None, m.opd)
          [] c = \hcd -> here("int", 0, None, Imm(ZeroExtend(<<b[p + 1]>>)), 1)
          [] c \in DOMAIN OneByte ->
               here(IF \hf3 \in f.legacy THEN "rep " \o OneByte[c] ELSE OneByte[c], 0, None, None, 0)
          [] OTHER -> Instr("undefined", 0, None, None, 0)

=============================================================================
