----------------------------- MODULE LineTable -----------------------------
(* The line tables of the debug information (LineInformation.C): programs  *)
(* whose instructions move a set of registers and append rows, read one    *)
(* instruction at a time, and the list by which the tools ask for the line *)
(* of an address.  A row says of which table it is and what it is about;   *)
(* flags and the column, which only the assembler sets, are its marks.     *)
(*                                                                         *)
(* What the assembler means by the programs it writes is kept beside them: *)
(* it describes functions, each a sequence of rows at rising addresses,    *)
(* which do not overlap; one the linker has dropped stands at address 0.   *)
EXTENDS Integers, Sequences, FiniteSets, SequencesExt

CONSTANTS LineBase,      \* of special opcodes: the smallest line advance,
          LineRange,     \* how many there are,
          OpcodeBase,    \* and the first special opcode
          Starts,        \* where functions start
          AddressSteps, LineSteps,   \* from one row to the next
          MaxRows, MaxTables

VARIABLES stage,    \* "read", "sort" or "find"
          meant,    \* the rows that the assembler describes
          program,  \* the instructions that are not executed yet
          extras,   \* whether the function has had a row with more than a line
          regs,     \* the registers of the table that is read
          rows,     \* lineInformations of all the tables
          files,    \* for each table, fileNames
          sorted    \* sortedLineInfos
vars == <<stage, meant, program, extras, regs, rows, files, sorted>>

\* The state machine's registers.
initializeWithDefaults(t) == [table |-> t, address |-> 0, file |-> 1, line |-> 1, stmt |-> TRUE, end |-> FALSE, marks |-> {}]

-----------------------------------------------------------------------------
(* Reading. *)

\* LEB128 numbers: seven bits a byte, the lowest first; bit 6 of the last
\* byte is the sign, unless the number fills a word.
dwarf4_get_leb128_unsigned(bytes) ==
    FoldLeft(LAMBDA sum, i : sum + (bytes[i] % 128) * 128 ^ (i - 1), 0, [i \in DOMAIN bytes |-> i])
dwarf4_get_leb128_signed(bytes) ==
    dwarf4_get_leb128_unsigned(bytes)
        - (IF 7 * Len(bytes) < 32 /\ Last(bytes) % 128 >= 64 THEN 128 ^ Len(bytes) ELSE 0)

Registers(r) == regs' = r /\ UNCHANGED <<rows, files>>
\* What goes into the matrix is the registers themselves; those that go on are a copy.
appendRowToMatrix(r, next) == rows' = Append(rows, r) /\ regs' = next /\ UNCHANGED files
AfterRow(r) == [r EXCEPT !.marks = @ \ {"basic_block", "prologue_end", "discriminator"}]

executeSpecialOpcode(opcode) ==
    LET adjusted == (opcode - OpcodeBase) % 256
        r == [regs EXCEPT !.address = @ + adjusted \div LineRange, !.line = @ + LineBase + (adjusted % LineRange)]
    IN  appendRowToMatrix(r, AfterRow(r))

\* Mutant: the constant of the opcode itself.
AddConstOfOpcode == 255 \div LineRange
AddConst == (255 - OpcodeBase) \div LineRange
executeStandardOpcode(opcode, bytes) ==
    CASE opcode = 1 -> appendRowToMatrix(regs, AfterRow(regs))
      [] opcode = 2 -> Registers([regs EXCEPT !.address = @ + dwarf4_get_leb128_unsigned(bytes)])
      [] opcode = 3 -> Registers([regs EXCEPT !.line = @ + dwarf4_get_leb128_signed(bytes)])
      [] opcode = 4 -> Registers([regs EXCEPT !.file = dwarf4_get_leb128_unsigned(bytes)])
      [] opcode = 5 -> Registers([regs EXCEPT !.marks = @ \cup {"column"}])
      [] opcode = 6 -> Registers([regs EXCEPT !.stmt = ~@])
      [] opcode = 7 -> Registers([regs EXCEPT !.marks = @ \cup {"basic_block"}])
      [] opcode = 8 -> Registers([regs EXCEPT !.address = @ + AddConst])
      [] opcode = 9 -> Registers([regs EXCEPT !.address = @ + bytes[1] + 256 * bytes[2]])
      [] opcode = 10 -> Registers([regs EXCEPT !.marks = @ \cup {"prologue_end"}])
      [] OTHER -> Registers(regs)

executeExtendedOpcode(name, operand) ==
    CASE name = "end_sequence" -> appendRowToMatrix([regs EXCEPT !.end = TRUE], initializeWithDefaults(regs.table))
      [] name = "set_address" -> Registers([regs EXCEPT !.address = operand])
      [] name = "define_file" -> /\ files' = [files EXCEPT ![regs.table] = Append(@, operand)]
                                 /\ UNCHANGED <<regs, rows>>
      [] name = "set_discriminator" -> Registers([regs EXCEPT !.marks = @ \cup {"discriminator"}])

\* A special opcode is any from the last standard one on, so that no program
\* may have the last standard one: with OpcodeBase 13, the assembler's,
\* set_isa, which is not for this machine.
executeInstruction ==
    LET i == Head(program)
    IN  /\ program # << >>
        /\ IF i[1] >= OpcodeBase - 1 THEN executeSpecialOpcode(i[1])
           ELSE IF i[1] = 0 THEN executeExtendedOpcode(i[2], i[3])
           ELSE executeStandardOpcode(i[1], i[2])
        /\ program' = Tail(program)
        /\ UNCHANGED <<stage, meant, extras, sorted>>

\* A table: its registers, and the file names of its header.
FilesOf(t) == <<<<t, "a.c">>, <<t, "a.h">>>>
read(t) == /\ regs' = initializeWithDefaults(t)
           /\ files' = Append(files, FilesOf(t))
getFileName(r) == files[r.table][r.file]

-----------------------------------------------------------------------------
(* Finding.  Rows at address 0 are left out; rows with the same address    *)
(* come in any order, which is what a sort may do.  A row is about the     *)
(* addresses up to that of the row behind it, the last row about none.     *)

Listed == {i \in DOMAIN rows : rows[i].address # 0}
compareLineInfoAddress(i, j) == rows[i].address <= rows[j].address
LineInfoFinder ==
    /\ stage = "sort"
    /\ \E i \in Listed \ Range(sorted) :
           /\ \A j \in Listed \ Range(sorted) : compareLineInfoAddress(i, j)
           /\ sorted' = Append(sorted, i)
    /\ UNCHANGED <<stage, meant, program, extras, regs, rows, files>>
Sorted == /\ stage = "sort" /\ Range(sorted) = Listed
          /\ stage' = "find"
          /\ UNCHANGED <<meant, program, extras, regs, rows, files, sorted>>

addressSpan(k) == IF k = Len(sorted) THEN 0 ELSE rows[sorted[k + 1]].address - rows[sorted[k]].address
searchLineInfoAddress(a, k) == LET first == rows[sorted[k]].address IN first <= a /\ a < first + addressSpan(k)
\* The places in the list at which a binary search may end: none, or one.
lookupLineInfo(a) == {sorted[k] : k \in {k \in DOMAIN sorted : searchLineInfoAddress(a, k)}}

-----------------------------------------------------------------------------
(* The assembler, which writes the rows of one function after the other.   *)

ULeb(n) == IF n < 128 THEN <<n>> ELSE <<128 + (n % 128), n \div 128>>
SLeb(n) == IF n \in -64 .. 63 THEN <<n % 128>> ELSE <<128 + (n % 128), (n \div 128) % 128>>
Special(da, dl) == (dl - LineBase) + LineRange * da + OpcodeBase
Constant == (255 - OpcodeBase) \div LineRange
\* What advances the address and the line and appends a row.
Encodings(da, dl) ==
    LET fits(a, l) == a >= 0 /\ l \in LineBase .. LineBase + LineRange - 1 /\ Special(a, l) <= 255
        line == <<3, SLeb(dl)>>
    IN  {<<<<Special(da, dl)>>>> : x \in {x \in {1} : fits(da, dl)}}
          \cup {<<<<8>>, <<Special(da - Constant, dl)>>>> : x \in {x \in {1} : fits(da - Constant, dl)}}
          \cup {<<line, <<Special(da, 0)>>>> : x \in {x \in {1} : fits(da, 0)}}
          \cup {<<line, <<2, ULeb(da)>>, <<1>>>>, <<<<9, <<da, 0>>>>, line, <<1>>>>}

Extras == {"none", "file", "define", "negate", "block", "prologue", "column", "discriminator"}
Prefix(e) == CASE e = "none" -> << >> [] e = "file" -> <<<<4, ULeb(2)>>>>
               [] e = "define" -> <<<<0, "define_file", "new.h">>, <<4, ULeb(3)>>>>
               [] e = "negate" -> <<<<6>>>> [] e = "block" -> <<<<7>>>> [] e = "prologue" -> <<<<10>>>>
               [] e = "column" -> <<<<5, ULeb(200)>>>> [] e = "discriminator" -> <<<<0, "set_discriminator", 1>>>>
Mark(e) == CASE e = "block" -> {"basic_block"} [] e = "prologue" -> {"prologue_end"} [] e = "column" -> {"column"}
             [] e = "discriminator" -> {"discriminator"} [] OTHER -> {}

Between == meant # << >> => Last(meant).end
Table == Len(files)
LastRow == Last(meant)
\* Rows of the finished functions, none of which the next one may run into.
Free(a) == a = 0 \/ \A i \in DOMAIN meant :
                        i + 1 \in DOMAIN meant /\ ~meant[i].end => ~(meant[i].address <= a /\ a < meant[i + 1].address)
Write(instrs, row) == /\ program' = instrs /\ meant' = Append(meant, row)
                      /\ UNCHANGED <<stage, regs, rows, files, sorted>>
FirstRow(a, dl) ==
    /\ stage = "read" /\ program = << >> /\ Between /\ Len(meant) + 1 < MaxRows /\ Free(a)
    /\ \A i \in DOMAIN meant : ~meant[i].end => meant[i].address # a
    /\ \E c \in Encodings(0, dl) :
           Write(<<<<0, "set_address", a>>>> \o c,
                 [table |-> Table, address |-> a, line |-> 1 + dl, name |-> <<Table, "a.c">>, stmt |-> TRUE, end |-> FALSE, marks |-> {}])
    /\ extras' = FALSE
\* A further row; the column and the file stay what they were.
Row(da, dl, e) ==
    LET kept == LastRow.marks \cap {"column"}
        name == CASE e = "file" -> <<Table, "a.h">> [] e = "define" -> "new.h" [] OTHER -> LastRow.name
    IN  /\ stage = "read" /\ program = << >> /\ ~Between /\ Len(meant) + 1 < MaxRows
        /\ LastRow.line + dl > 0 /\ Free(LastRow.address + da)
        /\ e # "none" => ~extras
        /\ e = "define" => Len(files[Table]) = 2
        /\ \E c \in Encodings(da, dl) :
               Write(Prefix(e) \o c,
                     [table |-> Table, address |-> LastRow.address + da, line |-> LastRow.line + dl, name |-> name,
                      stmt |-> IF e = "negate" THEN ~LastRow.stmt ELSE LastRow.stmt, end |-> FALSE, marks |-> kept \cup Mark(e)])
        /\ extras' = (extras \/ e # "none")
EndRow(da) ==
    /\ stage = "read" /\ program = << >> /\ ~Between
    /\ Free(LastRow.address + da - 1)
    /\ \A i \in DOMAIN meant : ~(LastRow.address < meant[i].address /\ meant[i].address < LastRow.address + da)
    /\ Write(<<<<2, ULeb(da)>>, <<0, "end_sequence", 0>>>>,
             [LastRow EXCEPT !.address = @ + da, !.end = TRUE, !.marks = @ \cap {"column"}])
    /\ UNCHANGED extras
NextTable == /\ stage = "read" /\ program = << >> /\ meant # << >> /\ Between
             /\ Table < MaxTables /\ Len(meant) < MaxRows
             /\ read(Table + 1)
             /\ UNCHANGED <<stage, meant, program, extras, rows, sorted>>
AllRead == /\ stage = "read" /\ program = << >> /\ meant # << >> /\ Between
           /\ stage' = "sort"
           /\ UNCHANGED <<meant, program, extras, regs, rows, files, sorted>>
\* The lines are looked up as often as a tool likes.
Idle == stage = "find" /\ UNCHANGED vars

Init == /\ stage = "read" /\ meant = << >> /\ program = << >> /\ extras = FALSE
        /\ regs = initializeWithDefaults(1) /\ rows = << >> /\ files = <<FilesOf(1)>> /\ sorted = << >>
Next == \/ executeInstruction \/ NextTable \/ AllRead \/ LineInfoFinder \/ Sorted \/ Idle
        \/ \E dl \in LineSteps : (\E a \in Starts : FirstRow(a, dl)) \/ \E da \in AddressSteps, e \in Extras : Row(da, dl, e)
        \/ \E da \in AddressSteps : EndRow(da)
Spec == Init /\ [][Next]_vars

-----------------------------------------------------------------------------
\* executeInstruction, appendRowToMatrix: the rows that are read are the ones
\* the assembler described, whatever instructions it chose.
As(r) == [table |-> r.table, address |-> r.address, line |-> r.line, name |-> getFileName(r),
          stmt |-> r.stmt, end |-> r.end, marks |-> r.marks]
RowsAsMeant == program = << >> => [i \in DOMAIN rows |-> As(rows[i])] = meant
\* lookupLineInfo: an address that a row is about is found in that row, or in
\* another one at the same address; none is found twice.
About(i, a) == ~meant[i].end /\ meant[i].address # 0 /\ meant[i].address <= a /\ a < meant[i + 1].address
SomeAddresses == {meant[i].address + d : i \in DOMAIN meant, d \in -1 .. 1}
LinesFound == /\ RowsAsMeant
              /\ stage = "find" =>
                     \A a \in SomeAddresses :
                         /\ Cardinality(lookupLineInfo(a)) <= 1
                         /\ \A i \in DOMAIN meant : About(i, a) => \E j \in lookupLineInfo(a) : meant[j].address = meant[i].address
=============================================================================
