-------------------------- MODULE DynamicLinking --------------------------
(***************************************************************************)
(* How the rewriter makes an ELF file link to the functions and libraries  *)
(* of a tool (ElfFileInst): room in front of the file, a dynamic table     *)
(* that moves to an added segment, and new strings, symbols, versions,     *)
(* relocations and hash entries in tables that lie one behind the other,   *)
(* so that each one that grows moves all that follow.                      *)
(*                                                                         *)
(* An ELF file is a record of its section headers (in order, without the   *)
(* null section), its program headers, the entries of its dynamic table,   *)
(* and the contents of the tables.  Sections are known by their names; a   *)
(* name in a table is an offset in the string table.  A 64-bit, dynamically *)
(* linked file; one function stands for both hash functions.               *)
(***************************************************************************)
EXTENDS Integers, Sequences, FiniteSets, SequencesExt

CONSTANTS Files,     \* files as a linker writes them
          Hashes,    \* what the hash function may be: name -> number
          Tools,     \* what a tool asks for: [functions, libraries, data]
          Extension  \* what the name of the instrumented file ends in

VARIABLES phase,     \* the next operation
          before,    \* the file as it was read
          elf,       \* the file as it is rewritten
          hash, tool,
          todo,      \* functions or libraries still to do
          slots,     \* declared function -> offset of its GOT slot
          pushed,    \* added function -> index of its relocation (setRelocationOffset)
          data       \* the added data: [address, size, used]

vars == <<phase, before, elf, hash, tool, todo, slots, pushed, data>>

TextExtension == 262144     \* TEXT_EXTENSION_INC
HeaderReserve == 4096       \* INSTHDR_RESERVE_AMT
DynamicReserve == 32768     \* Reserve__Instrumentation_DynamicTable
DataExtension == 262144     \* DATA_EXTENSION_INC
TempSegmentSize == 268435456
InstSegmentIdx == 5         \* DEFAULT_INST_SEGMENT_IDX, from 1
WedgeAmount == 4194304      \* WEDGE_SHAMT
FileHeaderSize == 64
ProgramHeaderSize == 56
SectionHeaderSize == 64
SymbolSize == 24
RelocationSize == 24
DynamicSize == 16

nextAlignAddress(a, n) == IF n <= 1 \/ a = 0 THEN a ELSE IF n > a THEN n ELSE ((a + n - 1) \div n) * n

-----------------------------------------------------------------------------
(* Looking things up. *)

IndexOf(e, id) == CHOOSE i \in DOMAIN e.sections : e.sections[i].id = id
Section(e, id) == e.sections[IndexOf(e, id)]
Has(e, id) == \E s \in Range(e.sections) : s.id = id
Segment(e, type) == CHOOSE p \in Range(e.segments) : p.type = type
Loads(e) == {i \in DOMAIN e.segments : e.segments[i].type = "LOAD"}
\* readProgramHeaders, and verify again: the last readable and executable
\* segment, and the last one that is writable only.
TextSegmentIdx(e) == CHOOSE i \in Loads(e) : "X" \in e.segments[i].flags
                        /\ \A j \in Loads(e) : "X" \in e.segments[j].flags => j <= i
DataSegmentIdx(e) == CHOOSE i \in Loads(e) : "X" \notin e.segments[i].flags
                        /\ \A j \in Loads(e) : "X" \notin e.segments[j].flags => j <= i
inRange(p, a) == p.vaddr <= a /\ a < p.vaddr + p.memsz
FirstText(e) == CHOOSE i \in DOMAIN e.sections : e.sections[i].exec /\ \A j \in 1 .. i - 1 : ~e.sections[j].exec

Dynamics(e, tag) == SelectSeq(e.tags, LAMBDA d : d.tag = tag)
Value(e, tag) == Dynamics(e, tag)[1].val
\* The table that a value of the dynamic table is the address of.
At(e, types, tag) == {i \in DOMAIN e.sections : e.sections[i].type \in types /\ e.sections[i].addr = Value(e, tag)}
NameOf(e, i) == e.strings[e.symbols[i + 1].name]
LastSymbol(e) == Len(e.symbols) - 1
NoEntry == [tag |-> "NULL", val |-> 0]

\* Tags whose value is the address of a section, and that section.
TagSection == [HASH |-> ".hash", GNU_HASH |-> ".gnu.hash", STRTAB |-> ".dynstr", SYMTAB |-> ".dynsym",
               VERSYM |-> ".gnu.version", VERNEED |-> ".gnu.version_r", RELA |-> ".rela.dyn", JMPREL |-> ".rela.plt"]
\* Mutant: the relocations stay where they were.
BumpWithoutRelocations(e, tags, n) ==
    [e EXCEPT !.tags = [k \in DOMAIN @ |-> IF @[k].tag \in tags \ {"RELA"} THEN [@[k] EXCEPT !.val = @ + n] ELSE @[k]]]
Bump(e, tags, n) == [e EXCEPT !.tags = [k \in DOMAIN @ |-> IF @[k].tag \in tags THEN [@[k] EXCEPT !.val = @ + n] ELSE @[k]]]
SetTag(e, tag) == [e EXCEPT !.tags = [k \in DOMAIN @ |-> IF @[k].tag = tag THEN [@[k] EXCEPT !.val = Section(e, TagSection[tag]).addr] ELSE @[k]]]

Grow(e, id, n) == [e EXCEPT !.sections[IndexOf(e, id)].size = @ + n]

\* By how much the sections behind section i, up to the code, move when i
\* grows by n bytes: what one is moved by, and by what it is aligned, moves the
\* next one.
Displacement(e, i, n) ==
    LET move[k \in i .. FirstText(e) - 1] ==
            IF k = i THEN n ELSE nextAlignAddress(e.sections[k].addr + move[k - 1], e.sections[k].align) - e.sections[k].addr
    IN  move
Displace(e, move) ==
    [e EXCEPT !.sections = [k \in DOMAIN @ |-> IF k \in DOMAIN move /\ \E j \in DOMAIN move : j < k
                                               THEN [@[k] EXCEPT !.addr = @ + move[k], !.offset = @ + move[k]]
                                               ELSE @[k]]]
\* The last one's displacement, which the tags are increased by.
Final(e, move) == move[FirstText(e) - 1]
Moved(e, move, tags) == Bump(Displace(e, move), tags, Final(e, move))

-----------------------------------------------------------------------------
(* Hash tables (HashTable). *)

\* What the name of symbol i hashes to: the null symbol's name is empty.
HashOf(e, i) == hash[NameOf(e, i)]

SysvBuild(e, nb) ==
    LET n == Len(e.symbols)
        Chain(b) == {i \in 0 .. n - 1 : HashOf(e, i) % nb = b}
        LastIn(S) == IF S = {} THEN 0 ELSE CHOOSE i \in S : \A j \in S : j <= i
    IN  [nb |-> nb, buckets |-> [b \in 0 .. nb - 1 |-> LastIn(Chain(b))],
         chain |-> [i \in 0 .. n - 1 |-> LastIn({j \in Chain(HashOf(e, i) % nb) : j < i})]]
SysvFind(e, name) ==
    LET find[x \in 0 .. LastSymbol(e)] ==
            IF NameOf(e, x) = name THEN x ELSE IF e.sysv.chain[x] = x THEN -1 ELSE find[e.sysv.chain[x]]
    IN  find[e.sysv.buckets[hash[name] % e.sysv.nb]]

\* sortForGnuHash: by bucket, equal ones in their order, with their versions;
\* the relocations follow.
BucketOrder(e, nb) ==
    LET old == [k \in 1 .. Len(e.symbols) |-> k - 1]
        InBucket(acc, b) == acc \o SelectSeq(old, LAMBDA i : i >= e.gnu.first /\ HashOf(e, i) % nb = b)
    IN  FoldLeft(InBucket, SubSeq(old, 1, e.gnu.first), [k \in 1 .. nb |-> k - 1])
Reordered(e, order) ==
    LET Follow(rs) == [k \in DOMAIN rs |-> [rs[k] EXCEPT !.sym = SelectInSeq(order, LAMBDA j : j = @) - 1]]
    IN  [e EXCEPT !.symbols = [k \in DOMAIN @ |-> @[order[k] + 1]],
                  !.versions = [k \in DOMAIN @ |-> @[order[k] + 1]],
                  !.dyn = Follow(@), !.plt = Follow(@)]
\* Mutant: the relocations keep their numbers.
SortedAlone(e, nb) == [Reordered(e, BucketOrder(e, nb)) EXCEPT !.dyn = e.dyn, !.plt = e.plt]
Sorted(e, nb) == Reordered(e, BucketOrder(e, nb))

\* GnuHashTable::buildTable with a number of entries and of buckets: a bloom
\* filter that is given up makes room for a bucket.  The chain before a bucket's
\* first symbol gets the stop bit, the last one none.
GnuBuckets(s, nb) ==
    LET Bucket(k) == {i \in s.gnu.first .. LastSymbol(s) : HashOf(s, i) % nb = k}
    IN  [k \in 0 .. nb - 1 |-> IF Bucket(k) = {} THEN 0 ELSE CHOOSE i \in Bucket(k) : \A j \in Bucket(k) : i <= j]
GnuTable(s, n, nb, buckets) ==
    LET first == s.gnu.first
        stops == {buckets[k] - first - 1 : k \in {l \in 0 .. nb - 1 : buckets[l] > first}}
    IN  [s EXCEPT !.gnu = [first |-> first, n |-> n, nb |-> nb, blooms |-> 1, buckets |-> buckets,
                           values |-> [i \in 0 .. n - 1 |-> [h |-> HashOf(s, i + first), stop |-> i \in stops]]]]
GnuRebuilt(s, n, nb) == GnuTable(s, n, nb, GnuBuckets(s, nb))
GnuBuild(e, n, b) ==
    LET nb == b + e.gnu.blooms - 1 IN IF e.gnu.n = 0 THEN e ELSE GnuRebuilt(Sorted(e, nb), n, nb)
GnuFind(e, name) ==
    LET g == e.gnu
        more == {x \in g.first .. LastSymbol(e) : x - g.first < g.n /\ ~g.values[x - g.first].stop /\ NameOf(e, x) # name}
        walk[x \in 0 .. LastSymbol(e)] == IF x \in more THEN walk[x + 1] ELSE x
        x == walk[g.buckets[hash[name] % g.nb]]
    IN  IF NameOf(e, x) = name THEN x ELSE -1

GnuSize(g) == 16 + 8 * g.blooms + 4 * g.nb + 4 * g.n
SysvSize(e) == 4 * (2 + e.sysv.nb + Len(e.symbols))
passedThreshold(nb, n) == nb < n \div 2 \/ nb < 2
\* The verify() of the tables, which stops the program.
SysvVerified(e) == \A i \in 1 .. LastSymbol(e) : SysvFind(e, NameOf(e, i)) = i
GnuVerified(e) == e.gnu.n > 0 => \A i \in e.gnu.first .. LastSymbol(e) : GnuFind(e, NameOf(e, i)) = i

Check(e, test) == [e EXCEPT !.ok = @ /\ test]
SysvChecked(e) == Check(e, SysvVerified(e))
GnuChecked(e) == Check(e, GnuVerified(e))
Sysv(e, nb) == SysvChecked([e EXCEPT !.sysv = SysvBuild(e, nb)])
Gnu(e, n, nb) == GnuChecked(GnuBuild(e, n, nb))

AddressTags == DOMAIN TagSection
\* expandHashTable: half as many buckets as entries more; entries of 4 bytes in
\* the one table, of 8 in the other.
expandSysv(e) ==
    LET more == Len(e.symbols) \div 2
    IN  Moved(Grow(Sysv(e, e.sysv.nb + more), ".hash", 4 * more), Displacement(e, IndexOf(e, ".hash"), 4 * more),
              AddressTags \ {"HASH"})
expandGnu(e) ==
    LET more == e.gnu.n \div 2
    IN  Moved(Grow(Gnu(e, e.gnu.n, e.gnu.nb + more), ".gnu.hash", 8 * more), Displacement(e, IndexOf(e, ".gnu.hash"), 8 * more),
              AddressTags \ {"HASH", "GNU_HASH"})
\* One entry more and one bucket less: the GNU table is expanded before, the
\* other one after.
AnotherGnuEntry(e) == Gnu(e, e.gnu.n + 1, e.gnu.nb - 1)
ExpandedSysv(e) == IF passedThreshold(e.sysv.nb, Len(e.symbols)) THEN expandSysv(e) ELSE e
WithGnuEntry(e) ==
    IF ~Has(e, ".gnu.hash") THEN e
    ELSE AnotherGnuEntry(IF passedThreshold(e.gnu.nb, e.gnu.n) THEN expandGnu(e) ELSE e)
WithSysvEntry(e) == IF ~Has(e, ".hash") THEN e ELSE ExpandedSysv(Sysv(e, e.sysv.nb - 1))

-----------------------------------------------------------------------------
(* What stops the program (ElfFile::verify and what it calls). *)

\* [begin, size] of everything in the file.
Extents(e) ==
    {<<0, FileHeaderSize>>, <<FileHeaderSize, ProgramHeaderSize * Len(e.segments)>>,
     <<e.shoff, SectionHeaderSize * (Len(e.sections) + 1)>>}
        \cup {<<s.offset, s.size>> : s \in {t \in Range(e.sections) : t.type # "NOBITS"}}
Disjoint(extents) == \A x, y \in extents : x # y /\ y[2] > 0 /\ x[1] <= y[1] => x[1] + x[2] <= y[1]

HeadersVerified(e) ==
    /\ \A i \in DOMAIN e.segments : e.segments[i].type = "INTERP" => \A j \in Loads(e) : i < j
    /\ \A p \in Range(e.segments) : /\ p.align > 1 => p.vaddr % p.align = p.offset % p.align
                                    /\ p.type = "LOAD" => p.filesz <= p.memsz
    /\ \A s \in Range(e.sections) : /\ s.alloc => s.addr # 0
                                    /\ s.align > 0 => s.addr % s.align = 0

\* The addresses in the dynamic table come in one order.
DynamicVerified(e) ==
    LET ordered == {<<"HASH", "GNU_HASH">>, <<"GNU_HASH", "SYMTAB">>, <<"SYMTAB", "STRTAB">>, <<"STRTAB", "VERSYM">>,
                    <<"VERSYM", "VERNEED">>, <<"VERNEED", "INIT">>, <<"VERNEED", "FINI">>, <<"INIT", "PLTGOT">>, <<"FINI", "PLTGOT">>}
        Present(t) == Dynamics(e, t) # << >>
    IN  /\ \A o \in ordered : Present(o[1]) /\ Present(o[2]) => Value(e, o[1]) < Value(e, o[2])
        /\ \A t \in {"HASH", "GNU_HASH"} : Has(e, TagSection[t]) => Value(e, t) = Section(e, TagSection[t]).addr
        /\ \A t \in {"RELA", "STRTAB", "SYMTAB"} : Len(Dynamics(e, t)) = 1

verify(e) == /\ e.ok /\ HeadersVerified(e) /\ Disjoint(Extents(e)) /\ DynamicVerified(e)
             /\ Has(e, ".hash") => SysvVerified(e)
             /\ Has(e, ".gnu.hash") => GnuVerified(e)
Stopped(e) == ~verify(e)

-----------------------------------------------------------------------------
(* Reading the file, and the room in front of it. *)

PointerTags == AddressTags \cup {"INIT", "FINI", "PLTGOT"}
\* ElfFile::wedge: what has an address moves up when the file starts below.
wedge(e) ==
    [Bump(e, PointerTags, WedgeAmount) EXCEPT
        !.segments = [k \in DOMAIN @ |-> IF @[k].type = "GNU_STACK" THEN @[k] ELSE [@[k] EXCEPT !.vaddr = @ + WedgeAmount]],
        !.sections = [k \in DOMAIN @ |-> IF @[k].addr = 0 THEN @[k] ELSE [@[k] EXCEPT !.addr = @ + WedgeAmount]]]
BaseAddress(e) == LET low == CHOOSE i \in Loads(e) : \A j \in Loads(e) : e.segments[i].vaddr <= e.segments[j].vaddr
                  IN  e.segments[low].vaddr
Wedged(e) == IF BaseAddress(e) < WedgeAmount THEN wedge(e) ELSE e

\* The end of the program in memory, where what is added will be.
EndOfProgram(e) == LET ends == {s.addr + s.size : s \in {t \in Range(e.sections) : t.addr # 0}}
                   IN  nextAlignAddress(CHOOSE a \in ends : \A b \in ends : b <= a, e.segments[DataSegmentIdx(e)].align)

Init == /\ phase = "extend"
        /\ \E f \in Files : elf = Wedged(f)
        /\ before = elf
        /\ hash \in Hashes /\ tool \in Tools
        /\ todo = tool.functions /\ slots = << >> /\ pushed = << >>
        /\ data = [address |-> EndOfProgram(elf) + DynamicReserve, size |-> 0, used |-> 0]

\* The text segment starts lower, by its alignment; what is in front of the code
\* stays at its start, behind room for more headers.
extendTextSection ==
    LET text == elf.segments[TextSegmentIdx(elf)]
        total == nextAlignAddress(TextExtension, text.align)
        first == FirstText(elf)
        InFront(p) == inRange(text, p.vaddr)
        NewSegment(p) ==
            LET q == CASE p = text -> [p EXCEPT !.vaddr = @ - total, !.memsz = @ + total, !.filesz = @ + total]
                       [] p # text /\ InFront(p) -> [p EXCEPT !.vaddr = @ - total]
                       [] inRange(elf.segments[DataSegmentIdx(elf)], p.vaddr) -> [p EXCEPT !.offset = @ + total]
                       [] OTHER -> p
            IN  IF p.type \in {"INTERP", "NOTE"} THEN [q EXCEPT !.offset = @ + HeaderReserve, !.vaddr = @ + HeaderReserve] ELSE q
        NewSection(i) ==
            LET s == elf.sections[i]
            IN  IF i < first THEN [s EXCEPT !.addr = @ - total + HeaderReserve, !.offset = @ + HeaderReserve]
                ELSE [s EXCEPT !.offset = @ + total]
        new == [Bump(elf, AddressTags, HeaderReserve - total) EXCEPT
                   !.segments = [k \in DOMAIN @ |-> NewSegment(@[k])],
                   !.sections = [k \in DOMAIN @ |-> NewSection(k)],
                   !.shoff = FileHeaderSize + (Len(elf.segments) + 2) * ProgramHeaderSize]
    IN  /\ phase = "extend"
        /\ \A p \in Range(elf.segments) : p # text /\ InFront(p) => p.vaddr >= total
        /\ \A i \in 1 .. first - 1 : total < elf.sections[i].addr /\ elf.sections[i].addr < elf.sections[first].addr
        /\ ~Stopped(elf) /\ ~Stopped(new)
        /\ elf' = new
        /\ phase' = "declare"
        /\ UNCHANGED <<before, hash, tool, todo, slots, pushed, data>>

-----------------------------------------------------------------------------
(* What a tool declares. *)

\* reserveDataOffset and extendDataSection: the end of what is used stays below
\* the size.
Reserve(d, n) ==
    LET next == nextAlignAddress(d.used + n, 8)
        Extend(size) == IF next < size THEN size
                        ELSE size + (IF next - size > DataExtension THEN nextAlignAddress(next - size, DataExtension) ELSE DataExtension)
    IN  [d EXCEPT !.used = next, !.size = Extend(Extend(@))]

\* A function that was declared before keeps its slot.
declareFunction ==
    /\ phase = "declare" /\ todo # << >>
    /\ IF Head(todo) \in DOMAIN slots THEN UNCHANGED <<slots, data>>
       ELSE /\ slots' = [f \in DOMAIN slots \cup {Head(todo)} |-> IF f \in DOMAIN slots THEN slots[f] ELSE data.used]
            /\ data' = Reserve(data, 8)
    /\ todo' = Tail(todo)
    /\ UNCHANGED <<phase, before, elf, hash, tool, pushed>>

Declared == [k \in 1 .. Cardinality(DOMAIN slots) |-> CHOOSE f \in DOMAIN slots : slots[f] = 8 * (k - 1)]

\* The table moves to the start of the added segment; what was its section is
\* one of data.
extendDynamicTable ==
    LET last == Last(elf.sections)
        i == IndexOf(elf, ".dynamic")
        old == elf.sections[i]
        more == Len(Declared) + 5
        moved == [old EXCEPT !.addr = data.address - DynamicReserve, !.size = @ + more * DynamicSize,
                             !.offset = nextAlignAddress(last.offset + last.size, elf.segments[DataSegmentIdx(elf)].align)]
        new == [elf EXCEPT
                   !.tags = @ \o [k \in 1 .. more |-> NoEntry],
                   !.segments = [k \in DOMAIN @ |-> IF @[k].type # "DYNAMIC" THEN @[k]
                                    ELSE [@[k] EXCEPT !.vaddr = moved.addr, !.offset = moved.offset,
                                                      !.filesz = moved.size, !.memsz = moved.size]],
                   !.sections = Append([@ EXCEPT ![i] = [old EXCEPT !.id = ".olddynamic"]], moved)]
    IN  /\ phase = "declare" /\ todo = << >>
        /\ moved.size <= DynamicReserve
        /\ Segment(elf, "DYNAMIC").vaddr = old.addr
        /\ elf' = new
        /\ phase' = "libraries" /\ todo' = Reverse(tool.libraries)
        /\ UNCHANGED <<before, hash, tool, slots, pushed, data>>

-----------------------------------------------------------------------------
(* Strings, libraries, relocations and symbols. *)

addStringToDynamicStringTable(e, str) ==
    LET i == CHOOSE k \in At(e, {"STRTAB"}, "STRTAB") : TRUE
        more == nextAlignAddress(Len(str) + 1, 8)
        behind == {"VERSYM", "VERNEED", "RELA", "JMPREL"}
        new == [Moved(Grow(e, e.sections[i].id, more), Displacement(e, i, more), behind) EXCEPT
                   !.strings = [o \in DOMAIN @ \cup {e.stringsSize} |-> IF o = e.stringsSize THEN str ELSE @[o]],
                   !.stringsSize = @ + Len(str) + 1]
    IN  Check(new, /\ Cardinality(At(e, {"STRTAB"}, "STRTAB")) = 1
                   /\ \A d \in Range(e.tags) : d.tag \in behind => d.val > e.sections[i].addr)

\* The first free entry takes the type; what has the type moves one place down,
\* and the new one comes first.
prependEntry(tags, type, val) ==
    LET free == SelectInSeq(tags, LAMBDA d : d.tag = "NULL")
        places == {k \in 1 .. free : k = free \/ tags[k].tag = type}
        Above(k) == CHOOSE j \in places : j < k /\ \A l \in places : l < k => l <= j
    IN  [k \in DOMAIN tags |->
            IF k \notin places THEN tags[k]
            ELSE IF \A j \in places : k <= j THEN [tag |-> type, val |-> val]
            ELSE tags[Above(k)]]

Needed(e) == [k \in DOMAIN Dynamics(e, "NEEDED") |-> e.strings[Dynamics(e, "NEEDED")[k].val]]
NameOfLibrary(lib) == IF lib.overwrite THEN lib.name \o Extension ELSE lib.name

addSharedLibrary ==
    LET lib == Head(todo)
        Place(e) == SelectInSeq(e.tags, LAMBDA d : d.tag = "NEEDED" /\ e.strings[d.val] = lib.name)
        Linked(e) == IF ~lib.overwrite THEN [e EXCEPT !.tags = prependEntry(@, "NEEDED", elf.stringsSize)]
                     ELSE IF Place(e) = 0 THEN e
                     ELSE [e EXCEPT !.tags[Place(e)].val = elf.stringsSize]
    IN  /\ phase = "libraries" /\ todo # << >>
        /\ IF NameOfLibrary(lib) \in Range(Needed(elf)) THEN UNCHANGED elf
           ELSE \E e \in {addStringToDynamicStringTable(elf, NameOfLibrary(lib))} :
                   /\ ~Stopped(e) /\ ~Stopped(Linked(e))
                   /\ ~lib.overwrite => Dynamics(e, "NULL") # << >>
                   /\ elf' = Linked(e)
        /\ todo' = Tail(todo)
        /\ UNCHANGED <<phase, before, hash, tool, slots, pushed, data>>

ToFunctions == /\ phase = "libraries" /\ todo = << >>
               /\ phase' = "functions" /\ todo' = Declared
               /\ UNCHANGED <<before, elf, hash, tool, slots, pushed, data>>

addPLTRelocationEntry(e, slot, sym) ==
    LET i == CHOOSE k \in At(e, {"RELA"}, "JMPREL") : TRUE
        new == [Moved(Grow(e, e.sections[i].id, RelocationSize), Displacement(e, i, RelocationSize),
                      IF Value(e, "RELA") > e.sections[i].addr THEN {"RELA"} ELSE {}) EXCEPT
                    !.plt = Append(@, [slot |-> slot, sym |-> sym]),
                    !.tags = [k \in DOMAIN @ |-> IF @[k].tag = "PLTRELSZ" THEN [@[k] EXCEPT !.val = @ + RelocationSize] ELSE @[k]]]
    IN  Check(new, Len(e.plt) > 0 /\ Value(new, "PLTRELSZ") = Len(new.plt) * RelocationSize)

\* The sections behind the symbols move by the size of a symbol.  After the
\* versions have grown, the tags are set and no longer increased.
VersionsGrown(e) == FoldLeft(SetTag, Displace(e, Displacement(e, IndexOf(e, ".gnu.version"), 2)),
                            <<"VERSYM", "VERNEED", "STRTAB", "RELA", "JMPREL">>)
addSymbolToDynamicSymbolTable(e, name) ==
    LET i == CHOOSE k \in At(e, {"DYNSYM"}, "SYMTAB") : TRUE
        behind == {"VERSYM", "VERNEED", "STRTAB", "RELA", "JMPREL"}
        more == [Moved(Grow(e, e.sections[i].id, SymbolSize), [k \in i .. FirstText(e) - 1 |-> SymbolSize], behind)
                    EXCEPT !.symbols = Append(@, [name |-> name, defined |-> FALSE]), !.versions = Append(@, "global")]
    IN  Check(VersionsGrown(WithSysvEntry(WithGnuEntry(Grow(more, ".gnu.version", 2)))),
              /\ Cardinality(At(e, {"DYNSYM"}, "SYMTAB")) = 1
              /\ \A t \in behind : Value(e, t) > e.sections[i].addr)

\* A name that the table has already gets no relocation.
addFunction ==
    LET f == Head(todo)
    IN  /\ phase = "functions" /\ todo # << >>
        /\ \E named \in {addStringToDynamicStringTable(elf, f)} :
              /\ ~Stopped(named)
              /\ IF \E i \in 0 .. LastSymbol(elf) : NameOf(elf, i) = f THEN elf' = named /\ UNCHANGED pushed
                 ELSE \E linked \in {addPLTRelocationEntry(named, data.address + slots[f], Len(elf.symbols))} :
                         /\ ~Stopped(linked)
                         /\ elf' = addSymbolToDynamicSymbolTable(linked, elf.stringsSize)
                         /\ ~Stopped(elf')
                         /\ pushed' = [g \in DOMAIN pushed \cup {f} |-> IF g = f THEN Len(elf.plt) ELSE pushed[g]]
        /\ todo' = Tail(todo)
        /\ UNCHANGED <<phase, before, hash, tool, slots, data>>

-----------------------------------------------------------------------------
(* The added segment. *)

instrument == /\ phase = "functions" /\ todo = << >>
              /\ phase' = "build"
              /\ data' = FoldLeft(Reserve, data, tool.data)
              /\ UNCHANGED <<before, elf, hash, tool, todo, slots, pushed>>

\* Another segment at a place, and a longer table of segments.
addSegment(e, idx, segment) ==
    [e EXCEPT !.segments = InsertAt([k \in DOMAIN @ |-> IF @[k].type # "PHDR" THEN @[k]
                                        ELSE [@[k] EXCEPT !.filesz = @ + ProgramHeaderSize, !.memsz = @ + ProgramHeaderSize]],
                                    idx, segment)]
\* Another section behind the last one, so that no index changes.
addSection(e, section) == [e EXCEPT !.sections = Append(@, section)]

buildInstrumentationSections ==
    LET dynamic == Last(elf.sections)
        text == elf.sections[FirstText(elf)]
        align == elf.segments[DataSegmentIdx(elf)].align
        segment == [type |-> "LOAD", flags |-> {"R", "W", "X"}, offset |-> dynamic.offset, vaddr |-> data.address - DynamicReserve,
                    filesz |-> TempSegmentSize, memsz |-> TempSegmentSize, align |-> align]
        dataAt == dynamic.offset + DynamicReserve
        addedData == [Section(elf, ".data") EXCEPT !.id = ".inst.data", !.addr = data.address, !.offset = dataAt, !.size = data.size]
        addedText == [text EXCEPT !.id = ".inst.text", !.addr = nextAlignAddress(data.address + data.size, text.align),
                                  !.offset = nextAlignAddress(dataAt + data.size, text.align), !.size = TempSegmentSize - data.size]
        new == addSection(addSection(addSegment(elf, InstSegmentIdx, segment), addedData), addedText)
    IN  /\ phase = "build"
        /\ ~Stopped(elf)
        /\ dynamic.type = "DYNAMIC" /\ segment.vaddr % align = segment.offset % align
        /\ ~Stopped(new)
        /\ elf' = new
        /\ phase' = "compress"
        /\ UNCHANGED <<before, hash, tool, todo, slots, pushed, data>>

compressInstrumentation ==
    LET size == DynamicReserve + data.size + tool.text
    IN  /\ phase = "compress"
        /\ tool.text < TempSegmentSize
        /\ elf' = [elf EXCEPT !.sections[IndexOf(elf, ".inst.text")].size = tool.text,
                              !.segments[InstSegmentIdx].filesz = size, !.segments[InstSegmentIdx].memsz = size]
        /\ phase' = "dump"
        /\ UNCHANGED <<before, hash, tool, todo, slots, pushed, data>>

\* What the entry of the procedure link table of an added function does: the
\* first call finds its own next instruction in the slot, which pushes the
\* number of the relocation for the loader.
ProcedureLink(f) == [through |-> data.address + slots[f], push |-> pushed[f]]

Dumped == phase = "dump" /\ UNCHANGED vars

Next == \/ extendTextSection \/ declareFunction \/ extendDynamicTable \/ addSharedLibrary \/ ToFunctions
        \/ addFunction \/ instrument \/ buildInstrumentationSections \/ compressInstrumentation \/ Dumped

Spec == Init /\ [][Next]_vars

-----------------------------------------------------------------------------
(* What the loader finds. *)

Contents(s) == CASE s.id = ".hash" -> SysvSize(elf)
                 [] s.id = ".gnu.hash" -> GnuSize(elf.gnu)
                 [] s.id = ".dynsym" -> SymbolSize * Len(elf.symbols)
                 [] s.id = ".gnu.version" -> 2 * Len(elf.versions)
                 [] s.id = ".dynstr" -> elf.stringsSize
                 [] s.id = ".rela.dyn" -> RelocationSize * Len(elf.dyn)
                 [] s.id = ".rela.plt" -> RelocationSize * Len(elf.plt)
                 [] s.id = ".dynamic" -> DynamicSize * Len(elf.tags)
                 [] OTHER -> s.size
LoadedBy(p, s) == /\ p.vaddr <= s.addr /\ s.addr + s.size <= p.vaddr + p.memsz
                  /\ s.type # "NOBITS" => /\ s.addr - p.vaddr = s.offset - p.offset
                                          /\ s.addr + s.size <= p.vaddr + p.filesz
Describes == [INTERP |-> ".interp", NOTE |-> ".note.ABI-tag", DYNAMIC |-> ".dynamic"]
SameProgram(s) == s.id \in {t.id : t \in {u \in Range(before.sections) : u.exec \/ u.addr > Section(before, ".fini").addr}} \ {".dynamic"}

\* Every address in the dynamic table is where its section is, whatever has grown
\* in front of it since.  In the file that is written, every section is loaded at
\* its address by one segment, no table is longer than its section, the program's
\* own code and data are where they were, what is reserved for the tool lies in
\* the added data, and the dynamic table has an end (extendTextSection, extendDynamicTable,
\* addPLTRelocationEntry, addSymbolToDynamicSymbolTable, expandHashTable,
\* buildInstrumentationSections, compressInstrumentation).
LoadedWhereExpected ==
    /\ \A t \in AddressTags : Dynamics(elf, t) # << >> => Value(elf, t) = Section(elf, TagSection[t]).addr
    /\ phase = "dump" =>
        /\ \A s \in Range(elf.sections) : s.alloc => Cardinality({i \in Loads(elf) : LoadedBy(elf.segments[i], s)}) = 1
        /\ \A s \in Range(elf.sections) : Contents(s) <= s.size
        /\ \A i, j \in Loads(elf) : i < j => elf.segments[i].vaddr + elf.segments[i].memsz <= elf.segments[j].vaddr
        /\ \A p \in Range(elf.segments) : p.type \in DOMAIN Describes =>
              LET s == Section(elf, Describes[p.type])
              IN  p.vaddr = s.addr /\ p.offset = s.offset /\ p.filesz = s.size
        /\ \A s \in Range(elf.sections) : SameProgram(s) => s.addr = Section(before, s.id).addr
        /\ data.used < Section(elf, ".inst.data").size /\ Section(elf, ".inst.data").addr = data.address
        /\ Dynamics(elf, "NULL") # << >>

\* How the loader looks a name up: the hash first, then the name.
GnuLookup(name) ==
    LET g == elf.gnu
        Hit(x) == g.values[x - g.first].h \div 2 = hash[name] \div 2 /\ NameOf(elf, x) = name
        find[x \in g.first .. g.first + g.n] ==
            IF x = g.first + g.n THEN -1
            ELSE IF Hit(x) THEN x ELSE IF g.values[x - g.first].stop THEN -1 ELSE find[x + 1]
        start == g.buckets[hash[name] % g.nb]
    IN  IF g.n = 0 \/ start = 0 THEN -1 ELSE find[start]
SysvLookup(name) ==
    LET find[x \in 0 .. LastSymbol(elf)] == IF x = 0 THEN -1 ELSE IF NameOf(elf, x) = name THEN x ELSE find[elf.sysv.chain[x]]
    IN  find[elf.sysv.buckets[hash[name] % elf.sysv.nb]]
SymbolOf(e, name) == CHOOSE i \in 0 .. LastSymbol(e) : NameOf(e, i) = name
Version(e, i) == e.versions[i + 1]

\* What the program defines is found in each of its hash tables (buildTable,
\* expandSize, sortForGnuHash).
NamesResolve ==
    \A i \in 0 .. LastSymbol(elf) : elf.symbols[i + 1].defined =>
        /\ Has(elf, ".hash") => SysvLookup(NameOf(elf, i)) = i
        /\ Has(elf, ".gnu.hash") => GnuLookup(NameOf(elf, i)) = i

SameReference(r, s) == /\ r.slot = s.slot /\ NameOf(elf, r.sym) = NameOf(before, s.sym)
                       /\ Version(elf, r.sym) = Version(before, s.sym)
AddedLibraries == SelectSeq(tool.libraries, LAMBDA l : ~l.overwrite /\ l.name \notin Range(Needed(before)))
AfterOverwrites(n) ==
    IF \E l \in Range(tool.libraries) : l.overwrite /\ l.name = n
             /\ NameOfLibrary(l) \notin Range(Needed(before)) \cup {m.name : m \in Range(AddedLibraries)}
    THEN n \o Extension ELSE n

\* Names resolve at all times.  In the end a call of a declared function goes through its slot to the symbol with its
\* name, the libraries are searched in the order of their declaration, before
\* those of the program, and every reference the program made before is to the
\* same name and version (addFunction, addSharedLibrary, sortForGnuHash).  A
\* function the program links to already has no relocation.
LinkedAsDeclared ==
    NamesResolve /\ (phase = "dump" =>
        /\ \A f \in Range(tool.functions) :
              IF \E i \in 0 .. LastSymbol(before) : NameOf(before, i) = f THEN f \notin DOMAIN pushed
              ELSE LET link == ProcedureLink(f)
                       r == elf.plt[link.push + 1]
                   IN  r.slot = link.through /\ NameOf(elf, r.sym) = f /\ Version(elf, r.sym) = "global"
        /\ \A k \in DOMAIN before.plt : SameReference(elf.plt[k], before.plt[k])
        /\ \A k \in DOMAIN before.dyn : SameReference(elf.dyn[k], before.dyn[k])
        /\ Needed(elf) = [k \in DOMAIN AddedLibraries |-> AddedLibraries[k].name]
                            \o [k \in DOMAIN Needed(before) |-> AfterOverwrites(Needed(before)[k])])
=============================================================================
