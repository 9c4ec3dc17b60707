----------------------------- MODULE SomeFiles -----------------------------
(* Executables and shared libraries with two pages of headers, code and    *)
(* data, as GNU ld lays them out, with one or both kinds of hash table,    *)
(* and tools that add functions and libraries to them.                     *)
EXTENDS Integers, Sequences, SequencesExt, TLC

Page == 2097152
Aligned(a, n) == IF n <= 1 THEN a ELSE ((a + n - 1) \div n) * n
S(id, type, size, align) == [id |-> id, type |-> type, size |-> size, align |-> align, alloc |-> TRUE, exec |-> FALSE]
X(id, size, align) == [S(id, "PROGBITS", size, align) EXCEPT !.exec = TRUE]
N(id, type, size) == [S(id, type, size, 1) EXCEPT !.alloc = FALSE]

\* Sections in a row, from an offset on; base is what their addresses differ by.
Row(secs, from, base) ==
    FoldLeft(LAMBDA acc, s :
                LET o == Aligned(IF acc = << >> THEN from ELSE Last(acc).offset + (IF Last(acc).type = "NOBITS" THEN 0 ELSE Last(acc).size), s.align)
                IN  Append(acc, [id |-> s.id, type |-> s.type, size |-> s.size, align |-> s.align, alloc |-> s.alloc,
                                 exec |-> s.exec, offset |-> o, addr |-> IF s.alloc THEN base + o ELSE 0]),
             << >>, secs)

\* Names of the dynamic symbols, and which of them the program defines; the
\* ones the GNU table is about come last, by bucket.
Undefined == <<"", "puts", "exit">>
Symbols(defined) == Undefined \o defined
StringsOf(names) ==
    FoldLeft(LAMBDA acc, n : [strings |-> [o \in DOMAIN acc.strings \cup {acc.size} |-> IF o = acc.size THEN n ELSE acc.strings[o]],
                              size |-> acc.size + Len(n) + 1], [strings |-> << >>, size |-> 0], names)
Offset(strings, n) == CHOOSE o \in DOMAIN strings : strings[o] = n

Known == [n \in {"", "puts", "exit", "environ", "stdout", "stderr"} |->
             CASE n = "" -> 0 [] n = "puts" -> 1 [] n = "exit" -> 2 [] n = "environ" -> 6 [] n = "stdout" -> 4 [] n = "stderr" -> 5]
LastOf(is) == IF is = {} THEN 0 ELSE CHOOSE i \in is : \A j \in is : j <= i
FirstOf(is) == IF is = {} THEN 0 ELSE CHOOSE i \in is : \A j \in is : i <= j

Libraries == <<"libm.so", "libc.so">>
\* An executable or a library, how many symbols it defines, and the number of
\* buckets of its hash tables (none: 0) and of bloom filters.  The file is made
\* in steps, each of which adds to what is known of it.
Contents(exec, d, buckets, gnuBuckets, blooms) ==
    LET defined == SubSeq(<<"environ", "stdout", "stderr">>, 4 - d, 3)
        names == Symbols(defined)
    IN  [exec |-> exec, buckets |-> buckets, gnuBuckets |-> gnuBuckets, blooms |-> blooms,
         hashed |-> IF gnuBuckets = 0 THEN 0 ELSE d, defined |-> defined, names |-> names,
         strs |-> StringsOf(names \o Libraries), base |-> IF exec THEN 2 * Page ELSE 0]
WithFront(c) ==
    LET n == Len(c.names)
    IN  c @@ [front |->
            Row((IF c.exec THEN <<S(".interp", "PROGBITS", 28, 1)>> ELSE << >>)
                \o <<S(".note.ABI-tag", "NOTE", 32, 4)>>
                \o (IF c.buckets = 0 THEN << >> ELSE <<S(".hash", "HASH", 4 * (2 + c.buckets + n), 8)>>)
                \o (IF c.gnuBuckets = 0 THEN << >>
                     ELSE <<S(".gnu.hash", "GNU_HASH", 16 + 8 * c.blooms + 4 * c.gnuBuckets + 4 * c.hashed, 8)>>)
                \o <<S(".dynsym", "DYNSYM", 24 * n, 8), S(".dynstr", "STRTAB", c.strs.size, 1),
                     S(".gnu.version", "VERSYM", 2 * n, 2), S(".gnu.version_r", "VERNEED", 32, 8),
                     S(".rela.dyn", "RELA", 24, 8), S(".rela.plt", "RELA", 48, 8),
                     X(".init", 24, 4), X(".plt", 48, 16), X(".text", 768, 16), X(".fini", 14, 4),
                     S(".eh_frame_hdr", "PROGBITS", 36, 4)>>, 512, c.base)]
End(c) == Last(c.front).offset + Last(c.front).size
WithBack(c) ==
    c @@ [back |-> Row(<<S(".dynamic", "DYNAMIC", 16 * 20, 8), S(".got.plt", "PROGBITS", 40, 8),
                         S(".data", "PROGBITS", 16, 8), S(".bss", "NOBITS", 64, 8)>>, Aligned(End(c), 8), c.base + Page)]
WithSections(c) ==
    c @@ [secs |-> c.front \o c.back
                   \o Row(<<N(".shstrtab", "STRTAB", 200), N(".symtab", "SYMTAB", 240), N(".strtab", "STRTAB", 99)>>,
                          c.back[4].offset + 50 + 64 * (Len(c.front) + 8), 0)]
Get(c, id) == CHOOSE s \in Range(c.secs) : s.id = id
Seg(type, flags, s, size, mem, align) == [type |-> type, flags |-> flags, offset |-> s.offset, vaddr |-> s.addr,
                                          filesz |-> size, memsz |-> mem, align |-> align]
SegmentsOf(c) ==
    LET Of(type, s, align) == Seg(type, {"R"}, s, s.size, s.size, align)
        back == c.back
    IN  (IF c.exec THEN <<Seg("PHDR", {"R"}, [offset |-> 64, addr |-> c.base + 64], 448, 448, 8), Of("INTERP", Get(c, ".interp"), 1)>>
         ELSE << >>)
        \o <<Seg("LOAD", {"R", "X"}, [offset |-> 0, addr |-> c.base], End(c), End(c), Page),
             Seg("LOAD", {"R", "W"}, back[1], back[4].offset - back[1].offset, back[4].addr + 64 - back[1].addr, Page),
             Of("DYNAMIC", Get(c, ".dynamic"), 8), Of("NOTE", Get(c, ".note.ABI-tag"), 4), Of("EH_FRAME", Get(c, ".eh_frame_hdr"), 4),
             [type |-> "GNU_STACK", flags |-> {"R"}, offset |-> 0, vaddr |-> 0, filesz |-> 0, memsz |-> 0, align |-> 8]>>
SectionTags == <<<<"INIT", ".init">>, <<"FINI", ".fini">>, <<"HASH", ".hash">>, <<"GNU_HASH", ".gnu.hash">>,
                 <<"STRTAB", ".dynstr">>, <<"SYMTAB", ".dynsym">>, <<"PLTGOT", ".got.plt">>, <<"JMPREL", ".rela.plt">>,
                 <<"RELA", ".rela.dyn">>, <<"VERNEED", ".gnu.version_r">>, <<"VERSYM", ".gnu.version">>>>
TagsOf(c) ==
    LET present == SelectSeq(SectionTags, LAMBDA t : \E s \in Range(c.secs) : s.id = t[2])
    IN  [k \in 1 .. 2 |-> [tag |-> "NEEDED", val |-> Offset(c.strs.strings, Libraries[k])]]
        \o [k \in DOMAIN present |-> [tag |-> present[k][1], val |-> Get(c, present[k][2]).addr]]
        \o <<[tag |-> "PLTRELSZ", val |-> 48], [tag |-> "NULL", val |-> 0]>>
SysvOf(c) ==
    LET n == Len(c.names)
        Same(i, b) == Known[c.names[i + 1]] % c.buckets = b
    IN  [nb |-> c.buckets, buckets |-> [b \in 0 .. c.buckets - 1 |-> LastOf({i \in 0 .. n - 1 : Same(i, b)})],
         chain |-> [i \in 0 .. (IF c.buckets = 0 THEN 0 ELSE n) - 1 |->
                       LastOf({j \in 0 .. i - 1 : Same(j, Known[c.names[i + 1]] % c.buckets)})]]
GnuOf(c) ==
    LET first == Len(Undefined)
        Bucket(name) == Known[name] % c.gnuBuckets
        Stops(i) == i = c.hashed - 1 \/ Bucket(c.defined[i + 1]) # Bucket(c.defined[i + 2])
    IN  [first |-> first, n |-> c.hashed, nb |-> c.gnuBuckets, blooms |-> c.blooms,
         buckets |-> [b \in 0 .. c.gnuBuckets - 1 |-> FirstOf({i \in first .. Len(c.names) - 1 : Bucket(c.names[i + 1]) = b})],
         values |-> [i \in 0 .. c.hashed - 1 |-> [h |-> Known[c.defined[i + 1]], stop |-> Stops(i)]]]
Described(c) ==
    [sections |-> c.secs, segments |-> SegmentsOf(c), tags |-> TagsOf(c), shoff |-> c.back[4].offset + 50,
     symbols |-> [k \in DOMAIN c.names |-> [name |-> Offset(c.strs.strings, c.names[k]), defined |-> k > Len(Undefined)]],
     versions |-> c.names,
     dyn |-> <<[slot |-> 1, sym |-> Len(c.names) - 1]>>, plt |-> <<[slot |-> 2, sym |-> 1], [slot |-> 3, sym |-> 2]>>,
     strings |-> c.strs.strings, stringsSize |-> c.strs.size, ok |-> TRUE,
     sysv |-> SysvOf(c), gnu |-> GnuOf(c)]

\* Each kind of hash table, alone and with the other, and one without an entry.
AllContents == {Contents(TRUE, 2, 2, 0, 0), Contents(TRUE, 3, 3, 0, 0), Contents(FALSE, 3, 3, 0, 0), Contents(TRUE, 2, 0, 2, 1),
                Contents(TRUE, 3, 0, 3, 2), Contents(TRUE, 0, 2, 1, 1), Contents(TRUE, 3, 3, 3, 2), Contents(FALSE, 2, 2, 2, 1),
                Contents(FALSE, 3, 0, 2, 1)}
AllFiles == {Described(WithSections(WithBack(WithFront(c)))) : c \in AllContents}
Names == {"tool", "inst_a", "function_exit"}
AllHashes == {[n \in Names \cup DOMAIN Known |-> IF n \in Names THEN h[n] ELSE Known[n]] : h \in [Names -> {0, 1, 4, 5}]}
Plain(n) == [name |-> n, overwrite |-> FALSE]
Over(n) == [name |-> n, overwrite |-> TRUE]
Tool(fs, ls, ds, t) == [functions |-> fs, libraries |-> ls, data |-> ds, text |-> t]
\* Functions declared twice and ones the program links to already, libraries that
\* are overwritten, missing or linked to already, and data beyond one extension.
AllTools ==
    {Tool(<<"tool", "inst_a", "function_exit">>, <<Plain("libsim.so"), Plain("libpebil.so")>>, <<16, 100>>, 12288),
     Tool(<<"function_exit", "tool", "function_exit">>, <<Plain("libsim.so"), Over("libc.so")>>, <<327680>>, 100),
     Tool(<<"inst_a", "puts">>, <<Plain("libm.so"), Over("libnone.so")>>, << >>, 4096),
     Tool(<< >>, <<Over("libm.so"), Plain("libsim.so")>>, <<8>>, 64)}
=============================================================================
