----------------------------- MODULE CallSites -----------------------------
(* Which function a call is to, and the calls that a tool replaces by calls *)
(* to its wrappers (CallReplace.C).  The name of a function of the program  *)
(* is looked up in the symbol tables (ElfFile.C, SymbolTable.C); one of a   *)
(* library is called through an entry of the PLT, whose slot in the global  *)
(* offset table has a relocation that names it.                             *)
EXTENDS Integers, Sequences, FiniteSets, SequencesExt

CONSTANTS Programs,  \* [tables, dynamic, got, relocations, calls, list]
          NumSyms    \* the length of the buffer for the symbols of an address
VARIABLES file,      \* the program
          functionList,  \* the tool's names and wrappers
          next,      \* the call that comes next
          sites      \* the calls that are replaced, and the wrappers they get
vars == <<file, functionList, next, sites>>

Intermediate == 6    \* where in an entry of the PLT the first call goes on
NoSymbol == [name |-> "", value |-> 0, type |-> "none"]

-----------------------------------------------------------------------------
\* A table puts its symbols of the address into the buffer from the front, as
\* many as fit: what an earlier table has left stays behind them.
findInTable(table, addr, buffer) ==
    LET here == SelectSeq(table, LAMBDA s : s.value = addr)
    IN  [i \in 1 .. NumSyms |-> IF i <= Len(here) THEN here[i] ELSE buffer[i]]
findSymbol4Addr(addr) ==
    LET empty == [i \in 1 .. NumSyms |-> NoSymbol]
    IN  IF addr = 0 THEN empty ELSE FoldLeft(LAMBDA buffer, t : findInTable(t, addr, buffer), empty, file.tables)

First(is) == CHOOSE i \in is : \A j \in is : i <= j
\* The first slot that still leads back into the entry of the PLT, and the
\* first relocation of that slot.
PltSymbol(addr) ==
    LET slots == {i \in DOMAIN file.got : file.got[i].value = addr + Intermediate}
        relocs == {i \in DOMAIN file.relocations : slots # {} /\ file.relocations[i].offset = file.got[First(slots)].address}
    IN  IF relocs # {} /\ file.relocations[First(relocs)].symbol > 0
        THEN file.dynamic[file.relocations[First(relocs)].symbol + 1] ELSE NoSymbol
lookupFunctionSymbol(addr) ==
    LET found == findSymbol4Addr(addr)
        functions == {i \in DOMAIN found : found[i].type = "FUNC"}
    IN  IF functions # {} THEN found[First(functions)] ELSE PltSymbol(addr)

\* The lines of the file of names, without its comments: a name and a wrapper each.
initializeFileList(lines) == SelectSeq(lines, LAMBDA l : ~l.comment)
searchFileList(name) ==
    LET is == {i \in DOMAIN functionList : functionList[i].name = name} IN IF is = {} THEN 0 ELSE First(is)

Init == /\ file \in Programs
        /\ functionList = << >> /\ next = 0 /\ sites = << >>
declare == /\ next = 0 /\ next' = 1
           /\ functionList' = initializeFileList(file.list)
           /\ UNCHANGED <<file, sites>>
instrument ==
    /\ next \in DOMAIN file.calls
    /\ LET f == lookupFunctionSymbol(file.calls[next].target)
           idx == IF f = NoSymbol THEN 0 ELSE searchFileList(f.name)
       IN  sites' = IF idx = 0 THEN sites ELSE Append(sites, [call |-> next, wrapper |-> functionList[idx].wrapper])
    /\ next' = next + 1
    /\ UNCHANGED <<file, functionList>>
Done == next > Len(file.calls) /\ UNCHANGED vars
Next == declare \/ instrument \/ Done
Spec == Init /\ [][Next]_vars

-----------------------------------------------------------------------------
\* Everything that a call calls: the names of the function at the address, or
\* of the function that the loader finds for the entry of the PLT; none, if
\* its target is not known.
Callees(c) == {s.name : s \in {s \in UNION {Range(t) : t \in Range(file.tables)} : s.type = "FUNC" /\ s.value = c.target /\ c.target # 0}} \cup c.import
Listed(names) == {functionList[i].wrapper : i \in {i \in DOMAIN functionList : functionList[i].name \in names}}
Wrappers(k) == {s.wrapper : s \in {s \in Range(sites) : s.call = k}}
\* CallReplace::instrument: a call is replaced by a wrapper of what it calls,
\* and every call whose only name is in the list is; no call is replaced twice.
CallsReplaced ==
    \A k \in 1 .. next - 1 :
        LET names == Callees(file.calls[k])
        IN  /\ Wrappers(k) \subseteq Listed(names) /\ Cardinality(Wrappers(k)) <= 1
            /\ Cardinality(names) = 1 /\ Listed(names) # {} =>
                   \E i \in DOMAIN functionList : functionList[i].name \in names /\ Wrappers(k) = {functionList[i].wrapper}
=============================================================================
