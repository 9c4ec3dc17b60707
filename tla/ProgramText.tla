---------------------------- MODULE ProgramText ----------------------------
(* How the text of a program is taken apart into functions and put together *)
(* again: the symbols of a section become its text objects (TextSection.C), *)
(* the functions that are understood and may be moved are shown to the tool *)
(* (ElfFileInst.C), some of them are moved, and each object is written back *)
(* in its place, over what the ones before have written.                    *)
(*                                                                          *)
(* Whether the code of a function can be followed is FlowAnalysis's, what   *)
(* becomes of it when it is moved is PointLayout's.                         *)
EXTENDS Integers, Sequences, FiniteSets, SequencesExt

CONSTANTS Sections,   \* "text", "fini", "init" and others: [addr, size]
          Texts       \* programs: [symbols, undecoded, refs, calls, linear, disabled, white, entry]
VARIABLES stage,      \* the pass that comes next, or "stopped" by an error
          text,       \* the program
          found,      \* textSymbols, for each section
          objects,    \* sortedTextObjects
          exposed,    \* exposedFunctions: pairs of a section and a place in it
          moved,      \* those that are moved,
          safety,     \* and where the jump behind each of them leads: the address of a function
          bytes       \* what is at each address of the file
vars == <<stage, text, found, objects, exposed, moved, safety, bytes>>

uncond_jump == 5
Begin(k) == Sections[k].addr
End(k) == Begin(k) + Sections[k].size
sectionInRange(k, a) == Begin(k) <= a /\ a < End(k)

-----------------------------------------------------------------------------
(* The symbols of a section. *)

isFunctionSymbol(s, k) == s.type = "FUNC" /\ s.section = k
isTextObjectSymbol(s, k) == s.type = "NOTYPE" /\ s.section = k /\ sectionInRange(k, s.value)
Rank(s) == CASE s.type = "NOTYPE" -> 0 [] s.type = "OBJECT" -> 1 [] OTHER -> 2
\* Mutant: whichever symbol is at the address.
AnySymbol(at) == at
Last0(at) == {s \in at : \A o \in at : Rank(o) <= Rank(s)}
\* At each address one symbol is kept, of the highest type; which one of
\* several is up to the sort.
discoverTextObjects(k) ==
    LET all == {s \in text.symbols : isFunctionSymbol(s, k) \/ isTextObjectSymbol(s, k)}
        values == SetToSortSeq({s.value : s \in all}, <)
    IN  {q \in [DOMAIN values -> all] : \A i \in DOMAIN values : q[i] \in Last0({s \in all : s.value = values[i]})}

\* An object goes on to the next symbol, or further if its own size says so
\* (the last one to the end of the section): objects may overlap.
Size(q, i, k) ==
    LET room == (IF i = Len(q) THEN End(k) ELSE q[i + 1].value) - q[i].value
    IN  IF q[i].size > room /\ (i = Len(q) \/ q[i].size < Sections[k].size) THEN q[i].size ELSE room
Object(kind, name, base, size, linear) == [kind |-> kind, name |-> name, base |-> base, size |-> size, linear |-> linear]
disassemble(q, k) ==
    IF q = << >> THEN <<Object("free", "", Begin(k), Sections[k].size, TRUE)>>
    ELSE [i \in DOMAIN q |-> Object(IF isFunctionSymbol(q[i], k) THEN "function" ELSE "free", q[i].name, q[i].value,
                                    Size(q, i, k), FALSE)]
EndOf(o) == o.base + o.size
inRange(o, a) == o.base <= a /\ a < EndOf(o)
verify(os, k) == /\ \A i \in DOMAIN os : sectionInRange(k, os[i].base) /\ (sectionInRange(k, EndOf(os[i])) \/ EndOf(os[i]) = End(k))
                 /\ os[1].base = Begin(k)

\* Linear disassembly: the sizes of the instructions, the last one cut short
\* where it runs over the end.
digestLinear(o, sizes) ==
    FoldLeft(LAMBDA acc, n : LET at == IF acc = << >> THEN o.base ELSE Last(acc)[1] + Last(acc)[2]
                             IN  IF at >= EndOf(o) THEN acc ELSE Append(acc, <<at, IF at + n > EndOf(o) THEN EndOf(o) - at ELSE n>>),
             << >>, sizes)

\* The functions of a section, and the first one with an address in it.
Functions(k) == {i \in DOMAIN objects[k] : objects[k][i].kind = "function"}
At(f) == objects[f[1]][f[2]]
Lookup(k, a) == {i \in Functions(k) : inRange(objects[k][i], a) /\ \A j \in Functions(k) : j < i => ~inRange(objects[k][j], a)}

-----------------------------------------------------------------------------
(* Which functions a tool may touch. *)

containsCallToRange(o, from, to) == \E c \in text.calls : inRange(o, c.at) /\ from <= c.to /\ c.to < to
hasSelfDataReference(o) == \E r \in text.refs : inRange(o, r.at) /\ inRange(o, r.to)
hasCompleteDisassembly(f) ==
    LET o == At(f)
    IN  /\ o.base \notin text.undecoded
        /\ ~hasSelfDataReference(o)
        /\ \A i \in Functions(f[1]) : LET thunk == objects[f[1]][i]
                                      IN  thunk.name = "__i686.get_pc_thunk.bx" => ~containsCallToRange(o, thunk.base, EndOf(thunk))
\* The list names the functions to leave alone, or the only ones not to.
isDisabledFunction(o) == (o.name \in text.disabled) # text.white
isEligibleFunction(o) == o.name \in {"_start", "_fini"} \/ (~isDisabledFunction(o) /\ o.size >= uncond_jump)

\* allFunctions: of the text, then of what is run at the end and first.
FunctionsOf(k) == SelectSeq([i \in DOMAIN objects[k] |-> <<k, i>>], LAMBDA f : At(f).kind = "function")
allFunctions == FunctionsOf("text") \o FunctionsOf("fini") \o FunctionsOf("init")

-----------------------------------------------------------------------------
Init == /\ stage = "discover" /\ text \in Texts
        /\ found = << >> /\ objects = << >> /\ exposed = {} /\ moved = {} /\ safety = << >> /\ bytes = << >>

Discover == /\ stage = "discover" /\ stage' = "disassemble"
            /\ found' \in {q \in [DOMAIN Sections -> UNION {discoverTextObjects(k) : k \in DOMAIN Sections}] :
                              \A k \in DOMAIN Sections : q[k] \in discoverTextObjects(k)}
            /\ UNCHANGED <<text, objects, exposed, moved, safety, bytes>>
Disassemble ==
    /\ stage = "disassemble"
    /\ objects' = [k \in DOMAIN Sections |-> disassemble(found[k], k)]
    /\ stage' = IF \A k \in DOMAIN Sections : verify(objects'[k], k) THEN "select" ELSE "stopped"
    /\ UNCHANGED <<text, found, exposed, moved, safety, bytes>>
\* The block at the entry point must be in a function that is exposed.
functionSelect ==
    /\ stage = "select"
    /\ exposed' = {f \in Range(allFunctions) : hasCompleteDisassembly(f) /\ isEligibleFunction(At(f))}
    /\ stage' = IF Lookup("text", text.entry) # {} /\ \E f \in exposed' : inRange(At(f), text.entry) THEN "move" ELSE "stopped"
    /\ UNCHANGED <<text, found, objects, moved, safety, bytes>>

\* A tool puts points into some of the functions.  Each leaves a jump behind,
\* and gets one at its end, to the function that is next in the list of all:
\* by its place among the objects of its section.
Movable(f) == At(f).size >= uncond_jump
relocateAndBloatFunction ==
    /\ stage = "move" /\ stage' = "dump"
    /\ moved' \in {fs \in SUBSET exposed : \A f \in fs : Movable(f)}
    /\ safety' = [f \in {f \in moved' : f[2] < Len(allFunctions)} |-> At(allFunctions[f[2] + 1]).base]
    /\ UNCHANGED <<text, found, objects, exposed, bytes>>

Content(k, i, n) == IF <<k, i>> \in moved /\ n < uncond_jump THEN <<"jump", objects[k][i].base, n>>
                    ELSE <<"code", objects[k][i].base + n>>
\* Where an object is written: as far behind the first one as its symbol is.
DumpedAt(k, i) == Begin(k) + objects[k][i].base - objects[k][1].base
dump(k) ==
    LET over(a) == {i \in DOMAIN objects[k] : DumpedAt(k, i) <= a /\ a < DumpedAt(k, i) + objects[k][i].size}
        last(a) == CHOOSE i \in over(a) : \A j \in over(a) : j <= i
    IN  [a \in Begin(k) .. End(k) - 1 |->
            IF over(a) = {} THEN <<"zero", a>> ELSE Content(k, last(a), a - DumpedAt(k, last(a)))]
Dump == /\ stage = "dump" /\ stage' = "written"
        /\ bytes' = [k \in DOMAIN Sections |-> dump(k)]
        /\ UNCHANGED <<text, found, objects, exposed, moved, safety>>
Done == stage \in {"written", "stopped"} /\ UNCHANGED vars

Next == Discover \/ Disassemble \/ functionSelect \/ relocateAndBloatFunction \/ Dump \/ Done
Spec == Init /\ [][Next]_vars

-----------------------------------------------------------------------------
\* What the moving of functions relies on: no symbol is within the first
\* bytes of a function, where its jump will be.
RoomForJumps(t) ==
    \A s \in t.symbols : s.type = "FUNC" =>
        \A o \in t.symbols : o.section = s.section /\ o.type # "OBJECT" => o.value <= s.value \/ o.value >= s.value + uncond_jump

\* discoverTextObjects: wherever a function symbol is, a function begins, and
\* it is the one that is found at that address unless an earlier one goes on
\* beyond it; it holds everything up to the next symbol.
FunctionsBegin ==
    stage \in {"select", "move"} =>
        \A s \in text.symbols :
            s.type = "FUNC" =>
                \E i \in Functions(s.section) :
                    LET o == objects[s.section][i]
                    IN  /\ o.base = s.value
                        /\ \E e \in {objects[s.section][j].base : j \in DOMAIN objects[s.section]} \cup {End(s.section)} :
                               s.value < e /\ e <= EndOf(o)
                        /\ (\A j \in 1 .. i - 1 : EndOf(objects[s.section][j]) <= o.base) => Lookup(s.section, s.value) = {i}
\* TextSection::dump: the jump of each moved function is whole, and everything
\* else is where it was, so that code which is not understood, or jumps through
\* a table that is not, still runs in the old place.
OldTextStays ==
    stage = "written" =>
        \A k \in DOMAIN Sections : \A a \in DOMAIN bytes[k] :
            LET jumps == {f \in moved : f[1] = k /\ At(f).base <= a /\ a < At(f).base + uncond_jump}
            IN  IF jumps = {} THEN bytes[k][a] = <<"code", a>>
                ELSE \E f \in jumps : bytes[k][a] = <<"jump", At(f).base, a - At(f).base>>
\* addSafetyJump: what falls off the end of a moved function, where the text
\* is functions only and none overlap, goes on in the next function.
FallsIntoTheNext ==
    stage = "dump" /\ (\A i \in DOMAIN objects["text"] :
                           /\ objects["text"][i].kind = "function"
                           /\ i < Len(objects["text"]) => EndOf(objects["text"][i]) = objects["text"][i + 1].base) =>
        \A f \in moved : f[1] = "text" /\ f[2] < Len(objects["text"]) => safety[f] = EndOf(At(f))
\* FreeText::digest: the instructions of a section without symbols fill it.
FreeTextWhole ==
    stage = "select" =>
        \A k \in DOMAIN Sections : \A i \in DOMAIN objects[k] :
            LET o == objects[k][i]
                q == digestLinear(o, text.linear)
            IN  o.linear => q[1][1] = o.base /\ Last(q)[1] + Last(q)[2] = EndOf(o)
TextWhole == FunctionsBegin /\ OldTextStays /\ FallsIntoTheNext /\ FreeTextWhole
=============================================================================
