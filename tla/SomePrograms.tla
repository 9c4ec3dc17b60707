---------------------------- MODULE SomePrograms ----------------------------
(* Small texts with their symbols, and programs that call functions of     *)
(* their own and of a library, for ProgramText and CallSites.              *)
EXTENDS Integers, Sequences

CONSTANT RoomForJumps(_)   \* ProgramText's assumption on the symbols of a text

TextSections == [text |-> [addr |-> 100, size |-> 40], fini |-> [addr |-> 150, size |-> 9],
                 init |-> [addr |-> 86, size |-> 8], plt |-> [addr |-> 60, size |-> 16]]
In(section, name, value, size, type) == [name |-> name, value |-> value, size |-> size, type |-> type, section |-> section]
Func(name, value, size) == In("text", name, value, size, "FUNC")
\* Functions with the size that there is, with none, or overlapping the next;
\* labels, aliases, data in the text and a symbol outside of it.
Firsts == {Func("f", 100, n) : n \in {0, 12, 30}} \cup {Func("_start", 100, 12)}
Others == {Func("__i686.get_pc_thunk.bx", 112, 4), In("text", "d", 104, 8, "OBJECT")}
              \cup {Func("g", v, n) : v \in {112, 117}, n \in {0, 23}}
              \cup {In("text", "l", v, 0, "NOTYPE") : v \in {112, 117, 500}}
              \cup {Func("h", 130, n) : n \in {0, 3, 60}}
Ends == {In("fini", "_fini", 150, 9, "FUNC"), In("init", "_init", 86, 8, "FUNC")}
SomeTexts ==
    {t \in [symbols : {{a, b, c} \cup Ends : a \in Firsts, b \in Others, c \in Others \cup Firsts},
            undecoded : {{}, {100}}, refs : {{}, {[at |-> 114, to |-> 138]}}, calls : {{[at |-> 105, to |-> 112]}},
            linear : {<<6, 6, 5, 1>>}, disabled : {{"h"}}, white : BOOLEAN, entry : {102}] : RoomForJumps(t)}

-----------------------------------------------------------------------------
Sym(name, value, type) == [name |-> name, value |-> value, type |-> type]
Null == Sym("", 0, "NOTYPE")
\* The symbols of the program itself, in some orders: a function with one name
\* where the section begins, one with two names, and one with a label.
Own == {Sym(".text", 100, "SECTION"), Sym("work", 112, "FUNC"), Sym("_work", 112, "FUNC"),
        Sym("l", 124, "NOTYPE"), Sym("last", 124, "FUNC")}
SomeOrders == {q \in [1 .. 5 -> Own] : /\ \A i, j \in 1 .. 5 : i # j => q[i] # q[j]
                                       /\ q[1].name = "last" \/ q[5].name = "last"}
\* The library's functions: one may have the address of its PLT entry as value,
\* and some of the program's own may be exported.
Imported(value) == <<Null, Sym("puts", 0, "FUNC"), Sym("write", value, "FUNC")>>
Exported == {<< >>, <<Sym("work", 112, "FUNC")>>, <<Sym("last", 124, "FUNC"), Sym("main", 100, "FUNC")>>}
Plt == [puts |-> 60, write |-> 76]
To(target, import) == [target |-> target, import |-> import]
SomeCalls == <<To(100, {}), To(112, {}), To(124, {}), To(Plt.puts, {"puts"}), To(Plt.write, {"write"}), To(0, {})>>
Line(name, wrapper) == [comment |-> FALSE, name |-> name, wrapper |-> wrapper]
Comment == [comment |-> TRUE, name |-> "", wrapper |-> ""]
Lists == {<<Comment, Line("write", "w_write"), Line("main", "w_main")>>,
          <<Line("work", "w_work"), Line("last", "w_last"), Line("puts", "w_puts"), Line("last", "second")>>,
          <<Line("_work", "w"), Comment, Line("puts", "w"), Line("write", "other")>>}
SomeCallers ==
    {LET dynamic == Imported(v) \o x
     IN  [tables |-> IF strip THEN <<dynamic>> ELSE <<dynamic, <<Null>> \o q \o <<Sym("main", 100, "FUNC")>>>>, dynamic |-> dynamic,
          got |-> <<[address |-> 500, value |-> 480], [address |-> 508, value |-> 0], [address |-> 516, value |-> 0],
                    [address |-> 524, value |-> Plt.puts + 6], [address |-> 532, value |-> Plt.write + 6]>>,
          relocations |-> IF swap THEN <<[offset |-> 532, symbol |-> 2], [offset |-> 524, symbol |-> 1]>>
                          ELSE <<[offset |-> 524, symbol |-> 1], [offset |-> 532, symbol |-> 2]>>,
          calls |-> SomeCalls, list |-> l] :
       q \in SomeOrders, x \in Exported, v \in {0, Plt.write}, strip \in BOOLEAN, swap \in BOOLEAN, l \in Lists}
=============================================================================
