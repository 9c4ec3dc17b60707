--------------------------- MODULE MCFlowAnalysis ---------------------------
(***************************************************************************)
(* Small functions for FlowAnalysis: graphs in which every instruction is  *)
(* a conditional branch, and mixtures of operations and control; and loops *)
(* and exits of every kind for ToolPoints.                                 *)
(***************************************************************************)
EXTENDS ToolPoints, TLC

I(kind, size, targets, uses, defs) ==
    [kind |-> kind, size |-> size, targets |-> targets, uses |-> uses, defs |-> defs]
Branch(t) == I("branch", 1, <<t>>, {"F"}, {})
Jump(t) == I("jump", 1, <<t>>, {}, {})
Return == I("return", 1, << >>, {"A"}, {})
Nop == I("op", 1, << >>, {}, {})
Long == I("op", 2, << >>, {}, {"A"})
Define == I("op", 1, << >>, {}, {"A"})
Use == I("op", 1, << >>, {"A"}, {"B"})
Both == I("op", 1, << >>, {"A"}, {"A", "F"})
Compare == I("op", 1, << >>, {"B"}, {"F"})
Store == I("op", 1, << >>, {"B"}, {"M"})
Load == I("op", 1, << >>, {"M"}, {"B"})
CallSelf == I("call", 1, <<1>>, {"B"}, {"A"})
CallOut == I("call", 1, <<0>>, {}, {"A", "F"})
Table(t, u) == I("table", 1, <<t, u>>, {"B"}, {})
Lost == I("table", 1, << >>, {}, {})
Halt == I("halt", 1, << >>, {}, {})

MCSize == 6
MCRegisters == {"A", "B"}
MCFlags == {"F"}
MCMemory == [l \in {"M"} |-> {"B"}]

\* Every instruction but the last is a branch to any instruction.
Graphs == {<<Branch(a), Branch(b), Branch(c), Branch(d), Branch(e), Return>> :
               a \in {3, 5}, b, c, d \in 1 .. 6, e \in 1 .. 5}

Mixtures ==
    {<<a, b, c, d, e, f>> :
        a \in {Define, Branch(4)}, b \in {Define, Use, Long, Store, Table(4, 6)},
        c \in {Use, Branch(5), CallSelf, Load}, d \in {Define, Compare, Branch(2), Return, Jump(3)},
        e \in {Branch(2), Branch(1), Branch(4), Both, CallOut, Halt}, f \in {Return, Jump(2), Long, Branch(0), Lost}}
MCTexts == Graphs \cup Mixtures

\* Loops within loops and beside loops, with shared heads, returns, calls,
\* tables and memory operations.
MCToolTexts ==
    {<<a, b, c, d, e, f>> :
        a \in {Nop, Branch(3)}, b \in {Store, Branch(4), Return},
        c \in {Load, Branch(2), Branch(6), Table(2, 5)},
        d \in {Branch(2), Branch(3), Branch(6), CallOut},
        e \in {Branch(2), Branch(3), Jump(2), Load}, f \in {Return, Jump(3), Branch(0)}}
    \cup {<<Nop, Branch(t), Return, Branch(2), e, Return>> : t \in {4, 6}, e \in {Load, Branch(2)}}
    \cup {<<Nop, Branch(5), Jump(2), Return, e, Branch(t)>> : e \in {Load, Return}, t \in {4, 5}}

\* The functions for the tools are known to be disassembled completely.
Disassembled ==
    /\ text \in MCToolTexts /\ phase = "graph" /\ instrs = Closure({1}, RealSteps) /\ unprocessed = << >> /\ bad = FALSE
    /\ graph = << >> /\ idom = << >> /\ live = << >> /\ loops = << >> /\ du = << >>
ToolsOff == tool = "off" /\ wanted = {} /\ plan = << >> /\ at = Outside /\ count = << >>

MCInit == (Init /\ ToolsOff) \/ (Disassembled /\ ToolsInit)
MCNext == (Next /\ UNCHANGED toolVars) \/ ToolsNext \/ (ToolsFinished /\ UNCHANGED <<vars, toolVars>>)
MCSpec == MCInit /\ [][MCNext]_<<vars, toolVars>>
=============================================================================
