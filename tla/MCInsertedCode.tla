--------------------------- MODULE MCInsertedCode ---------------------------
(* The two sides of inserted code: the instructions the factory emits, and *)
(* the execution of points made of them.  A behaviour is about one side.   *)
EXTENDS PointExecution, EmittedInstructions

-----------------------------------------------------------------------------
(* Points of every kind.  The registers that may be dead are at both ends  *)
(* of the order in which scratch registers are looked for.                 *)

MaybeDead == {0, 1, 2, 7, 15}
LiveSets == {GPRs \ D : D \in {E \in SUBSET MaybeDead : Cardinality(E) # 4}} \cup {{SP}}
LiveFlags == {{}, {"CF"}, {"OF"}, {"CF", "DF"}}

Operand(base, index, stores, how) ==
    [base |-> base, index |-> index, stores |-> stores, implicit |-> FALSE, how |-> how]
NoOperand == Operand(NoReg, NoReg, FALSE, "none")
PushOrPopOperand(how) == [Operand(SP, NoReg, how = "push", how) EXCEPT !.implicit = TRUE]
SomeOperands ==
    {Operand(b, i, s, "lea") : b \in {AX, CX, SP}, i \in {NoReg, DX}, s \in BOOLEAN}
    \cup {Operand(NoReg, 2, FALSE, "lea"), Operand(NoReg, NoReg, TRUE, "rip")}
    \cup {PushOrPopOperand("push"), PushOrPopOperand("pop")}

Point(k, l, in, out, f, fr, t, m, a, s) ==
    [kind |-> k, loc |-> l, liveIn |-> in, liveOut |-> out, flags |-> f, frame |-> fr, threadReg |-> t,
     memop |-> m, args |-> a, skipped |-> s, sp |-> 65536 + (IF fr THEN 8 ELSE 0)]

\* A register that holds the thread data is dead in the whole function.
ThreadRegs == {NoReg, 1, 15}
DeadThreadReg(p) == p.threadReg \notin p.liveIn

Counters == {Point(k, l, in, in, f, fr, NoReg, NoOperand, << >>, FALSE) :
                k \in {"counter", "libcounter"}, l \in {"prior", "after"}, in \in LiveSets, f \in LiveFlags, fr \in BOOLEAN}
ThreadCounters == {p \in {Point("threadcounter", "after", in, in, f, fr, t, NoOperand, << >>, FALSE) :
                             in \in LiveSets, t \in ThreadRegs, f \in LiveFlags, fr \in BOOLEAN} : DeadThreadReg(p)}
\* A call leaves other registers live than it finds.
ThreadInits == {Point("threadinit", l, in \ {15}, out \ {15}, f, fr, 15, NoOperand, << >>, FALSE) :
                l \in {"prior", "after"}, in \in {GPRs, GPRs \ {2}, {SP}}, out \in {GPRs \ {1}, GPRs \ {2}}, f \in LiveFlags, fr \in BOOLEAN}
Simulated(kind, m, live, f, fr, t, s) == Point(kind, "prior", live, live, f, fr, t, m, <<"address">>, s)
Checks == {p \in {Simulated(k, NoOperand, live, f, fr, t, FALSE) :
                     k \in {"check", "increment"}, live \in LiveSets, f \in LiveFlags, fr \in BOOLEAN, t \in ThreadRegs} :
                  DeadThreadReg(p)}
FewLiveSets == {GPRs, GPRs \ {1}, GPRs \ {1, 2, 7}, GPRs \ {1, 2, 7, 15}, {SP}}
Fills == {p \in {Simulated("fill", m, live \cup UsesOf(m), f, fr, t, s) :
                    m \in SomeOperands, live \in FewLiveSets, f \in LiveFlags, fr \in BOOLEAN, t \in ThreadRegs, s \in BOOLEAN} :
                 DeadThreadReg(p)}
FunctionCalls == {Point("call", "prior", live, live, f, fr, NoReg, NoOperand, a, FALSE) :
                live \in {GPRs, GPRs \ {7}, {SP}}, f \in LiveFlags, fr \in BOOLEAN,
                a \in {<<"constant">>, <<"address", "constant", "address">>, <<"constant", "constant">>}}
Replaced == {Point("replace", "replace", live, live, f, FALSE, NoReg, NoOperand, << >>, FALSE) :
                live \in {GPRs, GPRs \ {1}}, f \in LiveFlags}

AllPoints == Counters \cup (ThreadCounters \cup (ThreadInits \cup (Checks \cup (Fills \cup (FunctionCalls \cup Replaced)))))

-----------------------------------------------------------------------------
(* The factory's methods are called with all sixteen registers, offsets    *)
(* and constants on both sides of the signs of one and of four bytes, and  *)
(* places of jumps before and after each other.                            *)

VARIABLE side
AllRegisters == 0 .. 15
SomeWords == {ZeroExtend(<<0>>), ZeroExtend(<<\h7f>>), ZeroExtend(<<\h80>>),
              ZeroExtend(<<0, \h10>>), ZeroExtend(<<1, 2, 3, \h84>>), Extend(<<\hf8>>)}
SomeAddresses == {ZeroExtend(<<\h34, \h12, \h40>>), ZeroExtend(<<0, 0, 0, \h7f>>)}
SomePlaces == {4096, 4196, 6295552}

AnyPoint == CHOOSE p \in Replaced : TRUE
CodeInit == /\ side \in {"factory", "point"}
            /\ Init /\ (side = "factory" => pt = AnyPoint)
            /\ FactoryInit
CodeNext == \/ side = "factory" /\ FactoryNext /\ UNCHANGED <<side, vars>>
            \/ side = "point" /\ Next /\ UNCHANGED <<side, factoryVars>>
CodeSpec == CodeInit /\ [][CodeNext]_<<side, vars, factoryVars>>
=============================================================================
