------------------------ MODULE PointExecution_proofs ------------------------
(***************************************************************************)
(* Proof that the program finds everything as it was after an              *)
(* instrumentation point (ProgramUndisturbed), whatever the point: its     *)
(* live registers and flags, its arguments, its operand.                   *)
(*                                                                         *)
(* Both the code of a point and the wrapper of a function begin with       *)
(* instructions that save and end with their mirror image.  While a        *)
(* sequence of saves runs, everything is as it was (Saving); from its end  *)
(* to the last restore the first i saves can be undone, and what they do   *)
(* not cover is as it was (Unwinding).  What is in between may change only *)
(* what is saved or not needed, and the stack below.                       *)
(*                                                                         *)
(* On top of it, proof that the run time gets what the tool meant          *)
(* (DoesWhatWasMeant): the Meaning of a place is what the registers hold   *)
(* and what has been written when it is reached, up to what is meant.      *)
(***************************************************************************)
EXTENDS PointExecution, FiniteSetTheorems, NumberLemmas

-----------------------------------------------------------------------------
(* Instructions that save, and how deep they have brought the stack. *)

SaveOps == {Push(r) : r \in GPRs} \cup {<<"pushf">>, <<"lahf">>, AddSP(-AutoInc)}

\* The stack is moved out of the way first; lahf follows the push of AX.
SavesWell(s) ==
    /\ s \in Seq(SaveOps)
    /\ \A k \in 1 .. Len(s) : s[k][1] = "addsp" => k = 1
    /\ \A k \in 1 .. Len(s) : s[k][1] = "lahf" =>
          /\ k > 1 /\ s[k - 1] = Push(AX)
          /\ \A j \in k + 1 .. Len(s) : s[j][1] # "lahf" /\ s[j] # Push(AX)

Lahfed(s, i) == \E m \in 1 .. i : s[m][1] = "lahf"
Depth(s, i) == 8 * i + (IF i >= 1 /\ s[1][1] = "addsp" THEN AutoInc - 8 ELSE 0)
                     - (IF Lahfed(s, i) THEN 8 ELSE 0)

LEMMA SaveOp ==
    ASSUME NEW i \in SaveOps
    PROVE  /\ i[1] \in {"push", "pushf", "lahf", "addsp"}
           /\ i[1] = "push" => i[2] \in GPRs /\ i = Push(i[2])
           /\ i[1] = "addsp" => i = AddSP(-AutoInc)
           /\ i[1] = "pushf" => i = <<"pushf">>
           /\ i[1] = "lahf" => i = <<"lahf">>
  BY DEF SaveOps, Push, AddSP

LEMMA Sizes == AutoInc \in Nat /\ AutoInc >= 128 /\ StackAlign \in Nat /\ StackAlign > 0
  BY SizesAssumption, ExecutionAssumption DEF RedZone

LEMMA DepthType ==
    ASSUME NEW s, SavesWell(s), NEW i \in 0 .. Len(s)
    PROVE  Depth(s, i) \in Int /\ (i = 0 => Depth(s, i) = 0)
<1>1. i \in Int
  BY DEF SavesWell
<1>2. i = 0 => ~Lahfed(s, i)
  BY DEF Lahfed
<1>3. Depth(s, i) \in Int
  BY <1>1, Sizes DEF Depth
<1>4. i = 0 => Depth(s, i) = 0
  <2> SUFFICES ASSUME i = 0 PROVE Depth(s, i) = 0
    OBVIOUS
  <2>1. ~(i >= 1 /\ s[1][1] = "addsp") /\ ~Lahfed(s, i)
    BY <1>2
  <2>2. Depth(s, i) = 8 * i + 0 - 0
    BY <2>1 DEF Depth
  <2> QED  BY <2>2
<1> QED  BY <1>3, <1>4

LEMMA DepthStep ==
    ASSUME NEW s, SavesWell(s), NEW i \in 0 .. Len(s) - 1
    PROVE  /\ s[i + 1][1] \in {"push", "pushf"} => Depth(s, i + 1) = Depth(s, i) + 8
           /\ s[i + 1][1] = "lahf" => Depth(s, i + 1) = Depth(s, i)
           /\ s[i + 1][1] = "addsp" => Depth(s, i + 1) = Depth(s, i) + AutoInc
           /\ Lahfed(s, i + 1) <=> Lahfed(s, i) \/ s[i + 1][1] = "lahf"
           /\ s[i + 1][1] = "lahf" => ~Lahfed(s, i)
<1> DEFINE op == s[i + 1]
<1>1. /\ i \in Nat /\ Len(s) \in Nat /\ i + 1 \in 1 .. Len(s) /\ AutoInc \in Nat
      /\ \A k \in 1 .. Len(s) : s[k] \in SaveOps
  BY Sizes DEF SavesWell
<1>2. Lahfed(s, i + 1) <=> Lahfed(s, i) \/ op[1] = "lahf"
  BY <1>1 DEF Lahfed
<1>3. op[1] = "lahf" => ~Lahfed(s, i)
  BY <1>1 DEF Lahfed, SavesWell
<1>4. i >= 1 => op[1] # "addsp"
  BY <1>1 DEF SavesWell
<1>5. op[1] = "lahf" => i >= 1
  BY <1>1 DEF SavesWell
<1>6. i + 1 >= 1 /\ (i = 0 => i + 1 = 1)
  BY <1>1
<1>7. ~Lahfed(s, 0)
  BY DEF Lahfed
<1>8. CASE op[1] \in {"push", "pushf"}
  BY <1>1, <1>2, <1>6, <1>8, Sizes DEF Depth
<1>9. CASE op[1] = "lahf"
  BY <1>1, <1>2, <1>3, <1>5, <1>6, <1>9, Sizes DEF Depth
<1>10. CASE op[1] = "addsp"
  <2>1. i = 0 /\ ~Lahfed(s, 1) /\ s[1][1] = "addsp"
    BY <1>1, <1>2, <1>4, <1>7, <1>10
  <2> QED  BY <1>3, <1>7, <1>10, <2>1, Sizes DEF Depth
<1>11. CASE op[1] \notin {"push", "pushf", "lahf", "addsp"}
  BY <1>2, <1>3, <1>11
<1> QED  BY <1>8, <1>9, <1>10, <1>11

LEMMA DepthGrows ==
    ASSUME NEW s, SavesWell(s), NEW i \in 0 .. Len(s), NEW m \in 0 .. i
    PROVE  Depth(s, m) \in Int /\ Depth(s, i) \in Int /\ Depth(s, m) <= Depth(s, i) /\ Depth(s, m) >= 0
<1>1. i \in Nat /\ m \in Nat /\ m <= i /\ i <= Len(s) /\ Len(s) \in Nat
  BY DEF SavesWell
<1>2. Lahfed(s, m) => Lahfed(s, i)
  BY <1>1 DEF Lahfed
<1>3. m = 0 /\ Lahfed(s, i) => i >= 2
  BY <1>1 DEF Lahfed, SavesWell
<1>4. Lahfed(s, m) => m >= 2
  BY <1>1 DEF Lahfed, SavesWell
<1> QED  BY <1>1, <1>2, <1>3, <1>4, Sizes DEF Depth

-----------------------------------------------------------------------------
(* What holds while saves run and while they are undone.  The stack pointer *)
(* was S at first; the program's values are in R (registers), F (flags) and *)
(* M (memory, from B upwards).                                              *)

Pushed(s, i, r) == \E m \in 1 .. i : s[m][1] = "push" /\ s[m][2] = r
FlagSaved(s, i, f) ==
    \E m \in 1 .. i : s[m][1] = "pushf" \/ (s[m][1] = "lahf" /\ f \in Light)

IsFile(rg) == rg = [r \in GPRs |-> rg[r]]
AtDepth(s, i, S, rg) == IsFile(rg) /\ rg[SP] = SPvalue(S - Depth(s, i))
FlagsHeld(v, F) == v[1] = "flags" /\ \A f \in Flags : v[2][f] = F[f]
Slot(op, a, R, F, st) ==
    /\ op[1] = "push" => /\ a \in DOMAIN st
                         /\ st[a] = IF op[2] = SP THEN SPvalue(a + 8) ELSE R[op[2]]
    /\ op[1] = "pushf" => a \in DOMAIN st /\ FlagsHeld(st[a], F)
Slots(s, i, S, R, F, st) == \A m \in 1 .. i : Slot(s[m], S - Depth(s, m), R, F, st)
InAX(s, i, F, rg) == Lahfed(s, i) => rg[AX][1] = "ah" /\ \A f \in Light : rg[AX][2][f] = F[f]
Cells(B, M, st) == \A a \in DOMAIN M : a \in Int /\ a >= B => a \in DOMAIN st /\ st[a] = M[a]
\* What is pushed lies below the memory that must not change.
Room(s, S, B) == /\ S \in Int /\ B \in Int
                 /\ \A m \in 1 .. Len(s) : s[m][1] \in {"push", "pushf"} => S - Depth(s, m) < B

Same(s, i, KP, R, F, rg, fl) ==
    /\ \A r \in KP \ {SP} : (r = AX => ~Lahfed(s, i)) => rg[r] = R[r]
    /\ \A f \in Flags : fl[f] = F[f]
Kept(s, i, KR, R, KF, F, rg, fl) ==
    /\ \A r \in KR \ {SP} : Pushed(s, i, r) \/ rg[r] = R[r]
    /\ \A f \in KF : FlagSaved(s, i, f) \/ fl[f] = F[f]
Undoable(s, i, S, R, F, B, M, rg, st) ==
    AtDepth(s, i, S, rg) /\ Slots(s, i, S, R, F, st) /\ InAX(s, i, F, rg) /\ Cells(B, M, st)

Saving(s, i, S, KP, R, F, B, M, rg, fl, st) ==
    Undoable(s, i, S, R, F, B, M, rg, st) /\ Same(s, i, KP, R, F, rg, fl)
Unwinding(s, i, S, KR, R, KF, F, B, M, rg, fl, st) ==
    Undoable(s, i, S, R, F, B, M, rg, st) /\ Kept(s, i, KR, R, KF, F, rg, fl)

\* The instructions that save, and those that restore.
PutAt(st, a, v) == [x \in DOMAIN st \cup {a} |-> IF x = a THEN v ELSE st[x]]
TopOf(st, a) == IF a \in DOMAIN st THEN st[a] ELSE Junk
Write(rg, d, v) == [rg EXCEPT ![d] = v]
MovedTo(rg, a) == Write(rg, SP, SPvalue(a))
SavedBy(op, rg, fl, st, rg2, fl2, st2) ==
    /\ \A f \in Flags : fl2[f] = fl[f]
    /\ op[1] = "push" => st2 = PutAt(st, rg[SP][2] - 8, rg[op[2]]) /\ rg2 = MovedTo(rg, rg[SP][2] - 8)
    /\ op[1] = "pushf" => st2 = PutAt(st, rg[SP][2] - 8, <<"flags", fl>>) /\ rg2 = MovedTo(rg, rg[SP][2] - 8)
    /\ op[1] = "lahf" => st2 = st /\ rg2 = Write(rg, AX, <<"ah", [f \in Light |-> fl[f]]>>)
    /\ op[1] = "addsp" => st2 = st /\ rg2 = MovedTo(rg, rg[SP][2] + op[2])

LEMMA PutAtIs ==
    ASSUME NEW st, NEW a, NEW v
    PROVE  /\ a \in DOMAIN PutAt(st, a, v) /\ PutAt(st, a, v)[a] = v
           /\ \A x \in DOMAIN st : x \in DOMAIN PutAt(st, a, v) /\ (x # a => PutAt(st, a, v)[x] = st[x])
  BY DEF PutAt

LEMMA AxSp == AX \in GPRs /\ SP \in GPRs /\ AX # SP
  BY DEF AX, SP, GPRs

LEMMA Written ==
    ASSUME NEW rg, IsFile(rg), NEW d, NEW v
    PROVE  /\ IsFile(Write(rg, d, v))
           /\ d \in GPRs => Write(rg, d, v)[d] = v
           /\ \A r \in GPRs : r # d => Write(rg, d, v)[r] = rg[r]
  BY DEF IsFile, Write

LEMMA MovedToIs ==
    ASSUME NEW rg, NEW a, IsFile(rg)
    PROVE  /\ IsFile(MovedTo(rg, a))
           /\ MovedTo(rg, a)[SP] = SPvalue(a)
           /\ \A r \in GPRs : r # SP => MovedTo(rg, a)[r] = rg[r]
  BY Written DEF MovedTo, GPRs, SP

LEMMA PutKeeps ==
    ASSUME NEW st, NEW a \in Int, NEW v, NEW b \in Int, a < b
    PROVE  Cells(b, st, PutAt(st, a, v))
  BY PutAtIs DEF Cells

LEMMA CellsKept ==
    ASSUME NEW B \in Int, NEW b \in Int, b <= B, NEW M,
           NEW st, NEW st2, Cells(B, M, st), Cells(b, st, st2)
    PROVE  Cells(B, M, st2)
<1> SUFFICES ASSUME NEW a \in DOMAIN M, a \in Int, a >= B
             PROVE  a \in DOMAIN st2 /\ st2[a] = M[a]
  BY DEF Cells
<1>1. a \in Int /\ a >= b
  OBVIOUS
<1> QED  BY <1>1 DEF Cells

LEMMA SlotsKept ==
    ASSUME NEW s, SavesWell(s), NEW i \in 0 .. Len(s), NEW S \in Int, NEW R, NEW F,
           NEW st, NEW st2, NEW b \in Int, b <= S - Depth(s, i), Slots(s, i, S, R, F, st), Cells(b, st, st2)
    PROVE  Slots(s, i, S, R, F, st2)
<1> SUFFICES ASSUME NEW m \in 1 .. i PROVE Slot(s[m], S - Depth(s, m), R, F, st2)
  BY DEF Slots
<1> DEFINE a == S - Depth(s, m)
<1>1. m \in 0 .. i
  OBVIOUS
<1>2. a \in Int /\ a >= b
  BY <1>1, DepthGrows
<1>3. Slot(s[m], a, R, F, st)
  BY DEF Slots
<1>4. a \in DOMAIN st => a \in DOMAIN st2 /\ st2[a] = st[a]
  BY <1>2 DEF Cells
<1> HIDE DEF a
<1>5. Slot(s[m], a, R, F, st2)
  BY <1>3, <1>4 DEF Slot
<1> QED  BY <1>5 DEF a

LEMMA SlotsMore ==
    ASSUME NEW s, NEW i \in Nat, NEW S, NEW R, NEW F, NEW st,
           Slots(s, i, S, R, F, st), Slot(s[i + 1], S - Depth(s, i + 1), R, F, st)
    PROVE  Slots(s, i + 1, S, R, F, st)
<1> SUFFICES ASSUME NEW m \in 1 .. i + 1 PROVE Slot(s[m], S - Depth(s, m), R, F, st)
  BY DEF Slots
<1>1. m \in 1 .. i \/ m = i + 1
  OBVIOUS
<1> QED  BY <1>1 DEF Slots

LEMMA SaveStep ==
    ASSUME NEW s, SavesWell(s), NEW i \in 0 .. Len(s) - 1, NEW S, NEW B, Room(s, S, B),
           NEW KP, KP \subseteq GPRs, \A m \in 1 .. Len(s) : s[m][1] = "push" => s[m][2] \in KP, NEW R, NEW F, NEW M, NEW rg, NEW fl, NEW st, NEW rg2, NEW fl2, NEW st2,
           Saving(s, i, S, KP, R, F, B, M, rg, fl, st), SavedBy(s[i + 1], rg, fl, st, rg2, fl2, st2)
    PROVE  Saving(s, i + 1, S, KP, R, F, B, M, rg2, fl2, st2)
<1> DEFINE op == s[i + 1]
           d == Depth(s, i)
           e == Depth(s, i + 1)
<1>1. /\ op \in SaveOps /\ i \in Nat /\ i + 1 \in 1 .. Len(s) /\ i \in 0 .. Len(s) /\ i + 1 \in 0 .. Len(s)
      /\ S \in Int /\ B \in Int
  BY DEF SavesWell, Room
<1>2. d \in Int /\ e \in Int
  BY <1>1, DepthType
<1>3. /\ op[1] \in {"push", "pushf"} => e = d + 8
      /\ op[1] = "lahf" => e = d /\ ~Lahfed(s, i)
      /\ op[1] = "addsp" => e = d + AutoInc /\ op[2] = -AutoInc
      /\ Lahfed(s, i + 1) <=> Lahfed(s, i) \/ op[1] = "lahf"
  BY <1>1, DepthStep, SaveOp DEF AddSP
<1>4. rg[SP] = SPvalue(S - d) /\ rg[SP][2] = S - d /\ IsFile(rg)
  BY DEF Saving, Undoable, AtDepth, SPvalue
<1>5. Slots(s, i, S, R, F, st) /\ InAX(s, i, F, rg) /\ Cells(B, M, st) /\ Same(s, i, KP, R, F, rg, fl)
  BY DEF Saving, Undoable
<1>6. \A f \in Flags : fl2[f] = F[f]
  BY <1>5 DEF Same, SavedBy
<1>7. op[1] = "push" => op[2] \in KP /\ op[2] \in GPRs /\ (op[2] = AX => ~Lahfed(s, i))
  <2> SUFFICES ASSUME op[1] = "push", op[2] = AX, Lahfed(s, i) PROVE FALSE
    BY <1>1, SaveOp
  <2>1. PICK m \in 1 .. i : s[m][1] = "lahf"
    BY DEF Lahfed
  <2>2. m \in 1 .. Len(s) /\ i + 1 \in m + 1 .. Len(s)
    BY <1>1
  <2>3. op = Push(AX)
    BY <1>1, SaveOp
  <2> QED  BY <2>1, <2>2, <2>3 DEF SavesWell
<1> HIDE DEF op, d, e
<1>8. ASSUME NEW v, st2 = PutAt(st, rg[SP][2] - 8, v), rg2 = MovedTo(rg, rg[SP][2] - 8), op[1] \in {"push", "pushf"},
             op[1] = "push" => v = rg[op[2]], op[1] = "pushf" => v = <<"flags", fl>>
      PROVE  Saving(s, i + 1, S, KP, R, F, B, M, rg2, fl2, st2)
  <2>1. rg[SP][2] - 8 = S - e /\ S - e \in Int /\ S - e < S - d
    BY <1>1, <1>2, <1>3, <1>4, <1>8
  <2>2. AtDepth(s, i + 1, S, rg2) /\ \A r \in GPRs : r # SP => rg2[r] = rg[r]
    BY <1>4, <1>8, <2>1, MovedToIs DEF AtDepth, e
  <2>3. S - e < B
    BY <1>1, <1>8 DEF Room, op, e
  <2>4. st2 = PutAt(st, S - e, v) /\ S - e \in DOMAIN st2 /\ st2[S - e] = v
    BY <1>8, <2>1, PutAtIs
  <2>5. Cells(S - d, st, st2) /\ Cells(B, st, st2)
    BY <1>1, <1>2, <2>1, <2>3, <2>4, PutKeeps
  <2>6. Cells(B, M, st2)
    BY <1>1, <1>5, <2>5, CellsKept
  <2>7. Slots(s, i, S, R, F, st2)
    BY <1>1, <1>2, <1>5, <2>5, SlotsKept DEF d
  <2>8. op[1] = "push" => v = IF op[2] = SP THEN SPvalue(S - e + 8) ELSE R[op[2]]
    <3>1. CASE op[2] = SP
      <4>1. S - e + 8 = S - d
        BY <1>1, <1>2, <1>3, <1>8
      <4> QED  BY <1>4, <1>8, <3>1, <4>1
    <3>2. CASE op[2] # SP
      BY <1>5, <1>7, <1>8, <3>2 DEF Same
    <3> QED  BY <3>1, <3>2
  <2>9. op[1] = "pushf" => FlagsHeld(v, F)
    BY <1>5, <1>8 DEF FlagsHeld, Same
  <2>10. Slot(op, S - e, R, F, st2)
    BY <2>4, <2>8, <2>9 DEF Slot
  <2>11. Slots(s, i + 1, S, R, F, st2)
    BY <1>1, <2>7, <2>10, SlotsMore DEF op, e
  <2>12. InAX(s, i + 1, F, rg2)
    BY AxSp, <1>3, <1>5, <1>8, <2>2 DEF InAX, AX, SP
  <2>13. Same(s, i + 1, KP, R, F, rg2, fl2)
    BY <1>3, <1>5, <1>6, <1>8, <2>2 DEF Same
  <2> QED  BY <2>2, <2>6, <2>11, <2>12, <2>13 DEF Saving, Undoable
<1>9. CASE op[1] = "push"
  BY <1>8, <1>9 DEF SavedBy, op
<1>10. CASE op[1] = "pushf"
  BY <1>8, <1>10 DEF SavedBy, op
<1>11. ASSUME op[1] \in {"lahf", "addsp"}, st2 = st
       PROVE  Slots(s, i + 1, S, R, F, st2) /\ Cells(B, M, st2)
  <2>1. Slot(op, S - e, R, F, st2)
    BY <1>11 DEF Slot
  <2> QED  BY <1>1, <1>5, <1>11, <2>1, SlotsMore DEF op, e
<1>12. CASE op[1] = "lahf"
  <2>1. st2 = st /\ rg2 = Write(rg, AX, <<"ah", [f \in Light |-> fl[f]]>>)
    BY <1>12 DEF SavedBy, op
  <2>2. IsFile(rg2) /\ rg2[AX] = <<"ah", [f \in Light |-> fl[f]]>> /\ \A r \in GPRs : r # AX => rg2[r] = rg[r]
    BY <1>4, <2>1, AxSp, Written
  <2>3. AtDepth(s, i + 1, S, rg2)
    BY AxSp, <1>3, <1>4, <1>12, <2>2 DEF AtDepth, AX, SP, e
  <2>4. InAX(s, i + 1, F, rg2)
    BY <1>5, <2>2 DEF InAX, Same, Light, Flags
  <2>5. Same(s, i + 1, KP, R, F, rg2, fl2)
    BY <1>3, <1>5, <1>6, <1>12, <2>2 DEF Same
  <2> QED  BY <1>11, <1>12, <2>1, <2>3, <2>4, <2>5 DEF Saving, Undoable
<1>13. CASE op[1] = "addsp"
  <2>1. st2 = st /\ rg2 = MovedTo(rg, rg[SP][2] + op[2])
    BY <1>13 DEF SavedBy, op
  <2>2. rg[SP][2] + op[2] = S - e
    BY <1>1, <1>2, <1>3, <1>4, <1>13, Sizes
  <2>3. AtDepth(s, i + 1, S, rg2) /\ \A r \in GPRs : r # SP => rg2[r] = rg[r]
    BY <1>4, <2>1, <2>2, MovedToIs DEF AtDepth, e
  <2>4. InAX(s, i + 1, F, rg2)
    BY AxSp, <1>3, <1>5, <1>13, <2>3 DEF InAX, AX, SP
  <2>5. Same(s, i + 1, KP, R, F, rg2, fl2)
    BY <1>3, <1>5, <1>6, <1>13, <2>3 DEF Same
  <2> QED  BY <1>11, <1>13, <2>1, <2>3, <2>4, <2>5 DEF Saving, Undoable
<1> QED  BY <1>1, <1>9, <1>10, <1>12, <1>13, SaveOp

\* The instruction that undoes the save op.
RestoredBy(op, rg, fl, st, rg2, fl2, st2) ==
    /\ st2 = st
    /\ op[1] = "push" => /\ rg2 = Write(MovedTo(rg, rg[SP][2] + 8), op[2], TopOf(st, rg[SP][2]))
                         /\ \A f \in Flags : fl2[f] = fl[f]
    /\ op[1] = "pushf" => /\ rg2 = MovedTo(rg, rg[SP][2] + 8)
                          /\ TopOf(st, rg[SP][2])[1] = "flags" =>
                               \A f \in Flags : fl2[f] = TopOf(st, rg[SP][2])[2][f]
    /\ op[1] = "lahf" => /\ rg2 = rg
                         /\ \A f \in Full : fl2[f] = fl[f]
                         /\ rg[AX][1] = "ah" => \A f \in Light : fl2[f] = rg[AX][2][f]
    /\ op[1] = "addsp" => rg2 = MovedTo(rg, rg[SP][2] - op[2]) /\ \A f \in Flags : fl2[f] = fl[f]

LEMMA RestoreStep ==
    ASSUME NEW s, SavesWell(s), NEW i \in 1 .. Len(s), NEW S \in Int, NEW B, NEW M, NEW R, NEW F,
           NEW KR, KR \subseteq GPRs, NEW KF, KF \subseteq Flags, NEW rg, NEW fl, NEW st, NEW rg2, NEW fl2, NEW st2,
           Unwinding(s, i, S, KR, R, KF, F, B, M, rg, fl, st), RestoredBy(s[i], rg, fl, st, rg2, fl2, st2)
    PROVE  Unwinding(s, i - 1, S, KR, R, KF, F, B, M, rg2, fl2, st2)
<1> DEFINE op == s[i]
           d == Depth(s, i)
           e == Depth(s, i - 1)
<1>1. op \in SaveOps /\ i \in Nat /\ i \in 0 .. Len(s) /\ i - 1 \in 0 .. Len(s) - 1 /\ i - 1 \in 0 .. Len(s) /\ i - 1 + 1 = i
  BY DEF SavesWell
<1>2. d \in Int /\ e \in Int
  BY <1>1, DepthType
<1>3. /\ op[1] \in {"push", "pushf"} => d = e + 8
      /\ op[1] = "lahf" => d = e /\ ~Lahfed(s, i - 1)
      /\ op[1] = "addsp" => d = e + AutoInc /\ op[2] = -AutoInc
      /\ Lahfed(s, i) <=> Lahfed(s, i - 1) \/ op[1] = "lahf"
  BY <1>1, DepthStep, SaveOp DEF AddSP
<1>4. rg[SP] = SPvalue(S - d) /\ rg[SP][2] = S - d /\ IsFile(rg)
  BY DEF Unwinding, Undoable, AtDepth, SPvalue
<1>5. Slots(s, i, S, R, F, st) /\ InAX(s, i, F, rg) /\ Cells(B, M, st) /\ Kept(s, i, KR, R, KF, F, rg, fl) /\ st2 = st
  BY DEF Unwinding, Undoable, RestoredBy
<1>6. Slot(op, S - d, R, F, st)
  BY <1>5 DEF Slots
<1>7. Slots(s, i - 1, S, R, F, st2) /\ Cells(B, M, st2)
  BY <1>5 DEF Slots
<1>8. \A r : Pushed(s, i, r) <=> Pushed(s, i - 1, r) \/ (op[1] = "push" /\ op[2] = r)
  BY <1>1 DEF Pushed
<1>9. \A f : FlagSaved(s, i, f) <=> FlagSaved(s, i - 1, f) \/ op[1] = "pushf" \/ (op[1] = "lahf" /\ f \in Light)
  BY <1>1 DEF FlagSaved
<1>10. op[1] = "push" => op[2] \in GPRs /\ (op[2] = AX => ~Lahfed(s, i - 1))
  <2> SUFFICES ASSUME op[1] = "push", op[2] = AX, Lahfed(s, i - 1) PROVE FALSE
    BY <1>1, SaveOp
  <2>1. PICK m \in 1 .. i - 1 : s[m][1] = "lahf"
    BY DEF Lahfed
  <2>2. m \in 1 .. Len(s) /\ i \in m + 1 .. Len(s)
    BY <1>1
  <2>3. op = Push(AX)
    BY <1>1, SaveOp
  <2> QED  BY <2>1, <2>2, <2>3 DEF SavesWell
<1>11. AX # SP /\ SP \in GPRs
  BY DEF AX, SP, GPRs
<1>12. RestoredBy(op, rg, fl, st, rg2, fl2, st2) /\ op[1] \in {"push", "pushf", "lahf", "addsp"}
  BY <1>1, SaveOp
<1> HIDE DEF op, d, e
<1>13. CASE op[1] = "push"
  <2> DEFINE v == TopOf(st, S - d)
             mid == MovedTo(rg, S - e)
  <2>1. S - d + 8 = S - e /\ S - d \in Int /\ S - e \in Int
    BY <1>2, <1>3, <1>13
  <2>2. rg2 = Write(mid, op[2], v) /\ \A f \in Flags : fl2[f] = fl[f]
    BY <1>4, <1>12, <1>13, <2>1 DEF RestoredBy
  <2>3. v = IF op[2] = SP THEN SPvalue(S - e) ELSE R[op[2]]
    BY <1>6, <1>13, <2>1 DEF Slot, TopOf
  <2>4. IsFile(mid) /\ mid[SP] = SPvalue(S - e) /\ \A r \in GPRs : r # SP => mid[r] = rg[r]
    BY <1>4, MovedToIs
  <2> HIDE DEF v, mid
  <2>5. IsFile(rg2) /\ rg2[op[2]] = v /\ \A r \in GPRs : r # op[2] => rg2[r] = mid[r]
    BY <1>10, <1>13, <2>2, <2>4, Written
  <2>6. AtDepth(s, i - 1, S, rg2)
    BY AxSp, <2>3, <2>4, <2>5 DEF AtDepth, e
  <2>7. InAX(s, i - 1, F, rg2)
    BY AxSp, <1>3, <1>5, <1>10, <1>11, <1>13, <2>4, <2>5 DEF InAX
  <2>8. Kept(s, i - 1, KR, R, KF, F, rg2, fl2)
    BY <1>5, <1>8, <1>9, <1>13, <2>2, <2>3, <2>4, <2>5 DEF Kept
  <2> QED  BY <1>7, <2>6, <2>7, <2>8 DEF Unwinding, Undoable
<1>14. CASE op[1] = "pushf"
  <2>1. S - d + 8 = S - e
    BY <1>2, <1>3, <1>14
  <2>2. TopOf(st, S - d) = st[S - d] /\ FlagsHeld(st[S - d], F)
    BY <1>6, <1>14 DEF Slot, TopOf
  <2>3. rg2 = MovedTo(rg, S - e) /\ \A f \in Flags : fl2[f] = F[f]
    BY <1>4, <1>12, <1>14, <2>1, <2>2 DEF RestoredBy, FlagsHeld
  <2>4. AtDepth(s, i - 1, S, rg2) /\ \A r \in GPRs : r # SP => rg2[r] = rg[r]
    BY <1>4, <2>3, MovedToIs DEF AtDepth, e
  <2>5. InAX(s, i - 1, F, rg2)
    BY AxSp, <1>3, <1>5, <1>11, <2>4 DEF InAX
  <2>6. Kept(s, i - 1, KR, R, KF, F, rg2, fl2)
    BY <1>5, <1>8, <1>14, <2>3, <2>4 DEF Kept
  <2> QED  BY <1>7, <2>4, <2>5, <2>6 DEF Unwinding, Undoable
<1>15. CASE op[1] = "lahf"
  <2>1. rg[AX][1] = "ah" /\ \A f \in Light : rg[AX][2][f] = F[f]
    BY <1>3, <1>5, <1>15 DEF InAX
  <2>2. rg2 = rg /\ (\A f \in Full : fl2[f] = fl[f]) /\ (\A f \in Light : fl2[f] = F[f])
    BY <1>12, <1>15, <2>1 DEF RestoredBy
  <2>3. AtDepth(s, i - 1, S, rg2)
    BY <1>3, <1>4, <1>15, <2>2 DEF AtDepth, e
  <2>4. InAX(s, i - 1, F, rg2)
    BY <1>3, <1>15 DEF InAX
  <2>5. Kept(s, i - 1, KR, R, KF, F, rg2, fl2)
    <3>1. \A f \in KF : f \in Full \/ f \in Light
      BY DEF Flags
    <3> QED  BY <1>5, <1>8, <1>9, <1>15, <2>2, <3>1 DEF Kept
  <2> QED  BY <1>7, <2>3, <2>4, <2>5 DEF Unwinding, Undoable
<1>16. CASE op[1] = "addsp"
  <2>1. S - d - op[2] = S - e
    BY <1>2, <1>3, <1>16, Sizes
  <2>2. rg2 = MovedTo(rg, S - e) /\ \A f \in Flags : fl2[f] = fl[f]
    BY <1>4, <1>12, <1>16, <2>1 DEF RestoredBy
  <2>3. AtDepth(s, i - 1, S, rg2) /\ \A r \in GPRs : r # SP => rg2[r] = rg[r]
    BY <1>4, <2>2, MovedToIs DEF AtDepth, e
  <2>4. InAX(s, i - 1, F, rg2)
    BY AxSp, <1>3, <1>5, <1>11, <2>3 DEF InAX
  <2>5. Kept(s, i - 1, KR, R, KF, F, rg2, fl2)
    BY <1>5, <1>8, <1>9, <1>16, <2>2, <2>3 DEF Kept
  <2> QED  BY <1>7, <2>3, <2>4, <2>5 DEF Unwinding, Undoable
<1> QED  BY <1>12, <1>13, <1>14, <1>15, <1>16

LEMMA SavedIsKept ==
    ASSUME NEW s, NEW i, NEW S, NEW B, NEW M, NEW R, NEW F, NEW KP, NEW KR, KR \subseteq KP, NEW KF, KF \subseteq Flags,
           NEW rg, NEW fl, NEW st, Saving(s, i, S, KP, R, F, B, M, rg, fl, st),
           Lahfed(s, i) => Pushed(s, i, AX)
    PROVE  Unwinding(s, i, S, KR, R, KF, F, B, M, rg, fl, st)
  BY DEF Saving, Unwinding, Same, Kept

LEMMA LahfAfterPush ==
    ASSUME NEW s, SavesWell(s), NEW i \in 0 .. Len(s), Lahfed(s, i)
    PROVE  Pushed(s, i, AX)
<1>1. PICK m \in 1 .. i : s[m][1] = "lahf"
  BY DEF Lahfed
<1>2. m \in 1 .. Len(s) /\ m > 1 /\ m - 1 \in 1 .. i
  BY <1>1 DEF SavesWell
<1>3. s[m - 1] = Push(AX)
  BY <1>1, <1>2 DEF SavesWell
<1> QED  BY <1>2, <1>3 DEF Pushed, Push

-----------------------------------------------------------------------------
(* The registers of a set in their order. *)

Upto(S, r) == Cardinality(S \cap 0 .. r)

LEMMA UptoType ==
    ASSUME NEW S \in SUBSET GPRs
    PROVE  /\ IsFiniteSet(S) /\ Cardinality(S) \in Nat
           /\ \A r \in S : Upto(S, r) \in 1 .. Cardinality(S)
           /\ \A r, q \in S : Upto(S, r) = Upto(S, q) => r = q
<1>1. IsFiniteSet(S) /\ Cardinality(S) \in Nat
  <2>1. IsFiniteSet(GPRs)
    <3> DEFINE a == 0
               b == 15
    <3>1. a \in Int /\ b \in Int
      OBVIOUS
    <3> HIDE DEF a, b
    <3>2. IsFiniteSet(a .. b)
      BY <3>1, FS_Interval
    <3> QED  BY <3>2 DEF GPRs, a, b
  <2>2. IsFiniteSet(S)
    BY <2>1, FS_Subset
  <2> QED  BY <2>2, FS_CardinalityType
<1>2. ASSUME NEW r \in S PROVE /\ IsFiniteSet(S \cap 0 .. r) /\ Upto(S, r) \in Nat
                               /\ Upto(S, r) <= Cardinality(S) /\ Upto(S, r) # 0
  <2>1. S \cap 0 .. r \in SUBSET S /\ r \in S \cap 0 .. r
    BY DEF GPRs
  <2>2. IsFiniteSet(S \cap 0 .. r) /\ Cardinality(S \cap 0 .. r) <= Cardinality(S)
    BY <1>1, <2>1, FS_Subset
  <2>3. Cardinality(S \cap 0 .. r) # 0
    BY <2>1, <2>2, FS_EmptySet
  <2> QED  BY <2>2, <2>3, FS_CardinalityType DEF Upto
<1>3. ASSUME NEW r \in S, NEW q \in S, r < q PROVE Upto(S, r) # Upto(S, q)
  <2>1. S \cap 0 .. r \in SUBSET (S \cap 0 .. q) /\ q \in S \cap 0 .. q /\ q \notin S \cap 0 .. r
    BY <1>3 DEF GPRs
  <2>2. IsFiniteSet(S \cap 0 .. q)
    BY <1>2
  <2> QED  BY <2>1, <2>2, FS_Subset DEF Upto
<1>4. ASSUME NEW r \in S, NEW q \in S, Upto(S, r) = Upto(S, q) PROVE r = q
  <2>1. r < q \/ q < r \/ r = q
    BY DEF GPRs
  <2> QED  BY <1>3, <1>4, <2>1
<1>5. ASSUME NEW r \in S PROVE Upto(S, r) \in 1 .. Cardinality(S)
  <2>1. Upto(S, r) \in Nat /\ Upto(S, r) <= Cardinality(S) /\ Upto(S, r) # 0
    BY <1>2
  <2> QED  BY <1>1, <2>1
<1> QED  BY <1>1, <1>4, <1>5

LEMMA NthIs ==
    ASSUME NEW S \in SUBSET GPRs, NEW k \in 1 .. Cardinality(S)
    PROVE  Nth(S, k) \in S /\ Upto(S, Nth(S, k)) = k
<1> DEFINE n == Cardinality(S)
           f == [r \in S |-> Upto(S, r)]
<1>1. n \in Nat /\ IsFiniteSet(S) /\ f \in [S -> 1 .. n]
  BY UptoType
<1>2. f \in Injection(S, 1 .. n)
  BY <1>1, UptoType DEF Injection, IsInjective
<1>3. IsFiniteSet(1 .. n) /\ Cardinality(1 .. n) = n
  BY <1>1, FS_Interval
<1>4. f \in Surjection(S, 1 .. n)
  BY <1>1, <1>2, <1>3, FS_Injection
<1>5. \E r \in S : f[r] = k
  BY <1>4 DEF Surjection
<1>6. \E r \in S : Cardinality(S \cap 0 .. r) = k
  BY <1>5 DEF Upto
<1>7. ~(n < k)
  BY <1>1
<1>8. Nth(S, k) = CHOOSE r \in S : Cardinality(S \cap 0 .. r) = k
  BY <1>7 DEF Nth
<1> QED  BY <1>6, <1>8 DEF Upto

LEMMA NthOf ==
    ASSUME NEW S \in SUBSET GPRs, NEW k \in Nat \ {0}
    PROVE  Nth(S, k) \in S \cup {NoReg}
<1>1. CASE Cardinality(S) < k
  BY <1>1 DEF Nth
<1>2. CASE ~(Cardinality(S) < k)
  <2>1. k \in 1 .. Cardinality(S)
    BY <1>2, UptoType
  <2> QED  BY <2>1, NthIs
<1> QED  BY <1>1, <1>2

\* Of a set that is not empty the first register is one.
LEMMA FirstOf ==
    ASSUME NEW S \in SUBSET GPRs, S # {}
    PROVE  Nth(S, 1) \in S
<1>1. Cardinality(S) \in Nat /\ Cardinality(S) # 0
  BY UptoType, FS_EmptySet
<1> QED  BY <1>1, NthIs

LEMMA AscendingIs ==
    ASSUME NEW S \in SUBSET GPRs
    PROVE  /\ Ascending(S) \in Seq(S) /\ Len(Ascending(S)) = Cardinality(S)
           /\ \A r \in S : \E k \in 1 .. Len(Ascending(S)) : Ascending(S)[k] = r
<1>1. Cardinality(S) \in Nat /\ \A k \in 1 .. Cardinality(S) : Nth(S, k) \in S
  BY UptoType, NthIs
<1>2. Ascending(S) \in Seq(S) /\ Len(Ascending(S)) = Cardinality(S)
  BY <1>1 DEF Ascending
<1>3. ASSUME NEW r \in S PROVE Upto(S, r) \in 1 .. Cardinality(S) /\ Nth(S, Upto(S, r)) = r
  <2>1. Upto(S, r) \in 1 .. Cardinality(S)
    BY UptoType
  <2>2. Nth(S, Upto(S, r)) \in S /\ Upto(S, Nth(S, Upto(S, r))) = Upto(S, r)
    BY <2>1, NthIs
  <2> QED  BY <2>1, <2>2, UptoType
<1> QED  BY <1>2, <1>3 DEF Ascending

-----------------------------------------------------------------------------
(* Sequences of instructions, and the mirror image of saves. *)

IsSeq(s) == \E S : s \in Seq(S)

Cat(s, t) == s \o t

IsCat(u, s, t) ==
    /\ IsSeq(u) /\ IsSeq(s) /\ IsSeq(t) /\ Len(s) \in Nat /\ Len(t) \in Nat /\ Len(u) = Len(s) + Len(t)
    /\ \A k \in 1 .. Len(s) : u[k] = s[k]
    /\ \A k \in 1 .. Len(t) : u[Len(s) + k] = t[k]

LEMMA Concat ==
    ASSUME NEW s, IsSeq(s), NEW t, IsSeq(t)
    PROVE  IsCat(Cat(s, t), s, t) /\ IsSeq(Cat(s, t))
<1>1. PICK S : s \in Seq(S)
  BY DEF IsSeq
<1>2. PICK Els : t \in Seq(Els)
  BY DEF IsSeq
<1> DEFINE U == S \cup Els
<1>3. s \in Seq(U) /\ t \in Seq(U)
  BY <1>1, <1>2
<1> HIDE DEF U
<1>4. s \o t \in Seq(U)
  BY <1>3
<1> QED  BY <1>3, <1>4 DEF IsSeq, Cat, IsCat

\* Where a place of a concatenation comes from.
LEMMA CatPlace ==
    ASSUME NEW u, NEW s, NEW t, IsCat(u, s, t), NEW k \in 1 .. Len(u)
    PROVE  \/ k \in 1 .. Len(s) /\ u[k] = s[k]
           \/ k - Len(s) \in 1 .. Len(t) /\ u[k] = t[k - Len(s)]
<1>1. Len(s) \in Nat /\ Len(t) \in Nat /\ k \in 1 .. Len(s) + Len(t)
  BY DEF IsCat
<1>2. CASE k \in 1 .. Len(s)
  BY <1>2 DEF IsCat
<1>3. CASE k \notin 1 .. Len(s)
  <2>1. k - Len(s) \in 1 .. Len(t) /\ Len(s) + (k - Len(s)) = k
    BY <1>1, <1>3
  <2> QED  BY <2>1 DEF IsCat
<1> QED  BY <1>2, <1>3

LEMMA SameSeq ==
    ASSUME NEW s, IsSeq(s), NEW t, IsSeq(t), Len(s) = Len(t), \A k \in 1 .. Len(s) : s[k] = t[k]
    PROVE  s = t
<1>1. PICK S : s \in Seq(S)
  BY DEF IsSeq
<1>2. PICK Els : t \in Seq(Els)
  BY DEF IsSeq
<1>3. s \in [1 .. Len(s) -> S] /\ t \in [1 .. Len(s) -> Els]
  BY <1>1, <1>2
<1> QED  BY <1>3

LEMMA CatAssoc ==
    ASSUME NEW a, NEW b, NEW c, NEW ab, NEW bc, NEW s, NEW t,
           IsCat(ab, a, b), IsCat(bc, b, c), IsCat(s, ab, c), IsCat(t, a, bc)
    PROVE  s = t
<1>1. Len(s) = Len(t) /\ IsSeq(s) /\ IsSeq(t) /\ Len(a) \in Nat /\ Len(b) \in Nat /\ Len(c) \in Nat
      /\ Len(ab) = Len(a) + Len(b) /\ Len(bc) = Len(b) + Len(c) /\ Len(s) = Len(a) + Len(b) + Len(c)
  BY DEF IsCat
<1>2. ASSUME NEW k \in 1 .. Len(s) PROVE s[k] = t[k]
  <2>1. CASE k \in 1 .. Len(a)
    <3>1. k \in 1 .. Len(ab)
      BY <1>1, <2>1
    <3> QED  BY <2>1, <3>1 DEF IsCat
  <2>2. CASE k \in Len(a) + 1 .. Len(a) + Len(b)
    <3>1. PICK j \in 1 .. Len(b) : k = Len(a) + j
      <4>1. k - Len(a) \in 1 .. Len(b) /\ k = Len(a) + (k - Len(a))
        BY <1>1, <2>2
      <4> QED  BY <4>1
    <3>2. k \in 1 .. Len(ab) /\ j \in 1 .. Len(bc)
      BY <1>1, <3>1
    <3> QED  BY <3>1, <3>2 DEF IsCat
  <2>3. CASE k \in Len(ab) + 1 .. Len(s)
    <3>1. PICK j \in 1 .. Len(c) : k = Len(ab) + j
      <4>1. k - Len(ab) \in 1 .. Len(c) /\ k = Len(ab) + (k - Len(ab))
        BY <1>1, <2>3
      <4> QED  BY <4>1
    <3>2. s[k] = c[j]
      BY <3>1 DEF IsCat
    <3>3. PICK i \in 1 .. Len(bc) : i = Len(b) + j
      BY <1>1
    <3>4. bc[i] = c[j] /\ k = Len(a) + i
      BY <1>1, <3>1, <3>3 DEF IsCat
    <3>5. t[k] = bc[i]
      BY <3>3, <3>4 DEF IsCat
    <3> QED  BY <3>2, <3>4, <3>5
  <2> QED  BY <1>1, <2>1, <2>2, <2>3
<1> QED  BY <1>1, <1>2, SameSeq

LEMMA Assoc ==
    ASSUME NEW a, IsSeq(a), NEW b, IsSeq(b), NEW c, IsSeq(c)
    PROVE  Cat(Cat(a, b), c) = Cat(a, Cat(b, c))
<1>1. IsCat(Cat(a, b), a, b) /\ IsCat(Cat(b, c), b, c) /\ IsSeq(Cat(a, b)) /\ IsSeq(Cat(b, c))
  BY Concat
<1>2. IsCat(Cat(Cat(a, b), c), Cat(a, b), c) /\ IsCat(Cat(a, Cat(b, c)), a, Cat(b, c))
  BY <1>1, Concat
<1> QED  BY <1>1, <1>2, CatAssoc

LEMMA EmptyCat ==
    ASSUME NEW s, IsSeq(s), NEW e, IsSeq(e), Len(e) = 0
    PROVE  Cat(e, s) = s /\ Cat(s, e) = s
<1>1. IsCat(Cat(e, s), e, s) /\ IsCat(Cat(s, e), s, e)
  BY Concat
<1>2. Len(Cat(e, s)) = Len(s) /\ Len(Cat(s, e)) = Len(s) /\ Len(s) \in Nat
  BY <1>1 DEF IsCat
<1>3. ASSUME NEW k \in 1 .. Len(s) PROVE Cat(e, s)[k] = s[k] /\ Cat(s, e)[k] = s[k]
  <2>1. Cat(e, s)[0 + k] = s[k] /\ 0 + k = k
    BY <1>1, <1>2 DEF IsCat
  <2> QED  BY <1>1, <2>1 DEF IsCat
<1> QED  BY <1>1, <1>2, <1>3, SameSeq DEF IsCat

LEMMA Surround ==
    ASSUME NEW a, IsSeq(a), NEW x, IsSeq(x), NEW b, IsSeq(b), NEW z, IsSeq(z), NEW c, IsSeq(c)
    PROVE  Cat(Cat(a, Cat(Cat(x, b), z)), c) = Cat(Cat(Cat(a, x), b), Cat(z, c))
<1>1. IsSeq(Cat(x, b)) /\ IsSeq(Cat(a, x))
  BY Concat
<1>2. Cat(a, Cat(Cat(x, b), z)) = Cat(Cat(a, Cat(x, b)), z) /\ Cat(a, Cat(x, b)) = Cat(Cat(a, x), b)
  BY <1>1, Assoc
<1>3. IsSeq(Cat(Cat(a, x), b))
  BY <1>1, Concat
<1> QED  BY <1>2, <1>3, Assoc

Undo(op) == CASE op[1] = "push" -> Pop(op[2])
              [] op[1] = "pushf" -> <<"popf">>
              [] op[1] = "lahf" -> <<"sahf">>
              [] op[1] = "addsp" -> AddSP(-op[2])
Mirror(s, t) == /\ IsSeq(s) /\ IsSeq(t) /\ Len(t) = Len(s)
                /\ \A k \in 1 .. Len(s) : t[Len(s) + 1 - k] = Undo(s[k])

LEMMA MirrorConcat ==
    ASSUME NEW s, NEW t, Mirror(s, t), NEW u, NEW v, Mirror(u, v)
    PROVE  Mirror(Cat(s, u), Cat(v, t))
<1> DEFINE x == Cat(s, u)
           y == Cat(v, t)
<1>1. IsSeq(x) /\ IsSeq(y) /\ IsCat(x, s, u) /\ IsCat(y, v, t)
  BY Concat DEF Mirror
<1> HIDE DEF x, y
<1>2. /\ Len(s) \in Nat /\ Len(u) \in Nat /\ Len(t) = Len(s) /\ Len(v) = Len(u)
      /\ Len(x) = Len(s) + Len(u) /\ Len(y) = Len(u) + Len(s)
  BY <1>1 DEF Mirror, IsCat
<1>3. ASSUME NEW k \in 1 .. Len(x)
      PROVE  y[Len(x) + 1 - k] = Undo(x[k])
  <2>1. CASE k \in 1 .. Len(s) /\ x[k] = s[k]
    <3>1. PICK j \in 1 .. Len(t) : j = Len(s) + 1 - k
      BY <1>2, <2>1
    <3>2. Len(v) + j = Len(x) + 1 - k
      BY <1>2, <3>1
    <3>3. y[Len(v) + j] = t[j]
      BY <1>1, <3>1 DEF IsCat
    <3> QED  BY <2>1, <3>1, <3>2, <3>3 DEF Mirror
  <2>2. CASE k - Len(s) \in 1 .. Len(u) /\ x[k] = u[k - Len(s)]
    <3>1. PICK j \in 1 .. Len(u) : j = k - Len(s)
      BY <2>2
    <3>2. PICK i \in 1 .. Len(v) : i = Len(u) + 1 - j
      <4>1. Len(u) + 1 - j \in 1 .. Len(v)
        BY <1>2, <3>1
      <4> QED  BY <4>1
    <3>3. i = Len(x) + 1 - k
      BY <1>2, <3>1, <3>2
    <3>4. y[i] = v[i] /\ v[i] = Undo(u[j])
      BY <1>1, <3>1, <3>2 DEF IsCat, Mirror
    <3> QED  BY <2>2, <3>1, <3>3, <3>4
  <2> QED  BY <1>1, <2>1, <2>2, CatPlace
<1> QED  BY <1>1, <1>2, <1>3 DEF Mirror, x, y

-----------------------------------------------------------------------------
(* What the tools insert defines neither AX nor SP nor the register that    *)
(* holds the thread data.                                                   *)

Defines(p, r) == r \notin {AX, SP} /\ (r = p.threadReg => p.kind = "threadinit" \/ p.threadReg = NoReg)
Plain(p, i) ==
    /\ i[1] \in {"op", "store", "add", "cmp", "jl", "save", "restore"}
    /\ i[1] \in {"op", "restore"} => Defines(p, i[2])
    /\ i[1] = "jl" => p.kind = "check"
    /\ i[1] \in {"save", "restore"} => p.kind = "replace"
AllPlain(p, s) == IsSeq(s) /\ \A k \in 1 .. Len(s) : Plain(p, s[k])

LEMMA PlainOp ==
    ASSUME NEW p, NEW d, Defines(p, d), NEW tag, NEW s
    PROVE  Plain(p, Op(d, tag, s)) /\ Plain(p, Alu(d, tag, s))
  BY DEF Plain, Op, Alu

LEMMA PlainEffect ==
    ASSUME NEW p, NEW b, NEW field, NEW r
    PROVE  Plain(p, Store(b, field, r)) /\ Plain(p, Add(b, field)) /\ Plain(p, <<"cmp", r>>)
  BY DEF Plain, Store, Add

LEMMA PlainSequences ==
    ASSUME NEW p, NEW a, NEW b, NEW c, NEW d, Plain(p, a), Plain(p, b), Plain(p, c), Plain(p, d)
    PROVE  AllPlain(p, <<a>>) /\ AllPlain(p, <<a, b>>) /\ AllPlain(p, <<a, b, c, d>>)
<1>1. <<a>> \in Seq({a, b, c, d}) /\ <<a, b>> \in Seq({a, b, c, d}) /\ <<a, b, c, d>> \in Seq({a, b, c, d})
  OBVIOUS
<1>2. IsSeq(<<a>>) /\ IsSeq(<<a, b>>) /\ IsSeq(<<a, b, c, d>>)
  BY <1>1 DEF IsSeq
<1> QED  BY <1>2 DEF AllPlain

LEMMA PlainCat ==
    ASSUME NEW p, NEW s, NEW t, AllPlain(p, s), AllPlain(p, t)
    PROVE  AllPlain(p, Cat(s, t))
<1>1. IsCat(Cat(s, t), s, t) /\ IsSeq(Cat(s, t))
  BY Concat DEF AllPlain
<1>2. ASSUME NEW k \in 1 .. Len(Cat(s, t)) PROVE Plain(p, Cat(s, t)[k])
  BY <1>1, CatPlace DEF AllPlain
<1> QED  BY <1>1, <1>2 DEF AllPlain

LEMMA DeadRegs ==
    ASSUME NEW p, NEW inv, NEW n
    PROVE  getDeadRegIn(p, inv, n) \in SUBSET (GPRs \ inv)
  BY DEF getDeadRegIn, Lowest

LEMMA DeadDefines ==
    ASSUME NEW p, NEW inv, AX \in inv, SP \in inv, p.threadReg = NoReg \/ p.threadReg \in inv, NEW n, NEW k \in Nat \ {0}
    PROVE  Defines(p, Nth(getDeadRegIn(p, inv, n), k))
<1> DEFINE S == getDeadRegIn(p, inv, n)
           r == Nth(S, k)
<1>1. S \in SUBSET (GPRs \ inv) /\ S \in SUBSET GPRs
  BY DeadRegs
<1>2. r \in S \cup {NoReg}
  BY <1>1, NthOf
<1>3. NoReg \notin GPRs /\ NoReg # AX /\ NoReg # SP
  BY DEF NoReg, GPRs, AX, SP
<1> HIDE DEF r
<1>4. r = NoReg \/ r \in GPRs \ inv
  BY <1>1, <1>2
<1>5. Defines(p, r)
  BY <1>3, <1>4 DEF Defines
<1> QED  BY <1>5 DEF r

LEMMA WithThreadRegDefines ==
    ASSUME NEW p, NEW inv, AX \in inv, SP \in inv, p.threadReg = NoReg \/ p.threadReg \in inv, NEW n,
           NEW sr, sr = WithThreadReg(p, getDeadRegIn(p, inv, n))
    PROVE  /\ p.threadReg = NoReg => Defines(p, sr[1])
           /\ Defines(p, sr[2]) /\ Defines(p, sr[3])
<1> DEFINE S == getDeadRegIn(p, inv, n)
<1>0. \A k \in Nat \ {0} : Defines(p, Nth(S, k))
  BY DeadDefines
<1> HIDE DEF S
<1>1. Defines(p, Nth(S, 1)) /\ Defines(p, Nth(S, 2)) /\ Defines(p, Nth(S, 3))
  BY <1>0
<1>2. sr = WithThreadReg(p, S)
  BY DEF S
<1> QED  BY <1>1, <1>2 DEF WithThreadReg

LEMMA ThreadDataPlain ==
    ASSUME NEW p, NEW s, Defines(p, s), NEW d, Defines(p, d)
    PROVE  AllPlain(p, storeThreadData(s, d)) /\ Len(storeThreadData(s, d)) = 7
<1> DEFINE a1 == Op(d, "fs:0x10", << >>)
           a2 == Alu(d, "shr", <<d>>)
           a3 == Alu(d, "and", <<d>>)
           a4 == Op(s, "TData", << >>)
           a5 == Alu(d, "shl", <<d>>)
           a6 == Op(d, "lea", <<s, d>>)
           a7 == Op(d, "load", <<d>>)
<1>1. /\ Plain(p, a1) /\ Plain(p, a2) /\ Plain(p, a3) /\ Plain(p, a4) /\ Plain(p, a5)
      /\ Plain(p, a6) /\ Plain(p, a7)
  BY PlainOp
<1>2. storeThreadData(s, d) = <<a1, a2, a3, a4, a5, a6, a7>>
  BY DEF storeThreadData
<1> HIDE DEF a1, a2, a3, a4, a5, a6, a7
<1>3. <<a1, a2, a3, a4, a5, a6, a7>> \in Seq({a1, a2, a3, a4, a5, a6, a7}) /\ Len(<<a1, a2, a3, a4, a5, a6, a7>>) = 7
  OBVIOUS
<1>4. \A k \in 1 .. 7 : Plain(p, <<a1, a2, a3, a4, a5, a6, a7>>[k])
  BY <1>1
<1> QED  BY <1>2, <1>3, <1>4 DEF AllPlain, IsSeq

LEMMA KeptPlain ==
    ASSUME NEW p, NEW s, Defines(p, s), NEW d, p.threadReg = NoReg => Defines(p, d)
    PROVE  AllPlain(p, ThreadDataUnlessKept(p, s, d))
<1>1. CASE p.threadReg = NoReg
  <2>1. ThreadDataUnlessKept(p, s, d) = storeThreadData(s, d)
    BY <1>1 DEF ThreadDataUnlessKept
  <2> QED  BY <1>1, <2>1, ThreadDataPlain
<1>2. CASE p.threadReg # NoReg
  <2> DEFINE e == ThreadDataUnlessKept(p, s, d)
  <2>1. e \in Seq({}) /\ Len(e) = 0
    BY <1>2 DEF ThreadDataUnlessKept
  <2> QED  BY <2>1 DEF AllPlain, IsSeq
<1> QED  BY <1>1, <1>2

LEMMA InsertedPlain ==
    ASSUME NEW p \in Points
    PROVE  AllPlain(p, Inserted(p))
<1>0. IsPoint(p)
  BY ExecutionAssumption
<1>1. \A r : r \in {7, 6, DX, CX, 8, 9} => Defines(p, r) \/ p.threadReg # NoReg
  BY DEF Defines, AX, SP, DX, CX
<1>2. p.kind \in {"counter", "libcounter", "call", "replace"} => p.threadReg = NoReg
  BY <1>0 DEF IsPoint, KeepsThreadData
<1>3. CASE p.kind \in {"counter", "libcounter", "threadcounter"}
  <2> DEFINE sr == CounterRegs(p)
  <2>1. p.threadReg = NoReg => Defines(p, sr[1]) /\ Defines(p, sr[2])
    <3> DEFINE S == (GPRs \ Live(p)) \ {AX, SP}
    <3>1. S \in SUBSET GPRs
      OBVIOUS
    <3>2. \A k \in Nat \ {0} : Nth(S, k) \in S \cup {NoReg}
      BY <3>1, NthOf
    <3>3. AX \notin S /\ SP \notin S /\ NoReg # AX /\ NoReg # SP /\ CX \notin {AX, SP} /\ DX \notin {AX, SP}
      BY DEF NoReg, AX, SP, CX, DX
    <3> HIDE DEF S
    <3>4. Nth(S, 1) \in S \cup {NoReg} /\ Nth(S, 2) \in S \cup {NoReg}
      BY <3>2
    <3>5. /\ Nth(S, 1) = NoReg => sr = <<CX, DX>>
          /\ Nth(S, 1) # NoReg /\ Nth(S, 2) = NoReg => sr = <<Nth(S, 1), IF Nth(S, 1) = DX THEN CX ELSE DX>>
          /\ Nth(S, 1) # NoReg /\ Nth(S, 2) # NoReg => sr = <<Nth(S, 1), Nth(S, 2)>>
      BY DEF CounterRegs, S
    <3> HIDE DEF sr
    <3>6. sr[1] \notin {AX, SP} /\ sr[2] \notin {AX, SP}
      BY <3>3, <3>4, <3>5
    <3> QED  BY <3>6 DEF Defines
  <2> HIDE DEF sr
  <2>2. CASE p.kind = "counter"
    <3>1. Inserted(p) = <<Add(NoReg, "counter")>>
      BY <2>2 DEF Inserted, insertInlinedTripCounter
    <3> QED  BY <3>1, PlainEffect, PlainSequences
  <2>3. CASE p.kind = "libcounter"
    <3>1. Inserted(p) = <<Op(sr[1], "&counter", << >>), Add(sr[1], "")>>
      BY <2>3 DEF Inserted, insertInlinedTripCounter, sr
    <3>2. Plain(p, Op(sr[1], "&counter", << >>)) /\ Plain(p, Add(sr[1], ""))
      BY <1>2, <2>1, <2>3, PlainOp, PlainEffect
    <3> QED  BY <3>1, <3>2, PlainSequences
  <2>4. CASE p.kind = "threadcounter"
    <3> DEFINE a == Add(IF p.threadReg = NoReg THEN sr[1] ELSE p.threadReg, "counter")
               t == ThreadDataUnlessKept(p, sr[2], sr[1])
    <3>1. Inserted(p) = Cat(t, <<a>>)
      BY <2>4 DEF Inserted, insertInlinedTripCounter, sr, Cat
    <3>2. AllPlain(p, <<a>>)
      BY PlainEffect, PlainSequences
    <3>3. AllPlain(p, t)
      <4>1. CASE p.threadReg = NoReg
        BY <2>1, <4>1, KeptPlain
      <4>2. CASE p.threadReg # NoReg
        <5>1. t \in Seq({}) /\ Len(t) = 0
          BY <4>2 DEF ThreadDataUnlessKept
        <5> QED  BY <5>1 DEF AllPlain, IsSeq
      <4> QED  BY <4>1, <4>2
    <3> HIDE DEF a, t
    <3> QED  BY <3>1, <3>2, <3>3, PlainCat
  <2> QED  BY <1>3, <2>2, <2>3, <2>4
<1>4. CASE p.kind = "threadinit"
  <2> DEFINE s == Nth(getDeadRegIn(p, {AX, SP, p.threadReg}, 1), 1)
  <2>1. Inserted(p) = storeThreadData(s, p.threadReg)
    BY <1>4 DEF Inserted, instrumentForThreading
  <2>2. Defines(p, s)
    <3> DEFINE inv == {AX, SP, p.threadReg}
    <3>1. AX \in inv /\ SP \in inv /\ p.threadReg \in inv
      OBVIOUS
    <3> HIDE DEF inv
    <3>2. \A k \in Nat \ {0} : Defines(p, Nth(getDeadRegIn(p, inv, 1), k))
      BY <3>1, DeadDefines
    <3>3. Defines(p, Nth(getDeadRegIn(p, inv, 1), 1))
      BY <3>2
    <3> QED  BY <3>3 DEF inv
  <2>3. Defines(p, p.threadReg)
    BY <1>0, <1>4 DEF IsPoint, KeepsThreadData, Defines
  <2> HIDE DEF s
  <2> QED  BY <2>1, <2>2, <2>3, ThreadDataPlain
<1>5. CASE p.kind = "replace"
  <2>1. Defines(p, CX)
    BY <1>1, <1>2, <1>5
  <2> DEFINE a == <<"save", CX>>
             b == Op(CX, "site", << >>)
             c == Store(NoReg, "site", CX)
             d == <<"restore", CX>>
  <2>2. Plain(p, a) /\ Plain(p, b) /\ Plain(p, c) /\ Plain(p, d)
    BY <1>5, <2>1, PlainOp, PlainEffect DEF Plain
  <2>3. Inserted(p) = <<a, b, c, d>>
    BY <1>5 DEF Inserted, StoreSite
  <2> HIDE DEF a, b, c, d
  <2> QED  BY <2>2, <2>3, PlainSequences
<1>6. CASE p.kind = "call"
  <2> DEFINE K == {k \in DOMAIN p.args : p.args[k] = "constant"}
             A == [n \in 1 .. Cardinality(K) |-> ConstantArgument(Nth(K, n))]
  <2>1. Inserted(p) = A
    BY <1>6 DEF Inserted, Arguments
  <2>2. p.args \in Seq({"constant", "address"}) /\ Len(p.args) <= 6
    BY <1>0 DEF IsPoint, ArgRegs
  <2>3. K \in SUBSET GPRs /\ K \subseteq 1 .. 6
    <3>1. ASSUME NEW k \in K PROVE k \in 1 .. 6
      BY <2>2
    <3> QED  BY <3>1 DEF GPRs
  <2> HIDE DEF K
  <2>4. Cardinality(K) \in Nat /\ \A n \in 1 .. Cardinality(K) : Nth(K, n) \in K
    BY <2>3, NthIs, UptoType
  <2>5. A \in Seq({A[n] : n \in 1 .. Cardinality(K)}) /\ Len(A) = Cardinality(K)
    BY <2>4
  <2>6. ASSUME NEW n \in 1 .. Cardinality(K) PROVE Plain(p, A[n])
    <3>1. Nth(K, n) \in 1 .. 6
      BY <2>3, <2>4
    <3>2. ArgRegs[Nth(K, n)] \in {7, 6, DX, CX, 8, 9}
      BY <3>1 DEF ArgRegs
    <3>3. Defines(p, ArgRegs[Nth(K, n)])
      BY <1>1, <1>2, <1>6, <3>2
    <3> QED  BY <3>3, PlainOp DEF ConstantArgument
  <2> QED  BY <2>1, <2>5, <2>6 DEF AllPlain, IsSeq
<1>7. p.threadReg = NoReg \/ p.threadReg \in NotThreadReg(p)
  BY DEF NotThreadReg
<1>8. CASE p.kind \in {"check", "increment"}
  <2> DEFINE inv == {AX, SP, BP} \cup NotThreadReg(p)
             sr == CheckRegs(p)
             t == ThreadDataUnlessKept(p, sr[2], sr[1])
             b1 == Op(sr[2], "Buffer", <<sr[1]>>)
             b2 == Op(sr[2], "current", <<sr[2]>>)
             b3 == Add(sr[2], "current")
  <2>1. (p.threadReg = NoReg => Defines(p, sr[1])) /\ Defines(p, sr[2])
    <3>1. AX \in inv /\ SP \in inv /\ (p.threadReg = NoReg \/ p.threadReg \in inv)
      BY <1>7
    <3>2. sr = WithThreadReg(p, getDeadRegIn(p, inv, 2))
      BY DEF CheckRegs
    <3> HIDE DEF sr, inv
    <3> QED  BY <3>1, <3>2, WithThreadRegDefines
  <2>2. AllPlain(p, t)
    BY <2>1, KeptPlain
  <2>3. p.kind = "check" => Plain(p, <<"jl">>)
    BY DEF Plain
  <2>4. Plain(p, b1) /\ Plain(p, b2) /\ Plain(p, b3) /\ Plain(p, <<"cmp", sr[2]>>)
    BY <2>1, PlainOp, PlainEffect
  <2>5. CASE p.kind = "check"
    <3>1. Inserted(p) = Cat(t, <<b1, b2, <<"cmp", sr[2]>>, <<"jl">>>>)
      BY <2>5 DEF Inserted, BufferCheck, Cat
    <3> DEFINE b4 == <<"cmp", sr[2]>>
               b5 == <<"jl">>
    <3>2. Plain(p, b4) /\ Plain(p, b5)
      BY <2>3, <2>4, <2>5
    <3> HIDE DEF t, b1, b2, b4, b5
    <3>3. AllPlain(p, <<b1, b2, b4, b5>>)
      BY <2>4, <3>2, PlainSequences
    <3>4. Inserted(p) = Cat(t, <<b1, b2, b4, b5>>)
      BY <3>1 DEF b4, b5
    <3> QED  BY <2>2, <3>3, <3>4, PlainCat
  <2>6. CASE p.kind = "increment"
    <3>1. Inserted(p) = Cat(t, <<b1, b3>>)
      BY <2>6 DEF Inserted, BufferIncrement, Cat
    <3> HIDE DEF t, b1, b3
    <3>2. AllPlain(p, <<b1, b3>>)
      BY <2>4, PlainSequences
    <3> QED  BY <2>2, <3>1, <3>2, PlainCat
  <2> QED  BY <1>8, <2>5, <2>6
<1>9. CASE p.kind = "fill"
  <2> DEFINE inv == {AX, SP} \cup NotThreadReg(p) \cup getUnusableRegisters(p)
             sr == FillRegs(p)
             t == ThreadDataUnlessKept(p, sr[2], sr[1])
             b1 == Op(sr[2], "Buffer", <<sr[1]>>)
             b2 == Op(sr[3], "current", <<sr[2]>>)
             b3 == Alu(sr[3], "shl", <<sr[3]>>)
             b4 == Op(sr[2], "lea", <<sr[2], sr[3]>>)
             b5 == AddressComputation(p.memop, sr[3])
             b6 == Store(sr[2], "address", sr[3])
             b7 == Op(sr[3], "memseq", << >>)
             b8 == Store(sr[2], "memseq", sr[3])
             b9 == Op(sr[3], "image", << >>)
             b10 == Store(sr[2], "imageid", sr[3])
             b11 == Op(sr[3], "fs:0x10", << >>)
             b12 == Store(sr[2], "threadid", sr[3])
             f == <<b1, b2, b3, b4, b5, b6, b7, b8, b9, b10, b11, b12>>
  <2>1. (p.threadReg = NoReg => Defines(p, sr[1])) /\ Defines(p, sr[2]) /\ Defines(p, sr[3])
    <3>1. AX \in inv /\ SP \in inv /\ (p.threadReg = NoReg \/ p.threadReg \in inv)
      BY <1>7
    <3>2. sr = WithThreadReg(p, getDeadRegIn(p, inv, 3))
      BY DEF FillRegs
    <3> HIDE DEF sr, inv
    <3> QED  BY <3>1, <3>2, WithThreadRegDefines
  <2>2. AllPlain(p, t)
    BY <2>1, KeptPlain
  <2>3. Inserted(p) = Cat(t, f)
    BY <1>9 DEF Inserted, BufferFill, Cat
  <2> HIDE DEF sr
  <2>4. Plain(p, b1) /\ Plain(p, b2) /\ Plain(p, b3) /\ Plain(p, b4) /\ Plain(p, b7) /\ Plain(p, b9) /\ Plain(p, b11)
    BY <2>1, PlainOp
  <2>5. Plain(p, b5)
    BY <2>1, PlainOp DEF AddressComputation
  <2>6. Plain(p, b6) /\ Plain(p, b8) /\ Plain(p, b10) /\ Plain(p, b12)
    BY PlainEffect
  <2> HIDE DEF t, b1, b2, b3, b4, b5, b6, b7, b8, b9, b10, b11, b12
  <2>7. f \in Seq({b1, b2, b3, b4, b5, b6, b7, b8, b9, b10, b11, b12}) /\ Len(f) = 12
    OBVIOUS
  <2>8. \A k \in 1 .. 12 : Plain(p, f[k])
    BY <2>4, <2>5, <2>6
  <2>9. AllPlain(p, f)
    BY <2>7, <2>8 DEF AllPlain, IsSeq
  <2> HIDE DEF f
  <2> QED  BY <2>2, <2>3, <2>9, PlainCat
<1> QED  BY <1>0, <1>3, <1>4, <1>5, <1>6, <1>8, <1>9 DEF IsPoint, Kinds

-----------------------------------------------------------------------------
(* The code of a point: what saves, what is inserted, what restores. *)

LEMMA SeqOfSaves ==
    ASSUME NEW s, IsSeq(s), \A k \in 1 .. Len(s) : s[k] \in SaveOps
    PROVE  s \in Seq(SaveOps)
<1>1. PICK Els : s \in Seq(Els)
  BY DEF IsSeq
<1>2. s \in [1 .. Len(s) -> Els] /\ Len(s) \in Nat
  BY <1>1
<1> DEFINE n == Len(s)
           f == [k \in 1 .. n |-> s[k]]
<1>3. s = f
  BY <1>2
<1>4. f \in [1 .. n -> SaveOps]
  OBVIOUS
<1> HIDE DEF f, n
<1>5. s \in [1 .. n -> SaveOps] /\ n \in Nat
  BY <1>2, <1>3, <1>4 DEF n
<1>6. s \in Seq(SaveOps)
  BY <1>5 DEF SaveOps
<1> QED  BY <1>6

\* Saves after the stack has been moved.
Inner(s) ==
    /\ IsSeq(s)
    /\ \A k \in 1 .. Len(s) : s[k] \in SaveOps /\ s[k][1] # "addsp"
    /\ \A k \in 1 .. Len(s) : s[k][1] = "lahf" =>
          /\ k > 1 /\ s[k - 1] = Push(AX)
          /\ \A j \in k + 1 .. Len(s) : s[j][1] # "lahf" /\ s[j] # Push(AX)
NoLahf(s) == \A k \in 1 .. Len(s) : s[k][1] # "lahf"
NoAX(s) == \A k \in 1 .. Len(s) : s[k] # Push(AX)

LEMMA InnerCat ==
    ASSUME NEW s, Inner(s), NEW t, Inner(t), NoLahf(s) \/ (NoLahf(t) /\ NoAX(t))
    PROVE  Inner(Cat(s, t))
<1> DEFINE u == Cat(s, t)
<1>1. IsCat(u, s, t)
  BY Concat DEF Inner
<1> HIDE DEF u
<1>2. Len(u) = Len(s) + Len(t) /\ Len(s) \in Nat /\ Len(t) \in Nat /\ IsSeq(u)
  BY <1>1 DEF IsCat
<1>3. ASSUME NEW k \in 1 .. Len(u) PROVE u[k] \in SaveOps /\ u[k][1] # "addsp"
  BY <1>1, CatPlace DEF Inner
<1>4. ASSUME NEW k \in 1 .. Len(u), u[k][1] = "lahf"
      PROVE  /\ k > 1 /\ u[k - 1] = Push(AX)
             /\ \A j \in k + 1 .. Len(u) : u[j][1] # "lahf" /\ u[j] # Push(AX)
  <2>1. CASE k \in 1 .. Len(s) /\ u[k] = s[k]
    <3>1. k > 1 /\ s[k - 1] = Push(AX) /\ k - 1 \in 1 .. Len(s)
      BY <1>2, <1>4, <2>1 DEF Inner
    <3>2. u[k - 1] = Push(AX)
      BY <1>1, <3>1 DEF IsCat
    <3>3. NoLahf(t) /\ NoAX(t)
      BY <1>4, <2>1 DEF NoLahf
    <3>4. ASSUME NEW j \in k + 1 .. Len(u) PROVE u[j][1] # "lahf" /\ u[j] # Push(AX)
      <4>1. j \in 1 .. Len(u) /\ j > k
        BY <1>2
      <4>2. CASE j \in 1 .. Len(s) /\ u[j] = s[j]
        <5>1. j \in k + 1 .. Len(s)
          BY <1>2, <4>1, <4>2
        <5> QED  BY <1>4, <2>1, <4>2, <5>1 DEF Inner
      <4>3. CASE j - Len(s) \in 1 .. Len(t) /\ u[j] = t[j - Len(s)]
        BY <3>3, <4>3 DEF NoLahf, NoAX
      <4> QED  BY <1>1, <4>1, <4>2, <4>3, CatPlace
    <3> QED  BY <3>1, <3>2, <3>4
  <2>2. CASE k - Len(s) \in 1 .. Len(t) /\ u[k] = t[k - Len(s)]
    <3>1. PICK i \in 1 .. Len(t) : i = k - Len(s)
      BY <2>2
    <3>2. t[i][1] = "lahf"
      BY <1>4, <2>2, <3>1
    <3>3. i > 1 /\ t[i - 1] = Push(AX) /\ i - 1 \in 1 .. Len(t) /\ Len(s) + (i - 1) = k - 1 /\ k > 1
      BY <1>2, <3>1, <3>2 DEF Inner
    <3>4. u[k - 1] = Push(AX)
      <4>1. \A m \in 1 .. Len(t) : u[Len(s) + m] = t[m]
        BY <1>1 DEF IsCat
      <4>2. u[Len(s) + (i - 1)] = t[i - 1]
        BY <3>3, <4>1
      <4> QED  BY <3>3, <4>2
    <3>5. ASSUME NEW j \in k + 1 .. Len(u) PROVE u[j][1] # "lahf" /\ u[j] # Push(AX)
      <4>1. PICK m \in i + 1 .. Len(t) : m = j - Len(s)
        <5>1. j - Len(s) \in i + 1 .. Len(t)
          BY <1>2, <3>1
        <5> QED  BY <5>1
      <4>2. m \in 1 .. Len(t) /\ Len(s) + m = j
        BY <1>2, <3>1, <4>1
      <4>3. u[j] = t[m]
        BY <1>1, <4>2 DEF IsCat
      <4> QED  BY <3>2, <4>1, <4>3 DEF Inner
    <3> QED  BY <3>3, <3>4, <3>5
  <2> QED  BY <1>1, <2>1, <2>2, CatPlace
<1>5. Inner(u)
  BY <1>2, <1>3, <1>4 DEF Inner
<1> QED  BY <1>5 DEF u

Raised(c) == IF c THEN <<AddSP(-AutoInc)>> ELSE << >>
Lowered(c) == IF c THEN <<AddSP(AutoInc)>> ELSE << >>

LEMMA RaisedIs ==
    ASSUME NEW c \in BOOLEAN
    PROVE  /\ IsSeq(Raised(c)) /\ Len(Raised(c)) = (IF c THEN 1 ELSE 0)
           /\ c => Raised(c)[1] = AddSP(-AutoInc)
           /\ Mirror(Raised(c), Lowered(c))
<1>1. CASE c
  <2> DEFINE a == AddSP(-AutoInc)
             b == AddSP(AutoInc)
  <2>1. b = Undo(a)
    BY Sizes DEF AddSP, Undo
  <2> HIDE DEF a, b
  <2>2. <<a>> \in Seq({a}) /\ <<b>> \in Seq({b})
    OBVIOUS
  <2>3. IsSeq(<<a>>) /\ IsSeq(<<b>>)
    BY <2>2 DEF IsSeq
  <2>6. \A k \in 1 .. Len(<<a>>) : <<b>>[Len(<<a>>) + 1 - k] = Undo(<<a>>[k])
    BY <2>1
  <2>7. Mirror(<<a>>, <<b>>)
    BY <2>3, <2>6 DEF Mirror
  <2>4. Raised(c) = <<a>> /\ Lowered(c) = <<b>>
    BY <1>1 DEF Raised, Lowered, a, b
  <2>5. IsSeq(Raised(c)) /\ Mirror(Raised(c), Lowered(c)) /\ Len(Raised(c)) = 1 /\ Raised(c)[1] = a
    BY <2>3, <2>4, <2>7
  <2> QED  BY <1>1, <2>5 DEF a
<1>2. CASE ~c
  <2>1. Raised(c) \in Seq({}) /\ Lowered(c) \in Seq({}) /\ Len(Raised(c)) = 0 /\ Len(Lowered(c)) = 0
    BY <1>2 DEF Raised, Lowered
  <2>2. IsSeq(Raised(c)) /\ IsSeq(Lowered(c))
    BY <2>1 DEF IsSeq
  <2>3. Mirror(Raised(c), Lowered(c))
    BY <2>1, <2>2 DEF Mirror
  <2> QED  BY <1>2, <2>1, <2>2, <2>3
<1> QED  BY <1>1, <1>2

LEMMA RaisedWell ==
    ASSUME NEW c \in BOOLEAN, NEW t, Inner(t)
    PROVE  /\ SavesWell(Cat(Raised(c), t)) /\ IsCat(Cat(Raised(c), t), Raised(c), t)
           /\ c => Len(Cat(Raised(c), t)) >= 1 /\ Cat(Raised(c), t)[1][1] = "addsp"
           /\ ~c => Cat(Raised(c), t) = t
<1> DEFINE s == Raised(c)
           u == Cat(s, t)
<1>1. /\ IsSeq(s) /\ (c => Len(s) = 1) /\ (~c => Len(s) = 0) /\ (c => s[1] = AddSP(-AutoInc))
  BY RaisedIs
<1> HIDE DEF s
<1>2. IsCat(u, s, t)
  BY <1>1, Concat DEF Inner
<1>3. ASSUME ~c PROVE SavesWell(u) /\ u = t
  <2>1. u = t
    BY <1>1, <1>3, EmptyCat DEF Inner
  <2>2. SavesWell(t)
    BY SeqOfSaves DEF Inner, SavesWell
  <2> QED  BY <2>1, <2>2
<1> HIDE DEF u
<1>4. ASSUME c PROVE SavesWell(u) /\ Len(u) >= 1 /\ u[1][1] = "addsp"
  <2>1. Len(u) = 1 + Len(t) /\ Len(t) \in Nat /\ IsSeq(u) /\ Len(s) = 1
    BY <1>1, <1>2, <1>4 DEF IsCat
  <2>2. u[1] = AddSP(-AutoInc) /\ u[1][1] = "addsp" /\ u[1] \in SaveOps
    <3>1. \A k \in 1 .. Len(s) : u[k] = s[k]
      BY <1>2 DEF IsCat
    <3>2. u[1] = AddSP(-AutoInc)
      BY <1>1, <1>4, <2>1, <3>1
    <3> QED  BY <3>2 DEF AddSP, SaveOps
  <2>3. ASSUME NEW k \in 1 .. Len(u), k # 1
        PROVE  k - 1 \in 1 .. Len(t) /\ u[k] = t[k - 1]
    <3>1. k \notin 1 .. Len(s)
      BY <2>1, <2>3
    <3>2. k - Len(s) \in 1 .. Len(t) /\ u[k] = t[k - Len(s)]
      BY <1>2, <3>1, CatPlace
    <3> QED  BY <2>1, <3>2
  <2>4. ASSUME NEW k \in 1 .. Len(u) PROVE u[k] \in SaveOps /\ (u[k][1] = "addsp" => k = 1)
    BY <2>2, <2>3 DEF Inner
  <2>5. ASSUME NEW k \in 1 .. Len(u), u[k][1] = "lahf"
        PROVE  /\ k > 1 /\ u[k - 1] = Push(AX)
               /\ \A j \in k + 1 .. Len(u) : u[j][1] # "lahf" /\ u[j] # Push(AX)
    <3>1. k # 1
      BY <2>2, <2>5
    <3>2. PICK i \in 1 .. Len(t) : i = k - 1 /\ t[i][1] = "lahf"
      BY <2>3, <2>5, <3>1
    <3>3. i > 1 /\ t[i - 1] = Push(AX)
      BY <3>2 DEF Inner
    <3>4. k - 1 \in 1 .. Len(u) /\ k - 1 # 1 /\ (k - 1) - 1 = i - 1 /\ k > 1
      BY <2>1, <3>2, <3>3
    <3>5. u[k - 1] = Push(AX)
      BY <2>3, <3>3, <3>4
    <3>6. ASSUME NEW j \in k + 1 .. Len(u) PROVE u[j][1] # "lahf" /\ u[j] # Push(AX)
      <4>1. j \in 1 .. Len(u) /\ j # 1 /\ j - 1 \in i + 1 .. Len(t)
        BY <2>1, <3>2
      <4> QED  BY <2>3, <3>2, <4>1 DEF Inner
    <3> QED  BY <3>4, <3>5, <3>6
  <2>6. SavesWell(u)
    BY <2>1, <2>4, <2>5, SeqOfSaves DEF SavesWell
  <2> QED  BY <2>1, <2>2, <2>6
<1>5. SavesWell(u)
  BY <1>3, <1>4
<1> QED  BY <1>2, <1>3, <1>4, <1>5 DEF s, u

LEMMA FlagSaves ==
    ASSUME NEW m \in {"none", "light", "full"}, NEW s, s = SaveFlags(m), NEW t, t = RestoreFlags(m)
    PROVE  /\ Inner(s) /\ Mirror(s, t)
           /\ m # "light" => NoLahf(s) /\ NoAX(s)
           /\ m = "none" => Len(s) = 0
           /\ m = "full" => \E k \in 1 .. Len(s) : s[k][1] = "pushf"
           /\ m = "light" => \E k \in 1 .. Len(s) : s[k][1] = "lahf"
           /\ \A k \in 1 .. Len(s) : s[k][1] = "push" => s[k][2] = AX
<1> DEFINE P == Push(AX)
           L == <<"lahf">>
           U == <<"pushf">>
<1>0. /\ P[1] = "push" /\ P[2] = AX /\ L[1] = "lahf" /\ U[1] = "pushf"
      /\ P \in SaveOps /\ L \in SaveOps /\ U \in SaveOps
  BY DEF Push, SaveOps, GPRs, AX
<1>1. CASE m = "none"
  <2>1. s \in Seq({}) /\ t \in Seq({}) /\ Len(s) = 0 /\ Len(t) = 0
    BY <1>1 DEF SaveFlags, RestoreFlags
  <2>2. IsSeq(s) /\ IsSeq(t)
    BY <2>1 DEF IsSeq
  <2> QED  BY <1>1, <2>1, <2>2 DEF Inner, Mirror, NoLahf, NoAX
<1>2. CASE m = "full"
  <2> DEFINE V == <<"popf">>
  <2>1. s = <<U>> /\ t = <<V>> /\ V = Undo(U) /\ U # P
    BY <1>0, <1>2 DEF SaveFlags, RestoreFlags, Undo
  <2> HIDE DEF P, U, V
  <2>2. s \in Seq({U}) /\ t \in Seq({V}) /\ Len(s) = 1 /\ Len(t) = 1 /\ s[1] = U /\ t[1] = V
    BY <2>1
  <2>3. IsSeq(s) /\ IsSeq(t)
    BY <2>2 DEF IsSeq
  <2>4. \A k \in 1 .. Len(s) : s[k] = U /\ t[Len(s) + 1 - k] = V
    BY <2>2
  <2>5. Mirror(s, t)
    BY <2>1, <2>2, <2>3, <2>4 DEF Mirror
  <2>6. NoLahf(s) /\ NoAX(s) /\ Inner(s)
    BY <1>0, <2>1, <2>2, <2>3, <2>4 DEF NoLahf, NoAX, Inner, P
  <2>7. 1 \in 1 .. Len(s) /\ s[1][1] = "pushf" /\ \A k \in 1 .. Len(s) : s[k][1] # "push"
    BY <1>0, <2>2, <2>4
  <2> QED  BY <1>2, <2>5, <2>6, <2>7
<1>3. CASE m = "light"
  <2> DEFINE V == Pop(AX)
             W == <<"sahf">>
  <2>1. s = <<P, L>> /\ t = <<W, V>> /\ V = Undo(P) /\ W = Undo(L)
    BY <1>0, <1>3 DEF SaveFlags, RestoreFlags, Undo
  <2> HIDE DEF P, L, V, W
  <2>2. s \in Seq({P, L}) /\ t \in Seq({V, W}) /\ Len(s) = 2 /\ Len(t) = 2 /\ s[1] = P /\ s[2] = L /\ t[1] = W /\ t[2] = V
    BY <2>1
  <2>3. IsSeq(s) /\ IsSeq(t)
    BY <2>2 DEF IsSeq
  <2>4. \A k \in 1 .. Len(s) : (k = 1 \/ k = 2) /\ t[Len(s) + 1 - k] = Undo(s[k])
    BY <2>1, <2>2
  <2>5. Mirror(s, t)
    BY <2>2, <2>3, <2>4 DEF Mirror
  <2>6. \A k \in 1 .. Len(s) : s[k] \in SaveOps /\ s[k][1] # "addsp" /\ (s[k][1] = "lahf" => k = 2)
    BY <1>0, <2>2, <2>4
  <2>7. Inner(s)
    BY <2>2, <2>3, <2>6 DEF Inner, P
  <2>8. 2 \in 1 .. Len(s) /\ s[2][1] = "lahf" /\ \A k \in 1 .. Len(s) : s[k][1] = "push" => s[k][2] = AX
    BY <1>0, <2>2, <2>6
  <2> QED  BY <1>3, <2>5, <2>7, <2>8
<1> QED  BY <1>1, <1>2, <1>3

\* s pushes the registers of S and nothing else.
PushesOf(s, S) ==
    /\ Inner(s) /\ NoLahf(s) /\ (AX \notin S => NoAX(s))
    /\ \A k \in 1 .. Len(s) : s[k][1] = "push" /\ s[k][2] \in S
    /\ \A r \in S : \E k \in 1 .. Len(s) : s[k] = Push(r)
    /\ Len(s) # 0 => S # {}

LEMMA PushesIs ==
    ASSUME NEW s, NEW S \in SUBSET GPRs, IsSeq(s), \A k \in 1 .. Len(s) : \E r \in S : s[k] = Push(r),
           \A r \in S : \E k \in 1 .. Len(s) : s[k] = Push(r), Len(s) \in Nat
    PROVE  PushesOf(s, S)
<1>1. ASSUME NEW k \in 1 .. Len(s)
      PROVE  s[k] \in SaveOps /\ s[k][1] = "push" /\ s[k][2] \in S /\ s[k] = Push(s[k][2])
  <2>1. PICK r \in S : s[k] = Push(r)
    OBVIOUS
  <2>2. Push(r) \in SaveOps /\ Push(r)[1] = "push" /\ Push(r)[2] = r
    BY DEF Push, SaveOps
  <2> QED  BY <2>1, <2>2
<1>2. NoLahf(s) /\ Inner(s)
  BY <1>1 DEF NoLahf, Inner
<1>3. AX \notin S => NoAX(s)
  <2>1. Push(AX)[2] = AX
    BY DEF Push
  <2> QED  BY <1>1, <2>1 DEF NoAX
<1>4. Len(s) # 0 => S # {}
  <2>1. Len(s) # 0 => 1 \in 1 .. Len(s)
    OBVIOUS
  <2> QED  BY <1>1, <2>1
<1> QED  BY <1>1, <1>2, <1>3, <1>4 DEF PushesOf

LEMMA PushesAndPops ==
    ASSUME NEW S \in SUBSET GPRs
    PROVE  /\ PushesOf(Pushes(S), S) /\ Mirror(Pushes(S), Pops(S))
           /\ PushesOf(Reverse(Pushes(S)), S) /\ Mirror(Reverse(Pushes(S)), Reverse(Pops(S)))
           /\ Len(Pushes(S)) = Cardinality(S)
<1> DEFINE n == Cardinality(S)
           a == Ascending(S)
           P == Pushes(S)
           Q == Pops(S)
           RP == Reverse(P)
           RQ == Reverse(Q)
<1>1. n \in Nat /\ a \in Seq(S) /\ Len(a) = n /\ \A r \in S : \E k \in 1 .. n : a[k] = r
  BY AscendingIs, UptoType
<1>2. \A k \in 1 .. n : a[k] \in S /\ n - k + 1 \in 1 .. n /\ n - (n - k + 1) + 1 = k /\ n + 1 - k = n - k + 1
  BY <1>1
<1>3. \A r \in GPRs : Undo(Push(r)) = Pop(r)
  BY DEF Undo, Push
<1> HIDE DEF n, a
<1>4. P = [k \in 1 .. n |-> Push(a[k])]
  BY <1>1 DEF Pushes, OnEach, a
<1>5. Reverse(a) = [k \in 1 .. n |-> a[n - k + 1]]
  BY <1>1 DEF Reverse
<1>6. Len(Reverse(a)) = n
  BY <1>1, <1>5
<1>7. Q = [k \in 1 .. n |-> Pop(Reverse(a)[k])]
  BY <1>6 DEF Pops, OnEach, a
<1> HIDE DEF P, Q
<1>8. Len(P) = n /\ Len(Q) = n
  BY <1>1, <1>4, <1>7
<1>9. RP = [k \in 1 .. n |-> P[n - k + 1]] /\ RQ = [k \in 1 .. n |-> Q[n - k + 1]]
  BY <1>8 DEF Reverse
<1> HIDE DEF RP, RQ
<1>10. Len(RP) = n /\ Len(RQ) = n
  BY <1>1, <1>9
<1>11. \A k \in 1 .. n : /\ P[k] = Push(a[k]) /\ Q[n + 1 - k] = Pop(a[k])
                         /\ RP[k] = Push(a[n - k + 1]) /\ RQ[n + 1 - k] = Pop(a[n - k + 1])
  BY <1>2, <1>4, <1>5, <1>7, <1>9
<1>12. IsSeq(P) /\ IsSeq(Q) /\ IsSeq(RP) /\ IsSeq(RQ)
  <2> DEFINE G == {P[k] : k \in 1 .. n}
             H == {Q[k] : k \in 1 .. n}
  <2>1. \A k \in 1 .. n : P[k] \in G /\ Q[k] \in H
    OBVIOUS
  <2> HIDE DEF G, H
  <2>2. P \in [1 .. n -> G] /\ Q \in [1 .. n -> H] /\ RP \in [1 .. n -> G] /\ RQ \in [1 .. n -> H]
    BY <1>2, <1>4, <1>7, <1>9, <2>1
  <2>3. P \in Seq(G) /\ Q \in Seq(H) /\ RP \in Seq(G) /\ RQ \in Seq(H)
    BY <1>1, <2>2
  <2> QED  BY <2>3 DEF IsSeq
<1>13. \A k \in 1 .. n : (\E r \in S : P[k] = Push(r)) /\ (\E r \in S : RP[k] = Push(r))
  BY <1>2, <1>11
<1>14. \A r \in S : (\E k \in 1 .. n : P[k] = Push(r)) /\ (\E k \in 1 .. n : RP[k] = Push(r))
  BY <1>1, <1>2, <1>11
<1>17. PushesOf(P, S)
  <2>1. Len(P) \in Nat /\ (\A k \in 1 .. Len(P) : \E r \in S : P[k] = Push(r))
        /\ (\A r \in S : \E k \in 1 .. Len(P) : P[k] = Push(r))
    BY <1>1, <1>8, <1>13, <1>14
  <2> QED  BY <1>12, <2>1, PushesIs
<1>15. PushesOf(P, S) /\ PushesOf(RP, S)
  <2>1. Len(RP) \in Nat /\ (\A k \in 1 .. Len(RP) : \E r \in S : RP[k] = Push(r))
        /\ (\A r \in S : \E k \in 1 .. Len(RP) : RP[k] = Push(r))
    BY <1>1, <1>10, <1>13, <1>14
  <2> QED  BY <1>12, <1>17, <2>1, PushesIs
<1>16. Mirror(P, Q) /\ Mirror(RP, RQ)
  BY <1>1, <1>2, <1>3, <1>8, <1>10, <1>11, <1>12 DEF Mirror
<1> QED  BY <1>8, <1>15, <1>16 DEF P, Q, RP, RQ, n

-----------------------------------------------------------------------------
(* The parts of a point's code. *)

Regs(p) == getProtectedRegisters(p, Inserted(p))
Method(p) == getFlagsProtectionMethod(p, Inserted(p))
Entry(p) == CASE p.kind = "replace" -> <<<<"external">>>>
              [] p.kind \in {"check", "call"} -> <<<<"call">>>>
              [] OTHER -> << >>
Body(p) == Cat(Inserted(p), Entry(p))
Needed(p) == IF Inline(p) THEN p.frame /\ (Regs(p) # {} \/ Method(p) # "none")
             ELSE Method(p) # "none" \/ ~(~p.frame \/ p.kind = "replace") \/ Regs(p) # {}
Guards(p) == IF Inline(p) THEN Cat(SaveFlags(Method(p)), Reverse(Pushes(Regs(p))))
             ELSE Cat(Pushes(Regs(p)), SaveFlags(Method(p)))
Unguards(p) == IF Inline(p) THEN Cat(Reverse(Pops(Regs(p))), RestoreFlags(Method(p)))
               ELSE Cat(RestoreFlags(Method(p)), Pops(Regs(p)))
Saves(p) == Cat(Raised(Needed(p)), Guards(p))
Restores(p) == Cat(Unguards(p), Lowered(Needed(p)))

\* The flags a point must keep.
KeptFlags(p) == IF p.kind = "replace" THEN {} ELSE {f \in p.flags : f = "OF" => canOverflow(p)}

LEMMA PointFacts ==
    ASSUME NEW p \in Points
    PROVE  /\ IsPoint(p) /\ Live(p) \subseteq GPRs /\ p.flags \subseteq Flags /\ KeptFlags(p) \subseteq Flags
           /\ p.threadReg # NoReg => p.threadReg \in GPRs \ (Live(p) \cup {AX, SP})
           /\ p.sp \in Int /\ p.sp % 8 = 0 /\ p.frame \in BOOLEAN
           /\ p.kind \in {"call", "replace"} => p.threadReg = NoReg
           /\ p.kind = "threadinit" => p.threadReg # NoReg
           /\ p.loc = "replace" <=> p.kind = "replace"
<1>1. IsPoint(p)
  BY ExecutionAssumption
<1> QED  BY <1>1 DEF IsPoint, KeepsThreadData, Live, KeptFlags

LEMMA RegsOf ==
    ASSUME NEW p \in Points
    PROVE  /\ Regs(p) \in SUBSET GPRs /\ Regs(p) \subseteq Live(p) /\ AX \notin Regs(p) /\ SP \notin Regs(p)
           /\ \A k \in 1 .. Len(Inserted(p)) : RegistersDefined(Inserted(p)[k]) \cap Live(p) \subseteq Regs(p)
<1> DEFINE c == Inserted(p)
           D == UNION {RegistersDefined(c[k]) : k \in 1 .. Len(c)}
<1>1. \A k \in 1 .. Len(c) : RegistersDefined(c[k]) \subseteq D
  OBVIOUS
<1>2. Regs(p) = Live(p) \cap D
  BY DEF Regs, getProtectedRegisters
<1>3. ASSUME NEW k \in 1 .. Len(c) PROVE AX \notin RegistersDefined(c[k]) /\ SP \notin RegistersDefined(c[k])
  <2>1. Plain(p, c[k])
    BY InsertedPlain DEF AllPlain
  <2> HIDE DEF c
  <2> QED  BY <2>1 DEF Plain, Defines, RegistersDefined
<1>4. AX \notin D /\ SP \notin D
  BY <1>3
<1>5. Live(p) \subseteq GPRs
  BY PointFacts
<1> HIDE DEF D
<1> QED  BY <1>1, <1>2, <1>4, <1>5

LEMMA MethodOf ==
    ASSUME NEW p \in Points
    PROVE  /\ Method(p) \in {"none", "light", "full"}
           /\ p.kind = "replace" => Method(p) = "none"
           /\ \A k \in 1 .. Len(Inserted(p)) : \A f \in KeptFlags(p) \cap FlagsDefined(Inserted(p)[k]) :
                Method(p) = "full" \/ (Method(p) = "light" /\ f \in Light)
<1> DEFINE c == Inserted(p)
           D == UNION {FlagsDefined(c[k]) : k \in 1 .. Len(c)}
           squashed == D \ (IF canOverflow(p) THEN {} ELSE {"OF"})
           protect == p.flags \cap squashed
<1>1. /\ p.loc = "replace" \/ protect = {} => Method(p) = "none"
      /\ p.loc # "replace" /\ protect # {} /\ protect \cap Full # {} => Method(p) = "full"
      /\ p.loc # "replace" /\ protect # {} /\ protect \cap Full = {} => Method(p) = "light"
  BY DEF Method, getFlagsProtectionMethod
<1>2. ASSUME NEW k \in 1 .. Len(c), NEW f \in KeptFlags(p) \cap FlagsDefined(c[k])
      PROVE  f \in protect /\ p.loc # "replace" /\ f \in Flags
  <2>1. f \in D
    OBVIOUS
  <2> HIDE DEF D
  <2>2. f \in p.flags /\ (f = "OF" => canOverflow(p)) /\ p.kind # "replace"
    BY DEF KeptFlags
  <2> QED  BY <2>1, <2>2, PointFacts
<1> HIDE DEF protect
<1>3. ASSUME NEW k \in 1 .. Len(c), NEW f \in KeptFlags(p) \cap FlagsDefined(c[k])
      PROVE  Method(p) = "full" \/ (Method(p) = "light" /\ f \in Light)
  BY <1>1, <1>2, <1>3 DEF Flags
<1>4. p.kind = "replace" => p.loc = "replace"
  BY PointFacts
<1> QED  BY <1>1, <1>3, <1>4

LEMMA EntryIs ==
    ASSUME NEW p \in Points
    PROVE  /\ IsSeq(Entry(p))
           /\ p.kind = "replace" => Len(Entry(p)) = 1 /\ Entry(p)[1] = <<"external">>
           /\ p.kind \in {"check", "call"} => Len(Entry(p)) = 1 /\ Entry(p)[1] = <<"call">>
           /\ ~Calls(p) => Len(Entry(p)) = 0
           /\ Calls(p) <=> p.kind \in {"check", "call", "replace"}
           /\ Calls(p) => ~Inline(p)
<1> DEFINE e == Entry(p)
           x == <<"external">>
           c == <<"call">>
<1>1. /\ p.kind = "replace" => e = <<x>>
      /\ p.kind \in {"check", "call"} => e = <<c>>
      /\ ~Calls(p) => e \in Seq({}) /\ Len(e) = 0
  BY DEF Entry, Calls
<1> HIDE DEF e, x, c
<1>2. <<x>> \in Seq({x}) /\ <<c>> \in Seq({c}) /\ Len(<<x>>) = 1 /\ Len(<<c>>) = 1 /\ <<x>>[1] = x /\ <<c>>[1] = c
  OBVIOUS
<1>3. IsSeq(e)
  BY <1>1, <1>2 DEF IsSeq, Calls
<1> QED  BY <1>1, <1>2, <1>3 DEF e, x, c, Calls, Inline

LEMMA GuardsOf ==
    ASSUME NEW p \in Points
    PROVE  /\ Inner(Guards(p)) /\ Mirror(Guards(p), Unguards(p))
           /\ \A r \in Regs(p) : \E k \in 1 .. Len(Guards(p)) : Guards(p)[k] = Push(r)
           /\ \A k \in 1 .. Len(Guards(p)) : Guards(p)[k][1] = "push" => Guards(p)[k][2] \in Regs(p) \cup {AX}
           /\ Method(p) = "full" => \E k \in 1 .. Len(Guards(p)) : Guards(p)[k][1] = "pushf"
           /\ Method(p) = "light" => \E k \in 1 .. Len(Guards(p)) : Guards(p)[k][1] = "lahf"
           /\ Method(p) # "light" => NoLahf(Guards(p))
           /\ Len(Guards(p)) # 0 => Regs(p) # {} \/ Method(p) # "none"
<1> DEFINE m == Method(p)
           S == Regs(p)
           f == SaveFlags(m)
           g == RestoreFlags(m)
           a == Pushes(S)
           b == Pops(S)
           c == Reverse(a)
           d == Reverse(b)
<1>1. S \in SUBSET GPRs /\ AX \notin S /\ m \in {"none", "light", "full"}
  BY RegsOf, MethodOf
<1> HIDE DEF m, S
<1>2. /\ Inner(f) /\ Mirror(f, g)
      /\ m # "light" => NoLahf(f) /\ NoAX(f)
      /\ m = "none" => Len(f) = 0
      /\ m = "full" => \E k \in 1 .. Len(f) : f[k][1] = "pushf"
      /\ m = "light" => \E k \in 1 .. Len(f) : f[k][1] = "lahf"
      /\ \A k \in 1 .. Len(f) : f[k][1] = "push" => f[k][2] = AX
  BY <1>1, FlagSaves
<1>3. PushesOf(a, S) /\ Mirror(a, b) /\ PushesOf(c, S) /\ Mirror(c, d)
  BY <1>1, PushesAndPops
<1> HIDE DEF f, g, a, b, c, d
\* Whichever comes first.
<1>4. ASSUME NEW x, NEW y, NEW u, IsCat(u, x, y), Inner(u),
             \/ x = f /\ PushesOf(y, S)
             \/ PushesOf(x, S) /\ y = f
      PROVE  /\ \A r \in S : \E k \in 1 .. Len(u) : u[k] = Push(r)
             /\ \A k \in 1 .. Len(u) : u[k][1] = "push" => u[k][2] \in S \cup {AX}
             /\ m = "full" => \E k \in 1 .. Len(u) : u[k][1] = "pushf"
             /\ m = "light" => \E k \in 1 .. Len(u) : u[k][1] = "lahf"
             /\ m # "light" => NoLahf(u)
             /\ Len(u) # 0 => S # {} \/ m # "none"
  <2>1. /\ Len(u) = Len(x) + Len(y) /\ Len(x) \in Nat /\ Len(y) \in Nat
        /\ \A k \in 1 .. Len(x) : k \in 1 .. Len(u) /\ u[k] = x[k]
        /\ \A k \in 1 .. Len(y) : Len(x) + k \in 1 .. Len(u) /\ u[Len(x) + k] = y[k]
    BY <1>4 DEF IsCat
  <2>2. \A k \in 1 .. Len(u) : (\E j \in 1 .. Len(x) : u[k] = x[j]) \/ (\E j \in 1 .. Len(y) : u[k] = y[j])
    BY <1>4, CatPlace
  <2>3. ASSUME NEW s, s = x \/ s = y PROVE \A j \in 1 .. Len(s) : \E k \in 1 .. Len(u) : u[k] = s[j]
    BY <2>1, <2>3
  <2>4. \A r \in S : \E k \in 1 .. Len(u) : u[k] = Push(r)
    <3>1. ASSUME NEW r \in S PROVE \E k \in 1 .. Len(u) : u[k] = Push(r)
      <4>1. PICK s : (s = x \/ s = y) /\ PushesOf(s, S)
        BY <1>4
      <4>2. PICK j \in 1 .. Len(s) : s[j] = Push(r)
        BY <4>1 DEF PushesOf
      <4> QED  BY <2>3, <4>1, <4>2
    <3> QED  BY <3>1
  <2>5. ASSUME NEW k \in 1 .. Len(u)
        PROVE  /\ u[k][1] = "push" => u[k][2] \in S \cup {AX}
               /\ u[k][1] = "lahf" => \E j \in 1 .. Len(f) : f[j][1] = "lahf"
    <3>1. CASE \E j \in 1 .. Len(f) : u[k] = f[j]
      BY <1>2, <3>1
    <3>2. CASE \E s : PushesOf(s, S) /\ \E j \in 1 .. Len(s) : u[k] = s[j]
      <4>1. u[k][1] = "push" /\ u[k][2] \in S
        BY <3>2 DEF PushesOf
      <4> QED  BY <4>1
    <3> QED  BY <1>4, <2>2, <3>1, <3>2
  <2>6. \A j \in 1 .. Len(f) : \E k \in 1 .. Len(u) : u[k] = f[j]
    BY <1>4, <2>3
  <2>7. m # "light" => NoLahf(u)
    BY <1>2, <2>5 DEF NoLahf
  <2>8. Len(u) # 0 => S # {} \/ m # "none"
    <3> SUFFICES ASSUME Len(u) # 0, m = "none" PROVE S # {}
      OBVIOUS
    <3>1. 1 \in 1 .. Len(u) /\ Len(f) = 0
      BY <1>2, <2>1
    <3>2. ~ \E j \in 1 .. Len(f) : u[1] = f[j]
      BY <3>1
    <3>3. \E s : PushesOf(s, S) /\ \E j \in 1 .. Len(s) : u[1] = s[j]
      BY <1>4, <2>2, <3>1, <3>2
    <3> QED  BY <3>3 DEF PushesOf
  <2>9. m = "full" => \E k \in 1 .. Len(u) : u[k][1] = "pushf"
    BY <1>2, <2>6
  <2>10. m = "light" => \E k \in 1 .. Len(u) : u[k][1] = "lahf"
    BY <1>2, <2>6
  <2> QED  BY <2>4, <2>5, <2>7, <2>8, <2>9, <2>10
<1>5. CASE Inline(p)
  <2> DEFINE u == Cat(f, c)
             v == Cat(d, g)
  <2>1. IsCat(u, f, c) /\ Mirror(u, v) /\ Inner(u)
    BY <1>1, <1>2, <1>3, Concat, MirrorConcat, InnerCat DEF PushesOf, Inner
  <2>2. Guards(p) = u /\ Unguards(p) = v
    BY <1>5 DEF Guards, Unguards, f, g, c, d, a, b, m, S
  <2> HIDE DEF u, v
  <2> QED  BY <1>3, <1>4, <2>1, <2>2 DEF m, S
<1>6. CASE ~Inline(p)
  <2> DEFINE u == Cat(a, f)
             v == Cat(g, b)
  <2>1. IsCat(u, a, f) /\ Mirror(u, v) /\ Inner(u)
    BY <1>1, <1>2, <1>3, Concat, MirrorConcat, InnerCat DEF PushesOf, Inner
  <2>2. Guards(p) = u /\ Unguards(p) = v
    BY <1>6 DEF Guards, Unguards, f, g, a, b, m, S
  <2> HIDE DEF u, v
  <2> QED  BY <1>3, <1>4, <2>1, <2>2 DEF m, S
<1> QED  BY <1>5, <1>6

LEMMA DepthOfPush ==
    ASSUME NEW s, SavesWell(s), NEW k \in 1 .. Len(s), s[k][1] \in {"push", "pushf"}
    PROVE  /\ Depth(s, k) \in Int /\ Depth(s, k) >= 8
           /\ s[1][1] = "addsp" => Depth(s, k) >= AutoInc + 8
<1>1. PICK i \in 0 .. Len(s) - 1 : i = k - 1
  <2>1. k - 1 \in 0 .. Len(s) - 1
    BY DEF SavesWell
  <2> QED  BY <2>1
<1>2. /\ i + 1 = k /\ i \in 0 .. Len(s) /\ k \in 0 .. Len(s)
      /\ Len(s) \in Nat
  BY <1>1 DEF SavesWell
<1>3. Depth(s, k) = Depth(s, i) + 8
  BY <1>2, DepthStep
<1>4. Depth(s, i) \in Int /\ Depth(s, i) >= 0
  <2>1. i \in 0 .. i
    BY <1>2
  <2> QED  BY <1>2, <2>1, DepthGrows
<1>5. s[1][1] = "addsp" => Depth(s, i) >= AutoInc
  <2> SUFFICES ASSUME s[1][1] = "addsp" PROVE Depth(s, i) >= AutoInc
    OBVIOUS
  <2> DEFINE z == 0
  <2>1. k # 1 /\ 1 \in 0 .. i /\ z \in 0 .. Len(s) - 1 /\ z + 1 = 1 /\ z \in 0 .. Len(s) /\ z = 0
    BY <1>2
  <2> HIDE DEF z
  <2>2. Depth(s, z + 1) = Depth(s, z) + AutoInc
    BY <2>1, DepthStep
  <2>3. Depth(s, z) = 0
    BY <2>1, DepthType
  <2>4. \A m \in 0 .. i : Depth(s, m) <= Depth(s, i)
    BY <1>2, DepthGrows
  <2>5. Depth(s, 1) <= Depth(s, i)
    BY <2>1, <2>4
  <2> QED  BY <1>4, <2>1, <2>2, <2>3, <2>5, Sizes
<1> QED  BY <1>3, <1>4, <1>5, Sizes

\* The lowest memory that must not change.
Bottom(p) == IF p.frame /\ p.kind # "replace" THEN p.sp - RedZone ELSE p.sp

LEMMA SavesOf ==
    ASSUME NEW p \in Points
    PROVE  /\ SavesWell(Saves(p)) /\ Mirror(Saves(p), Restores(p))
           /\ \A r \in Regs(p) : Pushed(Saves(p), Len(Saves(p)), r)
           /\ \A k \in 1 .. Len(Saves(p)) : Saves(p)[k][1] = "push" => Saves(p)[k][2] \in Regs(p) \cup {AX}
           /\ Method(p) = "full" => \A f \in Flags : FlagSaved(Saves(p), Len(Saves(p)), f)
           /\ Method(p) = "light" => \A f \in Light : FlagSaved(Saves(p), Len(Saves(p)), f)
           /\ Method(p) # "light" => ~Lahfed(Saves(p), Len(Saves(p)))
           /\ Room(Saves(p), p.sp, Bottom(p))
           /\ Calls(p) => p.sp - Depth(Saves(p), Len(Saves(p))) - 8 < Bottom(p)
<1> DEFINE c == Needed(p)
           e == Raised(c)
           g == Guards(p)
           s == Saves(p)
           n == Len(s)
<1>1. c \in BOOLEAN
  BY PointFacts DEF Needed, Calls, Inline
<1>2. /\ IsSeq(e) /\ Mirror(e, Lowered(c))
      /\ Inner(g) /\ Mirror(g, Unguards(p))
  BY <1>1, RaisedIs, GuardsOf
<1>3. /\ SavesWell(s) /\ IsCat(s, e, g)
      /\ c => n >= 1 /\ s[1][1] = "addsp"
      /\ ~c => s = g
  <2> HIDE DEF c, g
  <2>1. s = Cat(e, g)
    BY DEF Saves, c, g
  <2> HIDE DEF s
  <2>2. /\ SavesWell(Cat(e, g)) /\ IsCat(Cat(e, g), e, g)
        /\ c => Len(Cat(e, g)) >= 1 /\ Cat(e, g)[1][1] = "addsp"
        /\ ~c => Cat(e, g) = g
    BY <1>1, <1>2, RaisedWell
  <2> QED  BY <2>1, <2>2
<1>4. Mirror(s, Restores(p))
  <2> HIDE DEF c, g, e
  <2>1. Mirror(Cat(e, g), Cat(Unguards(p), Lowered(c)))
    BY <1>2, MirrorConcat
  <2> QED  BY <2>1 DEF Saves, Restores, c, g, e
<1>5. \A k \in 1 .. Len(e) : e[k][1] = "addsp"
  <2>1. /\ Len(e) = (IF c THEN 1 ELSE 0)
        /\ c => e[1] = AddSP(-AutoInc)
    BY <1>1, RaisedIs
  <2> HIDE DEF e, c
  <2>2. \A k \in 1 .. Len(e) : c /\ k = 1
    BY <1>1, <2>1
  <2> QED  BY <2>1, <2>2 DEF AddSP
<1> HIDE DEF c, e, g, s
<1>6. /\ n = Len(e) + Len(g) /\ Len(e) \in Nat /\ Len(g) \in Nat /\ n \in Nat
      /\ \A k \in 1 .. Len(g) : Len(e) + k \in 1 .. n /\ s[Len(e) + k] = g[k]
  BY <1>3 DEF IsCat
<1>7. \A k \in 1 .. n : s[k][1] = "addsp" \/ \E j \in 1 .. Len(g) : s[k] = g[j]
  BY <1>3, <1>5, CatPlace
<1>8. \A r \in Regs(p) : Pushed(s, n, r)
  <2>1. ASSUME NEW r \in Regs(p) PROVE Pushed(s, n, r)
    <3>1. PICK k \in 1 .. Len(g) : g[k] = Push(r)
      BY GuardsOf DEF g
    <3>2. Len(e) + k \in 1 .. n /\ s[Len(e) + k] = Push(r)
      BY <1>6, <3>1
    <3>3. PICK j \in 1 .. n : s[j] = Push(r)
      BY <3>2
    <3> QED  BY <3>3 DEF Pushed, Push
  <2> QED  BY <2>1
<1>9. ASSUME NEW k \in 1 .. n, s[k][1] = "push" PROVE s[k][2] \in Regs(p) \cup {AX}
  <2>1. PICK j \in 1 .. Len(g) : s[k] = g[j]
    BY <1>7, <1>9
  <2>2. g[j][1] = "push" => g[j][2] \in Regs(p) \cup {AX}
    BY GuardsOf DEF g
  <2> QED  BY <1>9, <2>1, <2>2
<1>10. Method(p) = "full" => \A f \in Flags : FlagSaved(s, n, f)
  <2> SUFFICES ASSUME Method(p) = "full" PROVE \A f \in Flags : FlagSaved(s, n, f)
    OBVIOUS
  <2>1. PICK k \in 1 .. Len(g) : g[k][1] = "pushf"
    BY GuardsOf DEF g
  <2>2. \E j \in 1 .. n : s[j][1] = "pushf"
    BY <1>6, <2>1
  <2> QED  BY <2>2 DEF FlagSaved
<1>11. Method(p) = "light" => \A f \in Light : FlagSaved(s, n, f)
  <2> SUFFICES ASSUME Method(p) = "light" PROVE \A f \in Light : FlagSaved(s, n, f)
    OBVIOUS
  <2>1. PICK k \in 1 .. Len(g) : g[k][1] = "lahf"
    BY GuardsOf DEF g
  <2>2. \E j \in 1 .. n : s[j][1] = "lahf"
    BY <1>6, <2>1
  <2> QED  BY <2>2 DEF FlagSaved
<1>12. Method(p) # "light" => ~Lahfed(s, n)
  <2> SUFFICES ASSUME Method(p) # "light", NEW k \in 1 .. n, s[k][1] = "lahf" PROVE FALSE
    BY DEF Lahfed
  <2>1. PICK j \in 1 .. Len(g) : s[k] = g[j]
    BY <1>7
  <2>2. NoLahf(g)
    BY GuardsOf DEF g
  <2> QED  BY <2>1, <2>2 DEF NoLahf
<1>13. p.sp \in Int /\ p.frame \in BOOLEAN
  BY PointFacts
<1>14. p.frame /\ p.kind # "replace" /\ (n # 0 \/ Calls(p)) => c
  <2>1. CASE c
    BY <2>1
  <2>2. CASE ~c
    <3>1. s = g
      BY <1>3, <2>2
    <3>2. n # 0 => Regs(p) # {} \/ Method(p) # "none"
      BY <3>1, GuardsOf DEF g
    <3>3. ~(Calls(p) /\ Inline(p))
      BY EntryIs
    <3> QED  BY <3>2, <3>3, <1>13 DEF c, Needed
  <2> QED  BY <2>1, <2>2
<1>15. Room(s, p.sp, Bottom(p))
  <2>1. ASSUME NEW k \in 1 .. n, s[k][1] \in {"push", "pushf"}
        PROVE  p.sp - Depth(s, k) < Bottom(p)
    <3>1. /\ Depth(s, k) \in Int /\ Depth(s, k) >= 8
          /\ s[1][1] = "addsp" => Depth(s, k) >= AutoInc + 8
      BY <1>3, <2>1, DepthOfPush
    <3>2. n # 0
      BY <1>6
    <3>3. CASE p.frame /\ p.kind # "replace"
      <4>1. s[1][1] = "addsp"
        BY <1>3, <1>14, <3>2, <3>3
      <4> QED  BY <1>13, <3>1, <3>3, <4>1, Sizes DEF Bottom, RedZone
    <3>4. CASE ~(p.frame /\ p.kind # "replace")
      BY <1>13, <3>1, <3>4 DEF Bottom
    <3> QED  BY <3>3, <3>4
  <2>2. Bottom(p) \in Int
    BY <1>13 DEF Bottom, RedZone
  <2> QED  BY <1>13, <2>1, <2>2 DEF Room
<1>16. Calls(p) => p.sp - Depth(s, n) - 8 < Bottom(p)
  <2> SUFFICES ASSUME Calls(p) PROVE p.sp - Depth(s, n) - 8 < Bottom(p)
    OBVIOUS
  <2>1. \A m \in 0 .. n : Depth(s, m) \in Int /\ Depth(s, n) \in Int /\ Depth(s, m) <= Depth(s, n) /\ Depth(s, m) >= 0
    <3>1. n \in 0 .. Len(s)
      BY <1>6
    <3> QED  BY <1>3, <3>1, DepthGrows
  <2>2. Depth(s, n) \in Int /\ Depth(s, n) >= 0
    BY <1>6, <2>1
  <2>3. CASE p.frame /\ p.kind # "replace"
    <3>1. c /\ n >= 1 /\ s[1][1] = "addsp"
      BY <1>3, <1>14, <2>3
    <3> DEFINE z == 0
    <3>2. z \in 0 .. Len(s) - 1 /\ z + 1 = 1 /\ z \in 0 .. Len(s) /\ z = 0 /\ 1 \in 0 .. n
      BY <1>6, <3>1
    <3> HIDE DEF z
    <3>3. Depth(s, z + 1) = Depth(s, z) + AutoInc
      BY <1>3, <3>1, <3>2, DepthStep
    <3>4. Depth(s, z) = 0
      BY <1>3, <3>2, DepthType
    <3>5. Depth(s, 1) <= Depth(s, n)
      BY <2>1, <3>2
    <3>6. Depth(s, n) >= AutoInc
      BY <2>2, <3>2, <3>3, <3>4, <3>5, Sizes
    <3> QED  BY <1>13, <2>2, <2>3, <3>6, Sizes DEF Bottom, RedZone
  <2>4. CASE ~(p.frame /\ p.kind # "replace")
    BY <1>13, <2>2, <2>4 DEF Bottom
  <2> QED  BY <2>3, <2>4
<1> QED  BY <1>3, <1>4, <1>8, <1>9, <1>10, <1>11, <1>12, <1>15, <1>16 DEF s

LEMMA PointParts ==
    ASSUME NEW p \in Points
    PROVE  /\ PointCode(p) = Cat(Cat(Saves(p), Body(p)), Restores(p))
           /\ IsSeq(Saves(p)) /\ IsSeq(Body(p)) /\ IsSeq(Restores(p))
           /\ IsCat(Body(p), Inserted(p), Entry(p))
<1> DEFINE c == Needed(p)
           a == Raised(c)
           b == Lowered(c)
           x == Guards(p)
           z == Unguards(p)
           y == Body(p)
           q == Inserted(p)
           t == Entry(p)
           f == SaveFlags(Method(p))
           g == RestoreFlags(Method(p))
           u == Pushes(Regs(p))
           v == Pops(Regs(p))
<1>1. c \in BOOLEAN
  BY PointFacts DEF Needed, Calls, Inline
<1>2. IsSeq(a) /\ IsSeq(b) /\ IsSeq(x) /\ IsSeq(z) /\ IsSeq(q) /\ IsSeq(t)
  BY <1>1, RaisedIs, GuardsOf, InsertedPlain, EntryIs DEF Mirror, AllPlain
<1>3. IsSeq(f) /\ IsSeq(g) /\ IsSeq(u) /\ IsSeq(v) /\ IsSeq(Reverse(u)) /\ IsSeq(Reverse(v))
  <2>1. Mirror(f, g) /\ Mirror(u, v) /\ Mirror(Reverse(u), Reverse(v))
    BY MethodOf, RegsOf, FlagSaves, PushesAndPops
  <2> QED  BY <2>1 DEF Mirror
<1>4. SP \notin Regs(p)
  BY RegsOf
<1> DEFINE code == Cat(Cat(x, y), z)
<1>5. ASSUME Inline(p) PROVE PointCode(p) = Around(c, code)
  <2>1. Len(t) = 0
    BY <1>5, EntryIs
  <2>2. getProtectedRegisters(p, q) \ {SP} = Regs(p)
    BY <1>4 DEF Regs
  <2>3. PointCode(p) = Around(c, Cat(Cat(Cat(Cat(f, Reverse(u)), q), Reverse(v)), g))
    BY <1>5, <2>2 DEF PointCode, insertStateProtection, Cat, Needed, Method
  <2>4. x = Cat(f, Reverse(u)) /\ z = Cat(Reverse(v), g)
    BY <1>5 DEF Guards, Unguards
  <2> HIDE DEF q, t, x, z, f, g, u, v
  <2>5. y = q
    BY <1>2, <2>1, EmptyCat DEF Body, q, t
  <2> HIDE DEF y
  <2>6. Cat(Cat(Cat(Cat(f, Reverse(u)), q), Reverse(v)), g) = Cat(Cat(x, y), Cat(Reverse(v), g))
    <3>1. IsSeq(Cat(x, y))
      BY <1>2, <2>5, Concat
    <3>2. Cat(Cat(Cat(x, y), Reverse(v)), g) = Cat(Cat(x, y), Cat(Reverse(v), g))
      BY <1>3, <3>1, Assoc
    <3> QED  BY <2>4, <2>5, <3>2
  <2> QED  BY <2>3, <2>4, <2>6 DEF x, y, z
<1>6. ASSUME ~Inline(p) PROVE PointCode(p) = Around(c, code)
  <2>1. PointCode(p) = Around(c, Cat(Cat(Cat(Cat(Cat(u, f), q), t), g), v))
    BY <1>6 DEF PointCode, generateTrampoline, Cat, Needed, Method, Regs, Entry
  <2>2. x = Cat(u, f) /\ z = Cat(g, v) /\ y = Cat(q, t)
    BY <1>6 DEF Guards, Unguards, Body
  <2> HIDE DEF q, t, x, z, f, g, u, v, y
  <2>3. Cat(Cat(x, q), t) = Cat(x, y)
    BY <1>2, <2>2, Assoc
  <2>4. Cat(Cat(Cat(x, y), g), v) = Cat(Cat(x, y), z)
    <3>1. IsSeq(y)
      BY <1>2, <2>2, Concat
    <3>2. IsSeq(Cat(x, y))
      BY <1>2, <3>1, Concat
    <3> QED  BY <1>3, <2>2, <3>2, Assoc
  <2>5. PointCode(p) = Around(c, Cat(Cat(Cat(Cat(x, q), t), g), v))
    BY <2>1, <2>2
  <2> QED  BY <2>3, <2>4, <2>5 DEF x, y, z
<1>7. PointCode(p) = Around(c, code)
  BY <1>5, <1>6
<1>8. IsSeq(y) /\ IsSeq(code) /\ IsCat(y, q, t)
  <2> HIDE DEF x, z, q, t
  <2>1. IsSeq(y) /\ IsCat(y, q, t)
    BY <1>2, Concat DEF Body, q, t
  <2>2. IsSeq(Cat(x, y))
    BY <1>2, <2>1, Concat
  <2> QED  BY <1>2, <2>1, <2>2, Concat
<1> HIDE DEF x, y, z, code
<1>9. Around(c, code) = Cat(Cat(a, code), b)
  <2>1. CASE c
    BY <2>1 DEF Around, Raised, Lowered, Cat
  <2>2. CASE ~c
    <3>1. a \in Seq({}) /\ b \in Seq({}) /\ Len(a) = 0 /\ Len(b) = 0
      BY <2>2 DEF Raised, Lowered
    <3> HIDE DEF a, b
    <3>2. Cat(a, code) = code /\ Cat(code, b) = code
      BY <1>2, <1>8, <3>1, EmptyCat
    <3> QED  BY <2>2, <3>2 DEF Around
  <2> QED  BY <1>1, <2>1, <2>2
<1> HIDE DEF a, b
<1>10. Cat(Cat(a, code), b) = Cat(Cat(Cat(a, x), y), Cat(z, b))
  BY <1>2, <1>8, Surround DEF code
<1>11. IsSeq(Cat(a, x)) /\ IsSeq(Cat(z, b))
  BY <1>2, Concat
<1>12. Saves(p) = Cat(a, x) /\ Restores(p) = Cat(z, b) /\ Body(p) = y
  BY DEF Saves, Restores, a, b, x, y, z
<1> QED  BY <1>7, <1>8, <1>9, <1>10, <1>11, <1>12

-----------------------------------------------------------------------------
(* The parts of the wrapper of a function. *)

WSaves == Cat(Raised(TRUE), Cat(SaveFlags("full"), Pushes(GPRs)))
WRestores == Cat(Cat(Pops(GPRs), RestoreFlags("full")), Lowered(TRUE))
CallStack == <<AddSP(-StackAlign), <<"fxsave">>, AddSP(-StackAlign), <<"external">>,
               AddSP(StackAlign), <<"fxrstor">>, AddSP(StackAlign), Pop(R14), Mov(R14, SP)>>
Return == <<<<"ret">>>>
Wrapped(args) == Cat(Cat(PassArguments(args), AlignStack), CallStack)

LEMMA WSavesIs ==
    /\ SavesWell(WSaves) /\ Mirror(WSaves, WRestores)
    /\ \A r \in GPRs : Pushed(WSaves, Len(WSaves), r)
    /\ \A k \in 1 .. Len(WSaves) : WSaves[k][1] = "push" => WSaves[k][2] \in GPRs
    /\ \A f \in Flags : FlagSaved(WSaves, Len(WSaves), f)
    /\ ~Lahfed(WSaves, Len(WSaves))
    /\ \A E \in Int : Room(WSaves, E, E)
<1> DEFINE m == "full"
           f == SaveFlags(m)
           g == RestoreFlags(m)
           a == Pushes(GPRs)
           b == Pops(GPRs)
           c == TRUE
           e == Raised(c)
           t == Cat(f, a)
           s == WSaves
           n == Len(s)
<1>1. Inner(f) /\ Mirror(f, g) /\ NoLahf(f) /\ NoAX(f) /\ (\E k \in 1 .. Len(f) : f[k][1] = "pushf")
      /\ \A k \in 1 .. Len(f) : f[k][1] = "push" => f[k][2] = AX
  <2>1. m \in {"none", "light", "full"} /\ m = "full" /\ m # "light"
    OBVIOUS
  <2> HIDE DEF m
  <2> QED  BY <2>1, FlagSaves
<1>2. PushesOf(a, GPRs) /\ Mirror(a, b)
  BY PushesAndPops
<1>3. IsSeq(e) /\ Mirror(e, Lowered(c)) /\ \A k \in 1 .. Len(e) : e[k][1] = "addsp"
  <2>1. c \in BOOLEAN
    OBVIOUS
  <2> HIDE DEF c
  <2>2. /\ IsSeq(e) /\ Len(e) = (IF c THEN 1 ELSE 0)
        /\ c => e[1] = AddSP(-AutoInc)
        /\ Mirror(e, Lowered(c))
    BY <2>1, RaisedIs
  <2> HIDE DEF e
  <2>3. \A k \in 1 .. Len(e) : c /\ k = 1
    BY <2>1, <2>2
  <2> QED  BY <2>2, <2>3 DEF AddSP
<1> HIDE DEF m, f, g, a, b
<1>4. IsCat(t, f, a) /\ Inner(t) /\ Mirror(t, Cat(b, g))
  BY <1>1, <1>2, Concat, InnerCat, MirrorConcat DEF PushesOf, Inner
<1>5. SavesWell(s) /\ IsCat(s, e, t) /\ Mirror(s, WRestores)
  <2>1. c \in BOOLEAN
    OBVIOUS
  <2>2. s = Cat(e, t) /\ WRestores = Cat(Cat(b, g), Lowered(c))
    BY DEF WSaves, WRestores, f, a, b, g, m
  <2> HIDE DEF c, t, s
  <2>3. SavesWell(Cat(e, t)) /\ IsCat(Cat(e, t), e, t)
    BY <1>4, <2>1, RaisedWell
  <2> HIDE DEF e
  <2>4. Mirror(Cat(e, t), Cat(Cat(b, g), Lowered(c)))
    BY <1>3, <1>4, MirrorConcat
  <2> QED  BY <2>2, <2>3, <2>4
<1> HIDE DEF c, e, t, s
<1>6. /\ Len(t) = Len(f) + Len(a) /\ n = Len(e) + Len(t) /\ Len(f) \in Nat /\ Len(a) \in Nat /\ Len(e) \in Nat
      /\ \A k \in 1 .. Len(t) : Len(e) + k \in 1 .. n /\ s[Len(e) + k] = t[k]
      /\ \A k \in 1 .. Len(f) : k \in 1 .. Len(t) /\ t[k] = f[k]
      /\ \A k \in 1 .. Len(a) : Len(f) + k \in 1 .. Len(t) /\ t[Len(f) + k] = a[k]
  BY <1>4, <1>5 DEF IsCat
<1>7. \A k \in 1 .. n : s[k][1] = "addsp" \/ \E j \in 1 .. Len(t) : s[k] = t[j]
  BY <1>3, <1>5, CatPlace
<1>8. \A k \in 1 .. Len(t) : (\E j \in 1 .. Len(f) : t[k] = f[j]) \/ (\E j \in 1 .. Len(a) : t[k] = a[j])
  BY <1>4, CatPlace
<1>9. \A k \in 1 .. Len(t) : \E j \in 1 .. n : s[j] = t[k]
  BY <1>6
<1>10. \A r \in GPRs : Pushed(s, n, r)
  <2>1. ASSUME NEW r \in GPRs PROVE Pushed(s, n, r)
    <3>1. PICK k \in 1 .. Len(a) : a[k] = Push(r)
      BY <1>2 DEF PushesOf
    <3>2. PICK i \in 1 .. Len(t) : t[i] = Push(r)
      BY <1>6, <3>1
    <3>3. PICK j \in 1 .. n : s[j] = Push(r)
      BY <1>9, <3>2
    <3> QED  BY <3>3 DEF Pushed, Push
  <2> QED  BY <2>1
<1>11. \A x \in Flags : FlagSaved(s, n, x)
  <2>1. PICK k \in 1 .. Len(t) : t[k][1] = "pushf"
    BY <1>1, <1>6
  <2>2. \E j \in 1 .. n : s[j][1] = "pushf"
    BY <1>9, <2>1
  <2> QED  BY <2>2 DEF FlagSaved
<1>12. \A k \in 1 .. n : s[k][1] # "lahf" /\ (s[k][1] = "push" => s[k][2] \in GPRs)
  <2>1. \A k \in 1 .. Len(f) : f[k][1] # "lahf" /\ (f[k][1] = "push" => f[k][2] \in GPRs)
    BY <1>1 DEF NoLahf, AX, GPRs
  <2>2. \A k \in 1 .. Len(a) : a[k][1] # "lahf" /\ (a[k][1] = "push" => a[k][2] \in GPRs)
    BY <1>2 DEF PushesOf, NoLahf
  <2>3. \A k \in 1 .. Len(t) : t[k][1] # "lahf" /\ (t[k][1] = "push" => t[k][2] \in GPRs)
    BY <1>8, <2>1, <2>2
  <2> QED  BY <1>7, <2>3
<1>13. ~Lahfed(s, n)
  BY <1>12 DEF Lahfed
<1>14. ASSUME NEW E \in Int PROVE Room(s, E, E)
  <2>1. ASSUME NEW k \in 1 .. n, s[k][1] \in {"push", "pushf"} PROVE E - Depth(s, k) < E
    <3>1. Depth(s, k) \in Int /\ Depth(s, k) >= 8
      BY <1>5, <2>1, DepthOfPush
    <3> QED  BY <3>1
  <2> QED  BY <2>1 DEF Room
<1> QED  BY <1>5, <1>10, <1>11, <1>12, <1>13, <1>14 DEF s

LEMMA TuplesAreSeqs ==
    /\ Len(AlignStack) = 6 /\ IsSeq(AlignStack)
    /\ Len(CallStack) = 9 /\ IsSeq(CallStack)
    /\ Len(Return) = 1 /\ IsSeq(Return) /\ Return[1] = <<"ret">>
<1>1. ASSUME NEW a, NEW b, NEW c, NEW d, NEW e, NEW f, NEW g, NEW h, NEW i
      PROVE  /\ IsSeq(<<a>>) /\ Len(<<a>>) = 1
             /\ IsSeq(<<a, b, c, d, e, f>>) /\ Len(<<a, b, c, d, e, f>>) = 6
             /\ IsSeq(<<a, b, c, d, e, f, g, h, i>>) /\ Len(<<a, b, c, d, e, f, g, h, i>>) = 9
  <2> DEFINE S == {a, b, c, d, e, f, g, h, i}
  <2>1. <<a>> \in Seq(S) /\ <<a, b, c, d, e, f>> \in Seq(S) /\ <<a, b, c, d, e, f, g, h, i>> \in Seq(S)
    OBVIOUS
  <2> QED  BY <2>1 DEF IsSeq
<1>2. Len(AlignStack) = 6 /\ IsSeq(AlignStack)
  BY <1>1 DEF AlignStack
<1>3. Len(CallStack) = 9 /\ IsSeq(CallStack)
  BY <1>1 DEF CallStack
<1>4. Len(Return) = 1 /\ IsSeq(Return) /\ Return[1] = <<"ret">>
  BY <1>1 DEF Return
<1> QED  BY <1>2, <1>3, <1>4

\* What the wrapper does with its arguments before it aligns the stack.
Passes(i) == i[1] \in {"op", "mov"} /\ (i[1] = "op" => i[2] \in GPRs \ {SP}) /\ (i[1] = "mov" => i[3] \in GPRs \ {SP})

LEMMA PassesWell ==
    ASSUME NEW args \in Seq({"constant", "address"}), Len(args) <= Len(ArgRegs)
    PROVE  /\ IsSeq(PassArguments(args)) /\ Len(PassArguments(args)) = Len(args)
           /\ \A k \in 1 .. Len(args) : Passes(PassArguments(args)[k])
<1> DEFINE n == Len(args)
           a == [k \in 1 .. n |-> IF args[k] = "address" THEN Op(ArgRegs[k], "&data", << >>) ELSE Mov(ArgRegs[k], ArgRegs[k])]
           P == PassArguments(args)
<1>1. n \in Nat /\ n <= 6
  BY DEF ArgRegs
<1>2. ASSUME NEW k \in 1 .. n PROVE Passes(a[k])
  <2>1. k \in 1 .. 6
    BY <1>1
  <2>2. ArgRegs[k] \in GPRs \ {SP}
    BY <2>1 DEF ArgRegs, GPRs, SP, DX, CX
  <2>3. \A r \in GPRs \ {SP} : Passes(Op(r, "&data", << >>)) /\ Passes(Mov(r, r))
    BY DEF Passes, Op, Mov
  <2> QED  BY <2>2, <2>3
<1>3. Len(a) = n
  BY <1>1
<1>4. P = [k \in 1 .. n |-> a[n - k + 1]]
  BY <1>3 DEF PassArguments, Reverse
<1> DEFINE G == {a[k] : k \in 1 .. n}
<1>5. \A k \in 1 .. n : a[k] \in G /\ n - k + 1 \in 1 .. n
  BY <1>1
<1> HIDE DEF a, n, P, G
<1>6. P \in [1 .. n -> G]
  BY <1>4, <1>5
<1>7. P \in Seq(G) /\ Len(P) = n
  BY <1>1, <1>6
<1>8. \A k \in 1 .. n : Passes(P[k])
  BY <1>2, <1>4, <1>5
<1> QED  BY <1>7, <1>8 DEF IsSeq, P, n

\* They come in reverse.
LEMMA PassIs ==
    ASSUME NEW args \in Seq({"constant", "address"}), NEW k \in 1 .. Len(args)
    PROVE  PassArguments(args)[k] = (IF args[Len(args) - k + 1] = "address" THEN Op(ArgRegs[Len(args) - k + 1], "&data", << >>)
                                     ELSE Mov(ArgRegs[Len(args) - k + 1], ArgRegs[Len(args) - k + 1]))
<1> DEFINE n == Len(args)
           e(x) == IF args[x] = "address" THEN Op(ArgRegs[x], "&data", << >>) ELSE Mov(ArgRegs[x], ArgRegs[x])
           a == [x \in 1 .. n |-> e(x)]
<1>1. n \in Nat
  OBVIOUS
<1>2. PassArguments(args) = Reverse(a)
  BY DEF PassArguments
<1>3. n - k + 1 \in 1 .. n
  BY <1>1
<1> HIDE DEF n, e
<1>4. Len(a) = n
  BY <1>1
<1> HIDE DEF a
<1>5. Reverse(a) = [x \in 1 .. n |-> a[n - x + 1]]
  BY <1>4 DEF Reverse
<1>6. Reverse(a)[k] = e(n - k + 1)
  <2>1. k \in 1 .. n
    BY DEF n
  <2>2. Reverse(a)[k] = a[n - k + 1]
    BY <1>5, <2>1
  <2> QED  BY <1>3, <2>2 DEF a
<1> QED  BY <1>2, <1>6 DEF n, e

LEMMA PairCat ==
    ASSUME NEW x, NEW y, NEW z
    PROVE  <<x, y>> = Cat(<<x>>, <<y>>) /\ <<x, y, z>> = Cat(Cat(<<x>>, <<y>>), <<z>>)
<1> DEFINE S == {x, y, z}
           a == <<x>>
           b == <<y>>
           c == <<z>>
           d == <<x, y>>
           e == <<x, y, z>>
<1>1. /\ a \in Seq(S) /\ b \in Seq(S) /\ c \in Seq(S) /\ d \in Seq(S) /\ e \in Seq(S)
      /\ Len(a) = 1 /\ Len(b) = 1 /\ Len(c) = 1 /\ Len(d) = 2 /\ Len(e) = 3
      /\ a[1] = x /\ b[1] = y /\ c[1] = z /\ d[1] = x /\ d[2] = y /\ e[1] = x /\ e[2] = y /\ e[3] = z
  OBVIOUS
<1> HIDE DEF S, a, b, c, d, e
<1>2. IsSeq(a) /\ IsSeq(b) /\ IsSeq(c) /\ IsSeq(d) /\ IsSeq(e)
  BY <1>1 DEF IsSeq
<1>3. ASSUME NEW s, NEW t, NEW w, IsSeq(s), IsSeq(t), IsSeq(w), Len(t) = 1, Len(s) \in Nat, Len(w) = Len(s) + 1,
             \A k \in 1 .. Len(s) : w[k] = s[k], \A k \in 1 .. Len(t) : w[Len(s) + k] = t[k]
      PROVE  w = Cat(s, t)
  <2>1. IsCat(Cat(s, t), s, t) /\ IsSeq(Cat(s, t))
    BY <1>3, Concat
  <2>2. Len(Cat(s, t)) = Len(w)
    BY <1>3, <2>1 DEF IsCat
  <2>3. ASSUME NEW k \in 1 .. Len(w) PROVE w[k] = Cat(s, t)[k]
    <3>1. k \in 1 .. Len(Cat(s, t))
      BY <2>2
    <3>2. CASE k \in 1 .. Len(s) /\ Cat(s, t)[k] = s[k]
      BY <1>3, <3>2
    <3>3. CASE k - Len(s) \in 1 .. Len(t) /\ Cat(s, t)[k] = t[k - Len(s)]
      <4>1. w[Len(s) + (k - Len(s))] = t[k - Len(s)]
        BY <1>3, <3>3
      <4>2. Len(s) + (k - Len(s)) = k
        BY <1>3
      <4> QED  BY <3>3, <4>1, <4>2
    <3> QED  BY <2>1, <3>1, <3>2, <3>3, CatPlace
  <2> QED  BY <1>3, <2>1, <2>2, <2>3, SameSeq
<1>4. d = Cat(a, b)
  <2>1. Len(a) \in Nat /\ Len(d) = Len(a) + 1 /\ (\A k \in 1 .. Len(a) : d[k] = a[k]) /\ (\A k \in 1 .. Len(b) : d[Len(a) + k] = b[k])
    BY <1>1
  <2> QED  BY <1>1, <1>2, <1>3, <2>1
<1>5. e = Cat(d, c)
  <2>1. Len(d) \in Nat /\ Len(e) = Len(d) + 1 /\ (\A k \in 1 .. Len(d) : e[k] = d[k]) /\ (\A k \in 1 .. Len(c) : e[Len(d) + k] = c[k])
    BY <1>1
  <2> QED  BY <1>1, <1>2, <1>3, <2>1
<1> QED  BY <1>4, <1>5 DEF a, b, c, d, e

LEMMA WrapperParts ==
    ASSUME NEW args \in Seq({"constant", "address"}), Len(args) <= Len(ArgRegs)
    PROVE  /\ generateWrapperInstructions(args) = Cat(Cat(Cat(WSaves, Wrapped(args)), WRestores), Return)
           /\ IsSeq(WSaves) /\ IsSeq(WRestores)
           /\ IsCat(Wrapped(args), Cat(PassArguments(args), AlignStack), CallStack)
           /\ IsCat(Cat(PassArguments(args), AlignStack), PassArguments(args), AlignStack)
<1> DEFINE a == <<AddSP(-AutoInc)>>
           f == <<<<"pushf">>>>
           u == Pushes(GPRs)
           q == PassArguments(args)
           v == Pops(GPRs)
           g == <<<<"popf">>>>
           b == <<AddSP(AutoInc)>>
           af == <<AddSP(-AutoInc), <<"pushf">>>>
           gbr == <<<<"popf">>, AddSP(AutoInc), <<"ret">>>>
<1>1. generateWrapperInstructions(args) = Cat(Cat(Cat(Cat(Cat(Cat(af, u), q), AlignStack), CallStack), v), gbr)
  BY DEF generateWrapperInstructions, CallStack, Cat
<1>2. af = Cat(a, f) /\ gbr = Cat(Cat(g, b), Return)
  <2> DEFINE a1 == AddSP(-AutoInc)
             f1 == <<"pushf">>
             g1 == <<"popf">>
             b1 == AddSP(AutoInc)
             r1 == <<"ret">>
  <2>1. a = <<a1>> /\ f = <<f1>> /\ g = <<g1>> /\ b = <<b1>> /\ Return = <<r1>> /\ af = <<a1, f1>> /\ gbr = <<g1, b1, r1>>
    BY DEF Return
  <2> HIDE DEF a1, f1, g1, b1, r1, a, f, g, b, af, gbr
  <2> QED  BY <2>1, PairCat
<1>3. IsSeq(a) /\ IsSeq(f) /\ IsSeq(g) /\ IsSeq(b) /\ IsSeq(Return) /\ IsSeq(AlignStack) /\ IsSeq(CallStack)
  <2>1. \A x : <<x>> \in Seq({x})
    OBVIOUS
  <2>2. \A x : IsSeq(<<x>>)
    BY <2>1 DEF IsSeq
  <2> QED  BY <2>2, TuplesAreSeqs
<1>4. IsSeq(u) /\ IsSeq(v) /\ IsSeq(q)
  <2>1. Mirror(u, v)
    BY PushesAndPops
  <2> QED  BY <2>1, PassesWell DEF Mirror
<1>5. WSaves = Cat(a, Cat(f, u)) /\ WRestores = Cat(Cat(v, g), b)
  BY DEF WSaves, WRestores, Raised, Lowered, SaveFlags, RestoreFlags
<1>6. Wrapped(args) = Cat(Cat(q, AlignStack), CallStack)
  BY DEF Wrapped
<1> DEFINE w == WSaves
           y == Cat(w, Wrapped(args))
<1> HIDE DEF a, f, u, q, v, g, b, af, gbr
<1>7. IsSeq(Cat(f, u)) /\ IsSeq(Cat(v, g)) /\ IsSeq(Cat(g, b)) /\ IsSeq(Cat(q, AlignStack)) /\ IsCat(Cat(q, AlignStack), q, AlignStack)
  BY <1>3, <1>4, Concat
<1>8. IsSeq(w) /\ IsSeq(WRestores) /\ IsSeq(Wrapped(args)) /\ IsCat(Wrapped(args), Cat(q, AlignStack), CallStack)
  BY <1>3, <1>5, <1>6, <1>7, Concat
<1>9. Cat(af, u) = w
  BY <1>2, <1>3, <1>4, <1>5, Assoc
<1>10. Cat(Cat(Cat(w, q), AlignStack), CallStack) = y
  <2>1. Cat(Cat(w, q), AlignStack) = Cat(w, Cat(q, AlignStack))
    BY <1>3, <1>4, <1>8, Assoc
  <2>2. Cat(Cat(w, Cat(q, AlignStack)), CallStack) = Cat(w, Cat(Cat(q, AlignStack), CallStack))
    BY <1>3, <1>7, <1>8, Assoc
  <2> QED  BY <1>6, <2>1, <2>2
<1>11. IsSeq(y)
  BY <1>8, Concat
<1> HIDE DEF w, y
<1>12. Cat(Cat(y, v), gbr) = Cat(Cat(y, WRestores), Return)
  <2> DEFINE yv == Cat(y, v)
             gb == Cat(g, b)
             vg == Cat(v, g)
  <2>1. IsSeq(yv)
    BY <1>4, <1>11, Concat
  <2>2. gbr = Cat(gb, Return) /\ IsSeq(gb) /\ IsSeq(vg)
    BY <1>2, <1>7
  <2> HIDE DEF yv, gb, vg
  <2>3. Cat(yv, Cat(gb, Return)) = Cat(Cat(yv, gb), Return)
    BY <1>3, <2>1, <2>2, Assoc
  <2>4. Cat(yv, gb) = Cat(Cat(yv, g), b)
    BY <1>3, <2>1, Assoc DEF gb
  <2>5. Cat(yv, g) = Cat(y, vg)
    BY <1>3, <1>4, <1>11, Assoc DEF yv, vg
  <2>6. Cat(Cat(y, vg), b) = Cat(y, Cat(vg, b))
    BY <1>3, <1>11, <2>2, Assoc
  <2>7. Cat(vg, b) = WRestores
    BY <1>5 DEF vg
  <2>8. Cat(yv, gb) = Cat(y, WRestores)
    BY <2>4, <2>5, <2>6, <2>7
  <2>9. Cat(yv, gbr) = Cat(Cat(y, WRestores), Return)
    BY <2>2, <2>3, <2>8
  <2> QED  BY <2>9 DEF yv
<1>13. generateWrapperInstructions(args) = Cat(Cat(y, WRestores), Return)
  BY <1>1, <1>9, <1>10, <1>12
<1> QED  BY <1>7, <1>8, <1>13 DEF y, w, q

-----------------------------------------------------------------------------
(* Which instruction is at a place of the code. *)

LEMMA ThreeParts ==
    ASSUME NEW a, IsSeq(a), NEW b, IsSeq(b), NEW c, IsSeq(c), NEW u, IsCat(u, Cat(a, b), c)
    PROVE  /\ Len(u) = Len(a) + Len(b) + Len(c) /\ Len(a) \in Nat /\ Len(b) \in Nat /\ Len(c) \in Nat
           /\ \A k \in 1 .. Len(a) : u[k] = a[k]
           /\ \A k \in 1 .. Len(b) : u[Len(a) + k] = b[k]
           /\ \A k \in 1 .. Len(c) : u[Len(a) + Len(b) + k] = c[k]
<1> DEFINE d == Cat(a, b)
<1>1. IsCat(d, a, b) /\ IsCat(u, d, c)
  BY Concat
<1> HIDE DEF d
<1>2. Len(d) = Len(a) + Len(b) /\ Len(u) = Len(d) + Len(c) /\ Len(a) \in Nat /\ Len(b) \in Nat /\ Len(c) \in Nat
  BY <1>1 DEF IsCat
<1>3. ASSUME NEW k \in 1 .. Len(a) PROVE u[k] = a[k]
  <2>1. k \in 1 .. Len(d)
    BY <1>2
  <2> QED  BY <1>1, <2>1 DEF IsCat
<1>4. ASSUME NEW k \in 1 .. Len(b) PROVE u[Len(a) + k] = b[k]
  <2>1. Len(a) + k \in 1 .. Len(d)
    BY <1>2
  <2>2. d[Len(a) + k] = b[k]
    BY <1>1 DEF IsCat
  <2>3. \A i \in 1 .. Len(d) : u[i] = d[i]
    BY <1>1 DEF IsCat
  <2> QED  BY <2>1, <2>2, <2>3
<1>5. ASSUME NEW k \in 1 .. Len(c) PROVE u[Len(a) + Len(b) + k] = c[k]
  <2>1. u[Len(d) + k] = c[k]
    BY <1>1 DEF IsCat
  <2> QED  BY <1>2, <2>1
<1> QED  BY <1>2, <1>3, <1>4, <1>5

LaidIn(c, p, n, i, b) ==
    /\ Len(c) = n + b + n
    /\ \A k \in 1 .. n : c[k] = Saves(p)[k]
    /\ \A k \in 1 .. i : c[n + k] = Inserted(p)[k]
    /\ p.kind = "replace" => c[n + i + 1] = <<"external">>
    /\ p.kind \in {"check", "call"} => c[n + i + 1] = <<"call">>
    /\ \A k \in 1 .. n : c[n + b + n + 1 - k] = Undo(Saves(p)[k])

LEMMA PointAt ==
    ASSUME NEW p \in Points, NEW n, n = Len(Saves(p)), NEW i, i = Len(Inserted(p)), NEW b, b = Len(Body(p)),
           NEW c, c = PointCode(p)
    PROVE  /\ n \in Nat /\ i \in Nat /\ b \in Nat /\ b = (IF Calls(p) THEN i + 1 ELSE i)
           /\ LaidIn(c, p, n, i, b)
<1> DEFINE s == Saves(p)
           y == Body(p)
           z == Restores(p)
           q == Inserted(p)
           t == Entry(p)
<1>1. IsSeq(s) /\ IsSeq(y) /\ IsSeq(z) /\ IsCat(y, q, t) /\ c = Cat(Cat(s, y), z)
  BY PointParts
<1>2. Mirror(s, z)
  BY SavesOf
<1>3. /\ p.kind = "replace" => Len(t) = 1 /\ t[1] = <<"external">>
      /\ p.kind \in {"check", "call"} => Len(t) = 1 /\ t[1] = <<"call">>
      /\ ~Calls(p) => Len(t) = 0
      /\ Calls(p) <=> p.kind \in {"check", "call", "replace"}
  BY EntryIs
<1>4. n = Len(s) /\ i = Len(q) /\ b = Len(y)
  OBVIOUS
<1> HIDE DEF s, y, z, q, t
<1>5. IsSeq(Cat(s, y))
  BY <1>1, Concat
<1>6. IsCat(c, Cat(s, y), z)
  BY <1>1, <1>5, Concat
<1>7. /\ Len(c) = n + b + Len(z) /\ n \in Nat /\ b \in Nat /\ Len(z) \in Nat
      /\ \A k \in 1 .. n : c[k] = s[k]
      /\ \A k \in 1 .. b : c[n + k] = y[k]
      /\ \A k \in 1 .. Len(z) : c[n + b + k] = z[k]
  BY <1>1, <1>4, <1>6, ThreeParts
<1>8. Len(z) = n /\ \A k \in 1 .. n : z[n + 1 - k] = Undo(s[k])
  BY <1>2, <1>4 DEF Mirror
<1>9. /\ b = i + Len(t) /\ i \in Nat
      /\ \A k \in 1 .. i : y[k] = q[k]
      /\ \A k \in 1 .. Len(t) : y[i + k] = t[k]
  BY <1>1, <1>4 DEF IsCat
<1>10. b = IF Calls(p) THEN i + 1 ELSE i
  BY <1>3, <1>9
<1>11. ASSUME NEW k \in 1 .. i PROVE c[n + k] = q[k]
  <2>1. k \in 1 .. b
    BY <1>7, <1>9, <1>10
  <2> QED  BY <1>7, <1>9, <2>1
<1>12. Calls(p) => c[n + i + 1] = t[1]
  <2> SUFFICES ASSUME Calls(p) PROVE c[n + i + 1] = t[1]
    OBVIOUS
  <2>1. 1 \in 1 .. Len(t) /\ i + 1 \in 1 .. b /\ n + (i + 1) = n + i + 1
    BY <1>3, <1>7, <1>9, <1>10
  <2>2. y[i + 1] = t[1]
    BY <1>9, <2>1
  <2>3. c[n + (i + 1)] = y[i + 1]
    BY <1>7, <2>1
  <2> QED  BY <2>1, <2>2, <2>3
<1>13. ASSUME NEW k \in 1 .. n PROVE c[n + b + n + 1 - k] = Undo(s[k])
  <2>1. n + 1 - k \in 1 .. Len(z) /\ n + b + (n + 1 - k) = n + b + n + 1 - k
    BY <1>7, <1>8
  <2>2. c[n + b + (n + 1 - k)] = z[n + 1 - k]
    BY <1>7, <2>1
  <2> QED  BY <1>8, <2>1, <2>2
<1>14. Len(c) = n + b + n
  BY <1>7, <1>8
<1> QED  BY <1>3, <1>7, <1>9, <1>10, <1>11, <1>12, <1>13, <1>14 DEF s, q, LaidIn

LEMMA BodyLength ==
    ASSUME NEW p \in Points
    PROVE  Len(Body(p)) = (IF Calls(p) THEN Len(Inserted(p)) + 1 ELSE Len(Inserted(p))) /\ Len(Inserted(p)) \in Nat
<1>1. PICK n, i, b, c : n = Len(Saves(p)) /\ i = Len(Inserted(p)) /\ b = Len(Body(p)) /\ c = PointCode(p)
  OBVIOUS
<1>2. b = (IF Calls(p) THEN i + 1 ELSE i) /\ i \in Nat
  BY <1>1, PointAt
<1> QED  BY <1>1, <1>2

WrapperCode(w, n, m) ==
    /\ n \in Nat /\ m \in Nat
    /\ \A k \in 1 .. n : w[k] = WSaves[k]
    /\ \A k \in 1 .. m : Passes(w[n + k])
    /\ \A k \in 1 .. 6 : w[n + m + k] = AlignStack[k]
    /\ \A k \in 1 .. 9 : w[n + m + 6 + k] = CallStack[k]
    /\ \A k \in 1 .. n : w[n + m + 15 + n + 1 - k] = Undo(WSaves[k])
    /\ w[n + m + 15 + n + 1] = <<"ret">>

LEMMA WrapperAt ==
    ASSUME NEW args \in Seq({"constant", "address"}), Len(args) <= Len(ArgRegs)
    PROVE  /\ WrapperCode(generateWrapperInstructions(args), Len(WSaves), Len(args))
           /\ \A k \in 1 .. Len(args) : generateWrapperInstructions(args)[Len(WSaves) + k] = PassArguments(args)[k]
<1> SUFFICES ASSUME NEW w, w = generateWrapperInstructions(args), NEW n, n = Len(WSaves), NEW m, m = Len(args)
             PROVE  WrapperCode(w, n, m) /\ \A k \in 1 .. m : w[n + k] = PassArguments(args)[k]
  OBVIOUS
<1> DEFINE s == WSaves
           y == Wrapped(args)
           z == WRestores
           q == PassArguments(args)
           e == Cat(Cat(s, y), z)
<1>1. /\ w = Cat(e, Return) /\ IsSeq(s) /\ IsSeq(z)
      /\ IsCat(y, Cat(q, AlignStack), CallStack) /\ IsCat(Cat(q, AlignStack), q, AlignStack)
  BY WrapperParts
<1>2. Mirror(s, z)
  BY WSavesIs
<1>3. IsSeq(q) /\ Len(q) = m /\ \A k \in 1 .. m : Passes(q[k])
  BY PassesWell
<1>4. /\ Len(AlignStack) = 6 /\ IsSeq(AlignStack)
      /\ Len(CallStack) = 9 /\ IsSeq(CallStack)
      /\ Len(Return) = 1 /\ IsSeq(Return) /\ Return[1] = <<"ret">>
  BY TuplesAreSeqs
<1>5. n = Len(s)
  OBVIOUS
<1> HIDE DEF s, y, z, q, e
<1>6. /\ Len(y) = m + 6 + 9 /\ IsSeq(y) /\ m \in Nat
      /\ \A k \in 1 .. m : y[k] = q[k]
      /\ \A k \in 1 .. 6 : y[m + k] = AlignStack[k]
      /\ \A k \in 1 .. 9 : y[m + 6 + k] = CallStack[k]
  <2> DEFINE al == AlignStack
             ca == CallStack
  <2>0. IsCat(y, Cat(q, al), ca) /\ IsSeq(q) /\ IsSeq(al) /\ IsSeq(ca)
    BY <1>1, <1>3, <1>4
  <2> HIDE DEF al, ca
  <2>1. /\ Len(y) = Len(q) + Len(al) + Len(ca) /\ Len(q) \in Nat
        /\ \A k \in 1 .. Len(q) : y[k] = q[k]
        /\ \A k \in 1 .. Len(al) : y[Len(q) + k] = al[k]
        /\ \A k \in 1 .. Len(ca) : y[Len(q) + Len(al) + k] = ca[k]
    BY <2>0, ThreeParts
  <2>2. IsSeq(y)
    BY <1>1 DEF IsCat
  <2> QED  BY <1>3, <1>4, <2>1, <2>2 DEF al, ca
<1>7. IsSeq(Cat(s, y))
  BY <1>1, <1>6, Concat
<1>8. IsCat(e, Cat(s, y), z) /\ IsSeq(e)
  BY <1>1, <1>7, Concat DEF e
<1>21. IsCat(Cat(s, y), s, y)
  BY <1>1, <1>6, Concat
<1>20. n \in Nat /\ m \in Nat
  BY <1>5, <1>6, <1>21 DEF IsCat
<1>9. /\ Len(e) = n + (m + 15) + n /\ n \in Nat
      /\ \A k \in 1 .. n : e[k] = s[k]
      /\ \A k \in 1 .. m + 15 : e[n + k] = y[k]
      /\ \A k \in 1 .. n : e[n + (m + 15) + k] = z[k]
  <2>0. IsCat(e, Cat(s, y), z) /\ IsSeq(s) /\ IsSeq(y) /\ IsSeq(z)
    BY <1>1, <1>6, <1>8
  <2>1. /\ Len(e) = Len(s) + Len(y) + Len(z) /\ Len(s) \in Nat
        /\ \A k \in 1 .. Len(s) : e[k] = s[k]
        /\ \A k \in 1 .. Len(y) : e[Len(s) + k] = y[k]
        /\ \A k \in 1 .. Len(z) : e[Len(s) + Len(y) + k] = z[k]
    BY <2>0, ThreeParts
  <2>2. Len(y) = m + 15 /\ Len(z) = n
    BY <1>2, <1>5, <1>6 DEF Mirror
  <2> QED  BY <1>5, <2>1, <2>2
<1>10. IsCat(w, e, Return)
  BY <1>1, <1>4, <1>8, Concat
<1>11. \A k \in 1 .. n + (m + 15) + n : w[k] = e[k]
  BY <1>9, <1>10 DEF IsCat
<1>12. w[n + m + 15 + n + 1] = <<"ret">>
  <2>1. \A k \in 1 .. 1 : w[Len(e) + k] = Return[k]
    BY <1>4, <1>10 DEF IsCat
  <2>2. Len(e) + 1 = n + m + 15 + n + 1
    BY <1>6, <1>9
  <2> QED  BY <1>4, <2>1, <2>2
<1>13. ASSUME NEW k \in 1 .. m + 15 PROVE w[n + k] = y[k]
  <2>1. n + k \in 1 .. n + (m + 15) + n
    BY <1>20
  <2> QED  BY <1>9, <1>11, <2>1
<1>14. ASSUME NEW k \in 1 .. n PROVE w[k] = s[k] /\ w[n + m + 15 + n + 1 - k] = Undo(s[k])
  <2>1. k \in 1 .. n + (m + 15) + n /\ n + 1 - k \in 1 .. n
        /\ n + (m + 15) + (n + 1 - k) \in 1 .. n + (m + 15) + n
        /\ n + (m + 15) + (n + 1 - k) = n + m + 15 + n + 1 - k
    BY <1>20
  <2>2. z[n + 1 - k] = Undo(s[k])
    BY <1>2, <1>5 DEF Mirror
  <2>3. e[n + (m + 15) + (n + 1 - k)] = z[n + 1 - k]
    BY <1>9, <2>1
  <2> QED  BY <1>9, <1>11, <2>1, <2>2, <2>3
<1>15. ASSUME NEW k \in 1 .. m PROVE Passes(w[n + k]) /\ w[n + k] = q[k]
  <2>1. k \in 1 .. m + 15
    BY <1>6
  <2> QED  BY <1>3, <1>6, <1>13, <2>1
<1>16. ASSUME NEW k \in 1 .. 6 PROVE w[n + m + k] = AlignStack[k]
  <2>1. m + k \in 1 .. m + 15 /\ n + (m + k) = n + m + k
    BY <1>20
  <2>2. w[n + (m + k)] = y[m + k]
    BY <1>13, <2>1
  <2> QED  BY <1>6, <2>1, <2>2
<1>17. ASSUME NEW k \in 1 .. 9 PROVE w[n + m + 6 + k] = CallStack[k]
  <2>1. m + 6 + k \in 1 .. m + 15 /\ n + (m + 6 + k) = n + m + 6 + k
    BY <1>20
  <2>2. w[n + (m + 6 + k)] = y[m + 6 + k]
    BY <1>13, <2>1
  <2> QED  BY <1>6, <2>1, <2>2
<1> QED  BY <1>6, <1>9, <1>12, <1>14, <1>15, <1>16, <1>17 DEF s, q, WrapperCode

-----------------------------------------------------------------------------
(* What a step of the processor does, by the instruction it executes. *)

Stays == pt' = pt /\ text' = text
Forward == pc' = <<pc[1], pc[2] + 1>>

\* An instruction that only computes.
ComputedBy(op, rg, fl, st, rg2, fl2, st2) ==
    /\ st2 = st
    /\ IsFile(rg) => IsFile(rg2) /\ \A r \in GPRs : r \notin RegistersDefined(op) => rg2[r] = rg[r]
    /\ \A f \in Flags : f \notin FlagsDefined(op) => fl2[f] = fl[f]

LEMMA SaveOpStep ==
    ASSUME Next, ~Done, NEW op, op = current, op[1] \in {"push", "pushf", "lahf", "addsp"}
    PROVE  SavedBy(op, reg, flags, stack, reg', flags', stack') /\ fp' = fp /\ Stays /\ Forward
<1>1. CASE op[1] = "push"
  <2>1. Next <=> PushOrPop
    BY <1>1 DEF Next, Is, Compute, TransferFlags, WriteData, SaveOrRestore, Compare, BranchJL, CallWrapper,
                ReturnFromWrapper, ExternalCall, FxSaveOrRestore
  <2> QED  BY <1>1, <2>1 DEF PushOrPop, SavedBy, MovedTo, Write, PutAt, Put, sp, Stays, Forward, Advance
<1>2. CASE op[1] = "pushf"
  <2>1. Next <=> PushOrPop
    BY <1>2 DEF Next, Is, Compute, TransferFlags, WriteData, SaveOrRestore, Compare, BranchJL, CallWrapper,
                ReturnFromWrapper, ExternalCall, FxSaveOrRestore
  <2> QED  BY <1>2, <2>1 DEF PushOrPop, SavedBy, MovedTo, Write, PutAt, Put, sp, Stays, Forward, Advance
<1>3. CASE op[1] = "lahf"
  <2>1. Next <=> TransferFlags
    BY <1>3 DEF Next, Is, Compute, PushOrPop, WriteData, SaveOrRestore, Compare, BranchJL, CallWrapper,
                ReturnFromWrapper, ExternalCall, FxSaveOrRestore
  <2> QED  BY <1>3, <2>1 DEF TransferFlags, SavedBy, Write, Stays, Forward, Advance
<1>4. CASE op[1] = "addsp"
  <2>1. Next <=> Compute
    BY <1>4 DEF Next, Is, TransferFlags, PushOrPop, WriteData, SaveOrRestore, Compare, BranchJL, CallWrapper,
                ReturnFromWrapper, ExternalCall, FxSaveOrRestore
  <2>2. reg' = MovedTo(reg, reg[SP][2] + op[2]) /\ flags' = [f \in Flags |-> flags[f]]
    BY <1>4, <2>1 DEF Compute, Is, MovedTo, Write, sp
  <2> QED  BY <1>4, <2>1, <2>2 DEF Compute, Is, SavedBy, Stays, Forward, Advance
<1> QED  BY <1>1, <1>2, <1>3, <1>4

LEMMA UndoStep ==
    ASSUME Next, ~Done, NEW s \in SaveOps, Undo(s) = current
    PROVE  RestoredBy(s, reg, flags, stack, reg', flags', stack') /\ fp' = fp /\ Stays /\ Forward
<1> DEFINE op == current
<1>0. ASSUME op[1] \in {"pop", "popf"} PROVE PushOrPop
  BY <1>0 DEF Next, Is, Compute, TransferFlags, WriteData, SaveOrRestore, Compare, BranchJL, CallWrapper,
                ReturnFromWrapper, ExternalCall, FxSaveOrRestore
<1>1. CASE s[1] = "push"
  <2>1. op[1] = "pop" /\ op[2] = s[2]
    BY <1>1 DEF Undo, Pop
  <2>2. PushOrPop
    BY <1>0, <2>1
  <2> HIDE DEF op
  <2>3. reg' = Write(MovedTo(reg, reg[SP][2] + 8), s[2], TopOf(stack, reg[SP][2])) /\ flags' = flags /\ stack' = stack
    BY <2>1, <2>2 DEF PushOrPop, MovedTo, Write, TopOf, Top, sp, op
  <2>4. fp' = fp /\ Stays /\ Forward
    BY <2>2 DEF PushOrPop, Stays, Forward, Advance
  <2> QED  BY <1>1, <2>3, <2>4 DEF RestoredBy
<1>2. CASE s[1] = "pushf"
  <2>1. op[1] = "popf"
    BY <1>2 DEF Undo
  <2>2. PushOrPop
    BY <1>0, <2>1
  <2> HIDE DEF op
  <2>3. /\ reg' = MovedTo(reg, reg[SP][2] + 8) /\ stack' = stack
        /\ TopOf(stack, reg[SP][2])[1] = "flags" => flags' = TopOf(stack, reg[SP][2])[2]
    BY <2>1, <2>2 DEF PushOrPop, MovedTo, Write, TopOf, Top, sp, op
  <2>4. fp' = fp /\ Stays /\ Forward
    BY <2>2 DEF PushOrPop, Stays, Forward, Advance
  <2> QED  BY <1>2, <2>3, <2>4 DEF RestoredBy
<1>3. CASE s[1] = "lahf"
  <2>1. op[1] = "sahf"
    BY <1>3 DEF Undo
  <2>2. TransferFlags
    BY <2>1 DEF Next, Is, Compute, PushOrPop, WriteData, SaveOrRestore, Compare, BranchJL, CallWrapper,
                ReturnFromWrapper, ExternalCall, FxSaveOrRestore
  <2> HIDE DEF op
  <2>3. /\ reg' = reg /\ stack' = stack
        /\ flags' = [f \in Flags |-> IF f \in Full THEN flags[f] ELSE IF reg[AX][1] = "ah" THEN reg[AX][2][f] ELSE Junk]
    BY <2>1, <2>2 DEF TransferFlags, op
  <2>4. fp' = fp /\ Stays /\ Forward
    BY <2>2 DEF TransferFlags, Stays, Forward, Advance
  <2>5. /\ \A f \in Full : flags'[f] = flags[f]
        /\ reg[AX][1] = "ah" => \A f \in Light : flags'[f] = reg[AX][2][f]
    BY <2>3 DEF Flags, Full, Light
  <2> QED  BY <1>3, <2>3, <2>4, <2>5 DEF RestoredBy
<1>4. CASE s[1] = "addsp"
  <2>1. op[1] = "addsp" /\ op[2] = -s[2]
    BY <1>4 DEF Undo, AddSP
  <2>2. SavedBy(op, reg, flags, stack, reg', flags', stack') /\ fp' = fp /\ Stays /\ Forward
    BY <2>1, SaveOpStep
  <2> HIDE DEF op
  <2>3. reg' = MovedTo(reg, reg[SP][2] + op[2]) /\ stack' = stack /\ \A f \in Flags : flags'[f] = flags[f]
    BY <2>1, <2>2 DEF SavedBy
  <2>4. reg[SP][2] + op[2] = reg[SP][2] - s[2]
    BY <2>1
  <2> QED  BY <1>4, <2>2, <2>3, <2>4 DEF RestoredBy
<1> QED  BY <1>1, <1>2, <1>3, <1>4, SaveOp

\* The value an op computes.
Read(rg, s) == [k \in 1 .. Len(s) |-> rg[s[k]]]
Value(op, rg) == Computed(op[3], Read(rg, op[4]))

LEMMA PlainStep ==
    ASSUME Next, ~Done, NEW op, op = current, op[1] \in {"op", "store", "add", "cmp", "save", "restore"}
    PROVE  /\ ComputedBy(op, reg, flags, stack, reg', flags', stack') /\ fp' = fp /\ Stays /\ Forward
           /\ op[1] = "op" => reg' = Write(reg, op[2], Value(op, reg))
<1>1. CASE op[1] = "op"
  <2>1. Compute
    BY <1>1 DEF Next, Is, TransferFlags, PushOrPop, WriteData, SaveOrRestore, Compare, BranchJL, CallWrapper,
                ReturnFromWrapper, ExternalCall, FxSaveOrRestore
  <2>2. reg' = Write(reg, op[2], Value(op, reg)) /\ flags' = [f \in Flags |-> IF f \in op[5] THEN Junk ELSE flags[f]]
        /\ stack' = stack /\ fp' = fp /\ Stays /\ Forward
    BY <1>1, <2>1 DEF Compute, Is, Write, Value, Read, Stays, Forward, Advance
  <2>3. RegistersDefined(op) = {op[2]} /\ FlagsDefined(op) = op[5]
    BY <1>1 DEF RegistersDefined, FlagsDefined
  <2>4. \A f \in Flags : f \notin FlagsDefined(op) => flags'[f] = flags[f]
    BY <2>2, <2>3
  <2>5. IsFile(reg) => IsFile(reg') /\ \A r \in GPRs : r \notin RegistersDefined(op) => reg'[r] = reg[r]
    BY <2>2, <2>3, Written
  <2> QED  BY <2>2, <2>4, <2>5 DEF ComputedBy
<1>2. CASE op[1] \in {"store", "add"}
  <2>1. WriteData
    BY <1>2 DEF Next, Is, Compute, TransferFlags, PushOrPop, SaveOrRestore, Compare, BranchJL, CallWrapper,
                ReturnFromWrapper, ExternalCall, FxSaveOrRestore
  <2> QED  BY <1>2, <2>1 DEF WriteData, ComputedBy, IsFile, Stays, Forward, Advance
<1>3. CASE op[1] = "cmp"
  <2>1. Compare
    BY <1>3 DEF Next, Is, Compute, TransferFlags, PushOrPop, WriteData, SaveOrRestore, BranchJL, CallWrapper,
                ReturnFromWrapper, ExternalCall, FxSaveOrRestore
  <2>2. FlagsDefined(op) = AluFlags
    BY <1>3 DEF FlagsDefined
  <2> QED  BY <1>3, <2>1, <2>2 DEF Compare, ComputedBy, IsFile, Stays, Forward, Advance
<1>4. CASE op[1] \in {"save", "restore"}
  <2>1. SaveOrRestore
    BY <1>4 DEF Next, Is, Compute, TransferFlags, PushOrPop, WriteData, Compare, BranchJL, CallWrapper,
                ReturnFromWrapper, ExternalCall, FxSaveOrRestore
  <2>2. flags' = flags /\ stack' = stack /\ fp' = fp /\ Stays /\ Forward
    BY <2>1 DEF SaveOrRestore, Stays, Forward, Advance
  <2>3. CASE op[1] = "save"
    BY <2>1, <2>2, <2>3 DEF SaveOrRestore, ComputedBy, IsFile
  <2>4. CASE op[1] = "restore"
    <3>1. PICK v : reg' = Write(reg, op[2], v)
      BY <2>1, <2>4 DEF SaveOrRestore, Write
    <3>2. RegistersDefined(op) = {op[2]}
      BY <2>4 DEF RegistersDefined
    <3>3. IsFile(reg) => IsFile(reg') /\ \A r \in GPRs : r \notin RegistersDefined(op) => reg'[r] = reg[r]
      BY <3>1, <3>2, Written
    <3> QED  BY <2>2, <2>4, <3>3 DEF ComputedBy
  <2> QED  BY <1>4, <2>3, <2>4
<1> QED  BY <1>1, <1>2, <1>3, <1>4

LEMMA OtherSteps ==
    ASSUME Next, ~Done, NEW op, op = current
    PROVE  /\ op[1] = "jl" =>
                /\ reg' = reg /\ flags' = flags /\ stack' = stack /\ fp' = fp /\ Stays
                /\ pc' = <<pc[1], pc[2] + 1>> \/ pc' = <<pc[1], pc[2] + 2>>
           /\ op[1] = "mov" =>
                /\ reg' = Write(reg, op[3], reg[op[2]]) /\ stack' = stack /\ fp' = fp /\ Stays /\ Forward
           /\ op[1] = "andsp" =>
                /\ reg' = MovedTo(reg, reg[SP][2] - (reg[SP][2] % StackAlign))
                /\ stack' = stack /\ fp' = fp /\ Stays /\ Forward
           /\ op[1] = "pop" =>
                /\ reg' = Write(MovedTo(reg, reg[SP][2] + 8), op[2], TopOf(stack, reg[SP][2]))
                /\ stack' = stack /\ fp' = fp /\ Stays /\ Forward
           /\ op[1] = "external" =>
                /\ reg' = [r \in GPRs |-> IF r \in CalleeSaved THEN reg[r] ELSE Junk]
                /\ stack' = [a \in {x \in DOMAIN stack : x >= reg[SP][2]} |-> stack[a]]
                /\ Stays /\ Forward
           /\ op[1] = "fxsave" => stack' = PutAt(stack, reg[SP][2], fp) /\ reg' = reg /\ fp' = fp /\ Stays /\ Forward
           /\ op[1] = "fxrstor" => fp' = TopOf(stack, reg[SP][2]) /\ reg' = reg /\ stack' = stack /\ Stays /\ Forward
           /\ op[1] = "call" =>
                /\ stack' = PutAt(stack, reg[SP][2] - 8, <<"return", pc[2] + 1>>)
                /\ reg' = MovedTo(reg, reg[SP][2] - 8) /\ pc' = <<"wrapper", 1>>
                /\ flags' = flags /\ fp' = fp /\ Stays
           /\ op[1] = "ret" =>
                /\ pc' = <<"point", TopOf(stack, reg[SP][2])[2]>>
                /\ reg' = MovedTo(reg, reg[SP][2] + 8)
                /\ flags' = flags /\ stack' = stack /\ fp' = fp /\ Stays
<1> USE DEF Next, Is, MovedTo, Write, TopOf, Top, PutAt, Put, sp, Stays, Forward, Advance
<1>1. ASSUME op[1] = "jl"
      PROVE  /\ reg' = reg /\ flags' = flags /\ stack' = stack /\ fp' = fp /\ Stays
             /\ pc' = <<pc[1], pc[2] + 1>> \/ pc' = <<pc[1], pc[2] + 2>>
  <2>1. BranchJL
    BY <1>1 DEF Compute, TransferFlags, PushOrPop, WriteData, SaveOrRestore, Compare, CallWrapper,
                ReturnFromWrapper, ExternalCall, FxSaveOrRestore
  <2> QED  BY <1>1, <2>1 DEF BranchJL
<1>2. ASSUME op[1] \in {"mov", "andsp"}
      PROVE  /\ op[1] = "mov" => reg' = Write(reg, op[3], reg[op[2]])
             /\ op[1] = "andsp" => reg' = MovedTo(reg, reg[SP][2] - (reg[SP][2] % StackAlign))
             /\ stack' = stack /\ fp' = fp /\ Stays /\ Forward
  <2>1. Compute
    BY <1>2 DEF BranchJL, TransferFlags, PushOrPop, WriteData, SaveOrRestore, Compare, CallWrapper,
                ReturnFromWrapper, ExternalCall, FxSaveOrRestore
  <2> QED  BY <1>2, <2>1 DEF Compute
<1>3. ASSUME op[1] = "pop"
      PROVE  /\ reg' = Write(MovedTo(reg, reg[SP][2] + 8), op[2], TopOf(stack, reg[SP][2]))
             /\ stack' = stack /\ fp' = fp /\ Stays /\ Forward
  <2>1. PushOrPop
    BY <1>3 DEF BranchJL, TransferFlags, Compute, WriteData, SaveOrRestore, Compare, CallWrapper,
                ReturnFromWrapper, ExternalCall, FxSaveOrRestore
  <2> QED  BY <1>3, <2>1 DEF PushOrPop
<1>4. ASSUME op[1] = "external"
      PROVE  /\ reg' = [r \in GPRs |-> IF r \in CalleeSaved THEN reg[r] ELSE Junk]
             /\ stack' = [a \in {x \in DOMAIN stack : x >= reg[SP][2]} |-> stack[a]]
             /\ Stays /\ Forward
  <2>1. ExternalCall
    BY <1>4 DEF BranchJL, TransferFlags, Compute, WriteData, SaveOrRestore, Compare, CallWrapper,
                ReturnFromWrapper, PushOrPop, FxSaveOrRestore
  <2> QED  BY <1>4, <2>1 DEF ExternalCall
<1>5. ASSUME op[1] \in {"fxsave", "fxrstor"}
      PROVE  /\ op[1] = "fxsave" => stack' = PutAt(stack, reg[SP][2], fp) /\ fp' = fp
             /\ op[1] = "fxrstor" => fp' = TopOf(stack, reg[SP][2]) /\ stack' = stack
             /\ reg' = reg /\ Stays /\ Forward
  <2>1. FxSaveOrRestore
    BY <1>5 DEF BranchJL, TransferFlags, Compute, WriteData, SaveOrRestore, Compare, CallWrapper,
                ReturnFromWrapper, PushOrPop, ExternalCall
  <2> QED  BY <1>5, <2>1 DEF FxSaveOrRestore
<1>6. ASSUME op[1] = "call"
      PROVE  /\ stack' = PutAt(stack, reg[SP][2] - 8, <<"return", pc[2] + 1>>)
             /\ reg' = MovedTo(reg, reg[SP][2] - 8) /\ pc' = <<"wrapper", 1>>
             /\ flags' = flags /\ fp' = fp /\ Stays
  <2>1. CallWrapper
    BY <1>6 DEF BranchJL, TransferFlags, Compute, WriteData, SaveOrRestore, Compare, FxSaveOrRestore,
                ReturnFromWrapper, PushOrPop, ExternalCall
  <2> QED  BY <1>6, <2>1 DEF CallWrapper
<1>7. ASSUME op[1] = "ret"
      PROVE  /\ pc' = <<"point", TopOf(stack, reg[SP][2])[2]>>
             /\ reg' = MovedTo(reg, reg[SP][2] + 8)
             /\ flags' = flags /\ stack' = stack /\ fp' = fp /\ Stays
  <2>1. ReturnFromWrapper
    BY <1>7 DEF BranchJL, TransferFlags, Compute, WriteData, SaveOrRestore, Compare, FxSaveOrRestore,
                CallWrapper, PushOrPop, ExternalCall
  <2> QED  BY <1>7, <2>1 DEF ReturnFromWrapper
<1> QED  BY <1>1, <1>2, <1>3, <1>4, <1>5, <1>6, <1>7

-----------------------------------------------------------------------------
(* The point: before, in and after its body. *)

NoneYet == <<"program", 0>>
\* What the registers and flags hold in the end, where they matter.
R0(p) == [r \in GPRs |-> IF r = SP THEN SPvalue(p.sp)
                         ELSE IF r = p.threadReg THEN <<"threaddata", 0>> ELSE <<"program", r>>]
F0 == [f \in Flags |-> <<"program", f>>]
\* The registers that hold it before the body, in it and after it.
Before(p) == IF p.kind = "threadinit" THEN GPRs \ {p.threadReg} ELSE GPRs
After(p) == IF p.kind = "replace" THEN {} ELSE Live(p) \cup NotThreadReg(p)
During(p) == After(p) \cap Before(p)

\* How far the address of the thread data has been computed.
Scratch(p) == Nth(getDeadRegIn(p, {AX, SP, p.threadReg}, 1), 1)
ThreadId == T("fs:0x10", << >>)
Shifted == T("shr", <<ThreadId>>)
Masked == T("and", <<Shifted>>)
Offset == T("shl", <<Masked>>)
Table == T("TData", << >>)
Place == T("lea", <<Table, Offset>>)
Progress(j, s, d, rg) ==
    /\ j = 1 => rg[d] = ThreadId
    /\ j = 2 => rg[d] = Shifted
    /\ j \in {3, 4} => rg[d] = Masked
    /\ j \in {4, 5} => rg[s] = Table
    /\ j = 5 => rg[d] = Offset
    /\ j = 6 => rg[d] = Place
    /\ j = 7 => rg[d] = <<"threaddata", 0>>

InBody(p, j, rg, fl, st) ==
    /\ Unwinding(Saves(p), Len(Saves(p)), p.sp, During(p), R0(p), KeptFlags(p), F0, Bottom(p), ProgramStack(p), rg, fl, st)
    /\ p.kind = "threadinit" => Progress(j, Scratch(p), p.threadReg, rg)

LEMMA Values ==
    \A tag, args : /\ tag # "load" => Computed(tag, args) = T(tag, args)
                   /\ T(tag, args) = T("load", <<Place>>) => Computed(tag, args) = <<"threaddata", 0>>
<1>1. ThreadDataTerm = T("load", <<Place>>)
  BY DEF ThreadDataTerm, Place, Table, Offset, Masked, Shifted, ThreadId
<1>2. \A tag, args : tag # "load" => T(tag, args) # T("load", <<Place>>)
  BY DEF T
<1> QED  BY <1>1, <1>2 DEF Computed

LEMMA ScratchIs ==
    ASSUME NEW p \in Points, p.kind = "threadinit"
    PROVE  /\ Scratch(p) \in GPRs \ {AX, SP} /\ p.threadReg \in GPRs \ {AX, SP} /\ Scratch(p) # p.threadReg
           /\ Inserted(p) = storeThreadData(Scratch(p), p.threadReg)
<1>1. p.threadReg \in GPRs \ {AX, SP}
  BY PointFacts
<1>2. Inserted(p) = storeThreadData(Scratch(p), p.threadReg)
  BY DEF Inserted, instrumentForThreading, Scratch
<1> DEFINE inv == {AX, SP, p.threadReg}
           dead == (GPRs \ p.liveIn) \ inv
           rest == (GPRs \ inv) \ dead
           S == getDeadRegIn(p, inv, 1)
<1>3. S = dead \cup Lowest(rest, 1 - Cardinality(dead))
  BY DEF getDeadRegIn
<1>4. S \in SUBSET (GPRs \ inv)
  BY DeadRegs
<1>5. S # {}
  <2>1. CASE dead # {}
    BY <1>3, <2>1
  <2>2. CASE dead = {}
    <3>1. rest \in SUBSET GPRs
      OBVIOUS
    <3>2. rest # {}
      <4>1. \E r \in {1, 2, 3, 5} : r # p.threadReg
        OBVIOUS
      <4>2. \A r \in {1, 2, 3, 5} : r \in GPRs /\ r # AX /\ r # SP
        BY DEF GPRs, AX, SP
      <4> QED  BY <2>2, <4>1, <4>2
    <3>3. Cardinality(dead) = 0
      BY <2>2, FS_EmptySet
    <3> HIDE DEF rest, dead
    <3>4. Cardinality(rest) \in Nat /\ Cardinality(rest) # 0
      BY <3>1, <3>2, UptoType, FS_EmptySet
    <3>5. 1 \in 1 .. Cardinality(rest)
      BY <3>4
    <3>6. \A k \in 1 .. Cardinality(rest) : Nth(rest, k) \in rest /\ Upto(rest, Nth(rest, k)) = k
      BY <3>1, NthIs
    <3>7. Nth(rest, 1) \in rest /\ Cardinality(rest \cap 0 .. Nth(rest, 1)) = 1
      BY <3>5, <3>6 DEF Upto
    <3>8. 1 - Cardinality(dead) = 1
      BY <3>3
    <3>9. Nth(rest, 1) \in Lowest(rest, 1 - Cardinality(dead))
      BY <3>7, <3>8 DEF Lowest
    <3> QED  BY <1>3, <3>9
  <2> QED  BY <2>1, <2>2
<1> HIDE DEF S
<1>6. Nth(S, 1) \in S
  BY <1>4, <1>5, FirstOf
<1>7. Scratch(p) = Nth(S, 1)
  BY DEF Scratch, S
<1> QED  BY <1>1, <1>2, <1>4, <1>6, <1>7

LEMMA ReadIs ==
    ASSUME NEW rg, NEW a, NEW b
    PROVE  Read(rg, << >>) = << >> /\ Read(rg, <<a>>) = <<rg[a]>> /\ Read(rg, <<a, b>>) = <<rg[a], rg[b]>>
<1> DEFINE u == rg[a]
           v == rg[b]
           f == Read(rg, <<a>>)
           g == Read(rg, <<a, b>>)
<1>1. f = [k \in 1 .. 1 |-> u]
  BY DEF Read
<1>2. g = [k \in 1 .. 2 |-> IF k = 1 THEN u ELSE v]
  BY DEF Read
<1> HIDE DEF u, v, f, g
<1>3. f \in Seq({u, v}) /\ Len(f) = 1 /\ f[1] = u
  BY <1>1
<1>4. g \in Seq({u, v}) /\ Len(g) = 2 /\ g[1] = u /\ g[2] = v
  BY <1>2
<1>5. <<u>> \in Seq({u, v}) /\ Len(<<u>>) = 1 /\ <<u>>[1] = u
  OBVIOUS
<1>6. <<u, v>> \in Seq({u, v}) /\ Len(<<u, v>>) = 2 /\ <<u, v>>[1] = u /\ <<u, v>>[2] = v
  OBVIOUS
<1>7. \A k \in 1 .. 2 : k = 1 \/ k = 2
  OBVIOUS
<1>8. f = <<u>>
  BY <1>3, <1>5, SameSeq DEF IsSeq
<1>9. g = <<u, v>>
  BY <1>4, <1>6, <1>7, SameSeq DEF IsSeq
<1>10. Read(rg, << >>) = << >>
  BY DEF Read
<1> QED  BY <1>8, <1>9, <1>10 DEF f, g, u, v

LEMMA ProgressStep ==
    ASSUME NEW s \in GPRs, NEW d \in GPRs, s # d, NEW j \in 0 .. 6, NEW rg, IsFile(rg), Progress(j, s, d, rg),
           NEW op, op = storeThreadData(s, d)[j + 1], NEW rg2, rg2 = Write(rg, op[2], Value(op, rg))
    PROVE  Progress(j + 1, s, d, rg2)
<1>1. rg2[op[2]] = Value(op, rg) \/ op[2] \notin GPRs
  BY Written
<1>2. \A r \in GPRs : r # op[2] => rg2[r] = rg[r]
  BY Written
<1> DEFINE V == Value(op, rg)
<1>4. j = 0 => op[2] = d /\ V = ThreadId
  <2> SUFFICES ASSUME j = 0 PROVE op[2] = d /\ V = ThreadId
    OBVIOUS
  <2>1. op = Op(d, "fs:0x10", << >>)
    BY DEF storeThreadData
  <2>2. op[2] = d /\ op[3] = "fs:0x10" /\ op[4] = << >>
    BY <2>1 DEF Op
  <2>3. Read(rg, op[4]) = << >>
    BY <2>2, ReadIs
  <2> QED  BY <2>2, <2>3, Values DEF Value, ThreadId
<1>5. j = 1 => op[2] = d /\ V = Shifted
  <2> SUFFICES ASSUME j = 1 PROVE op[2] = d /\ V = Shifted
    OBVIOUS
  <2>1. op = Alu(d, "shr", <<d>>)
    BY DEF storeThreadData
  <2>2. op[2] = d /\ op[3] = "shr" /\ op[4] = <<d>>
    BY <2>1 DEF Alu
  <2>3. Read(rg, op[4]) = <<rg[d]>>
    BY <2>2, ReadIs
  <2>4. rg[d] = ThreadId
    BY DEF Progress
  <2> QED  BY <2>2, <2>3, <2>4, Values DEF Value, Shifted
<1>6. j = 2 => op[2] = d /\ V = Masked
  <2> SUFFICES ASSUME j = 2 PROVE op[2] = d /\ V = Masked
    OBVIOUS
  <2>1. op = Alu(d, "and", <<d>>)
    BY DEF storeThreadData
  <2>2. op[2] = d /\ op[3] = "and" /\ op[4] = <<d>>
    BY <2>1 DEF Alu
  <2>3. Read(rg, op[4]) = <<rg[d]>>
    BY <2>2, ReadIs
  <2>4. rg[d] = Shifted
    BY DEF Progress
  <2> QED  BY <2>2, <2>3, <2>4, Values DEF Value, Masked
<1>7. j = 3 => op[2] = s /\ V = Table
  <2> SUFFICES ASSUME j = 3 PROVE op[2] = s /\ V = Table
    OBVIOUS
  <2>1. op = Op(s, "TData", << >>)
    BY DEF storeThreadData
  <2>2. op[2] = s /\ op[3] = "TData" /\ op[4] = << >>
    BY <2>1 DEF Op
  <2>3. Read(rg, op[4]) = << >>
    BY <2>2, ReadIs
  <2> QED  BY <2>2, <2>3, Values DEF Value, Table
<1>8. j = 4 => op[2] = d /\ V = Offset
  <2> SUFFICES ASSUME j = 4 PROVE op[2] = d /\ V = Offset
    OBVIOUS
  <2>1. op = Alu(d, "shl", <<d>>)
    BY DEF storeThreadData
  <2>2. op[2] = d /\ op[3] = "shl" /\ op[4] = <<d>>
    BY <2>1 DEF Alu
  <2>3. Read(rg, op[4]) = <<rg[d]>>
    BY <2>2, ReadIs
  <2>4. rg[d] = Masked
    BY DEF Progress
  <2> QED  BY <2>2, <2>3, <2>4, Values DEF Value, Offset
<1>9. j = 5 => op[2] = d /\ V = Place
  <2> SUFFICES ASSUME j = 5 PROVE op[2] = d /\ V = Place
    OBVIOUS
  <2>1. op = Op(d, "lea", <<s, d>>)
    BY DEF storeThreadData
  <2>2. op[2] = d /\ op[3] = "lea" /\ op[4] = <<s, d>>
    BY <2>1 DEF Op
  <2>3. Read(rg, op[4]) = <<rg[s], rg[d]>>
    BY <2>2, ReadIs
  <2>4. rg[s] = Table /\ rg[d] = Offset
    BY DEF Progress
  <2> QED  BY <2>2, <2>3, <2>4, Values DEF Value, Place
<1>10. j = 6 => op[2] = d /\ V = <<"threaddata", 0>>
  <2> SUFFICES ASSUME j = 6 PROVE op[2] = d /\ V = <<"threaddata", 0>>
    OBVIOUS
  <2>1. op = Op(d, "load", <<d>>)
    BY DEF storeThreadData
  <2>2. op[2] = d /\ op[3] = "load" /\ op[4] = <<d>>
    BY <2>1 DEF Op
  <2>3. Read(rg, op[4]) = <<rg[d]>>
    BY <2>2, ReadIs
  <2>4. rg[d] = Place
    BY DEF Progress
  <2> QED  BY <2>2, <2>3, <2>4, Values DEF Value
<1> HIDE DEF V
<1>11. j \in {0, 1, 2, 3, 4, 5, 6}
  OBVIOUS
<1>12. rg2[op[2]] = V /\ (op[2] = d => rg2[s] = rg[s]) /\ (op[2] = s => rg2[d] = rg[d])
  BY <1>1, <1>2, <1>4, <1>5, <1>6, <1>7, <1>8, <1>9, <1>10, <1>11 DEF V
<1>13. CASE j = 0
  BY <1>4, <1>12, <1>13 DEF Progress
<1>14. CASE j = 1
  BY <1>5, <1>12, <1>14 DEF Progress
<1>15. CASE j = 2
  BY <1>6, <1>12, <1>15 DEF Progress
<1>16. CASE j = 3
  BY <1>7, <1>12, <1>16 DEF Progress
<1>17. CASE j = 4
  BY <1>8, <1>12, <1>17 DEF Progress
<1>18. CASE j = 5
  BY <1>9, <1>12, <1>18 DEF Progress
<1>19. CASE j = 6
  BY <1>10, <1>12, <1>19 DEF Progress
<1> QED  BY <1>11, <1>13, <1>14, <1>15, <1>16, <1>17, <1>18, <1>19

LEMMA RegsFacts ==
    ASSUME NEW p \in Points
    PROVE  /\ Before(p) \subseteq GPRs /\ During(p) \subseteq Before(p) /\ During(p) \subseteq GPRs /\ After(p) \subseteq GPRs
           /\ Bottom(p) \in Int /\ p.sp \in Int /\ Bottom(p) <= p.sp
           /\ \A r \in During(p) : r \in Live(p) \/ (r = p.threadReg /\ p.kind # "threadinit")
           /\ \A r \in After(p) : r \in During(p) \/ (p.kind = "threadinit" /\ r = p.threadReg)
           /\ \A k \in 1 .. Len(Saves(p)) : Saves(p)[k][1] = "push" => Saves(p)[k][2] \in Before(p)
<1>1. NotThreadReg(p) \subseteq GPRs /\ Live(p) \subseteq GPRs
  BY PointFacts DEF NotThreadReg
<1>2. Before(p) \subseteq GPRs /\ During(p) \subseteq Before(p) /\ During(p) \subseteq GPRs /\ After(p) \subseteq GPRs
  BY <1>1 DEF Before, During, After
<1>3. Bottom(p) \in Int /\ p.sp \in Int /\ Bottom(p) <= p.sp
  BY PointFacts DEF Bottom, RedZone
<1>4. ASSUME NEW r \in During(p) PROVE r \in Live(p) \/ (r = p.threadReg /\ p.kind # "threadinit")
  BY <1>4 DEF During, After, Before, NotThreadReg
<1>5. ASSUME NEW r \in After(p) PROVE r \in During(p) \/ (p.kind = "threadinit" /\ r = p.threadReg)
  <2>1. r \in GPRs
    BY <1>2
  <2> QED  BY <2>1 DEF During, Before
<1>6. ASSUME NEW k \in 1 .. Len(Saves(p)), Saves(p)[k][1] = "push" PROVE Saves(p)[k][2] \in Before(p)
  <2>1. Saves(p)[k][2] \in Regs(p) \cup {AX}
    BY <1>6, SavesOf
  <2>2. Regs(p) \subseteq Live(p)
    BY RegsOf
  <2>3. p.threadReg # NoReg => p.threadReg \notin Live(p) /\ p.threadReg # AX
    BY PointFacts
  <2>4. p.kind = "threadinit" => p.threadReg # NoReg
    BY PointFacts
  <2> QED  BY <1>1, <2>1, <2>2, <2>3, <2>4, AxSp DEF Before
<1> QED  BY <1>2, <1>3, <1>4, <1>5, <1>6

LEMMA BodyStep ==
    ASSUME NEW p \in Points, NEW j \in 0 .. Len(Inserted(p)) - 1, NEW op, op = Inserted(p)[j + 1],
           NEW rg, NEW fl, NEW st, NEW rg2, NEW fl2, NEW st2, InBody(p, j, rg, fl, st),
           ComputedBy(op, rg, fl, st, rg2, fl2, st2), op[1] = "op" => rg2 = Write(rg, op[2], Value(op, rg))
    PROVE  InBody(p, j + 1, rg2, fl2, st2)
<1> DEFINE s == Saves(p)
           n == Len(s)
           c == Inserted(p)
           k == j + 1
<1>1. k \in 1 .. Len(c) /\ Plain(p, op) /\ op = c[k]
  <2>1. AllPlain(p, c) /\ Len(c) \in Nat
    BY InsertedPlain, PointAt
  <2>2. k \in 1 .. Len(c)
    BY <2>1
  <2> QED  BY <2>1, <2>2 DEF AllPlain
<1>2. /\ AtDepth(s, n, p.sp, rg) /\ Slots(s, n, p.sp, R0(p), F0, st) /\ InAX(s, n, F0, rg) /\ Cells(Bottom(p), ProgramStack(p), st)
      /\ Kept(s, n, During(p), R0(p), KeptFlags(p), F0, rg, fl)
  BY DEF InBody, Unwinding, Undoable
<1>3. RegistersDefined(op) \cap Live(p) \subseteq Regs(p)
  BY <1>1, RegsOf
<1>4. \A f \in KeptFlags(p) : f \in FlagsDefined(op) => FlagSaved(s, n, f)
  <2>1. ASSUME NEW f \in KeptFlags(p), f \in FlagsDefined(op) PROVE FlagSaved(s, n, f)
    <3>1. Method(p) = "full" \/ (Method(p) = "light" /\ f \in Light)
      BY <1>1, <2>1, MethodOf
    <3>2. f \in Flags
      BY PointFacts
    <3> QED  BY <3>1, <3>2, SavesOf
  <2> QED  BY <2>1
<1>5. RegistersDefined(op) \cap {AX, SP} = {} /\ (p.threadReg \in RegistersDefined(op) => p.kind = "threadinit" \/ p.threadReg = NoReg)
  <2> HIDE DEF c, k
  <2> QED  BY <1>1 DEF Plain, Defines, RegistersDefined
<1>6. /\ st2 = st /\ IsFile(rg) /\ IsFile(rg2) /\ (\A r \in GPRs : r \notin RegistersDefined(op) => rg2[r] = rg[r])
      /\ \A f \in Flags : f \notin FlagsDefined(op) => fl2[f] = fl[f]
  BY <1>2 DEF ComputedBy, AtDepth
<1>7. rg2[SP] = rg[SP] /\ rg2[AX] = rg[AX]
  BY <1>5, <1>6, AxSp
<1>8. AtDepth(s, n, p.sp, rg2) /\ InAX(s, n, F0, rg2)
  BY <1>2, <1>6, <1>7 DEF AtDepth, InAX
<1>9. ASSUME NEW r \in During(p) \ {SP} PROVE Pushed(s, n, r) \/ rg2[r] = R0(p)[r]
  <2>1. Pushed(s, n, r) \/ rg[r] = R0(p)[r]
    BY <1>2 DEF Kept
  <2>2. r \in GPRs /\ (r \in Live(p) \/ (r = p.threadReg /\ p.kind # "threadinit"))
    BY RegsFacts
  <2>3. CASE r \in RegistersDefined(op)
    <3>1. r \in Live(p)
      <4>1. NoReg \notin GPRs
        BY DEF NoReg, GPRs
      <4> QED  BY <1>5, <2>2, <2>3, <4>1
    <3>2. r \in Regs(p)
      BY <1>3, <2>3, <3>1
    <3> QED  BY <3>2, SavesOf
  <2> QED  BY <1>6, <2>1, <2>2, <2>3
<1>10. ASSUME NEW f \in KeptFlags(p) PROVE FlagSaved(s, n, f) \/ fl2[f] = F0[f]
  <2>1. f \in Flags
    BY PointFacts
  <2>2. FlagSaved(s, n, f) \/ fl[f] = F0[f]
    BY <1>2 DEF Kept
  <2> QED  BY <1>4, <1>6, <2>1, <2>2
<1>11. Kept(s, n, During(p), R0(p), KeptFlags(p), F0, rg2, fl2)
  BY <1>9, <1>10 DEF Kept
<1>12. Unwinding(s, n, p.sp, During(p), R0(p), KeptFlags(p), F0, Bottom(p), ProgramStack(p), rg2, fl2, st2)
  BY <1>2, <1>6, <1>8, <1>11 DEF Unwinding, Undoable
<1>13. ASSUME p.kind = "threadinit" PROVE Progress(j + 1, Scratch(p), p.threadReg, rg2)
  <2> DEFINE a == Scratch(p)
             d == p.threadReg
  <2>1. a \in GPRs /\ d \in GPRs /\ a # d /\ c = storeThreadData(a, d) /\ Defines(p, a) /\ Defines(p, d)
    BY <1>13, ScratchIs DEF Defines
  <2>2. Len(c) = 7
    BY <2>1, ThreadDataPlain
  <2>3. j \in 0 .. 6
    BY <2>2
  <2>4. op[1] = "op"
    <3>1. k \in 1 .. 7
      BY <1>1, <2>2
    <3>2. op = storeThreadData(a, d)[k]
      BY <1>1, <2>1
    <3> HIDE DEF a, d, c
    <3>3. \A i \in 1 .. 7 : storeThreadData(a, d)[i][1] = "op"
      BY DEF storeThreadData, Op, Alu
    <3> QED  BY <3>1, <3>2, <3>3
  <2>5. rg2 = Write(rg, op[2], Value(op, rg))
    BY <2>4
  <2>6. Progress(j, a, d, rg)
    BY <1>13 DEF InBody
  <2>7. op = storeThreadData(a, d)[j + 1]
    BY <1>1, <2>1
  <2> HIDE DEF a, d, c, k
  <2>8. Progress(j + 1, a, d, rg2)
    BY <1>6, <2>1, <2>3, <2>5, <2>6, <2>7, ProgressStep
  <2> QED  BY <2>8 DEF a, d
<1> QED  BY <1>12, <1>13 DEF InBody

LEMMA BodyBegins ==
    ASSUME NEW p \in Points, NEW rg, NEW fl, NEW st, NEW n, n = Len(Saves(p)),
           Saving(Saves(p), n, p.sp, Before(p), R0(p), F0, Bottom(p), ProgramStack(p), rg, fl, st)
    PROVE  InBody(p, 0, rg, fl, st)
<1> DEFINE s == Saves(p)
<1>1. Lahfed(s, n) => Pushed(s, n, AX)
  <2>1. SavesWell(s) /\ n \in 0 .. Len(s)
    <3>1. n \in Nat
      BY PointAt
    <3> QED  BY <3>1, SavesOf
  <2> QED  BY <2>1, LahfAfterPush
<1>2. During(p) \subseteq Before(p) /\ KeptFlags(p) \subseteq Flags
  BY RegsFacts, PointFacts
<1> HIDE DEF s
<1>3. Unwinding(s, n, p.sp, During(p), R0(p), KeptFlags(p), F0, Bottom(p), ProgramStack(p), rg, fl, st)
  BY <1>1, <1>2, SavedIsKept DEF s
<1>4. Progress(0, Scratch(p), p.threadReg, rg)
  BY DEF Progress
<1> QED  BY <1>3, <1>4 DEF InBody, s

LEMMA BodyEnds ==
    ASSUME NEW p \in Points, p.kind # "replace", NEW rg, NEW fl, NEW st, InBody(p, Len(Body(p)), rg, fl, st), NEW n, n = Len(Saves(p))
    PROVE  Unwinding(Saves(p), n, p.sp, After(p), R0(p), KeptFlags(p), F0, Bottom(p), ProgramStack(p), rg, fl, st)
<1> DEFINE s == Saves(p)
<1>1. /\ Undoable(s, n, p.sp, R0(p), F0, Bottom(p), ProgramStack(p), rg, st)
      /\ Kept(s, n, During(p), R0(p), KeptFlags(p), F0, rg, fl)
      /\ p.kind = "threadinit" => Progress(Len(Body(p)), Scratch(p), p.threadReg, rg)
  BY DEF InBody, Unwinding
<1>2. p.kind = "threadinit" => rg[p.threadReg] = R0(p)[p.threadReg]
  <2> SUFFICES ASSUME p.kind = "threadinit" PROVE rg[p.threadReg] = R0(p)[p.threadReg]
    OBVIOUS
  <2> DEFINE a == Scratch(p)
             d == p.threadReg
  <2>1. a \in GPRs /\ d \in GPRs \ {AX, SP} /\ Inserted(p) = storeThreadData(a, d) /\ Defines(p, a) /\ Defines(p, d)
    BY ScratchIs DEF Defines
  <2>2. Len(Inserted(p)) = 7
    BY <2>1, ThreadDataPlain
  <2>3. Len(Body(p)) = 7
    <3>1. ~Calls(p)
      BY DEF Calls
    <3> QED  BY <2>2, <3>1, BodyLength
  <2>4. rg[d] = <<"threaddata", 0>>
    BY <1>1, <2>3 DEF Progress
  <2>5. R0(p)[d] = <<"threaddata", 0>>
    BY <2>1 DEF R0
  <2> QED  BY <2>4, <2>5
<1>3. \A r \in After(p) : r \in During(p) \/ (p.kind = "threadinit" /\ r = p.threadReg)
  BY RegsFacts
<1>4. Kept(s, n, After(p), R0(p), KeptFlags(p), F0, rg, fl)
  BY <1>1, <1>2, <1>3 DEF Kept
<1> QED  BY <1>1, <1>4 DEF Unwinding

\* The function that replaces another one keeps what a call keeps.
LEMMA ReplacedCall ==
    ASSUME NEW p \in Points, p.kind = "replace", NEW j, NEW rg, NEW fl, NEW st, InBody(p, j, rg, fl, st),
           NEW rg2, IsFile(rg2), rg2[SP] = rg[SP], NEW fl2, NEW st2, Cells(rg[SP][2], st, st2), NEW n, n = Len(Saves(p))
    PROVE  Unwinding(Saves(p), n, p.sp, After(p), R0(p), KeptFlags(p), F0, Bottom(p), ProgramStack(p), rg2, fl2, st2)
<1> DEFINE s == Saves(p)
           b == p.sp - Depth(s, n)
<1>1. /\ AtDepth(s, n, p.sp, rg) /\ Slots(s, n, p.sp, R0(p), F0, st) /\ Cells(Bottom(p), ProgramStack(p), st)
  BY DEF InBody, Unwinding, Undoable
<1>2. SavesWell(s) /\ n \in 0 .. Len(s) /\ ~Lahfed(s, n) /\ p.sp \in Int
  <2>1. Method(p) = "none"
    BY MethodOf
  <2>2. n \in Nat
    BY PointAt
  <2> QED  BY <2>1, <2>2, SavesOf, RegsFacts
<1>3. Depth(s, n) \in Int /\ Depth(s, n) >= 0
  <2>1. n \in 0 .. n
    BY <1>2
  <2> QED  BY <1>2, <2>1, DepthGrows
<1>4. b \in Int /\ rg[SP][2] = b /\ b <= Bottom(p) /\ Bottom(p) \in Int
  <2>1. rg[SP][2] = b
    BY <1>1 DEF AtDepth, SPvalue
  <2>2. Bottom(p) = p.sp
    BY DEF Bottom
  <2> QED  BY <1>2, <1>3, <2>1, <2>2
<1>5. AtDepth(s, n, p.sp, rg2)
  BY <1>1 DEF AtDepth
<1> HIDE DEF s
<1>6. Slots(s, n, p.sp, R0(p), F0, st2)
  <2>1. b <= p.sp - Depth(s, n)
    BY <1>4
  <2>2. Cells(b, st, st2)
    BY <1>4
  <2> HIDE DEF b
  <2> QED  BY <1>1, <1>2, <1>4, <2>1, <2>2, SlotsKept
<1>7. Cells(Bottom(p), ProgramStack(p), st2)
  <2>1. Cells(b, st, st2)
    BY <1>4
  <2> HIDE DEF b
  <2> QED  BY <1>1, <1>4, <2>1, CellsKept
<1>8. InAX(s, n, F0, rg2)
  BY <1>2 DEF InAX
<1>9. Kept(s, n, After(p), R0(p), KeptFlags(p), F0, rg2, fl2)
  BY DEF Kept, After, KeptFlags
<1> QED  BY <1>5, <1>6, <1>7, <1>8, <1>9 DEF Unwinding, Undoable, s

-----------------------------------------------------------------------------
(* The call of the wrapper, and its return.                                 *)

\* Where the wrapper finds its return address.
Entered(p) == p.sp - Depth(Saves(p), Len(Saves(p))) - 8
\* What the point had in registers, flags and memory when it called.
CallFrame(p, Rc, Fc, Mc) ==
    /\ p.kind \in {"check", "call"}
    /\ InBody(p, Len(Inserted(p)), Rc, Fc, Mc)
    /\ Entered(p) \in DOMAIN Mc /\ Mc[Entered(p)] = <<"return", Len(Saves(p)) + Len(Body(p)) + 1>>

LEMMA EnteredIs ==
    ASSUME NEW p \in Points
    PROVE  /\ SavesWell(Saves(p)) /\ Len(Saves(p)) \in 0 .. Len(Saves(p)) /\ Len(Saves(p)) \in Nat
           /\ Depth(Saves(p), Len(Saves(p))) \in Int /\ Entered(p) \in Int
           /\ Entered(p) + 8 = p.sp - Depth(Saves(p), Len(Saves(p)))
           /\ Calls(p) => Entered(p) < Bottom(p)
<1> DEFINE s == Saves(p)
           n == Len(s)
<1>1. SavesWell(s) /\ n \in Nat /\ n \in 0 .. n
  BY SavesOf DEF SavesWell
<1>2. Depth(s, n) \in Int
  BY <1>1, DepthType
<1>3. p.sp \in Int
  BY RegsFacts
<1> QED  BY <1>1, <1>2, <1>3, SavesOf DEF Entered

LEMMA CallStarts ==
    ASSUME NEW p \in Points, p.kind \in {"check", "call"}, NEW rg, NEW fl, NEW st, InBody(p, Len(Inserted(p)), rg, fl, st),
           NEW st2, st2 = PutAt(st, rg[SP][2] - 8, <<"return", Len(Saves(p)) + Len(Body(p)) + 1>>),
           NEW rg2, rg2 = MovedTo(rg, rg[SP][2] - 8), NEW fl2, \A f \in Flags : fl2[f] = fl[f]
    PROVE  /\ CallFrame(p, rg, fl, st2)
           /\ Saving(WSaves, 0, Entered(p), GPRs, rg, fl, Entered(p), st2, rg2, fl2, st2)
<1> DEFINE s == Saves(p)
           n == Len(s)
           E == Entered(p)
           b == E + 8
           v == <<"return", Len(s) + Len(Body(p)) + 1>>
<1>1. /\ AtDepth(s, n, p.sp, rg) /\ Slots(s, n, p.sp, R0(p), F0, st) /\ InAX(s, n, F0, rg) /\ Cells(Bottom(p), ProgramStack(p), st)
      /\ Kept(s, n, During(p), R0(p), KeptFlags(p), F0, rg, fl)
  BY DEF InBody, Unwinding, Undoable
<1>2. SavesWell(s) /\ n \in 0 .. Len(s) /\ p.sp \in Int /\ E \in Int /\ Bottom(p) \in Int /\ b = p.sp - Depth(s, n) /\ E < Bottom(p)
      /\ b \in Int /\ b <= p.sp - Depth(s, n) /\ E < b
  <2>1. Calls(p)
    BY DEF Calls
  <2> QED  BY <2>1, EnteredIs, RegsFacts
<1>3. rg[SP][2] - 8 = E /\ IsFile(rg)
  <2>1. rg[SP] = SPvalue(b) /\ IsFile(rg)
    BY <1>1, <1>2 DEF AtDepth
  <2>2. rg[SP][2] = b
    BY <2>1 DEF SPvalue
  <2> QED  BY <1>2, <2>1, <2>2
<1>4. st2 = PutAt(st, E, v) /\ rg2 = MovedTo(rg, E)
  BY <1>3
<1>5. E \in DOMAIN st2 /\ st2[E] = v
  BY <1>4, PutAtIs
<1> HIDE DEF s, E, b, v
<1>6. Cells(b, st, st2) /\ Cells(Bottom(p), st, st2)
  BY <1>2, <1>4, PutKeeps
<1>7. Slots(s, n, p.sp, R0(p), F0, st2)
  BY <1>1, <1>2, <1>6, SlotsKept
<1>8. Cells(Bottom(p), ProgramStack(p), st2)
  <2>1. Bottom(p) <= Bottom(p)
    BY <1>2
  <2> QED  BY <1>1, <1>2, <1>6, <2>1, CellsKept
<1>9. InBody(p, Len(Inserted(p)), rg, fl, st2)
  BY <1>1, <1>7, <1>8 DEF InBody, Unwinding, Undoable, s
<1>10. CallFrame(p, rg, fl, st2)
  BY <1>5, <1>9 DEF CallFrame, E, v, s
<1>11. IsFile(rg2) /\ rg2[SP] = SPvalue(E) /\ \A r \in GPRs : r # SP => rg2[r] = rg[r]
  BY <1>3, <1>4, MovedToIs
<1> DEFINE z == 0
<1>12. Depth(WSaves, z) = 0 /\ ~Lahfed(WSaves, z) /\ z = 0
  <2>1. SavesWell(WSaves) /\ z \in 0 .. Len(WSaves) /\ z = 0
    <3>1. SavesWell(WSaves)
      BY WSavesIs
    <3> QED  BY <3>1 DEF SavesWell
  <2>2. ~Lahfed(WSaves, z)
    BY DEF Lahfed
  <2> HIDE DEF z
  <2> QED  BY <2>1, <2>2, DepthType
<1>13. AtDepth(WSaves, z, E, rg2)
  <2>1. E - Depth(WSaves, z) = E
    BY <1>2, <1>12
  <2> QED  BY <1>11, <2>1 DEF AtDepth
<1>14. Slots(WSaves, z, E, rg, fl, st2)
  BY DEF Slots
<1>15. InAX(WSaves, z, fl, rg2)
  BY <1>12 DEF InAX
<1>16. Cells(E, st2, st2)
  BY DEF Cells
<1>17. Same(WSaves, z, GPRs, rg, fl, rg2, fl2)
  BY <1>11 DEF Same
<1> QED  BY <1>10, <1>13, <1>14, <1>15, <1>16, <1>17 DEF Saving, Undoable, E

LEMMA CallReturns ==
    ASSUME NEW p \in Points, NEW Rc, NEW Fc, NEW Mc, CallFrame(p, Rc, Fc, Mc), NEW rg, NEW fl, NEW st, NEW E, E = Entered(p),
           Unwinding(WSaves, 0, E, GPRs, Rc, Flags, Fc, E, Mc, rg, fl, st),
           NEW rg2, rg2 = MovedTo(rg, rg[SP][2] + 8), NEW fl2, \A f \in Flags : fl2[f] = fl[f]
    PROVE  /\ TopOf(st, rg[SP][2])[2] = Len(Saves(p)) + Len(Body(p)) + 1
           /\ InBody(p, Len(Body(p)), rg2, fl2, st)
<1> DEFINE s == Saves(p)
           n == Len(s)
           b == E + 8
           v == <<"return", Len(s) + Len(Body(p)) + 1>>
<1>1. /\ AtDepth(s, n, p.sp, Rc) /\ Slots(s, n, p.sp, R0(p), F0, Mc) /\ InAX(s, n, F0, Rc) /\ Cells(Bottom(p), ProgramStack(p), Mc)
      /\ Kept(s, n, During(p), R0(p), KeptFlags(p), F0, Rc, Fc)
      /\ E \in DOMAIN Mc /\ Mc[E] = v /\ p.kind \in {"check", "call"}
  BY DEF CallFrame, InBody, Unwinding, Undoable
<1>2. SavesWell(s) /\ n \in 0 .. Len(s) /\ p.sp \in Int /\ E \in Int /\ Bottom(p) \in Int /\ b = p.sp - Depth(s, n) /\ E < Bottom(p)
      /\ b \in Int /\ E <= p.sp - Depth(s, n) /\ E < b /\ E <= Bottom(p)
  <2>1. Calls(p)
    BY <1>1 DEF Calls
  <2> QED  BY <2>1, EnteredIs, RegsFacts
<1> DEFINE z == 0
<1>3. /\ AtDepth(WSaves, z, E, rg) /\ Cells(E, Mc, st) /\ Kept(WSaves, z, GPRs, Rc, Flags, Fc, rg, fl)
  BY DEF Unwinding, Undoable
<1>4. Depth(WSaves, z) = 0 /\ (\A r : ~Pushed(WSaves, z, r)) /\ (\A f : ~FlagSaved(WSaves, z, f))
  <2>1. SavesWell(WSaves) /\ z \in 0 .. Len(WSaves) /\ z = 0
    <3>1. SavesWell(WSaves)
      BY WSavesIs
    <3> QED  BY <3>1 DEF SavesWell
  <2>2. (\A r : ~Pushed(WSaves, z, r)) /\ (\A f : ~FlagSaved(WSaves, z, f))
    BY DEF Pushed, FlagSaved
  <2> HIDE DEF z
  <2> QED  BY <2>1, <2>2, DepthType
<1> HIDE DEF z, s, b, v
<1>5. rg[SP] = SPvalue(E) /\ rg[SP][2] = E /\ IsFile(rg)
  <2>1. E - Depth(WSaves, z) = E
    BY <1>2, <1>4
  <2>2. rg[SP] = SPvalue(E) /\ IsFile(rg)
    BY <1>3, <2>1 DEF AtDepth
  <2> QED  BY <2>2 DEF SPvalue
<1>6. /\ \A r \in GPRs \ {SP} : rg[r] = Rc[r]
      /\ \A f \in Flags : fl2[f] = Fc[f]
  BY <1>3, <1>4 DEF Kept
<1>7. TopOf(st, rg[SP][2]) = v
  <2>1. E \in DOMAIN st /\ st[E] = v
    BY <1>1, <1>2, <1>3 DEF Cells
  <2> QED  BY <1>5, <2>1 DEF TopOf
<1>8. rg2 = MovedTo(rg, b)
  BY <1>5 DEF b
<1>9. IsFile(rg2) /\ rg2[SP] = SPvalue(b) /\ \A r \in GPRs : r # SP => rg2[r] = Rc[r]
  BY <1>5, <1>6, <1>8, MovedToIs
<1>10. AtDepth(s, n, p.sp, rg2)
  BY <1>2, <1>9 DEF AtDepth
<1>11. Slots(s, n, p.sp, R0(p), F0, st)
  BY <1>1, <1>2, <1>3, SlotsKept
<1>12. InAX(s, n, F0, rg2)
  BY <1>1, <1>9, AxSp DEF InAX
<1>13. Cells(Bottom(p), ProgramStack(p), st)
  BY <1>1, <1>2, <1>3, CellsKept
<1>14. Kept(s, n, During(p), R0(p), KeptFlags(p), F0, rg2, fl2)
  <2>1. During(p) \subseteq GPRs /\ KeptFlags(p) \subseteq Flags
    BY RegsFacts, PointFacts
  <2> QED  BY <1>1, <1>6, <1>9, <2>1 DEF Kept
<1>15. p.kind # "threadinit"
  BY <1>1
<1> QED  BY <1>7, <1>10, <1>11, <1>12, <1>13, <1>14, <1>15 DEF InBody, Unwinding, Undoable, v, s

-----------------------------------------------------------------------------
(* The middle of the wrapper: the stack is aligned, the floating point      *)
(* registers are saved, the function is called, and everything goes back.   *)

Middle(q) == IF q < 6 THEN AlignStack[q + 1] ELSE CallStack[q - 5]
Aligned(q, Q, A, rg, st, f) ==
    /\ IsFile(rg)
    /\ q \in {0, 1, 15} => rg[SP] = SPvalue(Q)
    /\ q \in {2, 3} => rg[SP] = SPvalue(Q - StackAlign)
    /\ q \in {4, 6, 13} => rg[SP] = SPvalue(A)
    /\ q \in {5, 14} => rg[SP] = SPvalue(A + 8)
    /\ q \in {7, 8, 11, 12} => rg[SP] = SPvalue(A - StackAlign)
    /\ q \in {9, 10} => rg[SP] = SPvalue(A - StackAlign - StackAlign)
    /\ q \in {1, 2, 3, 4, 5, 14} => rg[R14] = SPvalue(Q)
    /\ q \in 6 .. 13 => A \in DOMAIN st /\ st[A] = SPvalue(Q)
    /\ q \in 8 .. 11 => A - StackAlign \in DOMAIN st /\ st[A - StackAlign] = NoneYet
    /\ q \notin {10, 11} => f = NoneYet
\* Where the stack is aligned to.
Base16(Q) == (Q - StackAlign) - ((Q - StackAlign) % StackAlign)

MiddleBy(op, rg, st, f, rg2, st2, f2) ==
    /\ op[1] = "mov" => rg2 = Write(rg, op[3], rg[op[2]]) /\ st2 = st /\ f2 = f
    /\ op[1] = "addsp" => rg2 = MovedTo(rg, rg[SP][2] + op[2]) /\ st2 = st /\ f2 = f
    /\ op[1] = "op" => (\E v : rg2 = Write(rg, op[2], v)) /\ st2 = st /\ f2 = f
    /\ op[1] = "andsp" => rg2 = MovedTo(rg, rg[SP][2] - (rg[SP][2] % StackAlign)) /\ st2 = st /\ f2 = f
    /\ op[1] = "pop" =>
          rg2 = Write(MovedTo(rg, rg[SP][2] + 8), op[2], TopOf(st, rg[SP][2])) /\ st2 = st /\ f2 = f
    /\ op[1] = "push" =>
          st2 = PutAt(st, rg[SP][2] - 8, rg[op[2]]) /\ rg2 = MovedTo(rg, rg[SP][2] - 8) /\ f2 = f
    /\ op[1] = "fxsave" => st2 = PutAt(st, rg[SP][2], f) /\ rg2 = rg /\ f2 = f
    /\ op[1] = "fxrstor" => f2 = TopOf(st, rg[SP][2]) /\ rg2 = rg /\ st2 = st
    /\ op[1] = "external" => IsFile(rg2) /\ rg2[SP] = rg[SP] /\ Cells(rg[SP][2], st, st2)

LEMMA MiddleIs ==
    /\ Middle(0) = <<"mov", SP, R14>> /\ Middle(1) = <<"addsp", -StackAlign>>
    /\ Middle(2)[1] = "op" /\ Middle(2)[2] = R15 /\ Middle(3) = <<"andsp">>
    /\ Middle(4) = <<"pop", R15>> /\ Middle(5) = <<"push", R14>>
    /\ Middle(6) = <<"addsp", -StackAlign>> /\ Middle(7) = <<"fxsave">>
    /\ Middle(8) = <<"addsp", -StackAlign>> /\ Middle(9) = <<"external">>
    /\ Middle(10) = <<"addsp", StackAlign>> /\ Middle(11) = <<"fxrstor">>
    /\ Middle(12) = <<"addsp", StackAlign>> /\ Middle(13) = <<"pop", R14>> /\ Middle(14) = <<"mov", R14, SP>>
<1>1. /\ AlignStack[1] = <<"mov", SP, R14>> /\ AlignStack[2] = <<"addsp", -StackAlign>>
      /\ AlignStack[3][1] = "op" /\ AlignStack[3][2] = R15 /\ AlignStack[4] = <<"andsp">>
      /\ AlignStack[5] = <<"pop", R15>> /\ AlignStack[6] = <<"push", R14>>
  BY DEF AlignStack, Mov, AddSP, Op, Pop, Push
<1>2. /\ CallStack[1] = <<"addsp", -StackAlign>> /\ CallStack[2] = <<"fxsave">>
      /\ CallStack[3] = <<"addsp", -StackAlign>> /\ CallStack[4] = <<"external">>
      /\ CallStack[5] = <<"addsp", StackAlign>> /\ CallStack[6] = <<"fxrstor">>
      /\ CallStack[7] = <<"addsp", StackAlign>> /\ CallStack[8] = <<"pop", R14>> /\ CallStack[9] = <<"mov", R14, SP>>
  BY DEF CallStack, Mov, AddSP, Pop
<1>3. /\ Middle(0) = AlignStack[1] /\ Middle(1) = AlignStack[2] /\ Middle(2) = AlignStack[3]
      /\ Middle(3) = AlignStack[4] /\ Middle(4) = AlignStack[5] /\ Middle(5) = AlignStack[6]
      /\ Middle(6) = CallStack[1] /\ Middle(7) = CallStack[2] /\ Middle(8) = CallStack[3]
      /\ Middle(9) = CallStack[4] /\ Middle(10) = CallStack[5] /\ Middle(11) = CallStack[6]
      /\ Middle(12) = CallStack[7] /\ Middle(13) = CallStack[8] /\ Middle(14) = CallStack[9]
  BY DEF Middle
<1> QED  BY <1>1, <1>2, <1>3

LEMMA BaseBelow ==
    ASSUME NEW Q \in Int
    PROVE  Base16(Q) \in Int /\ Base16(Q) < Q /\ StackAlign \in Int /\ StackAlign > 0
<1> DEFINE x == Q - StackAlign
           y == x % StackAlign
<1>1. x \in Int /\ x < Q /\ StackAlign \in Nat /\ StackAlign > 0
  BY Sizes
<1> HIDE DEF x
<1>2. y \in 0 .. StackAlign - 1
  BY <1>1
<1> HIDE DEF y
<1>3. x - y \in Int /\ x - y < Q
  BY <1>1, <1>2
<1> QED  BY <1>1, <1>3 DEF Base16, x, y

LEMMA R14Is == R14 \in GPRs /\ R15 \in GPRs /\ R14 # SP /\ R15 # SP /\ R14 # R15 /\ SP \in GPRs
  BY DEF R14, R15, GPRs, SP

LEMMA MiddleMoves ==
    ASSUME NEW op, NEW rg, NEW st, NEW f, NEW rg2, NEW st2, NEW f2, MiddleBy(op, rg, st, f, rg2, st2, f2),
           IsFile(rg), NEW a \in Int, rg[SP] = SPvalue(a), op[1] \in {"mov", "addsp", "op", "andsp", "pop"}
    PROVE  /\ st2 = st /\ f2 = f /\ IsFile(rg2) /\ Cells(a, st, st2)
           /\ op[1] = "mov" /\ op[3] \in GPRs => rg2[op[3]] = rg[op[2]] /\ \A r \in GPRs : r # op[3] => rg2[r] = rg[r]
           /\ op[1] = "addsp" => rg2[SP] = SPvalue(a + op[2]) /\ \A r \in GPRs : r # SP => rg2[r] = rg[r]
           /\ op[1] = "op" => \A r \in GPRs : r # op[2] => rg2[r] = rg[r]
           /\ op[1] = "andsp" => rg2[SP] = SPvalue(a - (a % StackAlign)) /\ \A r \in GPRs : r # SP => rg2[r] = rg[r]
           /\ op[1] = "pop" /\ op[2] \in GPRs \ {SP} =>
                /\ rg2[SP] = SPvalue(a + 8) /\ rg2[op[2]] = TopOf(st, a)
                /\ \A r \in GPRs : r # SP /\ r # op[2] => rg2[r] = rg[r]
<1>1. rg[SP][2] = a
  BY DEF SPvalue
<1>2. st2 = st /\ f2 = f
  BY DEF MiddleBy
<1>3. Cells(a, st, st2)
  BY <1>2 DEF Cells
<1>4. ASSUME op[1] = "mov"
      PROVE  IsFile(rg2) /\ (op[3] \in GPRs => rg2[op[3]] = rg[op[2]] /\ \A r \in GPRs : r # op[3] => rg2[r] = rg[r])
  <2>1. rg2 = Write(rg, op[3], rg[op[2]])
    BY <1>4 DEF MiddleBy
  <2> QED  BY <2>1, Written
<1>5. ASSUME op[1] = "addsp"
      PROVE  IsFile(rg2) /\ rg2[SP] = SPvalue(a + op[2]) /\ \A r \in GPRs : r # SP => rg2[r] = rg[r]
  <2>1. rg2 = MovedTo(rg, a + op[2])
    BY <1>1, <1>5 DEF MiddleBy
  <2> QED  BY <2>1, MovedToIs
<1>6. ASSUME op[1] = "op" PROVE IsFile(rg2) /\ \A r \in GPRs : r # op[2] => rg2[r] = rg[r]
  <2>1. PICK v : rg2 = Write(rg, op[2], v)
    BY <1>6 DEF MiddleBy
  <2> QED  BY <2>1, Written
<1>7. ASSUME op[1] = "andsp"
      PROVE  IsFile(rg2) /\ rg2[SP] = SPvalue(a - (a % StackAlign)) /\ \A r \in GPRs : r # SP => rg2[r] = rg[r]
  <2>1. rg2 = MovedTo(rg, a - (a % StackAlign))
    BY <1>1, <1>7 DEF MiddleBy
  <2> QED  BY <2>1, MovedToIs
<1>8. ASSUME op[1] = "pop"
      PROVE  /\ IsFile(rg2)
             /\ op[2] \in GPRs \ {SP} =>
                /\ rg2[SP] = SPvalue(a + 8) /\ rg2[op[2]] = TopOf(st, a)
                /\ \A r \in GPRs : r # SP /\ r # op[2] => rg2[r] = rg[r]
  <2> DEFINE mid == MovedTo(rg, a + 8)
             v == TopOf(st, a)
  <2>1. rg2 = Write(mid, op[2], v)
    BY <1>1, <1>8 DEF MiddleBy
  <2>2. IsFile(mid) /\ mid[SP] = SPvalue(a + 8) /\ \A r \in GPRs : r # SP => mid[r] = rg[r]
    BY MovedToIs
  <2> HIDE DEF mid, v
  <2>3. /\ IsFile(rg2) /\ (op[2] \in GPRs => rg2[op[2]] = v)
        /\ \A r \in GPRs : r # op[2] => rg2[r] = mid[r]
    BY <2>1, <2>2, Written
  <2> QED  BY <2>2, <2>3, AxSp DEF v
<1> QED  BY <1>2, <1>3, <1>4, <1>5, <1>6, <1>7, <1>8

LEMMA MiddleStores ==
    ASSUME NEW op, NEW rg, NEW st, NEW f, NEW rg2, NEW st2, NEW f2, MiddleBy(op, rg, st, f, rg2, st2, f2),
           IsFile(rg), NEW a \in Int, rg[SP] = SPvalue(a), op[1] \in {"push", "fxsave", "fxrstor", "external"}
    PROVE  /\ IsFile(rg2)
           /\ op[1] = "push" =>
                /\ f2 = f /\ rg2[SP] = SPvalue(a - 8) /\ (\A r \in GPRs : r # SP => rg2[r] = rg[r])
                /\ Cells(a - 7, st, st2) /\ a - 8 \in DOMAIN st2 /\ st2[a - 8] = rg[op[2]]
           /\ op[1] = "fxsave" =>
                rg2 = rg /\ f2 = f /\ Cells(a + 1, st, st2) /\ a \in DOMAIN st2 /\ st2[a] = f
           /\ op[1] = "fxrstor" => rg2 = rg /\ st2 = st /\ Cells(a, st, st2) /\ f2 = TopOf(st, a)
           /\ op[1] = "external" => rg2[SP] = SPvalue(a) /\ Cells(a, st, st2)
<1>1. rg[SP][2] = a
  BY DEF SPvalue
<1>2. ASSUME op[1] = "push"
      PROVE  /\ f2 = f /\ IsFile(rg2) /\ rg2[SP] = SPvalue(a - 8) /\ (\A r \in GPRs : r # SP => rg2[r] = rg[r])
             /\ Cells(a - 7, st, st2) /\ a - 8 \in DOMAIN st2 /\ st2[a - 8] = rg[op[2]]
  <2> DEFINE b == a - 8
             c == a - 7
             v == rg[op[2]]
  <2>1. b \in Int /\ c \in Int /\ b < c
    OBVIOUS
  <2>2. st2 = PutAt(st, b, v) /\ rg2 = MovedTo(rg, b) /\ f2 = f
    BY <1>1, <1>2 DEF MiddleBy
  <2> HIDE DEF b, c, v
  <2>3. Cells(c, st, st2) /\ b \in DOMAIN st2 /\ st2[b] = v
    BY <2>1, <2>2, PutKeeps, PutAtIs
  <2>4. IsFile(rg2) /\ rg2[SP] = SPvalue(b) /\ \A r \in GPRs : r # SP => rg2[r] = rg[r]
    BY <2>2, MovedToIs
  <2> QED  BY <2>2, <2>3, <2>4 DEF b, c, v
<1>3. ASSUME op[1] = "fxsave"
      PROVE  rg2 = rg /\ f2 = f /\ Cells(a + 1, st, st2) /\ a \in DOMAIN st2 /\ st2[a] = f
  <2> DEFINE b == a + 1
  <2>1. b \in Int /\ a < b
    OBVIOUS
  <2>2. st2 = PutAt(st, a, f) /\ rg2 = rg /\ f2 = f
    BY <1>1, <1>3 DEF MiddleBy
  <2> HIDE DEF b
  <2>3. Cells(b, st, st2) /\ a \in DOMAIN st2 /\ st2[a] = f
    BY <2>1, <2>2, PutKeeps, PutAtIs
  <2> QED  BY <2>2, <2>3 DEF b
<1>4. ASSUME op[1] = "fxrstor" PROVE rg2 = rg /\ st2 = st /\ Cells(a, st, st2) /\ f2 = TopOf(st, a)
  <2>1. rg2 = rg /\ st2 = st /\ f2 = TopOf(st, a)
    BY <1>1, <1>4 DEF MiddleBy
  <2> QED  BY <2>1 DEF Cells
<1>5. ASSUME op[1] = "external" PROVE IsFile(rg2) /\ rg2[SP] = SPvalue(a) /\ Cells(a, st, st2)
  BY <1>1, <1>5 DEF MiddleBy
<1> QED  BY <1>2, <1>3, <1>4, <1>5

LEMMA MiddleStep ==
    ASSUME NEW q \in 0 .. 14, NEW Q \in Int, NEW A, A = Base16(Q), NEW rg, NEW st, NEW f, NEW rg2, NEW st2, NEW f2,
           Aligned(q, Q, A, rg, st, f), NEW op, op = Middle(q), MiddleBy(op, rg, st, f, rg2, st2, f2)
    PROVE  Aligned(q + 1, Q, A, rg2, st2, f2) /\ Cells(Q, st, st2)
<1>1. A \in Int /\ A < Q /\ StackAlign \in Int /\ StackAlign > 0
  BY BaseBelow
<1>2. IsFile(rg)
  BY DEF Aligned
<1> DEFINE B == A - StackAlign
           C == A - StackAlign - StackAlign
           D == Q - StackAlign
<1>3. /\ B \in Int /\ C \in Int /\ D \in Int /\ C < B /\ B < A /\ D < Q /\ A + 8 \in Int /\ A + 8 - 8 = A
      /\ Q + (-StackAlign) = D /\ A + (-StackAlign) = B /\ B + (-StackAlign) = C /\ C + StackAlign = B /\ B + StackAlign = A
  BY <1>1
<1>4. \A x, y \in Int : x <= y /\ Cells(x, st, st2) => Cells(y, st, st2)
  BY DEF Cells
<1>5. \A x, y \in Int : x <= y /\ Cells(x, st, st2) /\ y \in DOMAIN st => y \in DOMAIN st2 /\ st2[y] = st[y]
  BY DEF Cells
<1>6. A = D - (D % StackAlign)
  BY DEF Base16
<1>10. CASE q = 0
  <2>1. op = Middle(0) /\ rg[SP] = SPvalue(Q) /\ f = NoneYet
    BY <1>10 DEF Aligned
  <2>2. op = <<"mov", SP, R14>>
    BY <2>1, MiddleIs
  <2> HIDE DEF B, C, D
  <2>3. IsFile(rg2) /\ f2 = f /\ st2 = st /\ rg2[R14] = rg[SP] /\ rg2[SP] = rg[SP]
    <3> DEFINE a == Q
    <3>1. a \in Int /\ rg[SP] = SPvalue(a) /\ op[1] = "mov"
      BY <1>1, <1>3, <1>6, <2>1, <2>2
    <3> HIDE DEF a
    <3>2. MiddleBy(op, rg, st, f, rg2, st2, f2) /\ op[1] \in {"mov"}
      BY <3>1
    <3>3. op[2] = SP /\ op[3] = R14
      BY <2>2
    <3>4. /\ IsFile(rg2) /\ f2 = f /\ st2 = st
          /\ op[3] \in GPRs => rg2[op[3]] = rg[op[2]] /\ \A r \in GPRs : r # op[3] => rg2[r] = rg[r]
      BY <1>2, <3>1, <3>2, MiddleMoves
    <3> QED  BY <3>3, <3>4, R14Is
  <2>4. Cells(Q, st, st2)
    BY <2>3 DEF Cells
  <2> QED  BY <1>10, <2>1, <2>3, <2>4 DEF Aligned, B, C, D
<1>11. CASE q = 1
  <2>1. op = Middle(1) /\ rg[SP] = SPvalue(Q) /\ rg[R14] = SPvalue(Q) /\ f = NoneYet
    BY <1>11 DEF Aligned
  <2>2. op = <<"addsp", -StackAlign>>
    BY <2>1, MiddleIs
  <2> HIDE DEF B, C, D
  <2>3. IsFile(rg2) /\ f2 = f /\ st2 = st /\ rg2[SP] = SPvalue(D) /\ rg2[R14] = rg[R14]
    <3> DEFINE a == Q
    <3>1. a \in Int /\ rg[SP] = SPvalue(a) /\ op[1] = "addsp" /\ a + op[2] = D
      BY <1>1, <1>3, <1>6, <2>1, <2>2
    <3> HIDE DEF a
    <3>2. MiddleBy(op, rg, st, f, rg2, st2, f2) /\ op[1] \in {"addsp"}
      BY <3>1
    <3> QED  BY <1>2, <3>1, <3>2, MiddleMoves, R14Is DEF a
  <2>4. Cells(Q, st, st2)
    BY <2>3 DEF Cells
  <2> QED  BY <1>11, <2>1, <2>3, <2>4 DEF Aligned, B, C, D
<1>12. CASE q = 2
  <2>1. op = Middle(2) /\ rg[SP] = SPvalue(D) /\ rg[R14] = SPvalue(Q) /\ f = NoneYet
    BY <1>12 DEF Aligned
  <2>2. op[1] = "op" /\ op[2] = R15
    BY <2>1, MiddleIs
  <2> HIDE DEF B, C, D
  <2>3. IsFile(rg2) /\ f2 = f /\ st2 = st /\ rg2[SP] = rg[SP] /\ rg2[R14] = rg[R14]
    <3> DEFINE a == D
    <3>1. a \in Int /\ rg[SP] = SPvalue(a) /\ op[1] = "op"
      BY <1>1, <1>3, <1>6, <2>1, <2>2
    <3> HIDE DEF a
    <3>2. MiddleBy(op, rg, st, f, rg2, st2, f2) /\ op[1] \in {"op"}
      BY <3>1
    <3>3. op[2] = R15
      BY <2>2
    <3> QED  BY <1>2, <3>1, <3>2, <3>3, MiddleMoves, R14Is DEF a
  <2>4. Cells(Q, st, st2)
    BY <2>3 DEF Cells
  <2> QED  BY <1>12, <2>1, <2>3, <2>4 DEF Aligned, B, C, D
<1>13. CASE q = 3
  <2>1. op = Middle(3) /\ rg[SP] = SPvalue(D) /\ rg[R14] = SPvalue(Q) /\ f = NoneYet
    BY <1>13 DEF Aligned
  <2>2. op = <<"andsp">>
    BY <2>1, MiddleIs
  <2> HIDE DEF B, C, D
  <2>3. IsFile(rg2) /\ f2 = f /\ st2 = st /\ rg2[SP] = SPvalue(A) /\ rg2[R14] = rg[R14]
    <3> DEFINE a == D
    <3>1. a \in Int /\ rg[SP] = SPvalue(a) /\ op[1] = "andsp" /\ a - (a % StackAlign) = A
      BY <1>1, <1>3, <1>6, <2>1, <2>2
    <3> HIDE DEF a
    <3>2. MiddleBy(op, rg, st, f, rg2, st2, f2) /\ op[1] \in {"andsp"}
      BY <3>1
    <3> QED  BY <1>2, <3>1, <3>2, MiddleMoves, R14Is DEF a
  <2>4. Cells(Q, st, st2)
    BY <2>3 DEF Cells
  <2> QED  BY <1>13, <2>1, <2>3, <2>4 DEF Aligned, B, C, D
<1>14. CASE q = 4
  <2>1. op = Middle(4) /\ rg[SP] = SPvalue(A) /\ rg[R14] = SPvalue(Q) /\ f = NoneYet
    BY <1>14 DEF Aligned
  <2>2. op = <<"pop", R15>>
    BY <2>1, MiddleIs
  <2> HIDE DEF B, C, D
  <2>3. IsFile(rg2) /\ f2 = f /\ st2 = st /\ rg2[SP] = SPvalue(A + 8) /\ rg2[R14] = rg[R14]
    <3> DEFINE a == A
    <3>1. a \in Int /\ rg[SP] = SPvalue(a) /\ op[1] = "pop" /\ a + 8 = A + 8
      BY <1>1, <1>3, <1>6, <2>1, <2>2
    <3> HIDE DEF a
    <3>2. MiddleBy(op, rg, st, f, rg2, st2, f2) /\ op[1] \in {"pop"}
      BY <3>1
    <3>3. op[2] = R15
      BY <2>2
    <3> QED  BY <1>2, <3>1, <3>2, <3>3, MiddleMoves, R14Is DEF a
  <2>4. Cells(Q, st, st2)
    BY <2>3 DEF Cells
  <2> QED  BY <1>14, <2>1, <2>3, <2>4 DEF Aligned, B, C, D, TopOf
<1>15. CASE q = 5
  <2>1. op = Middle(5) /\ rg[SP] = SPvalue(A + 8) /\ rg[R14] = SPvalue(Q) /\ f = NoneYet
    BY <1>15 DEF Aligned
  <2>2. op = <<"push", R14>>
    BY <2>1, MiddleIs
  <2> HIDE DEF B, C, D
  <2>3. IsFile(rg2) /\ f2 = f /\ Cells(A + 1, st, st2) /\ rg2[SP] = SPvalue(A) /\ A \in DOMAIN st2 /\ st2[A] = rg[R14]
    <3> DEFINE a == A + 8
    <3>1. a \in Int /\ rg[SP] = SPvalue(a) /\ op[1] = "push" /\ a - 8 = A /\ a - 7 = A + 1
      BY <1>1, <1>3, <1>6, <2>1, <2>2
    <3> HIDE DEF a
    <3>2. MiddleBy(op, rg, st, f, rg2, st2, f2) /\ op[1] \in {"push"}
      BY <3>1
    <3>3. op[2] = R14
      BY <2>2
    <3> QED  BY <1>2, <3>1, <3>2, <3>3, MiddleStores, R14Is DEF a
  <2>4. Cells(Q, st, st2)
    BY <1>1, <1>3, <1>4, <2>3
  <2> QED  BY <1>15, <2>1, <2>3, <2>4 DEF Aligned, B, C, D
<1>16. CASE q = 6
  <2>1. op = Middle(6) /\ rg[SP] = SPvalue(A) /\ A \in DOMAIN st /\ st[A] = SPvalue(Q) /\ f = NoneYet
    BY <1>16 DEF Aligned
  <2>2. op = <<"addsp", -StackAlign>>
    BY <2>1, MiddleIs
  <2> HIDE DEF B, C, D
  <2>3. IsFile(rg2) /\ f2 = f /\ st2 = st /\ rg2[SP] = SPvalue(B)
    <3> DEFINE a == A
    <3>1. a \in Int /\ rg[SP] = SPvalue(a) /\ op[1] = "addsp" /\ a + op[2] = B
      BY <1>1, <1>3, <1>6, <2>1, <2>2
    <3> HIDE DEF a
    <3>2. MiddleBy(op, rg, st, f, rg2, st2, f2) /\ op[1] \in {"addsp"}
      BY <3>1
    <3> QED  BY <1>2, <3>1, <3>2, MiddleMoves, R14Is DEF a
  <2>4. Cells(Q, st, st2)
    BY <2>3 DEF Cells
  <2>5. A \in DOMAIN st2 /\ st2[A] = SPvalue(Q)
    BY <1>1, <1>3, <1>5, <2>1, <2>3
  <2> QED  BY <1>16, <2>1, <2>3, <2>4, <2>5 DEF Aligned, B, C, D
<1>17. CASE q = 7
  <2>1. op = Middle(7) /\ rg[SP] = SPvalue(B) /\ A \in DOMAIN st /\ st[A] = SPvalue(Q) /\ f = NoneYet
    BY <1>17 DEF Aligned
  <2>2. op = <<"fxsave">>
    BY <2>1, MiddleIs
  <2> HIDE DEF B, C, D
  <2>3. IsFile(rg2) /\ f2 = f /\ Cells(B + 1, st, st2) /\ rg2 = rg /\ B \in DOMAIN st2 /\ st2[B] = f
    <3> DEFINE a == B
    <3>1. a \in Int /\ rg[SP] = SPvalue(a) /\ op[1] = "fxsave"
      BY <1>1, <1>3, <1>6, <2>1, <2>2
    <3> HIDE DEF a
    <3>2. MiddleBy(op, rg, st, f, rg2, st2, f2) /\ op[1] \in {"fxsave"}
      BY <3>1
    <3>4. IsFile(rg2) /\ f2 = f /\ Cells(a + 1, st, st2) /\ rg2 = rg /\ a \in DOMAIN st2 /\ st2[a] = f
      BY <1>2, <3>1, <3>2, MiddleStores
    <3> QED  BY <3>4 DEF a
  <2>4. Cells(Q, st, st2)
    BY <1>1, <1>3, <1>4, <2>3
  <2>5. A \in DOMAIN st2 /\ st2[A] = SPvalue(Q)
    BY <1>1, <1>3, <1>5, <2>1, <2>3
  <2> QED  BY <1>17, <2>1, <2>3, <2>4, <2>5 DEF Aligned, B, C, D
<1>18. CASE q = 8
  <2>1. op = Middle(8) /\ rg[SP] = SPvalue(B) /\ A \in DOMAIN st /\ st[A] = SPvalue(Q) /\ B \in DOMAIN st /\ st[B] = NoneYet /\ f = NoneYet
    BY <1>18 DEF Aligned
  <2>2. op = <<"addsp", -StackAlign>>
    BY <2>1, MiddleIs
  <2> HIDE DEF B, C, D
  <2>3. IsFile(rg2) /\ f2 = f /\ st2 = st /\ rg2[SP] = SPvalue(C)
    <3> DEFINE a == B
    <3>1. a \in Int /\ rg[SP] = SPvalue(a) /\ op[1] = "addsp" /\ a + op[2] = C
      BY <1>1, <1>3, <1>6, <2>1, <2>2
    <3> HIDE DEF a
    <3>2. MiddleBy(op, rg, st, f, rg2, st2, f2) /\ op[1] \in {"addsp"}
      BY <3>1
    <3> QED  BY <1>2, <3>1, <3>2, MiddleMoves, R14Is DEF a
  <2>4. Cells(Q, st, st2)
    BY <2>3 DEF Cells
  <2>5. A \in DOMAIN st2 /\ st2[A] = SPvalue(Q)
    BY <1>1, <1>3, <1>5, <2>1, <2>3
  <2>6. B \in DOMAIN st2 /\ st2[B] = NoneYet
    BY <1>1, <1>3, <1>5, <2>1, <2>3
  <2> QED  BY <1>18, <2>1, <2>3, <2>4, <2>5, <2>6 DEF Aligned, B, C, D
<1>19. CASE q = 9
  <2>1. op = Middle(9) /\ rg[SP] = SPvalue(C) /\ A \in DOMAIN st /\ st[A] = SPvalue(Q) /\ B \in DOMAIN st /\ st[B] = NoneYet /\ f = NoneYet
    BY <1>19 DEF Aligned
  <2>2. op = <<"external">>
    BY <2>1, MiddleIs
  <2> HIDE DEF B, C, D
  <2>3. IsFile(rg2) /\ Cells(C, st, st2) /\ rg2[SP] = SPvalue(C)
    <3> DEFINE a == C
    <3>1. a \in Int /\ rg[SP] = SPvalue(a) /\ op[1] = "external"
      BY <1>1, <1>3, <1>6, <2>1, <2>2
    <3> HIDE DEF a
    <3>2. MiddleBy(op, rg, st, f, rg2, st2, f2) /\ op[1] \in {"external"}
      BY <3>1
    <3> QED  BY <1>2, <3>1, <3>2, MiddleStores, R14Is DEF a
  <2>4. Cells(Q, st, st2)
    BY <1>1, <1>3, <1>4, <2>3
  <2>5. A \in DOMAIN st2 /\ st2[A] = SPvalue(Q)
    BY <1>1, <1>3, <1>5, <2>1, <2>3
  <2>6. B \in DOMAIN st2 /\ st2[B] = NoneYet
    BY <1>1, <1>3, <1>5, <2>1, <2>3
  <2> QED  BY <1>19, <2>1, <2>3, <2>4, <2>5, <2>6 DEF Aligned, B, C, D
<1>20. CASE q = 10
  <2>1. op = Middle(10) /\ rg[SP] = SPvalue(C) /\ A \in DOMAIN st /\ st[A] = SPvalue(Q) /\ B \in DOMAIN st /\ st[B] = NoneYet
    BY <1>20 DEF Aligned
  <2>2. op = <<"addsp", StackAlign>>
    BY <2>1, MiddleIs
  <2> HIDE DEF B, C, D
  <2>3. IsFile(rg2) /\ f2 = f /\ st2 = st /\ rg2[SP] = SPvalue(B)
    <3> DEFINE a == C
    <3>1. a \in Int /\ rg[SP] = SPvalue(a) /\ op[1] = "addsp" /\ a + op[2] = B
      BY <1>1, <1>3, <1>6, <2>1, <2>2
    <3> HIDE DEF a
    <3>2. MiddleBy(op, rg, st, f, rg2, st2, f2) /\ op[1] \in {"addsp"}
      BY <3>1
    <3> QED  BY <1>2, <3>1, <3>2, MiddleMoves, R14Is DEF a
  <2>4. Cells(Q, st, st2)
    BY <2>3 DEF Cells
  <2>5. A \in DOMAIN st2 /\ st2[A] = SPvalue(Q)
    BY <1>1, <1>3, <1>5, <2>1, <2>3
  <2>6. B \in DOMAIN st2 /\ st2[B] = NoneYet
    BY <1>1, <1>3, <1>5, <2>1, <2>3
  <2> QED  BY <1>20, <2>1, <2>3, <2>4, <2>5, <2>6 DEF Aligned, B, C, D
<1>21. CASE q = 11
  <2>1. op = Middle(11) /\ rg[SP] = SPvalue(B) /\ A \in DOMAIN st /\ st[A] = SPvalue(Q) /\ B \in DOMAIN st /\ st[B] = NoneYet
    BY <1>21 DEF Aligned
  <2>2. op = <<"fxrstor">>
    BY <2>1, MiddleIs
  <2> HIDE DEF B, C, D
  <2>3. IsFile(rg2) /\ st2 = st /\ rg2 = rg /\ f2 = TopOf(st, B)
    <3> DEFINE a == B
    <3>1. a \in Int /\ rg[SP] = SPvalue(a) /\ op[1] = "fxrstor"
      BY <1>1, <1>3, <1>6, <2>1, <2>2
    <3> HIDE DEF a
    <3>2. MiddleBy(op, rg, st, f, rg2, st2, f2) /\ op[1] \in {"fxrstor"}
      BY <3>1
    <3> QED  BY <1>2, <3>1, <3>2, MiddleStores, R14Is DEF a
  <2>4. Cells(Q, st, st2)
    BY <2>3 DEF Cells
  <2>5. A \in DOMAIN st2 /\ st2[A] = SPvalue(Q)
    BY <1>1, <1>3, <1>5, <2>1, <2>3
  <2> QED  BY <1>21, <2>1, <2>3, <2>4, <2>5 DEF Aligned, B, C, D, TopOf
<1>22. CASE q = 12
  <2>1. op = Middle(12) /\ rg[SP] = SPvalue(B) /\ A \in DOMAIN st /\ st[A] = SPvalue(Q) /\ f = NoneYet
    BY <1>22 DEF Aligned
  <2>2. op = <<"addsp", StackAlign>>
    BY <2>1, MiddleIs
  <2> HIDE DEF B, C, D
  <2>3. IsFile(rg2) /\ f2 = f /\ st2 = st /\ rg2[SP] = SPvalue(A)
    <3> DEFINE a == B
    <3>1. a \in Int /\ rg[SP] = SPvalue(a) /\ op[1] = "addsp" /\ a + op[2] = A
      BY <1>1, <1>3, <1>6, <2>1, <2>2
    <3> HIDE DEF a
    <3>2. MiddleBy(op, rg, st, f, rg2, st2, f2) /\ op[1] \in {"addsp"}
      BY <3>1
    <3> QED  BY <1>2, <3>1, <3>2, MiddleMoves, R14Is DEF a
  <2>4. Cells(Q, st, st2)
    BY <2>3 DEF Cells
  <2>5. A \in DOMAIN st2 /\ st2[A] = SPvalue(Q)
    BY <1>1, <1>3, <1>5, <2>1, <2>3
  <2> QED  BY <1>22, <2>1, <2>3, <2>4, <2>5 DEF Aligned, B, C, D
<1>23. CASE q = 13
  <2>1. op = Middle(13) /\ rg[SP] = SPvalue(A) /\ A \in DOMAIN st /\ st[A] = SPvalue(Q) /\ f = NoneYet
    BY <1>23 DEF Aligned
  <2>2. op = <<"pop", R14>>
    BY <2>1, MiddleIs
  <2> HIDE DEF B, C, D
  <2>3. IsFile(rg2) /\ f2 = f /\ st2 = st /\ rg2[SP] = SPvalue(A + 8) /\ rg2[R14] = TopOf(st, A)
    <3> DEFINE a == A
    <3>1. a \in Int /\ rg[SP] = SPvalue(a) /\ op[1] = "pop"
      BY <1>1, <1>3, <1>6, <2>1, <2>2
    <3> HIDE DEF a
    <3>2. MiddleBy(op, rg, st, f, rg2, st2, f2) /\ op[1] \in {"pop"}
      BY <3>1
    <3>3. op[2] = R14
      BY <2>2
    <3> QED  BY <1>2, <3>1, <3>2, <3>3, MiddleMoves, R14Is DEF a
  <2>4. Cells(Q, st, st2)
    BY <2>3 DEF Cells
  <2> QED  BY <1>23, <2>1, <2>3, <2>4 DEF Aligned, B, C, D, TopOf
<1>24. CASE q = 14
  <2>1. op = Middle(14) /\ rg[SP] = SPvalue(A + 8) /\ rg[R14] = SPvalue(Q) /\ f = NoneYet
    BY <1>24 DEF Aligned
  <2>2. op = <<"mov", R14, SP>>
    BY <2>1, MiddleIs
  <2> HIDE DEF B, C, D
  <2>3. IsFile(rg2) /\ f2 = f /\ st2 = st /\ rg2[SP] = rg[R14]
    <3> DEFINE a == A + 8
    <3>1. a \in Int /\ rg[SP] = SPvalue(a) /\ op[1] = "mov"
      BY <1>1, <1>3, <1>6, <2>1, <2>2
    <3> HIDE DEF a
    <3>2. MiddleBy(op, rg, st, f, rg2, st2, f2) /\ op[1] \in {"mov"}
      BY <3>1
    <3>3. op[2] = R14 /\ op[3] = SP
      BY <2>2
    <3> QED  BY <1>2, <3>1, <3>2, <3>3, MiddleMoves, R14Is DEF a
  <2>4. Cells(Q, st, st2)
    BY <2>3 DEF Cells
  <2> QED  BY <1>24, <2>1, <2>3, <2>4 DEF Aligned, B, C, D
<1> QED  BY <1>10, <1>11, <1>12, <1>13, <1>14, <1>15, <1>16, <1>17, <1>18, <1>19, <1>20, <1>21, <1>22, <1>23, <1>24

-----------------------------------------------------------------------------
(* The wrapper: E is where it was entered, and R, F and M are what the      *)
(* point had then.                                                          *)

WLen == Len(WSaves)
WDepth == Depth(WSaves, WLen)
WSaving(i, E, R, F, M, rg, fl, st, f) ==
    Saving(WSaves, i, E, GPRs, R, F, E, M, rg, fl, st) /\ f = NoneYet
WUnwinding(i, E, R, F, M, rg, fl, st, f) ==
    Unwinding(WSaves, i, E, GPRs, R, Flags, F, E, M, rg, fl, st) /\ f = NoneYet
WAligned(q, E, R, F, M, rg, st, f) ==
    /\ Aligned(q, E - WDepth, Base16(E - WDepth), rg, st, f)
    /\ Slots(WSaves, WLen, E, R, F, st) /\ Cells(E, M, st)

LEMMA WFacts ==
    ASSUME NEW E \in Int
    PROVE  /\ SavesWell(WSaves) /\ WLen \in Nat /\ WLen \in 0 .. Len(WSaves) /\ WLen = Len(WSaves) /\ ~Lahfed(WSaves, WLen)
           /\ E - WDepth \in Int /\ E - WDepth <= E
           /\ \A r \in GPRs : Pushed(WSaves, WLen, r)
           /\ \A x \in Flags : FlagSaved(WSaves, WLen, x)
           /\ \A k \in 1 .. Len(WSaves) : WSaves[k][1] = "push" => WSaves[k][2] \in GPRs
           /\ Room(WSaves, E, E)
<1>1. SavesWell(WSaves) /\ WLen \in Nat /\ WLen \in 0 .. Len(WSaves) /\ WLen \in 0 .. WLen
  BY WSavesIs DEF WLen, SavesWell
<1>2. WDepth \in Int /\ WDepth >= 0
  BY <1>1, DepthGrows DEF WDepth
<1> QED  BY <1>1, <1>2, WSavesIs DEF WLen

LEMMA WKept ==
    ASSUME NEW R, NEW F, NEW rg, NEW fl
    PROVE  Kept(WSaves, WLen, GPRs, R, Flags, F, rg, fl) /\ InAX(WSaves, WLen, F, rg)
<1>1. 0 \in Int
  OBVIOUS
<1>2. (\A r \in GPRs : Pushed(WSaves, WLen, r)) /\ (\A x \in Flags : FlagSaved(WSaves, WLen, x)) /\ ~Lahfed(WSaves, WLen)
  BY <1>1, WFacts
<1> QED  BY <1>2 DEF Kept, InAX

LEMMA WTurns ==
    ASSUME NEW E \in Int, NEW R, NEW F, NEW M, NEW rg, NEW fl, NEW st, NEW f
    PROVE  /\ WSaving(WLen, E, R, F, M, rg, fl, st, f) => WUnwinding(WLen, E, R, F, M, rg, fl, st, f)
           /\ WUnwinding(WLen, E, R, F, M, rg, fl, st, f) => WAligned(0, E, R, F, M, rg, st, f)
           /\ WAligned(15, E, R, F, M, rg, st, f) => WUnwinding(WLen, E, R, F, M, rg, fl, st, f)
<1>1. Kept(WSaves, WLen, GPRs, R, Flags, F, rg, fl) /\ InAX(WSaves, WLen, F, rg)
  BY WKept
<1>2. WSaving(WLen, E, R, F, M, rg, fl, st, f) => WUnwinding(WLen, E, R, F, M, rg, fl, st, f)
  BY <1>1 DEF WSaving, WUnwinding, Saving, Unwinding
<1>3. ASSUME WUnwinding(WLen, E, R, F, M, rg, fl, st, f) PROVE WAligned(0, E, R, F, M, rg, st, f)
  <2>1. /\ AtDepth(WSaves, WLen, E, rg) /\ Slots(WSaves, WLen, E, R, F, st) /\ Cells(E, M, st) /\ f = NoneYet
    BY <1>3 DEF WUnwinding, Unwinding, Undoable
  <2>2. IsFile(rg) /\ rg[SP] = SPvalue(E - WDepth)
    BY <2>1 DEF AtDepth, WDepth
  <2> QED  BY <2>1, <2>2 DEF WAligned, Aligned
<1>4. ASSUME WAligned(15, E, R, F, M, rg, st, f) PROVE WUnwinding(WLen, E, R, F, M, rg, fl, st, f)
  <2>1. IsFile(rg) /\ rg[SP] = SPvalue(E - WDepth) /\ f = NoneYet /\ Slots(WSaves, WLen, E, R, F, st) /\ Cells(E, M, st)
    BY <1>4 DEF WAligned, Aligned
  <2>2. AtDepth(WSaves, WLen, E, rg)
    BY <2>1 DEF AtDepth, WDepth
  <2> QED  BY <1>1, <2>1, <2>2 DEF WUnwinding, Unwinding, Undoable
<1> QED  BY <1>2, <1>3, <1>4

LEMMA WSaves1 ==
    ASSUME NEW i \in 0 .. WLen - 1, NEW E \in Int, NEW R, NEW F, NEW M, NEW rg, NEW fl, NEW st, NEW f,
           WSaving(i, E, R, F, M, rg, fl, st, f), NEW rg2, NEW fl2, NEW st2, NEW f2, f2 = f,
           SavedBy(WSaves[i + 1], rg, fl, st, rg2, fl2, st2)
    PROVE  WSaving(i + 1, E, R, F, M, rg2, fl2, st2, f2)
<1> DEFINE s == WSaves
<1>1. SavesWell(s) /\ Room(s, E, E) /\ i \in 0 .. Len(s) - 1 /\ \A k \in 1 .. Len(s) : s[k][1] = "push" => s[k][2] \in GPRs
  BY WFacts
<1>2. Saving(s, i, E, GPRs, R, F, E, M, rg, fl, st) /\ f2 = NoneYet
  BY DEF WSaving
<1> DEFINE G == GPRs
<1>3. G \subseteq GPRs
  OBVIOUS
<1> HIDE DEF s, G
<1>4. Saving(s, i + 1, E, G, R, F, E, M, rg2, fl2, st2)
  BY <1>1, <1>2, <1>3, SaveStep DEF s, G
<1> QED  BY <1>2, <1>4 DEF WSaving, s, G

LEMMA WRestores1 ==
    ASSUME NEW i \in 1 .. WLen, NEW E \in Int, NEW R, NEW F, NEW M, NEW rg, NEW fl, NEW st, NEW f,
           WUnwinding(i, E, R, F, M, rg, fl, st, f), NEW rg2, NEW fl2, NEW st2, NEW f2, f2 = f,
           RestoredBy(WSaves[i], rg, fl, st, rg2, fl2, st2)
    PROVE  WUnwinding(i - 1, E, R, F, M, rg2, fl2, st2, f2)
<1> DEFINE s == WSaves
           G == GPRs
           K == Flags
<1>1. SavesWell(s) /\ i \in 1 .. Len(s) /\ G \subseteq GPRs /\ K \subseteq Flags
  BY WFacts
<1>2. Unwinding(s, i, E, G, R, K, F, E, M, rg, fl, st) /\ f2 = NoneYet /\ RestoredBy(s[i], rg, fl, st, rg2, fl2, st2)
  BY DEF WUnwinding
<1> HIDE DEF s, G, K
<1>3. Unwinding(s, i - 1, E, G, R, K, F, E, M, rg2, fl2, st2)
  BY <1>1, <1>2, RestoreStep
<1> QED  BY <1>2, <1>3 DEF WUnwinding, s, G, K

LEMMA WPasses1 ==
    ASSUME NEW E \in Int, NEW R, NEW F, NEW M, NEW rg, NEW fl, NEW st, NEW f,
           WUnwinding(WLen, E, R, F, M, rg, fl, st, f), NEW rg2, NEW fl2, NEW st2, NEW f2, f2 = f, st2 = st,
           NEW d \in GPRs \ {SP}, NEW v, rg2 = Write(rg, d, v)
    PROVE  WUnwinding(WLen, E, R, F, M, rg2, fl2, st2, f2)
<1>1. Kept(WSaves, WLen, GPRs, R, Flags, F, rg2, fl2) /\ InAX(WSaves, WLen, F, rg2)
  BY WKept
<1>2. /\ AtDepth(WSaves, WLen, E, rg) /\ Slots(WSaves, WLen, E, R, F, st2) /\ Cells(E, M, st2) /\ f2 = NoneYet
  BY DEF WUnwinding, Unwinding, Undoable
<1>3. IsFile(rg2) /\ rg2[SP] = rg[SP]
  BY <1>2, Written, AxSp DEF AtDepth
<1>4. AtDepth(WSaves, WLen, E, rg2)
  BY <1>2, <1>3 DEF AtDepth
<1> QED  BY <1>1, <1>2, <1>4 DEF WUnwinding, Unwinding, Undoable

LEMMA WMiddle1 ==
    ASSUME NEW q \in 0 .. 14, NEW E \in Int, NEW R, NEW F, NEW M, NEW rg, NEW st, NEW f, WAligned(q, E, R, F, M, rg, st, f),
           NEW rg2, NEW st2, NEW f2, NEW op, op = Middle(q), MiddleBy(op, rg, st, f, rg2, st2, f2)
    PROVE  WAligned(q + 1, E, R, F, M, rg2, st2, f2)
<1> DEFINE s == WSaves
           Q == E - WDepth
           A == Base16(Q)
<1>1. SavesWell(s) /\ WLen \in 0 .. Len(s) /\ Q \in Int /\ Q <= E /\ Q <= E - Depth(s, WLen) /\ A = Base16(Q)
  BY WFacts DEF WDepth
<1>2. Aligned(q, Q, A, rg, st, f) /\ Slots(s, WLen, E, R, F, st) /\ Cells(E, M, st)
  BY DEF WAligned
<1> HIDE DEF s, Q, A
<1>3. Aligned(q + 1, Q, A, rg2, st2, f2) /\ Cells(Q, st, st2)
  BY <1>1, <1>2, MiddleStep
<1>4. Slots(s, WLen, E, R, F, st2)
  BY <1>1, <1>2, <1>3, SlotsKept
<1>5. Cells(E, M, st2)
  BY <1>1, <1>2, <1>3, CellsKept
<1> QED  BY <1>3, <1>4, <1>5 DEF WAligned, s, Q, A

\* Where the wrapper is: saving, passing the arguments, calling, restoring.
InWrapper(j, m, E, R, F, M, rg, fl, st, f) ==
    \/ \E i \in 0 .. WLen : j = i + 1 /\ WSaving(i, E, R, F, M, rg, fl, st, f)
    \/ \E i \in 0 .. m : j = WLen + i + 1 /\ WUnwinding(WLen, E, R, F, M, rg, fl, st, f)
    \/ \E q \in 0 .. 15 : j = WLen + m + q + 1 /\ WAligned(q, E, R, F, M, rg, st, f)
    \/ \E i \in 0 .. WLen : j = WLen + m + 15 + WLen + 1 - i /\ WUnwinding(i, E, R, F, M, rg, fl, st, f)

Placed(j, m, E, R, F, M, rg, fl, st, f) ==
    \/ \E i \in 0 .. WLen - 1 : j = i + 1 /\ WSaving(i, E, R, F, M, rg, fl, st, f)
    \/ \E i \in 0 .. m - 1 : j = WLen + i + 1 /\ WUnwinding(WLen, E, R, F, M, rg, fl, st, f)
    \/ \E q \in 0 .. 14 : j = WLen + m + q + 1 /\ WAligned(q, E, R, F, M, rg, st, f)
    \/ \E i \in 1 .. WLen : j = WLen + m + 15 + WLen + 1 - i /\ WUnwinding(i, E, R, F, M, rg, fl, st, f)
    \/ j = WLen + m + 15 + WLen + 1 /\ WUnwinding(0, E, R, F, M, rg, fl, st, f)

LEMMA WPlace ==
    ASSUME NEW m \in Nat, NEW E \in Int, NEW R, NEW F, NEW M, NEW rg, NEW fl, NEW st, NEW f, NEW j,
           InWrapper(j, m, E, R, F, M, rg, fl, st, f)
    PROVE  Placed(j, m, E, R, F, M, rg, fl, st, f)
<1> DEFINE n == WLen
           A(i) == WSaving(i, E, R, F, M, rg, fl, st, f)
           B(i) == WUnwinding(i, E, R, F, M, rg, fl, st, f)
           C(q) == WAligned(q, E, R, F, M, rg, st, f)
           Goal == \/ \E i \in 0 .. n - 1 : j = i + 1 /\ A(i)
                   \/ \E i \in 0 .. m - 1 : j = n + i + 1 /\ B(n)
                   \/ \E q \in 0 .. 14 : j = n + m + q + 1 /\ C(q)
                   \/ \E i \in 1 .. n : j = n + m + 15 + n + 1 - i /\ B(i)
                   \/ j = n + m + 15 + n + 1 /\ B(0)
<1>1. n \in Nat
  BY WFacts
<1>2. (A(n) => B(n)) /\ (B(n) => C(0)) /\ (C(15) => B(n))
  BY WTurns
<1>3. \/ \E i \in 0 .. n : j = i + 1 /\ A(i)
      \/ \E i \in 0 .. m : j = n + i + 1 /\ B(n)
      \/ \E q \in 0 .. 15 : j = n + m + q + 1 /\ C(q)
      \/ \E i \in 0 .. n : j = n + m + 15 + n + 1 - i /\ B(i)
  BY DEF InWrapper
<1> SUFFICES Goal
  BY DEF Placed
<1> HIDE DEF n, A, B, C
<1>4. ASSUME NEW i \in 0 .. n, j = n + m + 15 + n + 1 - i, B(i) PROVE Goal
  <2>1. CASE i = 0
    <3>1. j = n + m + 15 + n + 1
      BY <1>1, <1>4, <2>1
    <3> QED  BY <1>4, <2>1, <3>1
  <2>2. CASE i # 0
    <3>1. i \in 1 .. n
      BY <1>1, <2>2
    <3> QED  BY <1>4, <3>1
  <2> QED  BY <2>1, <2>2
<1>5. ASSUME NEW q \in 0 .. 15, j = n + m + q + 1, C(q) PROVE Goal
  <2>1. CASE q = 15
    <3>1. j = n + m + 15 + n + 1 - n /\ n \in 0 .. n /\ B(n)
      BY <1>1, <1>2, <1>5, <2>1
    <3> QED  BY <1>4, <3>1
  <2>2. CASE q # 15
    <3>1. q \in 0 .. 14
      BY <2>2
    <3> QED  BY <1>5, <3>1
  <2> QED  BY <2>1, <2>2
<1>6. ASSUME NEW i \in 0 .. m, j = n + i + 1, B(n) PROVE Goal
  <2>1. CASE i = m
    <3>1. j = n + m + 0 + 1 /\ 0 \in 0 .. 15 /\ C(0)
      BY <1>1, <1>2, <1>6, <2>1
    <3> QED  BY <1>5, <3>1
  <2>2. CASE i # m
    <3>1. i \in 0 .. m - 1
      BY <2>2
    <3> QED  BY <1>6, <3>1
  <2> QED  BY <2>1, <2>2
<1>7. ASSUME NEW i \in 0 .. n, j = i + 1, A(i) PROVE Goal
  <2>1. CASE i = n
    <3>1. j = n + 0 + 1 /\ 0 \in 0 .. m /\ B(n)
      BY <1>1, <1>2, <1>7, <2>1
    <3> QED  BY <1>6, <3>1
  <2>2. CASE i # n
    <3>1. i \in 0 .. n - 1
      BY <1>1, <2>2
    <3> QED  BY <1>7, <3>1
  <2> QED  BY <2>1, <2>2
<1> QED  BY <1>3, <1>4, <1>5, <1>6, <1>7

LEMMA MiddleEffect ==
    ASSUME Next, ~Done, IsFile(reg), NEW q \in 0 .. 14, NEW op, op = current, op = Middle(q)
    PROVE  MiddleBy(op, reg, stack, fp, reg', stack', fp') /\ Stays /\ Forward
<1>1. op[1] \in {"mov", "addsp", "op", "andsp", "pop", "push", "fxsave", "fxrstor", "external"}
  <2> HIDE DEF Middle
  <2> QED  BY MiddleIs
<1>2. CASE op[1] \in {"push", "addsp"}
  <2>1. SavedBy(op, reg, flags, stack, reg', flags', stack') /\ fp' = fp /\ Stays /\ Forward
    BY <1>2, SaveOpStep
  <2> QED  BY <1>2, <2>1 DEF SavedBy, MiddleBy
<1>3. CASE op[1] = "op"
  <2>1. /\ ComputedBy(op, reg, flags, stack, reg', flags', stack') /\ fp' = fp /\ Stays /\ Forward
        /\ reg' = Write(reg, op[2], Value(op, reg))
    BY <1>3, PlainStep
  <2> QED  BY <1>3, <2>1 DEF ComputedBy, MiddleBy
<1>4. CASE op[1] \in {"mov", "andsp", "pop", "fxsave", "fxrstor"}
  BY <1>4, OtherSteps DEF MiddleBy
<1>5. CASE op[1] = "external"
  <2>1. /\ reg' = [r \in GPRs |-> IF r \in CalleeSaved THEN reg[r] ELSE Junk]
        /\ stack' = [a \in {x \in DOMAIN stack : x >= reg[SP][2]} |-> stack[a]]
        /\ Stays /\ Forward
    BY <1>5, OtherSteps
  <2>2. IsFile(reg') /\ reg'[SP] = reg[SP]
    BY <2>1 DEF IsFile, CalleeSaved, GPRs, SP
  <2>3. Cells(reg[SP][2], stack, stack')
    BY <2>1 DEF Cells
  <2> QED  BY <1>5, <2>1, <2>2, <2>3 DEF MiddleBy
<1> QED  BY <1>1, <1>2, <1>3, <1>4, <1>5

LEMMA PassEffect ==
    ASSUME Next, ~Done, IsFile(reg), Passes(current)
    PROVE  /\ \E d \in GPRs \ {SP} : \E v : reg' = Write(reg, d, v)
           /\ stack' = stack /\ fp' = fp /\ Stays /\ Forward
<1> DEFINE op == current
<1>1. op[1] \in {"op", "mov"} /\ (op[1] = "op" => op[2] \in GPRs \ {SP}) /\ (op[1] = "mov" => op[3] \in GPRs \ {SP})
  BY DEF Passes
<1>2. CASE op[1] = "op"
  <2>1. /\ ComputedBy(op, reg, flags, stack, reg', flags', stack') /\ fp' = fp /\ Stays /\ Forward
        /\ reg' = Write(reg, op[2], Value(op, reg))
    BY <1>2, PlainStep
  <2> QED  BY <1>1, <1>2, <2>1 DEF ComputedBy
<1>3. CASE op[1] = "mov"
  <2>1. reg' = Write(reg, op[3], reg[op[2]]) /\ stack' = stack /\ fp' = fp /\ Stays /\ Forward
    BY <1>3, OtherSteps
  <2> QED  BY <1>1, <1>3, <2>1
<1> QED  BY <1>1, <1>2, <1>3

LEMMA WPhases ==
    ASSUME NEW m \in Nat, NEW E, NEW R, NEW F, NEW M, NEW rg, NEW fl, NEW st, NEW f
    PROVE  /\ \A i \in 0 .. WLen - 1 : WSaving(i + 1, E, R, F, M, rg, fl, st, f) =>
                InWrapper(i + 1 + 1, m, E, R, F, M, rg, fl, st, f)
           /\ \A i \in 0 .. m - 1 : WUnwinding(WLen, E, R, F, M, rg, fl, st, f) =>
                InWrapper(WLen + i + 1 + 1, m, E, R, F, M, rg, fl, st, f)
           /\ \A q \in 0 .. 14 : WAligned(q + 1, E, R, F, M, rg, st, f) =>
                InWrapper(WLen + m + q + 1 + 1, m, E, R, F, M, rg, fl, st, f)
           /\ \A i \in 1 .. WLen : WUnwinding(i - 1, E, R, F, M, rg, fl, st, f) =>
                InWrapper(WLen + m + 15 + WLen + 1 - i + 1, m, E, R, F, M, rg, fl, st, f)
<1> DEFINE n == WLen
           A(i) == WSaving(i, E, R, F, M, rg, fl, st, f)
           B(i) == WUnwinding(i, E, R, F, M, rg, fl, st, f)
           C(q) == WAligned(q, E, R, F, M, rg, st, f)
           I(j) == InWrapper(j, m, E, R, F, M, rg, fl, st, f)
<1>1. n \in Nat
  <2>1. 0 \in Int
    OBVIOUS
  <2> QED  BY <2>1, WFacts
<1>2. \A j : I(j) <=>
        \/ \E i \in 0 .. n : j = i + 1 /\ A(i)
        \/ \E i \in 0 .. m : j = n + i + 1 /\ B(n)
        \/ \E q \in 0 .. 15 : j = n + m + q + 1 /\ C(q)
        \/ \E i \in 0 .. n : j = n + m + 15 + n + 1 - i /\ B(i)
  BY DEF InWrapper
<1> SUFFICES /\ \A i \in 0 .. n - 1 : A(i + 1) => I(i + 1 + 1)
             /\ \A i \in 0 .. m - 1 : B(n) => I(n + i + 1 + 1)
             /\ \A q \in 0 .. 14 : C(q + 1) => I(n + m + q + 1 + 1)
             /\ \A i \in 1 .. n : B(i - 1) => I(n + m + 15 + n + 1 - i + 1)
  OBVIOUS
<1> HIDE DEF n, A, B, C, I
<1>3. ASSUME NEW i \in 0 .. n - 1, A(i + 1) PROVE I(i + 1 + 1)
  <2>1. i + 1 \in 0 .. n
    BY <1>1
  <2> QED  BY <1>2, <1>3, <2>1
<1>4. ASSUME NEW i \in 0 .. m - 1, B(n) PROVE I(n + i + 1 + 1)
  <2>1. i + 1 \in 0 .. m /\ n + i + 1 + 1 = n + (i + 1) + 1
    BY <1>1
  <2> QED  BY <1>2, <1>4, <2>1
<1>5. ASSUME NEW q \in 0 .. 14, C(q + 1) PROVE I(n + m + q + 1 + 1)
  <2>1. q + 1 \in 0 .. 15 /\ n + m + q + 1 + 1 = n + m + (q + 1) + 1
    BY <1>1
  <2> QED  BY <1>2, <1>5, <2>1
<1>6. ASSUME NEW i \in 1 .. n, B(i - 1) PROVE I(n + m + 15 + n + 1 - i + 1)
  <2>1. i - 1 \in 0 .. n /\ n + m + 15 + n + 1 - i + 1 = n + m + 15 + n + 1 - (i - 1)
    BY <1>1
  <2> QED  BY <1>2, <1>6, <2>1
<1> QED  BY <1>3, <1>4, <1>5, <1>6

LEMMA WrapperStep ==
    ASSUME Next, pc[1] = "wrapper", NEW args \in Seq({"constant", "address"}), Len(args) <= Len(ArgRegs),
           text.wrapper = generateWrapperInstructions(args), NEW m, m = Len(args), NEW E \in Int, NEW R, NEW F, NEW M,
           InWrapper(pc[2], m, E, R, F, M, reg, flags, stack, fp)
    PROVE  \/ Stays /\ Forward /\ InWrapper(pc[2] + 1, m, E, R, F, M, reg', flags', stack', fp')
           \/ current = <<"ret">> /\ WUnwinding(0, E, R, F, M, reg, flags, stack, fp)
<1> DEFINE w == generateWrapperInstructions(args)
           j == pc[2]
<1>0. WLen \in Nat /\ m \in Nat /\ WLen = Len(WSaves) /\ InWrapper(j, m, E, R, F, M, reg, flags, stack, fp)
  BY WFacts
<1>1. /\ \A k \in 1 .. WLen : w[k] = WSaves[k]
      /\ \A k \in 1 .. m : Passes(w[WLen + k])
      /\ \A k \in 1 .. 6 : w[WLen + m + k] = AlignStack[k]
      /\ \A k \in 1 .. 9 : w[WLen + m + 6 + k] = CallStack[k]
      /\ \A k \in 1 .. WLen : w[WLen + m + 15 + WLen + 1 - k] = Undo(WSaves[k])
      /\ w[WLen + m + 15 + WLen + 1] = <<"ret">>
  <2>1. WrapperCode(generateWrapperInstructions(args), Len(WSaves), Len(args))
    BY WrapperAt
  <2>2. WrapperCode(w, WLen, m)
    BY <2>1 DEF WLen
  <2> HIDE DEF w
  <2> QED  BY <2>2 DEF WrapperCode
<1>2. ~Done /\ current = w[j]
  <2>1. text["wrapper"] = w
    OBVIOUS
  <2> QED  BY <2>1 DEF Done, current
<1>3. \A k \in 1 .. WLen : WSaves[k] \in SaveOps
  <2>1. SavesWell(WSaves)
    BY WSavesIs
  <2> QED  BY <1>0, <2>1 DEF SavesWell
<1> HIDE DEF j
<1>4. \/ \E i \in 0 .. WLen - 1 : j = i + 1 /\ WSaving(i, E, R, F, M, reg, flags, stack, fp)
      \/ \E i \in 0 .. m - 1 : j = WLen + i + 1 /\ WUnwinding(WLen, E, R, F, M, reg, flags, stack, fp)
      \/ \E q \in 0 .. 14 : j = WLen + m + q + 1 /\ WAligned(q, E, R, F, M, reg, stack, fp)
      \/ \E i \in 1 .. WLen : j = WLen + m + 15 + WLen + 1 - i /\ WUnwinding(i, E, R, F, M, reg, flags, stack, fp)
      \/ j = WLen + m + 15 + WLen + 1 /\ WUnwinding(0, E, R, F, M, reg, flags, stack, fp)
  <2>1. Placed(j, m, E, R, F, M, reg, flags, stack, fp)
    BY <1>0, WPlace
  <2> QED  BY <2>1 DEF Placed
<1> HIDE DEF w
<1>5. ASSUME NEW i \in 0 .. WLen - 1, j = i + 1, WSaving(i, E, R, F, M, reg, flags, stack, fp)
      PROVE  Stays /\ Forward /\ InWrapper(j + 1, m, E, R, F, M, reg', flags', stack', fp')
  <2> DEFINE op == WSaves[i + 1]
  <2>1. i + 1 \in 1 .. WLen
    BY <1>0
  <2>2. op = current /\ op \in SaveOps
    BY <1>1, <1>2, <1>3, <1>5, <2>1
  <2> HIDE DEF op
  <2>3. op[1] \in {"push", "pushf", "lahf", "addsp"}
    BY <2>2, SaveOp
  <2>4. SavedBy(op, reg, flags, stack, reg', flags', stack') /\ fp' = fp /\ Stays /\ Forward
    BY <1>2, <2>2, <2>3, SaveOpStep
  <2>5. WSaving(i + 1, E, R, F, M, reg', flags', stack', fp')
    BY <1>5, <2>4, WSaves1 DEF op
  <2>6. InWrapper(i + 1 + 1, m, E, R, F, M, reg', flags', stack', fp')
    BY <1>0, <2>5, WPhases
  <2> QED  BY <1>5, <2>4, <2>6
<1>6. ASSUME NEW i \in 0 .. m - 1, j = WLen + i + 1, WUnwinding(WLen, E, R, F, M, reg, flags, stack, fp)
      PROVE  Stays /\ Forward /\ InWrapper(j + 1, m, E, R, F, M, reg', flags', stack', fp')
  <2>1. i + 1 \in 1 .. m /\ WLen + (i + 1) = WLen + i + 1
    BY <1>0
  <2>2. Passes(current)
    <3>1. Passes(w[WLen + (i + 1)])
      BY <1>1, <2>1
    <3> QED  BY <1>2, <1>6, <2>1, <3>1
  <2>3. IsFile(reg)
    BY <1>6 DEF WUnwinding, Unwinding, Undoable, AtDepth
  <2>4. PICK d, v : d \in GPRs \ {SP} /\ reg' = Write(reg, d, v) /\ stack' = stack /\ fp' = fp /\ Stays /\ Forward
    BY <1>2, <2>2, <2>3, PassEffect
  <2>5. WUnwinding(WLen, E, R, F, M, reg', flags', stack', fp')
    BY <1>6, <2>4, WPasses1
  <2>6. InWrapper(WLen + i + 1 + 1, m, E, R, F, M, reg', flags', stack', fp')
    BY <1>0, <2>5, WPhases
  <2> QED  BY <1>6, <2>4, <2>6
<1>7. ASSUME NEW q \in 0 .. 14, j = WLen + m + q + 1, WAligned(q, E, R, F, M, reg, stack, fp)
      PROVE  Stays /\ Forward /\ InWrapper(j + 1, m, E, R, F, M, reg', flags', stack', fp')
  <2> DEFINE op == Middle(q)
  <2>1. op = current
    <3>1. CASE q < 6
      <4>1. q + 1 \in 1 .. 6 /\ WLen + m + (q + 1) = WLen + m + q + 1
        BY <1>0, <3>1
      <4>2. w[WLen + m + (q + 1)] = AlignStack[q + 1]
        BY <1>1, <4>1
      <4> QED  BY <1>2, <1>7, <3>1, <4>1, <4>2 DEF Middle
    <3>2. CASE ~(q < 6)
      <4>1. q - 5 \in 1 .. 9 /\ WLen + m + 6 + (q - 5) = WLen + m + q + 1
        BY <1>0, <3>2
      <4>2. w[WLen + m + 6 + (q - 5)] = CallStack[q - 5]
        BY <1>1, <4>1
      <4> QED  BY <1>2, <1>7, <3>2, <4>1, <4>2 DEF Middle
    <3> QED  BY <3>1, <3>2
  <2>2. IsFile(reg)
    BY <1>7 DEF WAligned, Aligned
  <2>3. op = Middle(q)
    OBVIOUS
  <2> HIDE DEF op
  <2>4. MiddleBy(op, reg, stack, fp, reg', stack', fp') /\ Stays /\ Forward
    BY <1>2, <2>1, <2>2, <2>3, MiddleEffect
  <2>5. WAligned(q + 1, E, R, F, M, reg', stack', fp')
    BY <1>7, <2>3, <2>4, WMiddle1
  <2>6. InWrapper(WLen + m + q + 1 + 1, m, E, R, F, M, reg', flags', stack', fp')
    BY <1>0, <2>5, WPhases
  <2> QED  BY <1>7, <2>4, <2>6
<1>8. ASSUME NEW i \in 1 .. WLen, j = WLen + m + 15 + WLen + 1 - i, WUnwinding(i, E, R, F, M, reg, flags, stack, fp)
      PROVE  Stays /\ Forward /\ InWrapper(j + 1, m, E, R, F, M, reg', flags', stack', fp')
  <2> DEFINE op == WSaves[i]
  <2>1. op \in SaveOps /\ Undo(op) = current
    BY <1>1, <1>2, <1>3, <1>8
  <2> HIDE DEF op
  <2>2. RestoredBy(op, reg, flags, stack, reg', flags', stack') /\ fp' = fp /\ Stays /\ Forward
    BY <1>2, <2>1, UndoStep
  <2>3. WUnwinding(i - 1, E, R, F, M, reg', flags', stack', fp')
    BY <1>8, <2>2, WRestores1 DEF op
  <2>4. InWrapper(WLen + m + 15 + WLen + 1 - i + 1, m, E, R, F, M, reg', flags', stack', fp')
    BY <1>0, <2>3, WPhases
  <2> QED  BY <1>8, <2>2, <2>4
<1>9. ASSUME j = WLen + m + 15 + WLen + 1, WUnwinding(0, E, R, F, M, reg, flags, stack, fp)
      PROVE  current = <<"ret">> /\ WUnwinding(0, E, R, F, M, reg, flags, stack, fp)
  BY <1>1, <1>2, <1>9
<1>10. \/ Stays /\ Forward /\ InWrapper(j + 1, m, E, R, F, M, reg', flags', stack', fp')
       \/ current = <<"ret">> /\ WUnwinding(0, E, R, F, M, reg, flags, stack, fp)
  BY <1>4, <1>5, <1>6, <1>7, <1>8, <1>9
<1> QED  BY <1>10 DEF j

-----------------------------------------------------------------------------
(* The point: saving, its body, restoring.                                  *)

SLen(p) == Len(Saves(p))
ILen(p) == Len(Inserted(p))
BLen(p) == Len(Body(p))
PSaving(i, p, rg, fl, st, f) ==
    Saving(Saves(p), i, p.sp, Before(p), R0(p), F0, Bottom(p), ProgramStack(p), rg, fl, st) /\ f = NoneYet
PBody(i, p, rg, fl, st, f) == InBody(p, i, rg, fl, st) /\ f = NoneYet
PUnwinding(i, p, rg, fl, st, f) ==
    /\ Unwinding(Saves(p), i, p.sp, After(p), R0(p), KeptFlags(p), F0, Bottom(p), ProgramStack(p), rg, fl, st)
    /\ p.kind # "replace" => f = NoneYet

LEMMA PLengths ==
    ASSUME NEW p \in Points
    PROVE  /\ SLen(p) \in Nat /\ ILen(p) \in Nat /\ BLen(p) \in Nat /\ BLen(p) = (IF Calls(p) THEN ILen(p) + 1 ELSE ILen(p))
           /\ SLen(p) \in 0 .. Len(Saves(p)) /\ SLen(p) = Len(Saves(p)) /\ SavesWell(Saves(p))
           /\ \A k \in 1 .. SLen(p) : Saves(p)[k] \in SaveOps
           /\ Calls(p) <=> p.kind \in {"check", "call", "replace"}
<1>1. BLen(p) = (IF Calls(p) THEN ILen(p) + 1 ELSE ILen(p)) /\ ILen(p) \in Nat
  BY BodyLength DEF BLen, ILen
<1>2. SavesWell(Saves(p)) /\ Len(Saves(p)) \in Nat
  BY EnteredIs
<1>3. \A k \in 1 .. SLen(p) : Saves(p)[k] \in SaveOps
  BY <1>2 DEF SavesWell, SLen
<1>4. BLen(p) \in Nat
  BY <1>1
<1> QED  BY <1>1, <1>2, <1>3, <1>4 DEF SLen, Calls

LEMMA PTurns ==
    ASSUME NEW p \in Points, NEW rg, NEW fl, NEW st, NEW f
    PROVE  /\ PSaving(SLen(p), p, rg, fl, st, f) => PBody(0, p, rg, fl, st, f)
           /\ p.kind # "replace" /\ PBody(BLen(p), p, rg, fl, st, f) => PUnwinding(SLen(p), p, rg, fl, st, f)
<1>1. ASSUME PSaving(SLen(p), p, rg, fl, st, f) PROVE PBody(0, p, rg, fl, st, f)
  <2>1. PICK n : n = Len(Saves(p))
    OBVIOUS
  <2>2. Saving(Saves(p), n, p.sp, Before(p), R0(p), F0, Bottom(p), ProgramStack(p), rg, fl, st) /\ f = NoneYet
    BY <1>1, <2>1 DEF PSaving, SLen
  <2>3. InBody(p, 0, rg, fl, st)
    BY <2>1, <2>2, BodyBegins
  <2> QED  BY <2>2, <2>3 DEF PBody
<1>2. ASSUME p.kind # "replace", PBody(BLen(p), p, rg, fl, st, f) PROVE PUnwinding(SLen(p), p, rg, fl, st, f)
  <2>1. PICK n : n = Len(Saves(p))
    OBVIOUS
  <2>2. InBody(p, Len(Body(p)), rg, fl, st) /\ f = NoneYet
    BY <1>2 DEF PBody, BLen
  <2>3. Unwinding(Saves(p), n, p.sp, After(p), R0(p), KeptFlags(p), F0, Bottom(p), ProgramStack(p), rg, fl, st)
    BY <1>2, <2>1, <2>2, BodyEnds
  <2> QED  BY <2>1, <2>2, <2>3 DEF PUnwinding, SLen
<1> QED  BY <1>1, <1>2

LEMMA PSaves1 ==
    ASSUME NEW p \in Points, NEW i \in 0 .. SLen(p) - 1, NEW rg, NEW fl, NEW st, NEW f, PSaving(i, p, rg, fl, st, f),
           NEW rg2, NEW fl2, NEW st2, NEW f2, f2 = f, SavedBy(Saves(p)[i + 1], rg, fl, st, rg2, fl2, st2)
    PROVE  PSaving(i + 1, p, rg2, fl2, st2, f2)
<1> DEFINE s == Saves(p)
           G == Before(p)
           S == p.sp
           B == Bottom(p)
           M == ProgramStack(p)
           R == R0(p)
<1>1. /\ SavesWell(s) /\ Room(s, S, B) /\ i \in 0 .. Len(s) - 1 /\ G \subseteq GPRs
      /\ \A k \in 1 .. Len(s) : s[k][1] = "push" => s[k][2] \in G
  BY SavesOf, RegsFacts DEF SLen
<1>2. Saving(s, i, S, G, R, F0, B, M, rg, fl, st) /\ f2 = NoneYet /\ SavedBy(s[i + 1], rg, fl, st, rg2, fl2, st2)
  BY DEF PSaving
<1> HIDE DEF s, G, S, B, M, R
<1>3. Saving(s, i + 1, S, G, R, F0, B, M, rg2, fl2, st2)
  BY <1>1, <1>2, SaveStep
<1> QED  BY <1>2, <1>3 DEF PSaving, s, G, S, B, M, R

LEMMA PRestores1 ==
    ASSUME NEW p \in Points, NEW i \in 1 .. SLen(p), NEW rg, NEW fl, NEW st, NEW f, PUnwinding(i, p, rg, fl, st, f),
           NEW rg2, NEW fl2, NEW st2, NEW f2, f2 = f, RestoredBy(Saves(p)[i], rg, fl, st, rg2, fl2, st2)
    PROVE  PUnwinding(i - 1, p, rg2, fl2, st2, f2)
<1> DEFINE s == Saves(p)
           G == After(p)
           K == KeptFlags(p)
           S == p.sp
           B == Bottom(p)
           M == ProgramStack(p)
           R == R0(p)
<1>1. SavesWell(s) /\ i \in 1 .. Len(s) /\ G \subseteq GPRs /\ K \subseteq Flags /\ S \in Int
  BY SavesOf, RegsFacts, PointFacts DEF SLen
<1>2. /\ Unwinding(s, i, S, G, R, K, F0, B, M, rg, fl, st) /\ RestoredBy(s[i], rg, fl, st, rg2, fl2, st2)
      /\ p.kind # "replace" => f2 = NoneYet
  BY DEF PUnwinding
<1> HIDE DEF s, G, K, S, B, M, R
<1>3. Unwinding(s, i - 1, S, G, R, K, F0, B, M, rg2, fl2, st2)
  BY <1>1, <1>2, RestoreStep
<1> QED  BY <1>2, <1>3 DEF PUnwinding, s, G, K, S, B, M, R

AtPoint(k, p, rg, fl, st, f) ==
    \/ \E i \in 0 .. SLen(p) : k = i + 1 /\ PSaving(i, p, rg, fl, st, f)
    \/ \E i \in 0 .. BLen(p) : /\ k = SLen(p) + i + 1 /\ PBody(i, p, rg, fl, st, f)
                               /\ p.kind = "replace" => i <= ILen(p)
    \/ \E i \in 0 .. SLen(p) : k = SLen(p) + BLen(p) + SLen(p) + 1 - i /\ PUnwinding(i, p, rg, fl, st, f)
PlacedAt(k, p, rg, fl, st, f) ==
    \/ \E i \in 0 .. SLen(p) - 1 : k = i + 1 /\ PSaving(i, p, rg, fl, st, f)
    \/ \E i \in 0 .. ILen(p) - 1 : k = SLen(p) + i + 1 /\ PBody(i, p, rg, fl, st, f)
    \/ Calls(p) /\ k = SLen(p) + ILen(p) + 1 /\ PBody(ILen(p), p, rg, fl, st, f)
    \/ \E i \in 1 .. SLen(p) : k = SLen(p) + BLen(p) + SLen(p) + 1 - i /\ PUnwinding(i, p, rg, fl, st, f)
    \/ k = SLen(p) + BLen(p) + SLen(p) + 1 /\ PUnwinding(0, p, rg, fl, st, f)

LEMMA PPlace ==
    ASSUME NEW p \in Points, NEW rg, NEW fl, NEW st, NEW f, NEW k, AtPoint(k, p, rg, fl, st, f)
    PROVE  PlacedAt(k, p, rg, fl, st, f)
<1> DEFINE n == SLen(p)
           b == BLen(p)
           c == ILen(p)
           A(i) == PSaving(i, p, rg, fl, st, f)
           B(i) == PBody(i, p, rg, fl, st, f)
           C(i) == PUnwinding(i, p, rg, fl, st, f)
           Goal == \/ \E i \in 0 .. n - 1 : k = i + 1 /\ A(i)
                   \/ \E i \in 0 .. c - 1 : k = n + i + 1 /\ B(i)
                   \/ Calls(p) /\ k = n + c + 1 /\ B(c)
                   \/ \E i \in 1 .. n : k = n + b + n + 1 - i /\ C(i)
                   \/ k = n + b + n + 1 /\ C(0)
<1>1. n \in Nat /\ b \in Nat /\ c \in Nat /\ b = (IF Calls(p) THEN c + 1 ELSE c) /\ (p.kind = "replace" => Calls(p))
  BY PLengths
<1>2. (A(n) => B(0)) /\ (p.kind # "replace" /\ B(b) => C(n))
  BY PTurns
<1>3. \/ \E i \in 0 .. n : k = i + 1 /\ A(i)
      \/ \E i \in 0 .. b : k = n + i + 1 /\ B(i) /\ (p.kind = "replace" => i <= c)
      \/ \E i \in 0 .. n : k = n + b + n + 1 - i /\ C(i)
  BY DEF AtPoint
<1> SUFFICES Goal
  BY DEF PlacedAt
<1> HIDE DEF n, b, c, A, B, C
<1>4. ASSUME NEW i \in 0 .. n, k = n + b + n + 1 - i, C(i) PROVE Goal
  <2>1. CASE i = 0
    <3>1. k = n + b + n + 1
      BY <1>1, <1>4, <2>1
    <3> QED  BY <1>4, <2>1, <3>1
  <2>2. CASE i # 0
    <3>1. i \in 1 .. n
      BY <1>1, <2>2
    <3> QED  BY <1>4, <3>1
  <2> QED  BY <2>1, <2>2
<1>5. ASSUME NEW i \in 0 .. b, k = n + i + 1, B(i), p.kind = "replace" => i <= c PROVE Goal
  <2>1. CASE i < c
    <3>1. i \in 0 .. c - 1
      BY <1>1, <2>1
    <3> QED  BY <1>5, <3>1
  <2>2. CASE i = c /\ Calls(p)
    BY <1>5, <2>2
  <2>3. CASE ~(i < c) /\ ~(i = c /\ Calls(p))
    <3>1. i = b /\ p.kind # "replace"
      BY <1>1, <1>5, <2>3
    <3>2. k = n + b + n + 1 - n /\ n \in 0 .. n /\ C(n)
      BY <1>1, <1>2, <1>5, <3>1
    <3> QED  BY <1>4, <3>2
  <2> QED  BY <2>1, <2>2, <2>3
<1>6. ASSUME NEW i \in 0 .. n, k = i + 1, A(i) PROVE Goal
  <2>1. CASE i = n
    <3>1. k = n + 0 + 1 /\ 0 \in 0 .. b /\ B(0) /\ 0 <= c
      BY <1>1, <1>2, <1>6, <2>1
    <3> QED  BY <1>5, <3>1
  <2>2. CASE i # n
    <3>1. i \in 0 .. n - 1
      BY <1>1, <2>2
    <3> QED  BY <1>6, <3>1
  <2> QED  BY <2>1, <2>2
<1> QED  BY <1>3, <1>4, <1>5, <1>6

LEMMA PPhases ==
    ASSUME NEW p \in Points, NEW rg, NEW fl, NEW st, NEW f
    PROVE  /\ \A i \in 0 .. SLen(p) - 1 : PSaving(i + 1, p, rg, fl, st, f) => AtPoint(i + 1 + 1, p, rg, fl, st, f)
           /\ \A i \in 0 .. ILen(p) - 1 : PBody(i + 1, p, rg, fl, st, f) => AtPoint(SLen(p) + i + 1 + 1, p, rg, fl, st, f)
           /\ \A i \in 0 .. ILen(p) - 1 : p.kind = "check" /\ PBody(i + 2, p, rg, fl, st, f) =>
                AtPoint(SLen(p) + i + 1 + 2, p, rg, fl, st, f)
           /\ p.kind # "replace" /\ PBody(BLen(p), p, rg, fl, st, f) => AtPoint(SLen(p) + BLen(p) + 1, p, rg, fl, st, f)
           /\ PUnwinding(SLen(p), p, rg, fl, st, f) => AtPoint(SLen(p) + BLen(p) + 1, p, rg, fl, st, f)
           /\ \A i \in 1 .. SLen(p) : PUnwinding(i - 1, p, rg, fl, st, f) =>
                AtPoint(SLen(p) + BLen(p) + SLen(p) + 1 - i + 1, p, rg, fl, st, f)
<1> DEFINE n == SLen(p)
           b == BLen(p)
           c == ILen(p)
           A(i) == PSaving(i, p, rg, fl, st, f)
           B(i) == PBody(i, p, rg, fl, st, f)
           C(i) == PUnwinding(i, p, rg, fl, st, f)
           P(k) == AtPoint(k, p, rg, fl, st, f)
<1>1. n \in Nat /\ b \in Nat /\ c \in Nat /\ b = (IF Calls(p) THEN c + 1 ELSE c) /\ (p.kind = "check" => Calls(p))
  BY PLengths
<1>2. \A k : P(k) <=>
        \/ \E i \in 0 .. n : k = i + 1 /\ A(i)
        \/ \E i \in 0 .. b : k = n + i + 1 /\ B(i) /\ (p.kind = "replace" => i <= c)
        \/ \E i \in 0 .. n : k = n + b + n + 1 - i /\ C(i)
  BY DEF AtPoint
<1> SUFFICES /\ \A i \in 0 .. n - 1 : A(i + 1) => P(i + 1 + 1)
             /\ \A i \in 0 .. c - 1 : B(i + 1) => P(n + i + 1 + 1)
             /\ \A i \in 0 .. c - 1 : p.kind = "check" /\ B(i + 2) => P(n + i + 1 + 2)
             /\ p.kind # "replace" /\ B(b) => P(n + b + 1)
             /\ C(n) => P(n + b + 1)
             /\ \A i \in 1 .. n : C(i - 1) => P(n + b + n + 1 - i + 1)
  OBVIOUS
<1> HIDE DEF n, b, c, A, B, C, P
<1>3. ASSUME NEW i \in 0 .. n - 1, A(i + 1) PROVE P(i + 1 + 1)
  <2>1. i + 1 \in 0 .. n
    BY <1>1
  <2> QED  BY <1>2, <1>3, <2>1
<1>4. ASSUME NEW i \in 0 .. c - 1, B(i + 1) PROVE P(n + i + 1 + 1)
  <2>1. i + 1 \in 0 .. b /\ n + i + 1 + 1 = n + (i + 1) + 1 /\ i + 1 <= c
    BY <1>1
  <2> QED  BY <1>2, <1>4, <2>1
<1>5. ASSUME NEW i \in 0 .. c - 1, p.kind = "check", B(i + 2) PROVE P(n + i + 1 + 2)
  <2>1. i + 2 \in 0 .. b /\ n + i + 1 + 2 = n + (i + 2) + 1
    BY <1>1, <1>5
  <2> QED  BY <1>2, <1>5, <2>1
<1>6. ASSUME p.kind # "replace", B(b) PROVE P(n + b + 1)
  <2>1. b \in 0 .. b
    BY <1>1
  <2> QED  BY <1>2, <1>6, <2>1
<1>7. ASSUME C(n) PROVE P(n + b + 1)
  <2>1. n \in 0 .. n /\ n + b + 1 = n + b + n + 1 - n
    BY <1>1
  <2> QED  BY <1>2, <1>7, <2>1
<1>8. ASSUME NEW i \in 1 .. n, C(i - 1) PROVE P(n + b + n + 1 - i + 1)
  <2>1. i - 1 \in 0 .. n /\ n + b + n + 1 - i + 1 = n + b + n + 1 - (i - 1)
    BY <1>1
  <2> QED  BY <1>2, <1>8, <2>1
<1> QED  BY <1>3, <1>4, <1>5, <1>6, <1>7, <1>8

LEMMA PCode ==
    ASSUME NEW p \in Points
    PROVE  LaidIn(PointCode(p), p, SLen(p), ILen(p), BLen(p))
<1>1. PICK n, i, b, c : n = Len(Saves(p)) /\ i = Len(Inserted(p)) /\ b = Len(Body(p)) /\ c = PointCode(p)
  OBVIOUS
<1>2. LaidIn(c, p, n, i, b)
  BY <1>1, PointAt
<1> QED  BY <1>1, <1>2 DEF SLen, ILen, BLen

\* An instruction of the body other than the call and the branch.
LEMMA BodyEffect ==
    ASSUME Next, ~Done, NEW p \in Points, NEW i \in 0 .. ILen(p) - 1, PBody(i, p, reg, flags, stack, fp),
           NEW op, op = current, op = Inserted(p)[i + 1]
    PROVE  /\ Stays
           /\ \/ Forward /\ PBody(i + 1, p, reg', flags', stack', fp')
              \/ p.kind = "check" /\ pc' = <<pc[1], pc[2] + 2>> /\ PBody(i + 2, p, reg', flags', stack', fp')
<1>1. Plain(p, op) /\ i \in 0 .. Len(Inserted(p)) - 1
  <2>1. AllPlain(p, Inserted(p)) /\ ILen(p) \in Nat
    BY InsertedPlain, PLengths
  <2>2. i + 1 \in 1 .. Len(Inserted(p))
    BY <2>1 DEF ILen
  <2> QED  BY <2>1, <2>2 DEF AllPlain, ILen
<1>2. InBody(p, i, reg, flags, stack) /\ fp = NoneYet
  BY DEF PBody
<1>3. ASSUME op[1] \in {"op", "store", "add", "cmp", "save", "restore"}
      PROVE  Stays /\ Forward /\ PBody(i + 1, p, reg', flags', stack', fp')
  <2>1. /\ ComputedBy(op, reg, flags, stack, reg', flags', stack') /\ fp' = fp /\ Stays /\ Forward
        /\ op[1] = "op" => reg' = Write(reg, op[2], Value(op, reg))
    BY <1>3, PlainStep
  <2>2. InBody(p, i + 1, reg', flags', stack')
    BY <1>1, <1>2, <2>1, BodyStep
  <2> QED  BY <1>2, <2>1, <2>2 DEF PBody
<1>4. ASSUME op[1] = "jl"
      PROVE  /\ Stays /\ p.kind = "check"
             /\ \/ Forward /\ PBody(i + 1, p, reg', flags', stack', fp')
                \/ pc' = <<pc[1], pc[2] + 2>> /\ PBody(i + 2, p, reg', flags', stack', fp')
  <2>1. p.kind = "check"
    BY <1>1, <1>4 DEF Plain
  <2>2. /\ reg' = reg /\ flags' = flags /\ stack' = stack /\ fp' = fp /\ Stays
        /\ pc' = <<pc[1], pc[2] + 1>> \/ pc' = <<pc[1], pc[2] + 2>>
    BY <1>4, OtherSteps
  <2>3. InBody(p, i + 1, reg, flags, stack) /\ InBody(p, i + 2, reg, flags, stack)
    BY <1>2, <2>1 DEF InBody
  <2> QED  BY <1>2, <2>1, <2>2, <2>3 DEF PBody, Forward
<1> QED  BY <1>1, <1>3, <1>4 DEF Plain

\* Where the wrapper begins: the registers, flags and memory of the point are what it will put back.
Calling(p, rg, fl, st, f) ==
    \E R, F, M : CallFrame(p, R, F, M) /\ WSaving(0, Entered(p), R, F, M, rg, fl, st, f)

LEMMA CallEffect ==
    ASSUME Next, ~Done, NEW p \in Points, PBody(ILen(p), p, reg, flags, stack, fp), p.kind \in {"check", "call"},
           current = <<"call">>, pc[2] = SLen(p) + ILen(p) + 1
    PROVE  Stays /\ pc' = <<"wrapper", 1>> /\ Calling(p, reg', flags', stack', fp')
<1> DEFINE st2 == PutAt(stack, reg[SP][2] - 8, <<"return", Len(Saves(p)) + Len(Body(p)) + 1>>)
           rg2 == MovedTo(reg, reg[SP][2] - 8)
<1>1. /\ stack' = PutAt(stack, reg[SP][2] - 8, <<"return", pc[2] + 1>>)
      /\ reg' = rg2 /\ pc' = <<"wrapper", 1>> /\ flags' = flags /\ fp' = fp /\ Stays
  <2>1. PICK op : op = current /\ op[1] = "call"
    OBVIOUS
  <2> QED  BY <2>1, OtherSteps
<1>2. pc[2] + 1 = Len(Saves(p)) + Len(Body(p)) + 1
  <2>1. BLen(p) = ILen(p) + 1 /\ SLen(p) \in Nat /\ ILen(p) \in Nat
    BY PLengths
  <2>2. pc[2] + 1 = SLen(p) + BLen(p) + 1
    BY <2>1
  <2> QED  BY <2>2 DEF SLen, BLen
<1>3. stack' = st2
  BY <1>1, <1>2
<1>4. InBody(p, Len(Inserted(p)), reg, flags, stack) /\ fp = NoneYet
  BY DEF PBody, ILen
<1>5. PICK s2, r2, f2 : s2 = st2 /\ r2 = rg2 /\ f2 = flags
  OBVIOUS
<1>6. s2 = PutAt(stack, reg[SP][2] - 8, <<"return", Len(Saves(p)) + Len(Body(p)) + 1>>) /\ r2 = MovedTo(reg, reg[SP][2] - 8)
      /\ \A f \in Flags : f2[f] = flags[f]
  BY <1>5
<1>7. /\ CallFrame(p, reg, flags, s2)
      /\ Saving(WSaves, 0, Entered(p), GPRs, reg, flags, Entered(p), s2, r2, f2, s2)
  BY <1>4, <1>6, CallStarts
<1> HIDE DEF st2, rg2
<1>8. WSaving(0, Entered(p), reg, flags, s2, reg', flags', stack', fp')
  BY <1>1, <1>3, <1>4, <1>5, <1>7 DEF WSaving
<1> QED  BY <1>1, <1>7, <1>8 DEF Calling

LEMMA ReplaceEffect ==
    ASSUME Next, ~Done, NEW p \in Points, PBody(ILen(p), p, reg, flags, stack, fp), p.kind = "replace", current = <<"external">>
    PROVE  Stays /\ Forward /\ PUnwinding(SLen(p), p, reg', flags', stack', fp')
<1>1. /\ reg' = [r \in GPRs |-> IF r \in CalleeSaved THEN reg[r] ELSE Junk]
      /\ stack' = [a \in {x \in DOMAIN stack : x >= reg[SP][2]} |-> stack[a]]
      /\ Stays /\ Forward
  <2>1. PICK op : op = current /\ op[1] = "external"
    OBVIOUS
  <2> QED  BY <2>1, OtherSteps
<1>2. IsFile(reg') /\ reg'[SP] = reg[SP]
  BY <1>1 DEF IsFile, CalleeSaved, GPRs, SP
<1>3. Cells(reg[SP][2], stack, stack')
  BY <1>1 DEF Cells
<1>4. PICK n, j : n = Len(Saves(p)) /\ j = ILen(p)
  OBVIOUS
<1>5. InBody(p, j, reg, flags, stack)
  BY <1>4 DEF PBody
<1>6. Unwinding(Saves(p), n, p.sp, After(p), R0(p), KeptFlags(p), F0, Bottom(p), ProgramStack(p), reg', flags', stack')
  BY <1>2, <1>3, <1>4, <1>5, ReplacedCall
<1> QED  BY <1>1, <1>4, <1>6 DEF PUnwinding, SLen

LEMMA PointStep ==
    ASSUME Next, ~Done, pc[1] = "point", NEW p \in Points, text.point = PointCode(p), AtPoint(pc[2], p, reg, flags, stack, fp)
    PROVE  /\ Stays
           /\ \/ pc'[1] = "point" /\ AtPoint(pc'[2], p, reg', flags', stack', fp')
              \/ pc' = <<"wrapper", 1>> /\ Calling(p, reg', flags', stack', fp')
<1> DEFINE c == PointCode(p)
           k == pc[2]
           n == SLen(p)
           b == BLen(p)
           i == ILen(p)
<1>1. /\ Len(c) = n + b + n
      /\ \A x \in 1 .. n : c[x] = Saves(p)[x]
      /\ \A x \in 1 .. i : c[n + x] = Inserted(p)[x]
      /\ p.kind = "replace" => c[n + i + 1] = <<"external">>
      /\ p.kind \in {"check", "call"} => c[n + i + 1] = <<"call">>
      /\ \A x \in 1 .. n : c[n + b + n + 1 - x] = Undo(Saves(p)[x])
  <2>1. LaidIn(c, p, n, i, b)
    BY PCode
  <2> HIDE DEF c, n, i, b
  <2> QED  BY <2>1 DEF LaidIn
<1>2. current = c[k] /\ ~(k > Len(c)) /\ k = pc[2]
  <2>1. text["point"] = c
    OBVIOUS
  <2> QED  BY <2>1 DEF Done, current
<1>3. n \in Nat /\ b \in Nat /\ i \in Nat /\ b = (IF Calls(p) THEN i + 1 ELSE i)
  BY PLengths
<1>4. \A x \in 1 .. n : Saves(p)[x] \in SaveOps
  BY PLengths
<1>5. Calls(p) <=> p.kind \in {"check", "call", "replace"}
  BY PLengths
<1>6. \/ \E j \in 0 .. n - 1 : k = j + 1 /\ PSaving(j, p, reg, flags, stack, fp)
      \/ \E j \in 0 .. i - 1 : k = n + j + 1 /\ PBody(j, p, reg, flags, stack, fp)
      \/ Calls(p) /\ k = n + i + 1 /\ PBody(i, p, reg, flags, stack, fp)
      \/ \E j \in 1 .. n : k = n + b + n + 1 - j /\ PUnwinding(j, p, reg, flags, stack, fp)
      \/ k = n + b + n + 1 /\ PUnwinding(0, p, reg, flags, stack, fp)
  <2>1. PlacedAt(k, p, reg, flags, stack, fp)
    BY PPlace
  <2> QED  BY <2>1 DEF PlacedAt
<1> DEFINE At(x) == AtPoint(x, p, reg', flags', stack', fp')
<1>7. /\ \A j \in 0 .. n - 1 : PSaving(j + 1, p, reg', flags', stack', fp') => At(j + 1 + 1)
      /\ \A j \in 0 .. i - 1 : PBody(j + 1, p, reg', flags', stack', fp') => At(n + j + 1 + 1)
      /\ \A j \in 0 .. i - 1 : p.kind = "check" /\ PBody(j + 2, p, reg', flags', stack', fp') => At(n + j + 1 + 2)
      /\ PUnwinding(n, p, reg', flags', stack', fp') => At(n + b + 1)
      /\ \A j \in 1 .. n : PUnwinding(j - 1, p, reg', flags', stack', fp') => At(n + b + n + 1 - j + 1)
  BY PPhases
<1>8. Forward => pc'[1] = "point" /\ pc'[2] = k + 1
  BY DEF Forward
<1> HIDE DEF c, k, n, b, i, At
<1>9. ASSUME NEW j \in 0 .. n - 1, k = j + 1, PSaving(j, p, reg, flags, stack, fp)
      PROVE  Stays /\ pc'[1] = "point" /\ At(pc'[2])
  <2> DEFINE op == Saves(p)[j + 1]
  <2>1. j + 1 \in 1 .. n
    BY <1>3
  <2>2. op = current /\ op \in SaveOps
    BY <1>1, <1>2, <1>4, <1>9, <2>1
  <2> HIDE DEF op
  <2>3. op[1] \in {"push", "pushf", "lahf", "addsp"}
    BY <2>2, SaveOp
  <2>4. SavedBy(op, reg, flags, stack, reg', flags', stack') /\ fp' = fp /\ Stays /\ Forward
    BY <2>2, <2>3, SaveOpStep
  <2>5. PSaving(j + 1, p, reg', flags', stack', fp')
    BY <1>9, <2>4, PSaves1 DEF op, n
  <2>6. At(j + 1 + 1)
    BY <1>7, <2>5
  <2> QED  BY <1>8, <1>9, <2>4, <2>6
<1>10. ASSUME NEW j \in 0 .. i - 1, k = n + j + 1, PBody(j, p, reg, flags, stack, fp)
       PROVE  Stays /\ pc'[1] = "point" /\ At(pc'[2])
  <2> DEFINE op == Inserted(p)[j + 1]
  <2>1. j + 1 \in 1 .. i /\ n + (j + 1) = n + j + 1
    BY <1>3
  <2>2. op = current /\ op = Inserted(p)[j + 1]
    <3>1. c[n + (j + 1)] = Inserted(p)[j + 1]
      BY <1>1, <2>1
    <3> QED  BY <1>2, <1>10, <2>1, <3>1
  <2> HIDE DEF op
  <2>3. /\ Stays
        /\ \/ Forward /\ PBody(j + 1, p, reg', flags', stack', fp')
           \/ p.kind = "check" /\ pc' = <<pc[1], pc[2] + 2>> /\ PBody(j + 2, p, reg', flags', stack', fp')
    BY <1>10, <2>2, BodyEffect DEF i
  <2>4. CASE Forward /\ PBody(j + 1, p, reg', flags', stack', fp')
    <3>1. At(n + j + 1 + 1)
      BY <1>7, <2>4
    <3> QED  BY <1>8, <1>10, <2>3, <2>4, <3>1
  <2>5. CASE p.kind = "check" /\ pc' = <<pc[1], pc[2] + 2>> /\ PBody(j + 2, p, reg', flags', stack', fp')
    <3>1. At(n + j + 1 + 2)
      BY <1>7, <2>5
    <3>2. pc'[1] = "point" /\ pc'[2] = k + 2
      BY <1>2, <2>5
    <3> QED  BY <1>10, <2>3, <3>1, <3>2
  <2> QED  BY <2>3, <2>4, <2>5
<1>11. ASSUME Calls(p), k = n + i + 1, PBody(i, p, reg, flags, stack, fp)
       PROVE  \/ Stays /\ pc'[1] = "point" /\ At(pc'[2])
              \/ Stays /\ pc' = <<"wrapper", 1>> /\ Calling(p, reg', flags', stack', fp')
  <2>1. CASE p.kind = "replace"
    <3>1. current = <<"external">>
      BY <1>1, <1>2, <1>11, <2>1
    <3>2. Stays /\ Forward /\ PUnwinding(n, p, reg', flags', stack', fp')
      BY <1>11, <2>1, <3>1, ReplaceEffect DEF i, n
    <3>3. n + b + 1 = k + 1
      BY <1>3, <1>11
    <3> QED  BY <1>7, <1>8, <3>2, <3>3
  <2>2. CASE p.kind \in {"check", "call"}
    <3>1. current = <<"call">> /\ pc[2] = n + i + 1
      BY <1>1, <1>2, <1>11, <2>2
    <3> QED  BY <1>11, <2>2, <3>1, CallEffect DEF i, n
  <2> QED  BY <1>5, <1>11, <2>1, <2>2
<1>12. ASSUME NEW j \in 1 .. n, k = n + b + n + 1 - j, PUnwinding(j, p, reg, flags, stack, fp)
       PROVE  Stays /\ pc'[1] = "point" /\ At(pc'[2])
  <2> DEFINE op == Saves(p)[j]
  <2>1. op \in SaveOps /\ Undo(op) = current
    BY <1>1, <1>2, <1>4, <1>12
  <2> HIDE DEF op
  <2>2. RestoredBy(op, reg, flags, stack, reg', flags', stack') /\ fp' = fp /\ Stays /\ Forward
    BY <2>1, UndoStep
  <2>3. PUnwinding(j - 1, p, reg', flags', stack', fp')
    BY <1>12, <2>2, PRestores1 DEF op, n
  <2>4. At(n + b + n + 1 - j + 1)
    BY <1>7, <2>3
  <2> QED  BY <1>8, <1>12, <2>2, <2>4
<1>13. ~(k = n + b + n + 1)
  BY <1>1, <1>2, <1>3
<1> QED  BY <1>6, <1>9, <1>10, <1>11, <1>12, <1>13 DEF At

-----------------------------------------------------------------------------
(* The invariant, and what it says when the point is done. *)

InThePoint == pc[1] = "point" /\ AtPoint(pc[2], pt, reg, flags, stack, fp)
InTheWrapper ==
    /\ pc[1] = "wrapper"
    /\ \E R, F, M : /\ CallFrame(pt, R, F, M)
                    /\ InWrapper(pc[2], Len(pt.args), Entered(pt), R, F, M, reg, flags, stack, fp)
Inv ==
    /\ pt \in Points
    /\ text = [point |-> PointCode(pt), wrapper |-> IF Calls(pt) THEN generateWrapperInstructions(pt.args) ELSE << >>]
    /\ InThePoint \/ InTheWrapper

LEMMA Begins ==
    ASSUME NEW p \in Points
    PROVE  /\ AtPoint(1, p, ProgramReg(p), F0, ProgramStack(p), NoneYet)
           /\ PSaving(0, p, ProgramReg(p), F0, ProgramStack(p), NoneYet)
<1> DEFINE s == Saves(p)
           z == 0
           rg == ProgramReg(p)
           M == ProgramStack(p)
<1>1. SavesWell(s) /\ z \in 0 .. Len(s) /\ z = 0 /\ SLen(p) \in Nat /\ p.sp \in Int
  <2>1. SavesWell(s) /\ SLen(p) \in Nat /\ Len(s) = SLen(p)
    BY PLengths
  <2> QED  BY <2>1, PointFacts
<1>2. ~Lahfed(s, z)
  BY DEF Lahfed
<1>3. IsFile(rg) /\ rg[SP] = SPvalue(p.sp)
  BY AxSp DEF IsFile, ProgramReg
<1>4. \A r \in Before(p) \ {SP} : rg[r] = R0(p)[r]
  BY RegsFacts DEF Before, ProgramReg, R0
<1>5. Slots(s, z, p.sp, R0(p), F0, M)
  BY DEF Slots
<1>6. Cells(Bottom(p), M, M)
  BY DEF Cells
<1> HIDE DEF s, z, rg, M
<1>7. Depth(s, z) = 0
  BY <1>1, DepthType
<1>8. AtDepth(s, z, p.sp, rg)
  <2>1. p.sp - Depth(s, z) = p.sp
    BY <1>1, <1>7
  <2> QED  BY <1>3, <2>1 DEF AtDepth
<1>9. Same(s, z, Before(p), R0(p), F0, rg, F0)
  BY <1>4 DEF Same
<1>10. PSaving(z, p, rg, F0, M, NoneYet)
  BY <1>2, <1>5, <1>6, <1>8, <1>9 DEF PSaving, Saving, Undoable, InAX, s, M
<1>11. z \in 0 .. SLen(p) /\ 1 = z + 1
  BY <1>1
<1> QED  BY <1>10, <1>11 DEF AtPoint, rg, M, z

LEMMA Ends ==
    ASSUME NEW p \in Points, NEW rg, NEW fl, NEW st, NEW f, PUnwinding(0, p, rg, fl, st, f)
    PROVE  /\ rg[SP] = SPvalue(p.sp)
           /\ \A a \in DOMAIN ProgramStack(p) :
                (a >= p.sp \/ (p.frame /\ p.kind # "replace")) => TopOf(st, a) = <<"program", a>>
           /\ p.kind # "replace" =>
                /\ \A r \in Live(p) \ {SP} : rg[r] = <<"program", r>>
                /\ f = NoneYet
                /\ \A x \in p.flags : (x = "OF" => canOverflow(p)) => fl[x] = <<"program", x>>
           /\ p.threadReg # NoReg => rg[p.threadReg] = <<"threaddata", 0>>
<1> DEFINE s == Saves(p)
           z == 0
           B == Bottom(p)
           M == ProgramStack(p)
           G == After(p)
           R == R0(p)
<1>1. /\ AtDepth(s, z, p.sp, rg) /\ Cells(B, M, st) /\ Kept(s, z, G, R, KeptFlags(p), F0, rg, fl)
      /\ p.kind # "replace" => f = NoneYet
  BY DEF PUnwinding, Unwinding, Undoable
<1>2. SavesWell(s) /\ z \in 0 .. Len(s) /\ z = 0 /\ p.sp \in Int
  <2>1. SavesWell(s) /\ SLen(p) \in Nat /\ Len(s) = SLen(p)
    BY PLengths
  <2> QED  BY <2>1, PointFacts
<1>3. (\A r : ~Pushed(s, z, r)) /\ (\A x : ~FlagSaved(s, z, x))
  BY DEF Pushed, FlagSaved
<1>4. ASSUME NEW a \in DOMAIN M, a >= p.sp \/ (p.frame /\ p.kind # "replace")
      PROVE  TopOf(st, a) = <<"program", a>>
  <2>1. DOMAIN M = {p.sp + 8 * k : k \in -(RedZone \div 8) .. 1} /\ M[a] = <<"program", a>>
    BY DEF ProgramStack
  <2>2. RedZone \div 8 = 16
    BY DEF RedZone
  <2>3. PICK k \in -16 .. 1 : a = p.sp + 8 * k
    BY <2>1, <2>2
  <2>4. a \in Int /\ a >= p.sp - 128
    BY <1>2, <2>3
  <2>5. a >= B
    BY <1>2, <1>4, <2>4 DEF Bottom, RedZone
  <2> HIDE DEF M, B
  <2>6. a \in DOMAIN st /\ st[a] = M[a]
    BY <1>1, <2>4, <2>5 DEF Cells
  <2> QED  BY <2>1, <2>6 DEF TopOf
<1>5. ASSUME p.kind # "replace", NEW r \in Live(p) \ {SP} PROVE rg[r] = <<"program", r>>
  <2>1. r \in G /\ r \in GPRs /\ r # p.threadReg
    <3>1. NoReg \notin GPRs
      BY DEF NoReg, GPRs
    <3> QED  BY <1>5, <3>1, PointFacts DEF After
  <2>2. rg[r] = R[r]
    <3> HIDE DEF G, s, z, R
    <3> QED  BY <1>1, <1>3, <1>5, <2>1 DEF Kept
  <2> QED  BY <1>5, <2>1, <2>2 DEF R0
<1>6. ASSUME p.kind # "replace", NEW x \in p.flags, x = "OF" => canOverflow(p) PROVE fl[x] = <<"program", x>>
  <2>1. x \in KeptFlags(p) /\ x \in Flags
    BY <1>6, PointFacts DEF KeptFlags
  <2>2. fl[x] = F0[x]
    <3> HIDE DEF G, s, z, R
    <3> QED  BY <1>1, <1>3, <2>1 DEF Kept
  <2> QED  BY <2>1, <2>2 DEF F0
<1>7. ASSUME p.threadReg # NoReg PROVE rg[p.threadReg] = <<"threaddata", 0>>
  <2>1. p.threadReg \in G /\ p.threadReg \in GPRs \ {SP}
    BY <1>7, PointFacts DEF After, NotThreadReg
  <2>2. rg[p.threadReg] = R[p.threadReg]
    <3> HIDE DEF G, s, z, R
    <3> QED  BY <1>1, <1>3, <2>1 DEF Kept
  <2> QED  BY <2>1, <2>2 DEF R0
<1>8. rg[SP] = SPvalue(p.sp)
  <2> HIDE DEF s, z
  <2>1. p.sp - Depth(s, z) = p.sp
    <3>1. Depth(s, z) = 0
      BY <1>2, DepthType
    <3> QED  BY <1>2, <3>1
  <2> QED  BY <1>1, <2>1 DEF AtDepth
<1> QED  BY <1>1, <1>4, <1>5, <1>6, <1>7, <1>8

LEMMA InitHolds == Init => Inv
<1> SUFFICES ASSUME Init PROVE Inv
  OBVIOUS
<1>1. /\ pt \in Points /\ pc = <<"point", 1>> /\ reg = ProgramReg(pt) /\ stack = ProgramStack(pt)
      /\ flags = F0 /\ fp = NoneYet
      /\ text = [point |-> PointCode(pt), wrapper |-> IF Calls(pt) THEN generateWrapperInstructions(pt.args) ELSE << >>]
  BY DEF Init, F0, NoneYet
<1>2. AtPoint(1, pt, ProgramReg(pt), F0, ProgramStack(pt), NoneYet)
  BY <1>1, Begins
<1>3. InThePoint
  BY <1>1, <1>2 DEF InThePoint
<1> QED  BY <1>1, <1>3 DEF Inv

LEMMA DoneStays ==
    ASSUME Next, Done
    PROVE  UNCHANGED vars
  BY DEF Next, Is, Compute, TransferFlags, PushOrPop, WriteData, SaveOrRestore, Compare, BranchJL, CallWrapper,
         ReturnFromWrapper, ExternalCall, FxSaveOrRestore

LEMMA WrapperBegins ==
    ASSUME NEW p \in Points, NEW rg, NEW fl, NEW st, NEW f, Calling(p, rg, fl, st, f), NEW m \in Nat
    PROVE  \E R, F, M : CallFrame(p, R, F, M) /\ InWrapper(1, m, Entered(p), R, F, M, rg, fl, st, f)
<1>1. PICK R, F, M : CallFrame(p, R, F, M) /\ WSaving(0, Entered(p), R, F, M, rg, fl, st, f)
  BY DEF Calling
<1>2. 0 \in 0 .. WLen /\ 1 = 0 + 1
  <2>1. Entered(p) \in Int
    BY EnteredIs
  <2>2. WLen \in Nat
    BY <2>1, WFacts
  <2> QED  BY <2>2
<1>3. InWrapper(1, m, Entered(p), R, F, M, rg, fl, st, f)
  BY <1>1, <1>2 DEF InWrapper
<1> QED  BY <1>1, <1>3

LEMMA ReturnEffect ==
    ASSUME Next, ~Done, current = <<"ret">>, NEW p \in Points, NEW R, NEW F, NEW M, CallFrame(p, R, F, M),
           WUnwinding(0, Entered(p), R, F, M, reg, flags, stack, fp)
    PROVE  /\ Stays /\ pc'[1] = "point" /\ AtPoint(pc'[2], p, reg', flags', stack', fp')
           /\ pc'[2] = SLen(p) + BLen(p) + 1
<1>1. /\ pc' = <<"point", TopOf(stack, reg[SP][2])[2]>>
      /\ reg' = MovedTo(reg, reg[SP][2] + 8)
      /\ flags' = flags /\ stack' = stack /\ fp' = fp /\ Stays
  <2>1. PICK op : op = current /\ op[1] = "ret"
    OBVIOUS
  <2> QED  BY <2>1, OtherSteps
<1>2. PICK E, r2, f2 : E = Entered(p) /\ r2 = MovedTo(reg, reg[SP][2] + 8) /\ f2 = flags
  OBVIOUS
<1>3. /\ Unwinding(WSaves, 0, E, GPRs, R, Flags, F, E, M, reg, flags, stack) /\ fp = NoneYet
      /\ \A x \in Flags : f2[x] = flags[x]
  BY <1>2 DEF WUnwinding
<1>4. /\ TopOf(stack, reg[SP][2])[2] = Len(Saves(p)) + Len(Body(p)) + 1
      /\ InBody(p, Len(Body(p)), r2, f2, stack)
  BY <1>2, <1>3, CallReturns
<1>5. PBody(BLen(p), p, reg', flags', stack', fp')
  BY <1>1, <1>2, <1>3, <1>4 DEF PBody, BLen
<1>6. p.kind # "replace"
  BY DEF CallFrame
<1>7. AtPoint(SLen(p) + BLen(p) + 1, p, reg', flags', stack', fp')
  BY <1>5, <1>6, PPhases
<1>8. pc'[2] = SLen(p) + BLen(p) + 1 /\ pc'[1] = "point"
  BY <1>1, <1>4 DEF SLen, BLen
<1> QED  BY <1>1, <1>7, <1>8

LEMMA NextHolds == Inv /\ [Next]_vars => Inv'
<1> SUFFICES ASSUME Inv, [Next]_vars PROVE Inv'
  OBVIOUS
<1>1. CASE UNCHANGED vars
  BY <1>1 DEF vars, Inv, InThePoint, InTheWrapper, CallFrame
<1>2. CASE Next /\ Done
  BY <1>1, <1>2, DoneStays
<1>3. CASE Next /\ ~Done
  <2>1. /\ pt \in Points
        /\ text = [point |-> PointCode(pt), wrapper |-> IF Calls(pt) THEN generateWrapperInstructions(pt.args) ELSE << >>]
    BY DEF Inv
  <2>2. SUFFICES Stays /\ (InThePoint' \/ InTheWrapper')
    BY <2>1 DEF Inv, Stays
  <2>3. Next /\ ~Done
    BY <1>3
  <2>4. /\ IsPoint(pt) /\ pt.args \in Seq({"constant", "address"}) /\ Len(pt.args) <= Len(ArgRegs) /\ Len(pt.args) \in Nat
        /\ Entered(pt) \in Int
    BY <2>1, PointFacts, EnteredIs DEF IsPoint
  <2>5. ASSUME Stays, pc'[1] = "point", AtPoint(pc'[2], pt, reg', flags', stack', fp') PROVE InThePoint'
    BY <2>5 DEF InThePoint, Stays
  <2>6. ASSUME Stays, pc'[1] = "wrapper", NEW R, NEW F, NEW M, CallFrame(pt, R, F, M),
               InWrapper(pc'[2], Len(pt.args), Entered(pt), R, F, M, reg', flags', stack', fp')
        PROVE  InTheWrapper'
    <3>1. pt' = pt
      BY <2>6 DEF Stays
    <3> QED  BY <2>6, <3>1 DEF InTheWrapper
  <2>7. CASE InThePoint
    <3>1. pc[1] = "point" /\ AtPoint(pc[2], pt, reg, flags, stack, fp)
      BY <2>7 DEF InThePoint
    <3>2. text.point = PointCode(pt)
      BY <2>1
    <3>3. /\ Stays
          /\ \/ pc'[1] = "point" /\ AtPoint(pc'[2], pt, reg', flags', stack', fp')
             \/ pc' = <<"wrapper", 1>> /\ Calling(pt, reg', flags', stack', fp')
      BY <2>1, <2>3, <3>1, <3>2, PointStep
    <3>4. CASE pc'[1] = "point" /\ AtPoint(pc'[2], pt, reg', flags', stack', fp')
      BY <2>5, <3>3, <3>4
    <3>5. CASE pc' = <<"wrapper", 1>> /\ Calling(pt, reg', flags', stack', fp')
      <4>1. PICK m : m = Len(pt.args) /\ m \in Nat
        BY <2>4
      <4>2. PICK R, F, M : CallFrame(pt, R, F, M) /\ InWrapper(1, m, Entered(pt), R, F, M, reg', flags', stack', fp')
        BY <2>1, <3>5, <4>1, WrapperBegins
      <4>3. pc'[1] = "wrapper" /\ pc'[2] = 1
        BY <3>5
      <4> QED  BY <2>6, <3>3, <4>1, <4>2, <4>3
    <3> QED  BY <3>3, <3>4, <3>5
  <2>8. CASE InTheWrapper
    <3>1. PICK R, F, M : /\ CallFrame(pt, R, F, M)
                         /\ InWrapper(pc[2], Len(pt.args), Entered(pt), R, F, M, reg, flags, stack, fp)
      BY <2>8 DEF InTheWrapper
    <3>2. pc[1] = "wrapper"
      BY <2>8 DEF InTheWrapper
    <3>3. text.wrapper = generateWrapperInstructions(pt.args)
      <4>1. pt.kind \in {"check", "call"}
        BY <3>1 DEF CallFrame
      <4>2. Calls(pt)
        BY <4>1 DEF Calls
      <4> QED  BY <2>1, <4>2
    <3>4. PICK m, E, args : m = Len(args) /\ E = Entered(pt) /\ args = pt.args
      OBVIOUS
    <3>5. /\ args \in Seq({"constant", "address"}) /\ Len(args) <= Len(ArgRegs) /\ E \in Int
          /\ text.wrapper = generateWrapperInstructions(args)
          /\ InWrapper(pc[2], m, E, R, F, M, reg, flags, stack, fp)
      BY <2>4, <3>1, <3>3, <3>4
    <3>6. \/ Stays /\ Forward /\ InWrapper(pc[2] + 1, m, E, R, F, M, reg', flags', stack', fp')
          \/ current = <<"ret">> /\ WUnwinding(0, E, R, F, M, reg, flags, stack, fp)
      BY <2>3, <3>2, <3>4, <3>5, WrapperStep
    <3>7. CASE Stays /\ Forward /\ InWrapper(pc[2] + 1, m, E, R, F, M, reg', flags', stack', fp')
      <4>1. pc'[1] = "wrapper" /\ pc'[2] = pc[2] + 1
        BY <3>2, <3>7 DEF Forward
      <4>2. InWrapper(pc'[2], Len(pt.args), Entered(pt), R, F, M, reg', flags', stack', fp')
        BY <3>4, <3>7, <4>1
      <4> QED  BY <2>6, <3>1, <3>7, <4>1, <4>2
    <3>8. CASE current = <<"ret">> /\ WUnwinding(0, E, R, F, M, reg, flags, stack, fp)
      <4>1. WUnwinding(0, Entered(pt), R, F, M, reg, flags, stack, fp) /\ current = <<"ret">>
        BY <3>4, <3>8
      <4>2. Stays /\ pc'[1] = "point" /\ AtPoint(pc'[2], pt, reg', flags', stack', fp')
        BY <2>1, <2>3, <3>1, <4>1, ReturnEffect
      <4> QED  BY <2>5, <4>2
    <3> QED  BY <3>6, <3>7, <3>8
  <2> QED  BY <2>7, <2>8 DEF Inv
<1> QED  BY <1>1, <1>2, <1>3

LEMMA InvUndisturbed == Inv => ProgramUndisturbed
<1> SUFFICES ASSUME Inv, Done PROVE ProgramUndisturbed
  BY DEF ProgramUndisturbed
<1>1. pt \in Points /\ text.point = PointCode(pt) /\ pc[1] = "point" /\ pc[2] > Len(PointCode(pt)) /\ InThePoint
  BY DEF Inv, Done, InTheWrapper
<1>2. PlacedAt(pc[2], pt, reg, flags, stack, fp)
  BY <1>1, PPlace DEF InThePoint
<1>3. Len(PointCode(pt)) = SLen(pt) + BLen(pt) + SLen(pt)
  <2>1. LaidIn(PointCode(pt), pt, SLen(pt), ILen(pt), BLen(pt))
    BY <1>1, PCode
  <2> QED  BY <2>1 DEF LaidIn
<1>4. SLen(pt) \in Nat /\ BLen(pt) \in Nat /\ ILen(pt) \in Nat /\ BLen(pt) = (IF Calls(pt) THEN ILen(pt) + 1 ELSE ILen(pt))
  BY <1>1, PLengths
<1>5. PUnwinding(0, pt, reg, flags, stack, fp)
  BY <1>1, <1>2, <1>3, <1>4 DEF PlacedAt
<1>6. /\ reg[SP] = SPvalue(pt.sp)
      /\ \A a \in DOMAIN ProgramStack(pt) :
           (a >= pt.sp \/ (pt.frame /\ pt.kind # "replace")) => TopOf(stack, a) = <<"program", a>>
      /\ pt.kind # "replace" =>
           /\ \A r \in Live(pt) \ {SP} : reg[r] = <<"program", r>>
           /\ fp = NoneYet
           /\ \A x \in pt.flags : (x = "OF" => canOverflow(pt)) => flags[x] = <<"program", x>>
      /\ pt.threadReg # NoReg => reg[pt.threadReg] = <<"threaddata", 0>>
  BY <1>1, <1>5, Ends
<1>7. \A a : Top(a) = TopOf(stack, a)
  BY DEF Top, TopOf
<1> QED  BY <1>6, <1>7 DEF ProgramUndisturbed, NoneYet

\* After the code of a point (insertStateProtection, generateTrampoline and
\* the wrapper of a called function) the program finds its live registers and
\* flags, SP, the floating point registers, its frame, the red zone of a leaf
\* and its thread data as they were, whatever the point.
THEOREM Undisturbed == Spec => []ProgramUndisturbed
<1>1. Init => Inv
  BY InitHolds
<1>2. Inv /\ [Next]_vars => Inv'
  BY NextHolds
<1>3. Inv => ProgramUndisturbed
  BY InvUndisturbed
<1> QED  BY <1>1, <1>2, <1>3, PTL DEF Spec

-----------------------------------------------------------------------------
(* What an instruction of the body writes: nothing, a store or an add.      *)

BaseOf(b, rg) == IF b = NoReg THEN << >> ELSE rg[b]
Stored(op, rg) == <<"store", BaseOf(op[2], rg), op[3], rg[op[4]]>>
Added(op, rg) == <<"add", BaseOf(op[2], rg), op[3]>>
\* An instruction of the body, on the registers and what has been written.
Runs(op, rg, ef, rg2, ef2) ==
    /\ op[1] = "op" => rg2 = Write(rg, op[2], Value(op, rg)) /\ ef2 = ef
    /\ op[1] = "store" => rg2 = rg /\ ef2 = Append(ef, Stored(op, rg))
    /\ op[1] = "add" => rg2 = rg /\ ef2 = Append(ef, Added(op, rg))
    /\ op[1] \in {"cmp", "jl"} => rg2 = rg /\ ef2 = ef
    /\ op[1] = "save" => rg2 = rg /\ ef2 = Append(ef, <<"save", rg[op[2]]>>)
    /\ op[1] = "restore" =>
         /\ ef2 = ef
         /\ \E v \in {ef[1][2]} \cup (IF OthersSave THEN {Junk} ELSE {}) : rg2 = Write(rg, op[2], v)

LEMMA BodyRuns ==
    ASSUME Next, ~Done, NEW op, op = current, op[1] \in {"op", "store", "add", "cmp", "jl", "save", "restore"}
    PROVE  Runs(op, reg, effects, reg', effects') /\ called' = called
<1>1. CASE op[1] = "op"
  <2>1. Compute
    BY <1>1 DEF Next, Is, TransferFlags, PushOrPop, WriteData, SaveOrRestore, Compare, BranchJL, CallWrapper,
                ReturnFromWrapper, ExternalCall, FxSaveOrRestore
  <2> QED  BY <1>1, <2>1 DEF Compute, Is, Write, Value, Read, Runs
<1>2. CASE op[1] \in {"store", "add"}
  <2>1. WriteData
    BY <1>2 DEF Next, Is, Compute, TransferFlags, PushOrPop, SaveOrRestore, Compare, BranchJL, CallWrapper,
                ReturnFromWrapper, ExternalCall, FxSaveOrRestore
  <2>2. \A b : Base(b) = BaseOf(b, reg)
    BY DEF Base, BaseOf
  <2> QED  BY <1>2, <2>1, <2>2 DEF WriteData, Runs, Stored, Added
<1>3. CASE op[1] = "cmp"
  <2>1. Compare
    BY <1>3 DEF Next, Is, Compute, TransferFlags, PushOrPop, WriteData, SaveOrRestore, BranchJL, CallWrapper,
                ReturnFromWrapper, ExternalCall, FxSaveOrRestore
  <2> QED  BY <1>3, <2>1 DEF Compare, Runs
<1>4. CASE op[1] = "jl"
  <2>1. BranchJL
    BY <1>4 DEF Next, Is, Compute, TransferFlags, PushOrPop, WriteData, SaveOrRestore, Compare, CallWrapper,
                ReturnFromWrapper, ExternalCall, FxSaveOrRestore
  <2> QED  BY <1>4, <2>1 DEF BranchJL, Runs
<1>5. CASE op[1] \in {"save", "restore"}
  <2>1. SaveOrRestore
    BY <1>5 DEF Next, Is, Compute, TransferFlags, PushOrPop, WriteData, Compare, BranchJL, CallWrapper,
                ReturnFromWrapper, ExternalCall, FxSaveOrRestore
  <2> QED  BY <1>5, <2>1 DEF SaveOrRestore, Runs, Write
<1> QED  BY <1>1, <1>2, <1>3, <1>4, <1>5

\* Every other instruction writes nothing outside the stack.
LEMMA QuietStep ==
    ASSUME Next, ~Done, NEW op, op = current
    PROVE  /\ op[1] \notin {"store", "add", "save"} => effects' = effects
           /\ op[1] # "external" => called' = called
           /\ op[1] = "external" => called' = [reg |-> reg, flags |-> flags]
           /\ op[1] \notin {"jl", "call", "ret"} => Stays /\ Forward
<1> USE DEF Is
<1>1. CASE Compute
  BY <1>1 DEF Compute, Stays, Forward, Advance
<1>2. CASE TransferFlags
  BY <1>2 DEF TransferFlags, Stays, Forward, Advance
<1>3. CASE PushOrPop
  BY <1>3 DEF PushOrPop, Stays, Forward, Advance
<1>4. CASE WriteData
  BY <1>4 DEF WriteData, Stays, Forward, Advance
<1>5. CASE SaveOrRestore
  BY <1>5 DEF SaveOrRestore, Stays, Forward, Advance
<1>6. CASE Compare
  BY <1>6 DEF Compare, Stays, Forward, Advance
<1>7. CASE BranchJL
  BY <1>7 DEF BranchJL
<1>8. CASE CallWrapper
  BY <1>8 DEF CallWrapper
<1>9. CASE ReturnFromWrapper
  BY <1>9 DEF ReturnFromWrapper
<1>10. CASE ExternalCall
  BY <1>10 DEF ExternalCall, Stays, Forward, Advance
<1>11. CASE FxSaveOrRestore
  BY <1>11 DEF FxSaveOrRestore, Stays, Forward, Advance
<1> QED  BY <1>1, <1>2, <1>3, <1>4, <1>5, <1>6, <1>7, <1>8, <1>9, <1>10, <1>11 DEF Next
-----------------------------------------------------------------------------
(* There are as many scratch registers as are asked for, and they differ.   *)

LEMMA Different ==
    ASSUME NEW S \in SUBSET GPRs, NEW n \in Nat, Cardinality(S) >= n
    PROVE  \A k \in 1 .. n : /\ Nth(S, k) \in S
                             /\ \A m \in 1 .. n : Nth(S, k) = Nth(S, m) => k = m
<1>1. Cardinality(S) \in Nat
  BY UptoType
<1>2. \A k \in 1 .. n : k \in 1 .. Cardinality(S)
  BY <1>1
<1>3. \A k \in 1 .. n : Nth(S, k) \in S /\ Upto(S, Nth(S, k)) = k
  BY <1>2, NthIs
<1> QED  BY <1>3

LEMMA OneFewer ==
    ASSUME NEW S, IsFiniteSet(S), NEW x, NEW D, D = S \ {x}
    PROVE  IsFiniteSet(D) /\ Cardinality(D) \in Nat /\ Cardinality(D) >= Cardinality(S) - 1
<1>1. IsFiniteSet(S \ {x}) /\ Cardinality(S \ {x}) = IF x \in S THEN Cardinality(S) - 1 ELSE Cardinality(S)
  BY FS_RemoveElement
<1>2. Cardinality(S) \in Nat
  BY FS_CardinalityType
<1>3. Cardinality(D) \in Nat
  BY <1>1, FS_CardinalityType
<1> QED  BY <1>1, <1>2, <1>3

LEMMA ElevenLeft ==
    ASSUME NEW a, NEW b, NEW c, NEW d, NEW e
    PROVE  Cardinality(GPRs \ {a, b, c, d, e}) >= 11
<1> DEFINE n == 15
           A == GPRs \ {a}
           B == A \ {b}
           C == B \ {c}
           D == C \ {d}
           E == D \ {e}
<1>1. IsFiniteSet(GPRs) /\ Cardinality(GPRs) = 16
  <2> DEFINE z == 0
  <2>1. n \in Int /\ z \in Int /\ ~(z > n) /\ n - z + 1 = 16
    OBVIOUS
  <2>2. GPRs = z .. n
    BY DEF GPRs
  <2> HIDE DEF n, z
  <2> QED  BY <2>1, <2>2, FS_Interval
<1>2. A = GPRs \ {a} /\ B = A \ {b} /\ C = B \ {c} /\ D = C \ {d} /\ E = D \ {e}
  OBVIOUS
<1>7. E = GPRs \ {a, b, c, d, e}
  OBVIOUS
<1> HIDE DEF A, B, C, D, E
<1>3. IsFiniteSet(A) /\ Cardinality(A) \in Nat /\ Cardinality(A) >= Cardinality(GPRs) - 1
  BY <1>1, <1>2, OneFewer
<1>4. IsFiniteSet(B) /\ Cardinality(B) \in Nat /\ Cardinality(B) >= Cardinality(A) - 1
  BY <1>2, <1>3, OneFewer
<1>5. IsFiniteSet(C) /\ Cardinality(C) \in Nat /\ Cardinality(C) >= Cardinality(B) - 1
  BY <1>2, <1>4, OneFewer
<1>6. IsFiniteSet(D) /\ Cardinality(D) \in Nat /\ Cardinality(D) >= Cardinality(C) - 1
  BY <1>2, <1>5, OneFewer
<1>8. Cardinality(E) \in Nat /\ Cardinality(E) >= Cardinality(D) - 1
  BY <1>2, <1>6, OneFewer
<1>10. Cardinality(E) >= 11
  BY <1>1, <1>3, <1>4, <1>5, <1>6, <1>8
<1> QED  BY <1>7, <1>10

\* The first registers of a set are as many as it is asked for.
LEMMA LowestAreMany ==
    ASSUME NEW S \in SUBSET GPRs, NEW n \in Nat, Cardinality(S) >= n
    PROVE  IsFiniteSet(Lowest(S, n)) /\ Cardinality(Lowest(S, n)) >= n
<1> DEFINE f == [k \in 1 .. n |-> Nth(S, k)]
           L == Lowest(S, n)
<1>1. Cardinality(S) \in Nat
  BY UptoType
<1>2. \A k \in 1 .. n : k \in 1 .. Cardinality(S) /\ k <= n
  BY <1>1
<1>3. \A k \in 1 .. n : Nth(S, k) \in S /\ Upto(S, Nth(S, k)) = k
  BY <1>2, NthIs
<1>4. \A k \in 1 .. n : Nth(S, k) \in L
  BY <1>2, <1>3 DEF Upto, Lowest
<1>5. f \in [1 .. n -> L]
  BY <1>4
<1>6. f \in Injection(1 .. n, L)
  BY <1>3, <1>5 DEF Injection, IsInjective
<1>7. IsFiniteSet(L)
  <2>1. L \in SUBSET S /\ IsFiniteSet(S)
    BY UptoType DEF Lowest
  <2> QED  BY <2>1, FS_Subset
<1>8. Cardinality(1 .. n) = n
  <2> DEFINE z == 1
  <2>1. z \in Int /\ n \in Int /\ (IF z > n THEN 0 ELSE n - z + 1) = n
    OBVIOUS
  <2> HIDE DEF z
  <2>2. Cardinality(z .. n) = n
    BY <2>1, FS_Interval
  <2> QED  BY <2>2 DEF z
<1>9. Cardinality(1 .. n) <= Cardinality(L)
  BY <1>6, <1>7, FS_Injection
<1>10. Cardinality(L) \in Nat
  BY <1>7, FS_CardinalityType
<1> QED  BY <1>7, <1>8, <1>9, <1>10

LEMMA EnoughRegs ==
    ASSUME NEW p, NEW inv, NEW a, NEW b, NEW c, NEW d, NEW e, inv \cap GPRs \subseteq {a, b, c, d, e}, NEW n \in 1 .. 3
    PROVE  Cardinality(getDeadRegIn(p, inv, n)) >= n
<1> DEFINE dead == (GPRs \ p.liveIn) \ inv
           rest == (GPRs \ inv) \ dead
           S == getDeadRegIn(p, inv, n)
           All == GPRs \ inv
           m == n - Cardinality(dead)
<1>1. S = dead \cup Lowest(rest, m)
  BY DEF getDeadRegIn
<1>2. All \in SUBSET GPRs /\ dead \in SUBSET GPRs /\ rest \in SUBSET GPRs /\ dead \cup rest = All /\ dead \cap rest = {}
  OBVIOUS
<1>3. Cardinality(All) >= 11
  <2> DEFINE W == GPRs \ {a, b, c, d, e}
  <2>1. W \in SUBSET All
    OBVIOUS
  <2>2. IsFiniteSet(All) /\ Cardinality(All) \in Nat
    BY <1>2, UptoType
  <2>3. Cardinality(W) >= 11
    BY ElevenLeft
  <2> HIDE DEF W, All
  <2>4. IsFiniteSet(W) /\ Cardinality(W) <= Cardinality(All)
    BY <2>1, <2>2, FS_Subset
  <2>5. Cardinality(W) \in Nat
    BY <2>4, FS_CardinalityType
  <2> QED  BY <2>2, <2>3, <2>4, <2>5
<1>4. S \in SUBSET GPRs
  BY DeadRegs
<1> HIDE DEF dead, rest, S, All
<1>5. /\ IsFiniteSet(dead) /\ Cardinality(dead) \in Nat
      /\ IsFiniteSet(rest) /\ Cardinality(rest) \in Nat
      /\ IsFiniteSet(S) /\ Cardinality(S) \in Nat
  BY <1>2, <1>4, UptoType
<1>6. Cardinality(All) = Cardinality(dead) + Cardinality(rest)
  <2>1. Cardinality(dead \cup rest) = Cardinality(dead) + Cardinality(rest) - Cardinality(dead \cap rest)
    BY <1>5, FS_Union
  <2>2. Cardinality(dead \cap rest) = 0
    BY <1>2, FS_EmptySet
  <2>3. dead \cup rest = All
    BY <1>2
  <2>4. Cardinality(All) = Cardinality(dead) + Cardinality(rest) - 0
    BY <2>1, <2>2, <2>3
  <2> QED  BY <1>5, <2>4
<1>7. CASE Cardinality(dead) >= n
  <2>1. dead \in SUBSET S
    BY <1>1
  <2>2. Cardinality(dead) <= Cardinality(S)
    BY <1>5, <2>1, FS_Subset
  <2> QED  BY <1>5, <1>7, <2>2 DEF S
<1>8. CASE ~(Cardinality(dead) >= n)
  <2>1. m \in Nat /\ m <= 3 /\ n = Cardinality(dead) + m
    BY <1>5, <1>8
  <2>2. Cardinality(rest) >= m
    BY <1>3, <1>5, <1>6, <2>1
  <2> HIDE DEF m
  <2> DEFINE L == Lowest(rest, m)
  <2>3. IsFiniteSet(L) /\ Cardinality(L) >= m
    BY <1>2, <2>1, <2>2, LowestAreMany
  <2>4. dead \cap L = {}
    BY <1>2 DEF Lowest
  <2> HIDE DEF L
  <2>5. Cardinality(dead \cup L) = Cardinality(dead) + Cardinality(L) - Cardinality(dead \cap L)
    BY <1>5, <2>3, FS_Union
  <2>6. Cardinality(dead \cap L) = 0 /\ Cardinality(L) \in Nat
    BY <2>3, <2>4, FS_EmptySet, FS_CardinalityType
  <2>7. S = dead \cup L
    BY <1>1 DEF L
  <2>8. Cardinality(S) = Cardinality(dead) + Cardinality(L) - 0
    BY <2>5, <2>6, <2>7
  <2>9. Cardinality(S) >= n
    BY <1>5, <2>1, <2>3, <2>6, <2>8
  <2> QED  BY <2>9 DEF S
<1> QED  BY <1>7, <1>8

-----------------------------------------------------------------------------
(* The points that write to the data of a thread: the address of the data   *)
(* is computed unless a register keeps it, then comes the rest.             *)

DataKinds == {"threadcounter", "increment", "fill"}
Scratches(p) == CASE p.kind = "threadcounter" -> CounterRegs(p)
                  [] p.kind = "increment" -> CheckRegs(p)
                  [] OTHER -> FillRegs(p)
DReg(p) == IF p.threadReg = NoReg THEN Scratches(p)[1] ELSE p.threadReg
SReg(p) == Scratches(p)[2]
CReg(p) == Scratches(p)[3]
Rest(p) == CASE p.kind = "threadcounter" -> <<Add(DReg(p), "counter")>>
             [] p.kind = "increment" -> <<Op(SReg(p), "Buffer", <<DReg(p)>>), Add(SReg(p), "current")>>
             [] OTHER ->
                  <<Op(SReg(p), "Buffer", <<DReg(p)>>), Op(CReg(p), "current", <<SReg(p)>>), Alu(CReg(p), "shl", <<CReg(p)>>),
                    Op(SReg(p), "lea", <<SReg(p), CReg(p)>>), AddressComputation(p.memop, CReg(p)),
                    Store(SReg(p), "address", CReg(p)), Op(CReg(p), "memseq", << >>),
                    Store(SReg(p), "memseq", CReg(p)), Op(CReg(p), "image", << >>),
                    Store(SReg(p), "imageid", CReg(p)), Op(CReg(p), "fs:0x10", << >>), Store(SReg(p), "threadid", CReg(p))>>
\* The accesses whose address is right: WritesWhatWasMeant names the others.
Wanted(p) ==
    p.kind = "fill" => ~(SP \in UsesOf(p.memop) \/ (AX \in UsesOf(p.memop) /\ Method(p) = "light") \/ p.skipped)

LEMMA NoRegIsNone == NoReg \notin GPRs /\ AX \in GPRs /\ SP \in GPRs /\ BP \in GPRs /\ CX \in GPRs /\ DX \in GPRs
                     /\ CX # DX /\ CX \notin {AX, SP} /\ DX \notin {AX, SP}
  BY DEF NoReg, GPRs, AX, SP, BP, CX, DX

LEMMA CounterRegsAre ==
    ASSUME NEW p, NEW sr, sr = CounterRegs(p)
    PROVE  sr[1] \in GPRs \ {AX, SP} /\ sr[2] \in GPRs \ {AX, SP} /\ sr[1] # sr[2]
<1> DEFINE S == (GPRs \ Live(p)) \ {AX, SP}
<1>1. S \in SUBSET GPRs
  OBVIOUS
<1>2. AX \notin S /\ SP \notin S
  OBVIOUS
<1>3. sr = CASE Nth(S, 1) = NoReg -> <<CX, DX>>
             [] Nth(S, 1) # NoReg /\ Nth(S, 2) = NoReg -> <<Nth(S, 1), IF Nth(S, 1) = DX THEN CX ELSE DX>>
             [] OTHER -> <<Nth(S, 1), Nth(S, 2)>>
  BY DEF CounterRegs
<1> HIDE DEF S
<1>4. Nth(S, 1) \in S \cup {NoReg} /\ Nth(S, 2) \in S \cup {NoReg}
  BY <1>1, NthOf
<1>5. Nth(S, 2) # NoReg => Nth(S, 1) # Nth(S, 2)
  <2> SUFFICES ASSUME Nth(S, 2) # NoReg PROVE Nth(S, 1) # Nth(S, 2)
    OBVIOUS
  <2>1. ~(Cardinality(S) < 2)
    BY DEF Nth
  <2>2. Cardinality(S) \in Nat
    BY <1>1, UptoType
  <2>3. \A k \in 1 .. 2 : \A m \in 1 .. 2 : Nth(S, k) = Nth(S, m) => k = m
    BY <1>1, <2>1, <2>2, Different
  <2> QED  BY <2>3
<1>6. CASE Nth(S, 1) = NoReg
  BY <1>3, <1>6, NoRegIsNone
<1>7. CASE Nth(S, 1) # NoReg /\ Nth(S, 2) = NoReg
  <2>1. sr = <<Nth(S, 1), IF Nth(S, 1) = DX THEN CX ELSE DX>>
    BY <1>3, <1>7
  <2> QED  BY <1>1, <1>2, <1>4, <1>7, <2>1, NoRegIsNone
<1>8. CASE Nth(S, 1) # NoReg /\ Nth(S, 2) # NoReg
  <2>1. sr = <<Nth(S, 1), Nth(S, 2)>>
    BY <1>3, <1>8
  <2> QED  BY <1>1, <1>2, <1>4, <1>5, <1>8, <2>1
<1> QED  BY <1>6, <1>7, <1>8

LEMMA WithThreadRegIs ==
    ASSUME NEW p, NEW S \in SUBSET GPRs, NEW n \in 2 .. 3, Cardinality(S) >= n, p.threadReg = NoReg \/ p.threadReg \notin S,
           NEW sr, sr = WithThreadReg(p, S)
    PROVE  /\ p.threadReg = NoReg => sr[1] \in S
           /\ p.threadReg # NoReg => sr[1] = p.threadReg
           /\ sr[2] \in S /\ sr[1] # sr[2]
           /\ n = 3 => sr[3] \in S /\ sr[3] # sr[1] /\ sr[3] # sr[2]
<1>1. \A k \in 1 .. n : Nth(S, k) \in S /\ \A m \in 1 .. n : Nth(S, k) = Nth(S, m) => k = m
  BY Different
<1>2. /\ Nth(S, 1) \in S /\ Nth(S, 2) \in S /\ Nth(S, 1) # Nth(S, 2)
      /\ n = 3 => Nth(S, 3) \in S /\ Nth(S, 1) # Nth(S, 3) /\ Nth(S, 2) # Nth(S, 3)
  BY <1>1
<1>3. p.threadReg = NoReg => sr = <<Nth(S, 1), Nth(S, 2), Nth(S, 3)>>
  BY DEF WithThreadReg
<1>4. p.threadReg # NoReg => sr = <<p.threadReg, Nth(S, 1), Nth(S, 2)>>
  BY DEF WithThreadReg
<1>5. CASE p.threadReg = NoReg
  BY <1>2, <1>3, <1>5
<1>6. CASE p.threadReg # NoReg
  BY <1>2, <1>4, <1>6
<1> QED  BY <1>5, <1>6

LEMMA DataRegs ==
    ASSUME NEW p \in Points, p.kind \in DataKinds
    PROVE  /\ DReg(p) \in GPRs \ {AX, SP} /\ SReg(p) \in GPRs \ {AX, SP}
           /\ p.threadReg = NoReg \/ p.kind # "threadcounter" => SReg(p) # DReg(p)
           /\ p.kind = "fill" => CReg(p) \in GPRs \ {AX, SP} /\ CReg(p) # SReg(p) /\ CReg(p) # DReg(p)
           /\ p.kind = "fill" /\ Wanted(p) => /\ SReg(p) \notin UsesOf(p.memop) /\ CReg(p) \notin UsesOf(p.memop)
                                              /\ p.threadReg = NoReg => DReg(p) \notin UsesOf(p.memop)
           /\ Scratches(p)[1] = DReg(p) \/ p.kind = "threadcounter"
<1>1. p.threadReg # NoReg => p.threadReg \in GPRs \ {AX, SP}
  BY PointFacts
<1>2. CASE p.kind = "threadcounter"
  <2>1. Scratches(p) = CounterRegs(p)
    BY <1>2 DEF Scratches
  <2>2. Scratches(p)[1] \in GPRs \ {AX, SP} /\ Scratches(p)[2] \in GPRs \ {AX, SP} /\ Scratches(p)[1] # Scratches(p)[2]
    BY <2>1, CounterRegsAre
  <2> QED  BY <1>1, <1>2, <2>2 DEF DReg, SReg
<1>3. CASE p.kind = "increment"
  <2> DEFINE inv == {AX, SP, BP} \cup NotThreadReg(p)
             S == getDeadRegIn(p, inv, 2)
             sr == Scratches(p)
  <2>1. sr = WithThreadReg(p, S)
    BY <1>3 DEF Scratches, CheckRegs
  <2>2. inv \cap GPRs \subseteq {AX, SP, BP, p.threadReg, SP}
    BY DEF NotThreadReg
  <2>3. Cardinality(S) >= 2
    <3> HIDE DEF inv
    <3>1. 2 \in 1 .. 3
      OBVIOUS
    <3> QED  BY <2>2, <3>1, EnoughRegs
  <2>4. S \in SUBSET (GPRs \ inv) /\ S \in SUBSET GPRs
    BY DeadRegs
  <2>5. p.threadReg = NoReg \/ p.threadReg \notin S
    BY <2>4 DEF NotThreadReg
  <2>6. \A r \in S : r \in GPRs \ {AX, SP}
    BY <2>4
  <2> HIDE DEF S, sr
  <2>7. /\ p.threadReg = NoReg => sr[1] \in S
        /\ p.threadReg # NoReg => sr[1] = p.threadReg
        /\ sr[2] \in S /\ sr[1] # sr[2]
    <3>1. 2 \in 2 .. 3
      OBVIOUS
    <3> QED  BY <2>1, <2>3, <2>4, <2>5, <3>1, WithThreadRegIs
  <2> QED  BY <1>1, <1>3, <2>6, <2>7 DEF DReg, SReg, sr
<1>4. CASE p.kind = "fill"
  <2> DEFINE inv == {AX, SP} \cup NotThreadReg(p) \cup getUnusableRegisters(p)
             S == getDeadRegIn(p, inv, 3)
             sr == Scratches(p)
  <2>1. sr = WithThreadReg(p, S)
    BY <1>4 DEF Scratches, FillRegs
  <2>2. inv \cap GPRs \subseteq {AX, SP, p.threadReg, p.memop.base, p.memop.index}
    BY DEF NotThreadReg, getUnusableRegisters, UsesOf
  <2>3. Cardinality(S) >= 3
    <3> HIDE DEF inv
    <3>1. 3 \in 1 .. 3
      OBVIOUS
    <3> QED  BY <2>2, <3>1, EnoughRegs
  <2>4. S \in SUBSET (GPRs \ inv) /\ S \in SUBSET GPRs
    BY DeadRegs
  <2>5. p.threadReg = NoReg \/ p.threadReg \notin S
    BY <2>4 DEF NotThreadReg
  <2>6. \A r \in S : r \in GPRs \ {AX, SP}
    BY <2>4
  <2>7. Wanted(p) => \A r \in S : r \notin UsesOf(p.memop)
    BY <1>4, <2>4 DEF Wanted, getUnusableRegisters
  <2> HIDE DEF S, sr
  <2>8. /\ p.threadReg = NoReg => sr[1] \in S
        /\ p.threadReg # NoReg => sr[1] = p.threadReg
        /\ sr[2] \in S /\ sr[1] # sr[2]
        /\ sr[3] \in S /\ sr[3] # sr[1] /\ sr[3] # sr[2]
    <3>1. 3 \in 2 .. 3
      OBVIOUS
    <3> QED  BY <2>1, <2>3, <2>4, <2>5, <3>1, WithThreadRegIs
  <2> QED  BY <1>1, <1>4, <2>6, <2>7, <2>8 DEF DReg, SReg, CReg, sr
<1> QED  BY <1>2, <1>3, <1>4 DEF DataKinds

-----------------------------------------------------------------------------
(* One instruction of the body at a time.                                   *)

LEMMA OpRuns ==
    ASSUME NEW d, NEW tag, NEW s, NEW op, op = Op(d, tag, s),
           NEW rg, NEW ef, NEW rg2, NEW ef2, Runs(op, rg, ef, rg2, ef2)
    PROVE  ef2 = ef /\ rg2 = Write(rg, d, Computed(tag, Read(rg, s)))
<1>1. op[1] = "op" /\ op[2] = d /\ op[3] = tag /\ op[4] = s
  BY DEF Op
<1> QED  BY <1>1 DEF Runs, Value

LEMMA AluRuns ==
    ASSUME NEW d, NEW tag, NEW s, NEW op, op = Alu(d, tag, s),
           NEW rg, NEW ef, NEW rg2, NEW ef2, Runs(op, rg, ef, rg2, ef2)
    PROVE  ef2 = ef /\ rg2 = Write(rg, d, Computed(tag, Read(rg, s)))
<1>1. op[1] = "op" /\ op[2] = d /\ op[3] = tag /\ op[4] = s
  BY DEF Alu
<1> QED  BY <1>1 DEF Runs, Value

LEMMA StoreRuns ==
    ASSUME NEW b, NEW field, NEW r, NEW op, op = Store(b, field, r),
           NEW rg, NEW ef, NEW rg2, NEW ef2, Runs(op, rg, ef, rg2, ef2)
    PROVE  rg2 = rg /\ ef2 = Append(ef, <<"store", BaseOf(b, rg), field, rg[r]>>)
<1>1. op[1] = "store" /\ op[2] = b /\ op[3] = field /\ op[4] = r
  BY DEF Store
<1> QED  BY <1>1 DEF Runs, Stored

LEMMA AddRuns ==
    ASSUME NEW b, NEW field, NEW op, op = Add(b, field),
           NEW rg, NEW ef, NEW rg2, NEW ef2, Runs(op, rg, ef, rg2, ef2)
    PROVE  rg2 = rg /\ ef2 = Append(ef, <<"add", BaseOf(b, rg), field>>)
<1>1. op[1] = "add" /\ op[2] = b /\ op[3] = field
  BY DEF Add
<1> QED  BY <1>1 DEF Runs, Added

LEMMA AppendedTo ==
    ASSUME NEW n \in Nat, NEW f, IsSeq(f), Len(f) = n, NEW a, NEW t, IsSeq(t), Len(t) = n + 1,
           \A k \in 1 .. n : t[k] = f[k], t[n + 1] = a
    PROVE  Append(f, a) = t
<1> DEFINE u == Append(f, a)
<1>1. PICK S : f \in Seq(S)
  BY DEF IsSeq
<1>2. f \in Seq(S \cup {a}) /\ a \in S \cup {a}
  BY <1>1
<1>3. u \in Seq(S \cup {a}) /\ Len(u) = n + 1 /\ (\A k \in 1 .. n : u[k] = f[k]) /\ u[n + 1] = a
  BY <1>2
<1> HIDE DEF u
<1>4. \A k \in 1 .. n + 1 : k \in 1 .. n \/ k = n + 1
  OBVIOUS
<1>5. u = t
  BY <1>3, <1>4, SameSeq DEF IsSeq
<1> QED  BY <1>5 DEF u

LEMMA Appended ==
    ASSUME NEW a, NEW b, NEW c, NEW d
    PROVE  /\ Append(<< >>, a) = <<a>> /\ Append(<<a>>, b) = <<a, b>>
           /\ Append(<<a, b>>, c) = <<a, b, c>> /\ Append(<<a, b, c>>, d) = <<a, b, c, d>>
<1>1. IsSeq(<< >>) /\ IsSeq(<<a>>) /\ IsSeq(<<a, b>>) /\ IsSeq(<<a, b, c>>) /\ IsSeq(<<a, b, c, d>>)
  <2>1. << >> \in Seq({a}) /\ <<a>> \in Seq({a}) /\ <<a, b>> \in Seq({a, b})
    OBVIOUS
  <2>2. <<a, b, c>> \in Seq({a, b, c})
    OBVIOUS
  <2>3. <<a, b, c, d>> \in Seq({a, b, c, d})
    OBVIOUS
  <2> QED  BY <2>1, <2>2, <2>3 DEF IsSeq
<1>2. Len(<< >>) = 0 /\ Len(<<a>>) = 1 /\ Len(<<a, b>>) = 2 /\ Len(<<a, b, c>>) = 3 /\ Len(<<a, b, c, d>>) = 4
  OBVIOUS
<1>3. (\A k \in 1 .. 1 : k = 1) /\ (\A k \in 1 .. 2 : k = 1 \/ k = 2) /\ (\A k \in 1 .. 3 : k = 1 \/ k = 2 \/ k = 3)
  OBVIOUS
<1>4. Append(<< >>, a) = <<a>>
  <2>1. (\A k \in 1 .. 0 : FALSE) /\ <<a>>[0 + 1] = a /\ 0 \in Nat
    OBVIOUS
  <2> QED  BY <1>1, <1>2, <2>1, AppendedTo
<1>5. Append(<<a>>, b) = <<a, b>>
  <2> DEFINE f == <<a>>
             t == <<a, b>>
             n == 1
  <2>1. IsSeq(f) /\ IsSeq(t) /\ n \in Nat /\ Len(f) = n /\ Len(t) = n + 1 /\ t[n + 1] = b
    BY <1>1, <1>2
  <2>2. \A k \in 1 .. n : t[k] = f[k]
    BY <1>3
  <2> HIDE DEF f, t, n
  <2>3. Append(f, b) = t
    BY <2>1, <2>2, AppendedTo
  <2> QED  BY <2>3 DEF f, t
<1>6. Append(<<a, b>>, c) = <<a, b, c>>
  <2> DEFINE f == <<a, b>>
             t == <<a, b, c>>
             n == 2
  <2>1. IsSeq(f) /\ IsSeq(t) /\ n \in Nat /\ Len(f) = n /\ Len(t) = n + 1 /\ t[n + 1] = c
    BY <1>1, <1>2
  <2>2. \A k \in 1 .. n : t[k] = f[k]
    BY <1>3
  <2> HIDE DEF f, t, n
  <2>3. Append(f, c) = t
    BY <2>1, <2>2, AppendedTo
  <2> QED  BY <2>3 DEF f, t
<1>7. Append(<<a, b, c>>, d) = <<a, b, c, d>>
  <2> DEFINE f == <<a, b, c>>
             t == <<a, b, c, d>>
             n == 3
  <2>1. IsSeq(f) /\ IsSeq(t) /\ n \in Nat /\ Len(f) = n /\ Len(t) = n + 1 /\ t[n + 1] = d
    BY <1>1, <1>2
  <2>2. \A k \in 1 .. n : t[k] = f[k]
    BY <1>3
  <2> HIDE DEF f, t, n
  <2>3. Append(f, d) = t
    BY <2>1, <2>2, AppendedTo
  <2> QED  BY <2>3 DEF f, t
<1> QED  BY <1>4, <1>5, <1>6, <1>7

LEMMA ThreadDataWritten ==
    ASSUME NEW s, NEW d, NEW j \in 0 .. 6, NEW op, op = storeThreadData(s, d)[j + 1]
    PROVE  op[1] = "op" /\ op[2] \in {s, d}
<1>1. j + 1 \in 1 .. 7
  OBVIOUS
<1>2. \A k \in 1 .. 7 : storeThreadData(s, d)[k][1] = "op" /\ storeThreadData(s, d)[k][2] \in {s, d}
  BY DEF storeThreadData, Op, Alu
<1> QED  BY <1>1, <1>2

-----------------------------------------------------------------------------
(* What has been made of the buffer's entry.                                *)

Untouched(p, rg) == \A u \in UsesOf(p.memop) : rg[u] = ProgramReg(p)[u]
Shl(p) == T("shl", <<T("current", <<BufferTerm>>)>>)
Entry1(p) == <<"store", EntryTerm, "address", UsedAddress(p)>>
Entry2 == <<"store", EntryTerm, "memseq", T("memseq", << >>)>>
Entry3 == <<"store", EntryTerm, "imageid", T("image", << >>)>>
Entry4 == <<"store", EntryTerm, "threadid", T("fs:0x10", << >>)>>
Filled1(p) == <<Entry1(p)>>
Filled2(p) == <<Entry1(p), Entry2>>
Filled3(p) == <<Entry1(p), Entry2, Entry3>>
Filled4(p) == <<Entry1(p), Entry2, Entry3, Entry4>>
FillMade(p, x, rg, ef) ==
    /\ x = 0 => rg[DReg(p)] = <<"threaddata", 0>>
    /\ x \in 0 .. 4 => Untouched(p, rg)
    /\ x \in {1, 2, 3} => rg[SReg(p)] = BufferTerm
    /\ x = 2 => rg[CReg(p)] = T("current", <<BufferTerm>>)
    /\ x = 3 => rg[CReg(p)] = Shl(p)
    /\ x \in 4 .. 12 => rg[SReg(p)] = EntryTerm
    /\ x = 5 => rg[CReg(p)] = UsedAddress(p)
    /\ x = 7 => rg[CReg(p)] = T("memseq", << >>)
    /\ x = 9 => rg[CReg(p)] = T("image", << >>)
    /\ x = 11 => rg[CReg(p)] = T("fs:0x10", << >>)
    /\ x \in 0 .. 5 => ef = << >>
    /\ x \in {6, 7} => ef = Filled1(p)
    /\ x \in {8, 9} => ef = Filled2(p)
    /\ x \in {10, 11} => ef = Filled3(p)
    /\ x = 12 => ef = Filled4(p)

LEMMA FilledUp ==
    ASSUME NEW p
    PROVE  /\ Append(<< >>, Entry1(p)) = Filled1(p) /\ Append(Filled1(p), Entry2) = Filled2(p)
           /\ Append(Filled2(p), Entry3) = Filled3(p) /\ Append(Filled3(p), Entry4) = Filled4(p)
<1> DEFINE a == Entry1(p)
           b == Entry2
           c == Entry3
           d == Entry4
<1> HIDE DEF a, b, c, d
<1>1. /\ Append(<< >>, a) = <<a>> /\ Append(<<a>>, b) = <<a, b>>
      /\ Append(<<a, b>>, c) = <<a, b, c>> /\ Append(<<a, b, c>>, d) = <<a, b, c, d>>
  BY Appended
<1>2. Filled1(p) = <<a>> /\ Filled2(p) = <<a, b>> /\ Filled3(p) = <<a, b, c>> /\ Filled4(p) = <<a, b, c, d>>
  BY DEF Filled1, Filled2, Filled3, Filled4, a, b, c, d
<1>3. /\ Append(<< >>, a) = Filled1(p) /\ Append(Filled1(p), b) = Filled2(p)
      /\ Append(Filled2(p), c) = Filled3(p) /\ Append(Filled3(p), d) = Filled4(p)
  BY <1>1, <1>2
<1> QED  BY <1>3 DEF a, b, c, d

LEMMA FillCode ==
    ASSUME NEW p, p.kind = "fill", NEW s, s = SReg(p), NEW d, d = DReg(p), NEW c, c = CReg(p)
    PROVE  /\ IsSeq(Rest(p)) /\ Len(Rest(p)) = 12
           /\ Rest(p)[1] = Op(s, "Buffer", <<d>>) /\ Rest(p)[2] = Op(c, "current", <<s>>)
           /\ Rest(p)[3] = Alu(c, "shl", <<c>>) /\ Rest(p)[4] = Op(s, "lea", <<s, c>>)
           /\ Rest(p)[5] = AddressComputation(p.memop, c) /\ Rest(p)[6] = Store(s, "address", c)
           /\ Rest(p)[7] = Op(c, "memseq", << >>) /\ Rest(p)[8] = Store(s, "memseq", c)
           /\ Rest(p)[9] = Op(c, "image", << >>) /\ Rest(p)[10] = Store(s, "imageid", c)
           /\ Rest(p)[11] = Op(c, "fs:0x10", << >>) /\ Rest(p)[12] = Store(s, "threadid", c)
<1> DEFINE a1 == Op(s, "Buffer", <<d>>)
           a2 == Op(c, "current", <<s>>)
           a3 == Alu(c, "shl", <<c>>)
           a4 == Op(s, "lea", <<s, c>>)
           a5 == AddressComputation(p.memop, c)
           a6 == Store(s, "address", c)
           a7 == Op(c, "memseq", << >>)
           a8 == Store(s, "memseq", c)
           a9 == Op(c, "image", << >>)
           a10 == Store(s, "imageid", c)
           a11 == Op(c, "fs:0x10", << >>)
           a12 == Store(s, "threadid", c)
<1>1. Rest(p) = <<a1, a2, a3, a4, a5, a6, a7, a8, a9, a10, a11, a12>>
  BY DEF Rest
<1> HIDE DEF a1, a2, a3, a4, a5, a6, a7, a8, a9, a10, a11, a12
<1>2. Rest(p) \in Seq({a1, a2, a3, a4, a5, a6, a7, a8, a9, a10, a11, a12}) /\ Len(Rest(p)) = 12
  BY <1>1
<1>3. /\ Rest(p)[1] = a1 /\ Rest(p)[2] = a2 /\ Rest(p)[3] = a3 /\ Rest(p)[4] = a4 /\ Rest(p)[5] = a5 /\ Rest(p)[6] = a6
      /\ Rest(p)[7] = a7 /\ Rest(p)[8] = a8 /\ Rest(p)[9] = a9 /\ Rest(p)[10] = a10 /\ Rest(p)[11] = a11 /\ Rest(p)[12] = a12
  BY <1>1
<1>4. IsSeq(Rest(p))
  BY <1>2 DEF IsSeq
<1> QED  BY <1>2, <1>3, <1>4 DEF a1, a2, a3, a4, a5, a6, a7, a8, a9, a10, a11, a12

\* The operand, read where its registers are as the program has them.
LEMMA OperandRead ==
    ASSUME NEW p \in Points, p.kind = "fill", NEW rg, Untouched(p, rg), UsesOf(p.memop) \subseteq GPRs, NEW c
    PROVE  \E s : AddressComputation(p.memop, c) = Op(c, p.memop.how, s) /\ Computed(p.memop.how, Read(rg, s)) = UsedAddress(p)
<1> DEFINE m == p.memop
           s == Cat(IF m.base = NoReg THEN << >> ELSE <<m.base>>, IF m.index = NoReg THEN << >> ELSE <<m.index>>)
           R == ProgramReg(p)
<1>1. AddressComputation(m, c) = Op(c, m.how, s)
  BY DEF AddressComputation, Cat
<1>3. AddressComputation(m, NoReg)[3] = m.how /\ AddressComputation(m, NoReg)[4] = s
  <2>1. AddressComputation(m, NoReg) = Op(NoReg, m.how, s)
    BY DEF AddressComputation, Cat
  <2> QED  BY <2>1 DEF Op
<1>4. UsedAddress(p) = T(m.how, Read(R, s))
  BY <1>3 DEF UsedAddress, Read
<1>5. (\A k \in 1 .. Len(s) : s[k] \in UsesOf(m)) /\ Len(s) \in Nat
  <2> DEFINE a == IF m.base = NoReg THEN << >> ELSE <<m.base>>
             b == IF m.index = NoReg THEN << >> ELSE <<m.index>>
             U == UsesOf(m)
  <2>1. m.base # NoReg => m.base \in U
    BY DEF UsesOf
  <2>2. m.index # NoReg => m.index \in U
    BY DEF UsesOf
  <2> HIDE DEF U
  <2>3. a \in Seq(U)
    BY <2>1
  <2>4. b \in Seq(U)
    BY <2>2
  <2>5. s = a \o b
    BY DEF Cat
  <2> HIDE DEF a, b, s
  <2>6. s \in Seq(U)
    BY <2>3, <2>4, <2>5
  <2> QED  BY <2>6 DEF U
<1> HIDE DEF s, R
<1>6. \A k \in 1 .. Len(s) : rg[s[k]] = R[s[k]]
  BY <1>5 DEF Untouched, R
<1>7. Read(rg, s) = Read(R, s)
  BY <1>6 DEF Read
<1>8. \A u \in UsesOf(m) : R[u] # Place
  <2> SUFFICES ASSUME NEW u \in UsesOf(m) PROVE R[u] # Place
    OBVIOUS
  <2>1. u \in GPRs
    OBVIOUS
  <2>2. R[u] = SPvalue(p.sp) \/ R[u] = <<"threaddata", 0>> \/ R[u] = <<"program", u>>
    BY <2>1 DEF R, ProgramReg
  <2>3. R[u][1] \in {"sp", "threaddata", "program"}
    BY <2>2 DEF SPvalue
  <2>4. Place[1] = "lea"
    BY DEF Place, T
  <2> QED  BY <2>3, <2>4
<1>9. Computed(m.how, Read(R, s)) = T(m.how, Read(R, s))
  <2> SUFFICES ASSUME T(m.how, Read(R, s)) = ThreadDataTerm PROVE FALSE
    BY DEF Computed
  <2>1. ThreadDataTerm = T("load", <<Place>>)
    BY DEF ThreadDataTerm, Place, Table, Offset, Masked, Shifted, ThreadId
  <2> HIDE DEF R
  <2>2. Read(R, s) = <<Place>>
    <3> DEFINE g == Read(R, s)
               w == <<Place>>
    <3>1. T(m.how, g) = T("load", w)
      BY <2>1
    <3> HIDE DEF g, w
    <3>2. g = w
      BY <3>1 DEF T
    <3> QED  BY <3>2 DEF g, w
  <2>3. DOMAIN Read(R, s) = 1 .. Len(s)
    BY DEF Read
  <2>4. 1 \in DOMAIN <<Place>> /\ <<Place>>[1] = Place
    OBVIOUS
  <2>5. 1 \in 1 .. Len(s)
    BY <2>2, <2>3, <2>4
  <2>6. R[s[1]] = Place
    BY <2>2, <2>4, <2>5 DEF Read
  <2> QED  BY <1>5, <1>8, <2>5, <2>6
<1> QED  BY <1>1, <1>4, <1>7, <1>9

LEMMA FillStep ==
    ASSUME NEW p \in Points, p.kind = "fill", Wanted(p), UsesOf(p.memop) \subseteq GPRs, NEW x \in 0 .. 11,
           NEW rg, IsFile(rg), NEW ef, FillMade(p, x, rg, ef),
           NEW op, op = Rest(p)[x + 1], NEW rg2, NEW ef2, Runs(op, rg, ef, rg2, ef2)
    PROVE  FillMade(p, x + 1, rg2, ef2)
<1> DEFINE s == SReg(p)
           d == DReg(p)
           c == CReg(p)
<1>1. s \in GPRs /\ d \in GPRs /\ c \in GPRs /\ s # d /\ c # s /\ c # d
  BY DataRegs DEF DataKinds
<1>2. s \notin UsesOf(p.memop) /\ c \notin UsesOf(p.memop)
  BY DataRegs DEF DataKinds
<1> HIDE DEF s, d, c
<1>3. /\ Rest(p)[1] = Op(s, "Buffer", <<d>>) /\ Rest(p)[2] = Op(c, "current", <<s>>)
      /\ Rest(p)[3] = Alu(c, "shl", <<c>>) /\ Rest(p)[4] = Op(s, "lea", <<s, c>>)
      /\ Rest(p)[5] = AddressComputation(p.memop, c) /\ Rest(p)[6] = Store(s, "address", c)
      /\ Rest(p)[7] = Op(c, "memseq", << >>) /\ Rest(p)[8] = Store(s, "memseq", c)
      /\ Rest(p)[9] = Op(c, "image", << >>) /\ Rest(p)[10] = Store(s, "imageid", c)
      /\ Rest(p)[11] = Op(c, "fs:0x10", << >>) /\ Rest(p)[12] = Store(s, "threadid", c)
  BY FillCode DEF s, d, c
<1>4. BaseOf(s, rg) = rg[s]
  BY <1>1, NoRegIsNone DEF BaseOf
<1>5. \A w \in GPRs : w \in {s, c} /\ (\A r \in GPRs : r # w => rg2[r] = rg[r]) /\ Untouched(p, rg) => Untouched(p, rg2)
  BY <1>2 DEF Untouched
<1>10. CASE x = 0
  <2>1. op = Op(s, "Buffer", <<d>>)
    BY <1>3, <1>10
  <2>2. ef = << >> /\ rg[d] = <<"threaddata", 0>> /\ Untouched(p, rg)
    BY <1>10 DEF FillMade, s, d, c
  <2>3. Read(rg, <<d>>) = <<rg[d]>>
    BY ReadIs
  <2>9. ef2 = ef /\ rg2 = Write(rg, s, Computed("Buffer", Read(rg, <<d>>)))
    BY <2>1, OpRuns
  <2>4. ef2 = ef /\ rg2[s] = T("Buffer", Read(rg, <<d>>)) /\ \A r \in GPRs : r # s => rg2[r] = rg[r]
    BY <1>1, <2>9, Written, Values
  <2>5. rg2[s] = BufferTerm
    BY <2>2, <2>3, <2>4 DEF BufferTerm
  <2>6. Untouched(p, rg2)
    BY <1>1, <1>5, <2>2, <2>4
  <2> QED  BY <1>10, <2>2, <2>4, <2>5, <2>6 DEF FillMade, s, c
<1>11. CASE x = 1
  <2>1. op = Op(c, "current", <<s>>)
    BY <1>3, <1>11
  <2>2. ef = << >> /\ rg[s] = BufferTerm /\ Untouched(p, rg)
    BY <1>11 DEF FillMade, s, d, c
  <2>3. Read(rg, <<s>>) = <<rg[s]>>
    BY ReadIs
  <2>9. ef2 = ef /\ rg2 = Write(rg, c, Computed("current", Read(rg, <<s>>)))
    BY <2>1, OpRuns
  <2>4. ef2 = ef /\ rg2[c] = T("current", Read(rg, <<s>>)) /\ \A r \in GPRs : r # c => rg2[r] = rg[r]
    BY <1>1, <2>9, Written, Values
  <2>5. rg2[c] = T("current", <<BufferTerm>>)
    BY <2>2, <2>3, <2>4
  <2>6. rg2[s] = rg[s]
    BY <1>1, <2>4
  <2>7. Untouched(p, rg2)
    BY <1>1, <1>5, <2>2, <2>4
  <2> QED  BY <1>11, <2>2, <2>4, <2>5, <2>6, <2>7 DEF FillMade, s, c
<1>12. CASE x = 2
  <2>1. op = Alu(c, "shl", <<c>>)
    BY <1>3, <1>12
  <2>2. ef = << >> /\ rg[c] = T("current", <<BufferTerm>>) /\ rg[s] = BufferTerm /\ Untouched(p, rg)
    BY <1>12 DEF FillMade, s, d, c
  <2>3. Read(rg, <<c>>) = <<rg[c]>>
    BY ReadIs
  <2>9. ef2 = ef /\ rg2 = Write(rg, c, Computed("shl", Read(rg, <<c>>)))
    BY <2>1, AluRuns
  <2>4. ef2 = ef /\ rg2[c] = T("shl", Read(rg, <<c>>)) /\ \A r \in GPRs : r # c => rg2[r] = rg[r]
    BY <1>1, <2>9, Written, Values
  <2>5. rg2[c] = Shl(p)
    BY <2>2, <2>3, <2>4 DEF Shl
  <2>6. rg2[s] = rg[s]
    BY <1>1, <2>4
  <2>7. Untouched(p, rg2)
    BY <1>1, <1>5, <2>2, <2>4
  <2> QED  BY <1>12, <2>2, <2>4, <2>5, <2>6, <2>7 DEF FillMade, s, c
<1>13. CASE x = 3
  <2>1. op = Op(s, "lea", <<s, c>>)
    BY <1>3, <1>13
  <2>2. ef = << >> /\ rg[s] = BufferTerm /\ rg[c] = Shl(p) /\ Untouched(p, rg)
    BY <1>13 DEF FillMade, s, d, c
  <2>3. Read(rg, <<s, c>>) = <<rg[s], rg[c]>>
    BY ReadIs
  <2>9. ef2 = ef /\ rg2 = Write(rg, s, Computed("lea", Read(rg, <<s, c>>)))
    BY <2>1, OpRuns
  <2>4. ef2 = ef /\ rg2[s] = T("lea", Read(rg, <<s, c>>)) /\ \A r \in GPRs : r # s => rg2[r] = rg[r]
    BY <1>1, <2>9, Written, Values
  <2>5. rg2[s] = EntryTerm
    BY <2>2, <2>3, <2>4 DEF EntryTerm, Shl
  <2>6. Untouched(p, rg2)
    BY <1>1, <1>5, <2>2, <2>4
  <2> QED  BY <1>13, <2>2, <2>4, <2>5, <2>6 DEF FillMade, s, c
<1>14. CASE x = 4
  <2>1. op = AddressComputation(p.memop, c)
    BY <1>3, <1>14
  <2>2. Untouched(p, rg) /\ ef = << >> /\ rg[s] = EntryTerm
    BY <1>14 DEF FillMade, s
  <2>3. PICK a : op = Op(c, p.memop.how, a) /\ Computed(p.memop.how, Read(rg, a)) = UsedAddress(p)
    BY <2>1, <2>2, OperandRead
  <2>9. ef2 = ef /\ rg2 = Write(rg, c, UsedAddress(p))
    BY <2>3, OpRuns
  <2>4. ef2 = ef /\ rg2[c] = UsedAddress(p) /\ \A r \in GPRs : r # c => rg2[r] = rg[r]
    BY <1>1, <2>9, Written
  <2>5. rg2[s] = EntryTerm
    BY <1>1, <2>2, <2>4
  <2> QED  BY <1>14, <2>2, <2>4, <2>5 DEF FillMade, s, c
<1>15. CASE x = 5
  <2>1. op = Store(s, "address", c)
    BY <1>3, <1>15
  <2>2. ef = << >> /\ rg[s] = EntryTerm /\ rg[c] = UsedAddress(p)
    BY <1>15 DEF FillMade, s, c
  <2>9. rg2 = rg /\ ef2 = Append(ef, <<"store", BaseOf(s, rg), "address", rg[c]>>)
    BY <2>1, StoreRuns
  <2>3. rg2 = rg /\ ef2 = Append(ef, Entry1(p))
    BY <1>4, <2>2, <2>9 DEF Entry1
  <2>4. ef2 = Filled1(p)
    BY <2>2, <2>3, FilledUp
  <2> QED  BY <1>15, <2>2, <2>3, <2>4 DEF FillMade, s, c
<1>16. CASE x = 6
  <2>1. op = Op(c, "memseq", << >>)
    BY <1>3, <1>16
  <2>2. ef = Filled1(p) /\ rg[s] = EntryTerm
    BY <1>16 DEF FillMade, s, d, c
  <2>3. Read(rg, << >>) = << >>
    BY ReadIs
  <2>9. ef2 = ef /\ rg2 = Write(rg, c, Computed("memseq", Read(rg, << >>)))
    BY <2>1, OpRuns
  <2>4. ef2 = ef /\ rg2[c] = T("memseq", Read(rg, << >>)) /\ \A r \in GPRs : r # c => rg2[r] = rg[r]
    BY <1>1, <2>9, Written, Values
  <2>5. rg2[c] = T("memseq", << >>)
    BY <2>2, <2>3, <2>4
  <2>6. rg2[s] = rg[s]
    BY <1>1, <2>4
  <2> QED  BY <1>16, <2>2, <2>4, <2>5, <2>6 DEF FillMade, s, c
<1>17. CASE x = 7
  <2>1. op = Store(s, "memseq", c)
    BY <1>3, <1>17
  <2>2. ef = Filled1(p) /\ rg[s] = EntryTerm /\ rg[c] = T("memseq", << >>)
    BY <1>17 DEF FillMade, s, c
  <2>9. rg2 = rg /\ ef2 = Append(ef, <<"store", BaseOf(s, rg), "memseq", rg[c]>>)
    BY <2>1, StoreRuns
  <2>3. rg2 = rg /\ ef2 = Append(ef, Entry2)
    BY <1>4, <2>2, <2>9 DEF Entry2
  <2>4. ef2 = Filled2(p)
    BY <2>2, <2>3, FilledUp
  <2> QED  BY <1>17, <2>2, <2>3, <2>4 DEF FillMade, s, c
<1>18. CASE x = 8
  <2>1. op = Op(c, "image", << >>)
    BY <1>3, <1>18
  <2>2. ef = Filled2(p) /\ rg[s] = EntryTerm
    BY <1>18 DEF FillMade, s, d, c
  <2>3. Read(rg, << >>) = << >>
    BY ReadIs
  <2>9. ef2 = ef /\ rg2 = Write(rg, c, Computed("image", Read(rg, << >>)))
    BY <2>1, OpRuns
  <2>4. ef2 = ef /\ rg2[c] = T("image", Read(rg, << >>)) /\ \A r \in GPRs : r # c => rg2[r] = rg[r]
    BY <1>1, <2>9, Written, Values
  <2>5. rg2[c] = T("image", << >>)
    BY <2>2, <2>3, <2>4
  <2>6. rg2[s] = rg[s]
    BY <1>1, <2>4
  <2> QED  BY <1>18, <2>2, <2>4, <2>5, <2>6 DEF FillMade, s, c
<1>19. CASE x = 9
  <2>1. op = Store(s, "imageid", c)
    BY <1>3, <1>19
  <2>2. ef = Filled2(p) /\ rg[s] = EntryTerm /\ rg[c] = T("image", << >>)
    BY <1>19 DEF FillMade, s, c
  <2>9. rg2 = rg /\ ef2 = Append(ef, <<"store", BaseOf(s, rg), "imageid", rg[c]>>)
    BY <2>1, StoreRuns
  <2>3. rg2 = rg /\ ef2 = Append(ef, Entry3)
    BY <1>4, <2>2, <2>9 DEF Entry3
  <2>4. ef2 = Filled3(p)
    BY <2>2, <2>3, FilledUp
  <2> QED  BY <1>19, <2>2, <2>3, <2>4 DEF FillMade, s, c
<1>20. CASE x = 10
  <2>1. op = Op(c, "fs:0x10", << >>)
    BY <1>3, <1>20
  <2>2. ef = Filled3(p) /\ rg[s] = EntryTerm
    BY <1>20 DEF FillMade, s, d, c
  <2>3. Read(rg, << >>) = << >>
    BY ReadIs
  <2>9. ef2 = ef /\ rg2 = Write(rg, c, Computed("fs:0x10", Read(rg, << >>)))
    BY <2>1, OpRuns
  <2>4. ef2 = ef /\ rg2[c] = T("fs:0x10", Read(rg, << >>)) /\ \A r \in GPRs : r # c => rg2[r] = rg[r]
    BY <1>1, <2>9, Written, Values
  <2>5. rg2[c] = T("fs:0x10", << >>)
    BY <2>2, <2>3, <2>4
  <2>6. rg2[s] = rg[s]
    BY <1>1, <2>4
  <2> QED  BY <1>20, <2>2, <2>4, <2>5, <2>6 DEF FillMade, s, c
<1>21. CASE x = 11
  <2>1. op = Store(s, "threadid", c)
    BY <1>3, <1>21
  <2>2. ef = Filled3(p) /\ rg[s] = EntryTerm /\ rg[c] = T("fs:0x10", << >>)
    BY <1>21 DEF FillMade, s, c
  <2>9. rg2 = rg /\ ef2 = Append(ef, <<"store", BaseOf(s, rg), "threadid", rg[c]>>)
    BY <2>1, StoreRuns
  <2>3. rg2 = rg /\ ef2 = Append(ef, Entry4)
    BY <1>4, <2>2, <2>9 DEF Entry4
  <2>4. ef2 = Filled4(p)
    BY <2>2, <2>3, FilledUp
  <2> QED  BY <1>21, <2>2, <2>3, <2>4 DEF FillMade, s, c
<1>22. x \in {0, 1, 2, 3, 4, 5, 6, 7, 8, 9, 10, 11}
  OBVIOUS
<1> QED  BY <1>10, <1>11, <1>12, <1>13, <1>14, <1>15, <1>16, <1>17, <1>18, <1>19, <1>20, <1>21, <1>22

\* The same for the counter of a thread and the increment of the buffer.
RestMade(p, x, rg, ef) ==
    IF p.kind = "fill" THEN FillMade(p, x, rg, ef)
    ELSE /\ x = 0 => rg[DReg(p)] = <<"threaddata", 0>>
         /\ x = 1 /\ p.kind = "increment" => rg[SReg(p)] = BufferTerm
         /\ ef = IF x = Len(Rest(p)) THEN Meant(p) ELSE << >>

LEMMA RestCode ==
    ASSUME NEW p
    PROVE  /\ p.kind = "threadcounter" => IsSeq(Rest(p)) /\ Len(Rest(p)) = 1 /\ Rest(p)[1] = Add(DReg(p), "counter")
           /\ p.kind = "increment" => /\ IsSeq(Rest(p)) /\ Len(Rest(p)) = 2
                                      /\ Rest(p)[1] = Op(SReg(p), "Buffer", <<DReg(p)>>) /\ Rest(p)[2] = Add(SReg(p), "current")
<1> DEFINE a == Add(DReg(p), "counter")
           b == Op(SReg(p), "Buffer", <<DReg(p)>>)
           c == Add(SReg(p), "current")
<1>1. p.kind = "threadcounter" => Rest(p) = <<a>>
  BY DEF Rest
<1>2. p.kind = "increment" => Rest(p) = <<b, c>>
  BY DEF Rest
<1> HIDE DEF a, b, c
<1>3. <<a>> \in Seq({a}) /\ Len(<<a>>) = 1 /\ <<a>>[1] = a
  OBVIOUS
<1>4. <<b, c>> \in Seq({b, c}) /\ Len(<<b, c>>) = 2 /\ <<b, c>>[1] = b /\ <<b, c>>[2] = c
  OBVIOUS
<1>5. IsSeq(<<a>>) /\ IsSeq(<<b, c>>)
  BY <1>3, <1>4 DEF IsSeq
<1>6. p.kind = "threadcounter" => IsSeq(Rest(p)) /\ Len(Rest(p)) = 1 /\ Rest(p)[1] = a
  BY <1>1, <1>3, <1>5
<1>7. p.kind = "increment" => IsSeq(Rest(p)) /\ Len(Rest(p)) = 2 /\ Rest(p)[1] = b /\ Rest(p)[2] = c
  BY <1>2, <1>4, <1>5
<1> QED  BY <1>6, <1>7 DEF a, b, c

LEMMA RestStep ==
    ASSUME NEW p \in Points, p.kind \in DataKinds, Wanted(p), UsesOf(p.memop) \subseteq GPRs, NEW x \in 0 .. Len(Rest(p)) - 1,
           NEW rg, IsFile(rg), NEW ef, RestMade(p, x, rg, ef),
           NEW op, op = Rest(p)[x + 1], NEW rg2, NEW ef2, Runs(op, rg, ef, rg2, ef2)
    PROVE  RestMade(p, x + 1, rg2, ef2)
<1> DEFINE s == SReg(p)
           d == DReg(p)
<1>1. s \in GPRs /\ d \in GPRs
  BY DataRegs
<1>2. CASE p.kind = "fill"
  <2>1. Len(Rest(p)) = 12
    BY <1>2, FillCode
  <2>2. x \in 0 .. 11
    BY <2>1
  <2>3. FillMade(p, x, rg, ef)
    BY <1>2 DEF RestMade
  <2>4. FillMade(p, x + 1, rg2, ef2)
    BY <1>2, <2>2, <2>3, FillStep
  <2> QED  BY <1>2, <2>4 DEF RestMade
<1>3. CASE p.kind = "threadcounter"
  <2>0. Len(Rest(p)) = 1 /\ Rest(p)[1] = Add(d, "counter")
    BY <1>3, RestCode
  <2>1. x = 0 /\ Len(Rest(p)) = 1 /\ op = Add(d, "counter")
    BY <2>0
  <2>2. rg[d] = <<"threaddata", 0>> /\ ef = << >>
    BY <1>3, <2>1 DEF RestMade
  <2> HIDE DEF d
  <2>3. ef2 = Append(ef, <<"add", BaseOf(d, rg), "counter">>)
    BY <2>1, AddRuns
  <2>4. BaseOf(d, rg) = rg[d]
    BY <1>1, NoRegIsNone DEF BaseOf
  <2>5. ef2 = << <<"add", <<"threaddata", 0>>, "counter">> >>
    BY <2>2, <2>3, <2>4, Appended
  <2>6. Meant(p) = << <<"add", <<"threaddata", 0>>, "counter">> >>
    BY <1>3 DEF Meant
  <2>7. ef2 = Meant(p)
    BY <2>5, <2>6
  <2> QED  BY <1>3, <2>1, <2>7 DEF RestMade
<1>4. CASE p.kind = "increment"
  <2>1. Len(Rest(p)) = 2 /\ Rest(p)[1] = Op(s, "Buffer", <<d>>) /\ Rest(p)[2] = Add(s, "current")
    BY <1>4, RestCode
  <2>2. x = 0 \/ x = 1
    BY <2>1
  <2>3. ef = << >> /\ (x = 0 => rg[d] = <<"threaddata", 0>>) /\ (x = 1 => rg[s] = BufferTerm)
    BY <1>4, <2>1, <2>2 DEF RestMade
  <2> HIDE DEF s, d
  <2>4. CASE x = 0
    <3>1. op = Op(s, "Buffer", <<d>>)
      BY <2>1, <2>4
    <3>2. ef2 = ef /\ rg2 = Write(rg, s, Computed("Buffer", Read(rg, <<d>>)))
      BY <3>1, OpRuns
    <3>3. Read(rg, <<d>>) = <<rg[d]>>
      BY ReadIs
    <3>4. rg2[s] = T("Buffer", Read(rg, <<d>>))
      BY <1>1, <3>2, Written, Values
    <3>5. rg2[s] = BufferTerm
      BY <2>3, <2>4, <3>3, <3>4 DEF BufferTerm
    <3>6. x + 1 = 1 /\ ef2 = << >>
      BY <2>3, <2>4, <3>2
    <3> QED  BY <1>4, <2>1, <3>5, <3>6 DEF RestMade, s
  <2>5. CASE x = 1
    <3>1. op = Add(s, "current")
      BY <2>1, <2>5
    <3>2. ef2 = Append(ef, <<"add", BaseOf(s, rg), "current">>)
      BY <3>1, AddRuns
    <3>3. BaseOf(s, rg) = rg[s]
      BY <1>1, NoRegIsNone DEF BaseOf
    <3>4. ef2 = << <<"add", BufferTerm, "current">> >>
      BY <2>3, <2>5, <3>2, <3>3, Appended
    <3>5. Meant(p) = << <<"add", BufferTerm, "current">> >>
      BY <1>4 DEF Meant
    <3>6. ef2 = Meant(p) /\ x + 1 = 2
      BY <2>5, <3>4, <3>5
    <3> QED  BY <1>4, <2>1, <3>6 DEF RestMade
  <2> QED  BY <2>2, <2>4, <2>5
<1> QED  BY <1>2, <1>3, <1>4 DEF DataKinds

LEMMA RestEnds ==
    ASSUME NEW p, p.kind \in DataKinds, NEW rg, NEW ef, RestMade(p, Len(Rest(p)), rg, ef)
    PROVE  ef = Meant(p)
<1>1. CASE p.kind = "fill"
  <2>1. Len(Rest(p)) = 12
    BY <1>1, FillCode
  <2>2. ef = Filled4(p)
    BY <1>1, <2>1 DEF RestMade, FillMade
  <2>3. Meant(p) = Filled4(p)
    BY <1>1 DEF Meant, Filled4, Entry1, Entry2, Entry3, Entry4
  <2> QED  BY <2>2, <2>3
<1>2. CASE p.kind # "fill"
  BY <1>2 DEF RestMade
<1> QED  BY <1>1, <1>2

-----------------------------------------------------------------------------
(* The whole of the code that writes to the data of a thread.               *)

Z(p) == IF p.threadReg = NoReg THEN 7 ELSE 0
Preface(p) == ThreadDataUnlessKept(p, SReg(p), DReg(p))

LEMMA DataPlaces ==
    ASSUME NEW p \in Points, p.kind \in DataKinds
    PROVE  /\ Len(Inserted(p)) = Z(p) + Len(Rest(p)) /\ Len(Rest(p)) \in Nat /\ Z(p) \in Nat
           /\ \A j \in 1 .. Z(p) : Inserted(p)[j] = storeThreadData(SReg(p), DReg(p))[j]
           /\ \A x \in 1 .. Len(Rest(p)) : Inserted(p)[Z(p) + x] = Rest(p)[x]
<1> DEFINE s == SReg(p)
           d == DReg(p)
           w == Preface(p)
           v == Rest(p)
<1>1. Inserted(p) = Cat(w, v)
  <2>1. CASE p.kind = "threadcounter"
    <3> DEFINE sr == CounterRegs(p)
    <3>1. Inserted(p) = Cat(ThreadDataUnlessKept(p, sr[2], sr[1]), <<Add(IF p.threadReg = NoReg THEN sr[1] ELSE p.threadReg, "counter")>>)
      BY <2>1 DEF Inserted, insertInlinedTripCounter, Cat
    <3>2. d = IF p.threadReg = NoReg THEN sr[1] ELSE p.threadReg
      BY <2>1 DEF DReg, Scratches
    <3>3. s = sr[2]
      BY <2>1 DEF SReg, Scratches
    <3>4. ThreadDataUnlessKept(p, sr[2], sr[1]) = w
      BY <3>2, <3>3 DEF Preface, ThreadDataUnlessKept
    <3>5. v = <<Add(d, "counter")>>
      BY <2>1 DEF Rest
    <3> QED  BY <3>1, <3>2, <3>4, <3>5
  <2>2. CASE p.kind = "increment"
    <3> DEFINE sr == CheckRegs(p)
    <3>1. Inserted(p) = Cat(ThreadDataUnlessKept(p, sr[2], sr[1]), <<Op(sr[2], "Buffer", <<sr[1]>>), Add(sr[2], "current")>>)
      BY <2>2 DEF Inserted, BufferIncrement, Cat
    <3>2. d = sr[1] /\ s = sr[2]
      <4>1. Scratches(p) = sr
        BY <2>2 DEF Scratches
      <4>2. Scratches(p)[1] = d
        BY <2>2, DataRegs
      <4> QED  BY <4>1, <4>2 DEF SReg
    <3>3. v = <<Op(s, "Buffer", <<d>>), Add(s, "current")>>
      BY <2>2 DEF Rest
    <3> HIDE DEF s, d, sr, v
    <3> QED  BY <3>1, <3>2, <3>3 DEF Preface, s, d
  <2>3. CASE p.kind = "fill"
    <3> DEFINE sr == FillRegs(p)
               F(a, b, c) == <<Op(a, "Buffer", <<b>>), Op(c, "current", <<a>>), Alu(c, "shl", <<c>>),
                               Op(a, "lea", <<a, c>>), AddressComputation(p.memop, c),
                               Store(a, "address", c), Op(c, "memseq", << >>),
                               Store(a, "memseq", c), Op(c, "image", << >>),
                               Store(a, "imageid", c), Op(c, "fs:0x10", << >>), Store(a, "threadid", c)>>
    <3>1. Inserted(p) = Cat(ThreadDataUnlessKept(p, sr[2], sr[1]), F(sr[2], sr[1], sr[3]))
      BY <2>3 DEF Inserted, BufferFill, Cat
    <3>2. d = sr[1] /\ s = sr[2] /\ CReg(p) = sr[3]
      <4>1. Scratches(p) = sr
        BY <2>3 DEF Scratches
      <4>2. Scratches(p)[1] = d
        BY <2>3, DataRegs
      <4> QED  BY <4>1, <4>2 DEF SReg, CReg
    <3>3. v = F(s, d, CReg(p))
      BY <2>3 DEF Rest
    <3> HIDE DEF s, d, sr, v, F
    <3> QED  BY <3>1, <3>2, <3>3 DEF Preface, s, d
  <2> QED  BY <2>1, <2>2, <2>3 DEF DataKinds
<1>2. IsSeq(v) /\ Len(v) \in Nat
  <2>1. IsSeq(v) /\ (Len(v) = 1 \/ Len(v) = 2 \/ Len(v) = 12)
    BY RestCode, FillCode DEF DataKinds
  <2> QED  BY <2>1
<1>3. IsSeq(w) /\ Len(w) = Z(p) /\ Z(p) \in Nat /\ \A j \in 1 .. Z(p) : w[j] = storeThreadData(s, d)[j]
  <2>1. CASE p.threadReg = NoReg
    <3>1. w = storeThreadData(s, d)
      BY <2>1 DEF Preface, ThreadDataUnlessKept
    <3>2. Defines(p, s) /\ Defines(p, d)
      BY <2>1, DataRegs DEF Defines
    <3> HIDE DEF s, d, w
    <3>3. IsSeq(w) /\ Len(w) = 7
      BY <3>1, <3>2, ThreadDataPlain DEF AllPlain
    <3> QED  BY <2>1, <3>1, <3>3 DEF Z
  <2>2. CASE p.threadReg # NoReg
    <3>1. w = << >>
      BY <2>2 DEF Preface, ThreadDataUnlessKept
    <3>2. << >> \in Seq({0}) /\ Len(<< >>) = 0
      OBVIOUS
    <3> HIDE DEF w
    <3>3. IsSeq(w) /\ Len(w) = 0 /\ Z(p) = 0
      BY <2>2, <3>1, <3>2 DEF IsSeq, Z
    <3> QED  BY <3>3
  <2> QED  BY <2>1, <2>2
<1> HIDE DEF w, v, s, d
<1>4. IsCat(Cat(w, v), w, v)
  BY <1>2, <1>3, Concat
<1>5. /\ Len(Cat(w, v)) = Z(p) + Len(v)
      /\ \A j \in 1 .. Z(p) : Cat(w, v)[j] = w[j]
      /\ \A x \in 1 .. Len(v) : Cat(w, v)[Z(p) + x] = v[x]
  BY <1>3, <1>4 DEF IsCat
<1> QED  BY <1>1, <1>2, <1>3, <1>5 DEF v, s, d

DataMade(p, j, rg, ef) ==
    IF j < Z(p) THEN ef = << >> /\ Progress(j, SReg(p), DReg(p), rg) /\ (p.kind = "fill" => Untouched(p, rg))
    ELSE RestMade(p, j - Z(p), rg, ef)

LEMMA DataRest ==
    ASSUME NEW p, NEW j, ~(j < Z(p)), NEW x, x = j - Z(p), NEW rg, NEW ef
    PROVE  DataMade(p, j, rg, ef) <=> RestMade(p, x, rg, ef)
  BY DEF DataMade

LEMMA RestBegins ==
    ASSUME NEW p, p.kind \in DataKinds, NEW rg, rg[DReg(p)] = <<"threaddata", 0>>, p.kind = "fill" => Untouched(p, rg)
    PROVE  RestMade(p, 0, rg, << >>)
<1>1. CASE p.kind = "fill"
  BY <1>1 DEF RestMade, FillMade
<1>2. CASE p.kind # "fill"
  <2>1. Len(Rest(p)) # 0
    <3>1. Len(Rest(p)) = 1 \/ Len(Rest(p)) = 2
      BY <1>2, RestCode DEF DataKinds
    <3> QED  BY <3>1
  <2> QED  BY <1>2, <2>1 DEF RestMade
<1> QED  BY <1>1, <1>2

LEMMA DataStep ==
    ASSUME NEW p \in Points, p.kind \in DataKinds, Wanted(p), UsesOf(p.memop) \subseteq GPRs, NEW j \in 0 .. Len(Inserted(p)) - 1,
           NEW rg, IsFile(rg), NEW ef, DataMade(p, j, rg, ef),
           NEW op, op = Inserted(p)[j + 1], NEW rg2, NEW ef2, Runs(op, rg, ef, rg2, ef2)
    PROVE  DataMade(p, j + 1, rg2, ef2)
<1> DEFINE s == SReg(p)
           d == DReg(p)
           z == Z(p)
           n == Len(Rest(p))
<1>1. /\ Len(Inserted(p)) = z + n /\ n \in Nat /\ z \in Nat
      /\ \A k \in 1 .. z : Inserted(p)[k] = storeThreadData(s, d)[k]
      /\ \A x \in 1 .. n : Inserted(p)[z + x] = Rest(p)[x]
  BY DataPlaces
<1>2. CASE j < z
  <2>1. z = 7 /\ p.threadReg = NoReg
    BY <1>2 DEF Z
  <2>2. j \in 0 .. 6
    BY <1>2, <2>1
  <2>3. s \in GPRs /\ d \in GPRs /\ s # d /\ (p.kind = "fill" => s \notin UsesOf(p.memop) /\ d \notin UsesOf(p.memop))
    BY <2>1, DataRegs
  <2>4. ef = << >> /\ Progress(j, s, d, rg) /\ (p.kind = "fill" => Untouched(p, rg))
    BY <1>2 DEF DataMade
  <2> HIDE DEF s, d, z, n
  <2>5. op = storeThreadData(s, d)[j + 1]
    <3>1. j + 1 \in 1 .. z
      BY <2>1, <2>2
    <3> QED  BY <1>1, <3>1
  <2>6. op[1] = "op" /\ op[2] \in {s, d}
    BY <2>2, <2>5, ThreadDataWritten
  <2>7. rg2 = Write(rg, op[2], Value(op, rg)) /\ ef2 = ef
    BY <2>6 DEF Runs
  <2>8. Progress(j + 1, s, d, rg2)
    BY <2>2, <2>3, <2>4, <2>5, <2>7, ProgressStep
  <2>9. p.kind = "fill" => Untouched(p, rg2)
    <3>1. \A r \in GPRs : r # op[2] => rg2[r] = rg[r]
      BY <2>7, Written
    <3> QED  BY <2>3, <2>4, <2>6, <3>1 DEF Untouched
  <2>10. CASE j + 1 < z
    BY <2>4, <2>7, <2>8, <2>9, <2>10 DEF DataMade, s, d, z
  <2>11. CASE ~(j + 1 < z)
    <3>1. j + 1 = 7 /\ ~(j + 1 < Z(p)) /\ j + 1 - Z(p) = 0
      BY <2>1, <2>2, <2>11 DEF z
    <3>2. rg2[d] = <<"threaddata", 0>>
      BY <2>8, <3>1 DEF Progress
    <3>3. RestMade(p, 0, rg2, << >>)
      BY <2>9, <3>2, RestBegins DEF d
    <3>4. RestMade(p, 0, rg2, ef2)
      BY <2>4, <2>7, <3>3
    <3> DEFINE k == j + 1
    <3> HIDE DEF k
    <3>5. ~(k < Z(p)) /\ 0 = k - Z(p)
      BY <1>1, <2>2, <3>1 DEF k, z
    <3>6. DataMade(p, k, rg2, ef2)
      BY <3>4, <3>5, DataRest
    <3> QED  BY <3>6 DEF k
  <2> QED  BY <2>10, <2>11
<1>3. CASE ~(j < z)
  <2> DEFINE x == j - z
  <2>1. x \in 0 .. n - 1 /\ x + 1 \in 1 .. n /\ z + (x + 1) = j + 1 /\ j + 1 - z = x + 1 /\ ~(j + 1 < z)
    BY <1>1, <1>3
  <2>2. RestMade(p, x, rg, ef)
    BY <1>3 DEF DataMade
  <2> HIDE DEF x
  <2>3. op = Rest(p)[x + 1]
    <3> HIDE DEF z, n
    <3> QED  BY <1>1, <2>1
  <2>4. RestMade(p, x + 1, rg2, ef2)
    BY <2>1, <2>2, <2>3, RestStep
  <2> DEFINE k == j + 1
             y == x + 1
  <2>5. ~(k < Z(p)) /\ y = k - Z(p)
    BY <1>1, <2>1
  <2>6. RestMade(p, y, rg2, ef2)
    BY <2>4
  <2> HIDE DEF k, y
  <2>7. DataMade(p, k, rg2, ef2)
    BY <2>5, <2>6, DataRest
  <2> QED  BY <2>7 DEF k
<1> QED  BY <1>2, <1>3

LEMMA DataBegins ==
    ASSUME NEW p \in Points, p.kind \in DataKinds, NEW rg, p.kind = "fill" => Untouched(p, rg),
           p.threadReg # NoReg => rg[p.threadReg] = <<"threaddata", 0>>
    PROVE  DataMade(p, 0, rg, << >>)
<1>1. CASE p.threadReg = NoReg
  <2>1. Progress(0, SReg(p), DReg(p), rg)
    BY DEF Progress
  <2>2. 0 < Z(p)
    BY <1>1 DEF Z
  <2> QED  BY <2>1, <2>2 DEF DataMade
<1>2. CASE p.threadReg # NoReg
  <2>0. Z(p) = 0
    BY <1>2 DEF Z
  <2>1. ~(0 < Z(p)) /\ 0 = 0 - Z(p)
    BY <2>0
  <2>2. rg[DReg(p)] = <<"threaddata", 0>>
    BY <1>2 DEF DReg
  <2>3. RestMade(p, 0, rg, << >>)
    BY <2>2, RestBegins
  <2> QED  BY <2>1, <2>3, DataRest
<1> QED  BY <1>1, <1>2

LEMMA DataEnds ==
    ASSUME NEW p \in Points, p.kind \in DataKinds, NEW rg, NEW ef, DataMade(p, Len(Inserted(p)), rg, ef)
    PROVE  ef = Meant(p)
<1>1. Len(Inserted(p)) = Z(p) + Len(Rest(p)) /\ Len(Rest(p)) \in Nat /\ Z(p) \in Nat
  BY DataPlaces
<1>2. ~(Len(Inserted(p)) < Z(p)) /\ Len(Inserted(p)) - Z(p) = Len(Rest(p))
  BY <1>1
<1>3. RestMade(p, Len(Rest(p)), rg, ef)
  BY <1>2 DEF DataMade
<1> QED  BY <1>3, RestEnds

-----------------------------------------------------------------------------
(* What has been made after the first j instructions of the body.           *)

Constants(p) == {k \in DOMAIN p.args : p.args[k] = "constant"}
ConstantTerm == T("constant", << >>)
SiteTerm == T("site", << >>)
SavedCX == <<"save", <<"program", CX>>>>
StoredSite == <<"store", << >>, "site", SiteTerm>>
Replaced1 == <<SavedCX>>
Replaced2 == <<SavedCX, StoredSite>>
\* While CX is dead nothing but CX changes before the replaced call.
AsCalled(p, rg) == CX \notin p.liveIn => \A r \in GPRs : r # CX => rg[r] = ProgramReg(p)[r]
ReplaceMade(p, j, rg, ef) ==
    /\ AsCalled(p, rg)
    /\ j \in {0, 1} => rg[CX] = <<"program", CX>>
    /\ j \in {2, 3} => rg[CX] = SiteTerm
    /\ j = 4 => (~OthersSave => rg[CX] = <<"program", CX>>)
    /\ j = 0 => ef = << >>
    /\ j \in {1, 2} => ef = Replaced1
    /\ j \in {3, 4} => ef = Replaced2
LibMade(p, j, rg, ef) ==
    /\ j = 1 => rg[CounterRegs(p)[1]] = T("&counter", << >>)
    /\ ef = IF j = 2 THEN Meant(p) ELSE << >>
Loaded(p, j, rg) ==
    \A n \in 1 .. j : rg[ArgRegs[Nth(Constants(p), n)]] = ConstantTerm
CallMade(p, j, rg, ef) == Loaded(p, j, rg) /\ ef = << >>
Made(p, j, rg, ef) ==
    /\ p.kind \in DataKinds => (Wanted(p) => DataMade(p, j, rg, ef))
    /\ p.kind = "counter" => ef = IF j = 0 THEN << >> ELSE Meant(p)
    /\ p.kind = "libcounter" => LibMade(p, j, rg, ef)
    /\ p.kind = "replace" => ReplaceMade(p, j, rg, ef)
    /\ p.kind = "call" => CallMade(p, j, rg, ef)
    /\ p.kind \in {"threadinit", "check"} => ef = << >>
Wrote(p, ef) == Wanted(p) => ef = Meant(p)

LEMMA SiteCode ==
    /\ Len(StoreSite) = 4
    /\ StoreSite[1] = <<"save", CX>> /\ StoreSite[2] = Op(CX, "site", << >>)
    /\ StoreSite[3] = Store(NoReg, "site", CX) /\ StoreSite[4] = <<"restore", CX>>
  BY DEF StoreSite

LEMMA ReplaceStep ==
    ASSUME NEW p \in Points, p.kind = "replace", NEW j \in 0 .. 3, NEW rg, IsFile(rg), NEW ef, ReplaceMade(p, j, rg, ef),
           NEW op, op = StoreSite[j + 1], NEW rg2, NEW ef2, Runs(op, rg, ef, rg2, ef2)
    PROVE  ReplaceMade(p, j + 1, rg2, ef2)
<1> DEFINE sc == StoreSite
           a == SavedCX
           b == StoredSite
<1>1. sc[1] = <<"save", CX>> /\ sc[2] = Op(CX, "site", << >>) /\ sc[3] = Store(NoReg, "site", CX) /\ sc[4] = <<"restore", CX>>
  BY SiteCode
<1>2. AsCalled(p, rg) /\ CX \in GPRs
  BY NoRegIsNone DEF ReplaceMade
<1> HIDE DEF sc, a, b
<1>3. Append(<< >>, a) = Replaced1 /\ Append(Replaced1, b) = Replaced2 /\ Replaced2[1] = a
  <2>1. Append(<< >>, a) = <<a>> /\ Append(<<a>>, b) = <<a, b>> /\ <<a, b>>[1] = a
    BY Appended
  <2>2. Replaced1 = <<a>> /\ Replaced2 = <<a, b>>
    BY DEF Replaced1, Replaced2, a, b
  <2> QED  BY <2>1, <2>2
<1>4. (\A r \in GPRs : r # CX => rg2[r] = rg[r]) => AsCalled(p, rg2)
  BY <1>2 DEF AsCalled
<1>10. CASE j = 0
  <2>1. op[1] = "save" /\ op[2] = CX
    BY <1>1, <1>10 DEF sc
  <2>2. ef = << >> /\ rg[CX] = <<"program", CX>>
    BY <1>10 DEF ReplaceMade
  <2>3. rg2 = rg /\ ef2 = Append(ef, <<"save", rg[CX]>>)
    BY <2>1 DEF Runs
  <2>4. ef2 = Replaced1
    BY <1>3, <2>2, <2>3 DEF a, SavedCX
  <2> QED  BY <1>2, <1>10, <2>2, <2>3, <2>4 DEF ReplaceMade
<1>11. CASE j = 1
  <2>1. op = Op(CX, "site", << >>)
    BY <1>1, <1>11 DEF sc
  <2>2. ef = Replaced1
    BY <1>11 DEF ReplaceMade
  <2>3. ef2 = ef /\ rg2 = Write(rg, CX, Computed("site", Read(rg, << >>)))
    BY <2>1, OpRuns
  <2>4. Read(rg, << >>) = << >>
    BY ReadIs
  <2>5. rg2[CX] = T("site", Read(rg, << >>)) /\ \A r \in GPRs : r # CX => rg2[r] = rg[r]
    BY <1>2, <2>3, Written, Values
  <2>6. rg2[CX] = SiteTerm
    BY <2>4, <2>5 DEF SiteTerm
  <2>7. AsCalled(p, rg2)
    BY <1>4, <2>5
  <2> QED  BY <1>11, <2>2, <2>3, <2>6, <2>7 DEF ReplaceMade
<1>12. CASE j = 2
  <2>1. op = Store(NoReg, "site", CX)
    BY <1>1, <1>12 DEF sc
  <2>2. ef = Replaced1 /\ rg[CX] = SiteTerm
    BY <1>12 DEF ReplaceMade
  <2>3. rg2 = rg /\ ef2 = Append(ef, <<"store", BaseOf(NoReg, rg), "site", rg[CX]>>)
    BY <2>1, StoreRuns
  <2>4. BaseOf(NoReg, rg) = << >>
    BY DEF BaseOf
  <2>5. <<"store", BaseOf(NoReg, rg), "site", rg[CX]>> = b
    BY <2>2, <2>4 DEF b, StoredSite
  <2>6. ef2 = Replaced2
    BY <1>3, <2>2, <2>3, <2>5
  <2> QED  BY <1>2, <1>12, <2>2, <2>3, <2>6 DEF ReplaceMade
<1>13. CASE j = 3
  <2>1. op[1] = "restore" /\ op[2] = CX
    BY <1>1, <1>13 DEF sc
  <2>2. ef = Replaced2
    BY <1>13 DEF ReplaceMade
  <2>3. ef[1] = a
    BY <1>3, <2>2
  <2>4. ef2 = ef /\ \E v \in {ef[1][2]} \cup (IF OthersSave THEN {Junk} ELSE {}) : rg2 = Write(rg, CX, v)
    BY <2>1 DEF Runs
  <2>5. PICK v : rg2 = Write(rg, CX, v) /\ (~OthersSave => v = ef[1][2])
    BY <2>4
  <2>6. ~OthersSave => v = <<"program", CX>>
    <3>1. a[2] = <<"program", CX>>
      BY DEF a, SavedCX
    <3> QED  BY <2>3, <2>5, <3>1
  <2>7. rg2[CX] = v /\ \A r \in GPRs : r # CX => rg2[r] = rg[r]
    BY <1>2, <2>5, Written
  <2>8. AsCalled(p, rg2)
    BY <1>4, <2>7
  <2> QED  BY <1>13, <2>2, <2>4, <2>6, <2>7, <2>8 DEF ReplaceMade
<1> QED  BY <1>10, <1>11, <1>12, <1>13

LEMMA CallCode ==
    ASSUME NEW p \in Points, p.kind = "call"
    PROVE  /\ ILen(p) = Cardinality(Constants(p)) /\ ILen(p) \in Nat
           /\ Constants(p) \in SUBSET GPRs
           /\ \A n \in 1 .. ILen(p) :
                /\ Inserted(p)[n] = Op(ArgRegs[Nth(Constants(p), n)], "constant", << >>)
                /\ ArgRegs[Nth(Constants(p), n)] \in GPRs
<1> DEFINE K == {k \in DOMAIN p.args : p.args[k] = "constant"}
           A == [n \in 1 .. Cardinality(K) |-> ConstantArgument(Nth(K, n))]
<1>1. Inserted(p) = A
  BY DEF Inserted, Arguments
<1>2. p.args \in Seq({"constant", "address"}) /\ Len(p.args) <= 6
  BY ExecutionAssumption DEF IsPoint, ArgRegs
<1>3. K \in SUBSET GPRs /\ K \subseteq 1 .. 6
  <2>1. ASSUME NEW k \in K PROVE k \in 1 .. 6
    BY <1>2
  <2> QED  BY <2>1 DEF GPRs
<1>4. K = Constants(p)
  BY DEF Constants
<1> HIDE DEF K
<1>5. Cardinality(K) \in Nat /\ \A n \in 1 .. Cardinality(K) : Nth(K, n) \in K
  BY <1>3, NthIs, UptoType
<1>6. Len(A) = Cardinality(K)
  BY <1>5
<1>7. ILen(p) = Cardinality(K)
  BY <1>1, <1>6 DEF ILen
<1>8. ASSUME NEW n \in 1 .. Cardinality(K)
      PROVE  A[n] = Op(ArgRegs[Nth(K, n)], "constant", << >>) /\ ArgRegs[Nth(K, n)] \in GPRs
  <2>1. Nth(K, n) \in 1 .. 6
    BY <1>3, <1>5
  <2>2. ArgRegs[Nth(K, n)] \in {7, 6, DX, CX, 8, 9}
    BY <2>1 DEF ArgRegs
  <2>3. ArgRegs[Nth(K, n)] \in GPRs
    BY <2>2, NoRegIsNone DEF GPRs
  <2>4. A[n] = ConstantArgument(Nth(K, n))
    OBVIOUS
  <2> QED  BY <2>3, <2>4 DEF ConstantArgument
<1> QED  BY <1>1, <1>3, <1>4, <1>5, <1>7, <1>8

\* What neither the address of the thread data nor the check writes.
LEMMA QuietCode ==
    ASSUME NEW p \in Points, p.kind \in {"threadinit", "check"}, NEW j \in 0 .. ILen(p) - 1
    PROVE  Inserted(p)[j + 1][1] \in {"op", "cmp", "jl"}
<1>1. CASE p.kind = "threadinit"
  <2>1. Inserted(p) = storeThreadData(Scratch(p), p.threadReg)
    BY <1>1, ScratchIs
  <2>2. Len(storeThreadData(Scratch(p), p.threadReg)) = 7
    BY DEF storeThreadData
  <2>3. j \in 0 .. 6
    BY <2>1, <2>2 DEF ILen
  <2> QED  BY <2>1, <2>3, ThreadDataWritten
<1>2. CASE p.kind = "check"
  <2> DEFINE sr == CheckRegs(p)
             t == ThreadDataUnlessKept(p, sr[2], sr[1])
             b1 == Op(sr[2], "Buffer", <<sr[1]>>)
             b2 == Op(sr[2], "current", <<sr[2]>>)
             b3 == <<"cmp", sr[2]>>
             b4 == <<"jl">>
             f == <<b1, b2, b3, b4>>
             c == Inserted(p)
             Q == {"op", "cmp", "jl"}
  <2>1. c = Cat(t, f)
    BY <1>2 DEF Inserted, BufferCheck, Cat
  <2>2. b1[1] \in Q /\ b2[1] \in Q /\ b3[1] \in Q /\ b4[1] \in Q
    BY DEF Op
  <2>3. IsSeq(t) /\ \A k \in 1 .. Len(t) : t[k][1] \in Q
    <3>1. CASE p.threadReg = NoReg
      <4> DEFINE d == storeThreadData(sr[2], sr[1])
      <4>1. t = d
        BY <3>1 DEF ThreadDataUnlessKept
      <4>2. d = <<d[1], d[2], d[3], d[4], d[5], d[6], d[7]>>
        BY DEF storeThreadData
      <4>3. Len(d) = 7 /\ d \in Seq({d[1], d[2], d[3], d[4], d[5], d[6], d[7]})
        <5> DEFINE e1 == d[1]
                   e2 == d[2]
                   e3 == d[3]
                   e4 == d[4]
                   e5 == d[5]
                   e6 == d[6]
                   e7 == d[7]
        <5>1. d = <<e1, e2, e3, e4, e5, e6, e7>>
          BY <4>2
        <5> HIDE DEF d, e1, e2, e3, e4, e5, e6, e7
        <5>2. Len(<<e1, e2, e3, e4, e5, e6, e7>>) = 7 /\ <<e1, e2, e3, e4, e5, e6, e7>> \in Seq({e1, e2, e3, e4, e5, e6, e7})
          OBVIOUS
        <5>3. Len(d) = 7 /\ d \in Seq({e1, e2, e3, e4, e5, e6, e7})
          BY <5>1, <5>2
        <5> QED  BY <5>3 DEF e1, e2, e3, e4, e5, e6, e7
      <4>4. ASSUME NEW k \in 1 .. 7 PROVE d[k][1] \in Q
        <5>1. PICK x : x = k - 1
          OBVIOUS
        <5>2. x \in 0 .. 6 /\ x + 1 = k
          BY <5>1
        <5>3. d[x + 1][1] = "op"
          BY <5>2, ThreadDataWritten
        <5> QED  BY <5>2, <5>3
      <4> HIDE DEF d
      <4> QED  BY <4>1, <4>3, <4>4 DEF IsSeq
    <3>2. CASE p.threadReg # NoReg
      <4>1. t \in Seq({}) /\ Len(t) = 0
        BY <3>2 DEF ThreadDataUnlessKept
      <4> QED  BY <4>1 DEF IsSeq
    <3> QED  BY <3>1, <3>2
  <2> HIDE DEF b1, b2, b3, b4, t
  <2>4. f \in Seq({b1, b2, b3, b4}) /\ Len(f) = 4 /\ \A k \in 1 .. 4 : f[k][1] \in Q
    BY <2>2
  <2>5. IsSeq(f)
    BY <2>4 DEF IsSeq
  <2> HIDE DEF f, c
  <2>6. IsCat(c, t, f) /\ IsSeq(c)
    BY <2>1, <2>3, <2>5, Concat
  <2>7. \A k \in 1 .. Len(c) : c[k][1] \in Q
    <3> SUFFICES ASSUME NEW k \in 1 .. Len(c) PROVE c[k][1] \in Q
      OBVIOUS
    <3>1. (\E x \in 1 .. Len(t) : c[k] = t[x]) \/ (\E x \in 1 .. Len(f) : c[k] = f[x])
      BY <2>6, CatPlace
    <3> QED  BY <2>3, <2>4, <3>1
  <2>8. j + 1 \in 1 .. Len(c)
    <3>1. ILen(p) \in Nat /\ ILen(p) = Len(c)
      BY PLengths DEF ILen, c
    <3> QED  BY <3>1
  <2> QED  BY <2>7, <2>8 DEF c
<1> QED  BY <1>1, <1>2

LEMMA CallStep ==
    ASSUME NEW p \in Points, p.kind = "call", NEW j \in 0 .. ILen(p) - 1, NEW rg, IsFile(rg), NEW ef,
           CallMade(p, j, rg, ef), NEW op, op = Inserted(p)[j + 1], NEW rg2, NEW ef2, Runs(op, rg, ef, rg2, ef2)
    PROVE  CallMade(p, j + 1, rg2, ef2)
<1> DEFINE N == ILen(p)
           d(n) == ArgRegs[Nth(Constants(p), n)]
           x == j + 1
<1>1. N \in Nat /\ x \in 1 .. N /\ \A n \in 1 .. x : n \in 1 .. N /\ (n = x \/ n \in 1 .. j)
  BY CallCode
<1>2. \A n \in 1 .. N : Inserted(p)[n] = Op(d(n), "constant", << >>) /\ d(n) \in GPRs
  BY CallCode
<1>3. (\A n \in 1 .. j : rg[d(n)] = ConstantTerm) /\ ef = << >>
  BY DEF CallMade, Loaded
<1>4. op = Inserted(p)[x]
  OBVIOUS
<1> HIDE DEF N, d, x
<1>5. op = Op(d(x), "constant", << >>) /\ d(x) \in GPRs
  BY <1>1, <1>2, <1>4
<1>6. ef2 = ef /\ rg2 = Write(rg, d(x), Computed("constant", Read(rg, << >>)))
  BY <1>5, OpRuns
<1>7. Read(rg, << >>) = << >>
  BY ReadIs
<1>8. rg2[d(x)] = ConstantTerm /\ \A r \in GPRs : r # d(x) => rg2[r] = rg[r]
  BY <1>5, <1>6, <1>7, Written, Values DEF ConstantTerm
<1>9. \A n \in 1 .. x : rg2[d(n)] = ConstantTerm
  BY <1>1, <1>2, <1>3, <1>8
<1>10. Loaded(p, x, rg2)
  BY <1>9 DEF Loaded, d
<1>11. CallMade(p, x, rg2, ef2)
  BY <1>3, <1>6, <1>10 DEF CallMade
<1> QED  BY <1>11 DEF x

LEMMA LibStep ==
    ASSUME NEW p \in Points, p.kind = "libcounter", NEW j \in 0 .. 1, NEW rg, IsFile(rg), NEW ef,
           LibMade(p, j, rg, ef), NEW op, op = Inserted(p)[j + 1], NEW rg2, NEW ef2, Runs(op, rg, ef, rg2, ef2)
    PROVE  LibMade(p, j + 1, rg2, ef2)
<1> DEFINE s == CounterRegs(p)[1]
           amp == "&counter"
           non == ""
<1>1. s \in GPRs
  <2>1. PICK sr : sr = CounterRegs(p)
    OBVIOUS
  <2>2. sr[1] \in GPRs \ {AX, SP}
    BY <2>1, CounterRegsAre
  <2> QED  BY <2>1, <2>2
<1>2. Inserted(p)[1] = Op(s, amp, << >>) /\ Inserted(p)[2] = Add(s, non)
  BY DEF Inserted, insertInlinedTripCounter
<1>3. s # NoReg
  BY <1>1, NoRegIsNone
<1> HIDE DEF s, amp, non
<1>7. amp # "load"
  BY DEF amp
<1>4. ef = << >>
  BY DEF LibMade
<1>5. CASE j = 0
  <2>1. op = Op(s, amp, << >>)
    BY <1>2, <1>5
  <2>2. ef2 = ef /\ rg2 = Write(rg, s, Computed(amp, Read(rg, << >>)))
    BY <2>1, OpRuns
  <2>3. Read(rg, << >>) = << >>
    BY ReadIs
  <2>4. rg2[s] = T(amp, << >>)
    BY <1>1, <1>7, <2>2, <2>3, Written, Values
  <2> QED  BY <1>4, <1>5, <2>2, <2>4 DEF LibMade, s, amp
<1>6. CASE j = 1
  <2>1. op = Add(s, non)
    BY <1>2, <1>6
  <2>2. ef2 = Append(ef, <<"add", BaseOf(s, rg), non>>)
    BY <2>1, AddRuns
  <2>3. rg[s] = T(amp, << >>)
    BY <1>6 DEF LibMade, s, amp
  <2>4. BaseOf(s, rg) = T(amp, << >>)
    BY <1>3, <2>3 DEF BaseOf
  <2> DEFINE a == <<"add", T(amp, << >>), non>>
  <2>5. ef2 = Append(<< >>, a)
    BY <1>4, <2>2, <2>4
  <2>6. Append(<< >>, a) = <<a>>
    <3> HIDE DEF a
    <3> QED  BY Appended
  <2>7. Meant(p) = <<a>>
    BY DEF Meant, amp, non
  <2> HIDE DEF a
  <2>8. ef2 = Meant(p)
    BY <2>5, <2>6, <2>7
  <2> QED  BY <1>6, <2>8 DEF LibMade
<1> QED  BY <1>5, <1>6

LEMMA CounterStep ==
    ASSUME NEW p \in Points, p.kind = "counter", NEW rg, NEW ef, ef = << >>, NEW op, op = Inserted(p)[1],
           NEW rg2, NEW ef2, Runs(op, rg, ef, rg2, ef2)
    PROVE  ef2 = Meant(p)
<1>1. op = Add(NoReg, "counter")
  BY DEF Inserted, insertInlinedTripCounter
<1>2. ef2 = Append(ef, <<"add", BaseOf(NoReg, rg), "counter">>)
  <2>1. op[1] = "add" /\ op[2] = NoReg /\ op[3] = "counter"
    BY <1>1 DEF Add
  <2> QED  BY <2>1 DEF Runs, Added
<1>3. BaseOf(NoReg, rg) = << >>
  BY DEF BaseOf
<1> DEFINE a == <<"add", << >>, "counter">>
<1>4. ef2 = Append(<< >>, a)
  BY <1>2, <1>3
<1>5. Meant(p) = <<a>>
  BY DEF Meant
<1> HIDE DEF a
<1>6. Append(<< >>, a) = <<a>>
  BY Appended
<1> QED  BY <1>4, <1>5, <1>6

\* How many instructions there are.
LEMMA FewInstructions ==
    ASSUME NEW p \in Points
    PROVE  /\ p.kind = "counter" => ILen(p) = 1
           /\ p.kind = "libcounter" => ILen(p) = 2
           /\ p.kind = "replace" => ILen(p) = 4 /\ Inserted(p) = StoreSite
<1>1. CASE p.kind = "counter"
  <2>1. Inserted(p) = <<Add(NoReg, "counter")>>
    BY <1>1 DEF Inserted, insertInlinedTripCounter
  <2> QED  BY <1>1, <2>1 DEF ILen
<1>2. CASE p.kind = "libcounter"
  <2>1. Inserted(p) = <<Op(CounterRegs(p)[1], "&counter", << >>), Add(CounterRegs(p)[1], "")>>
    BY <1>2 DEF Inserted, insertInlinedTripCounter
  <2> QED  BY <1>2, <2>1 DEF ILen
<1>3. CASE p.kind = "replace"
  <2>1. Inserted(p) = StoreSite
    BY <1>3 DEF Inserted
  <2> QED  BY <1>3, <2>1, SiteCode DEF ILen
<1> QED  BY <1>1, <1>2, <1>3

LEMMA MadeStep ==
    ASSUME NEW p \in Points, NEW j \in 0 .. ILen(p) - 1, NEW rg, IsFile(rg), NEW ef, Made(p, j, rg, ef),
           NEW op, op = Inserted(p)[j + 1], NEW rg2, NEW ef2, Runs(op, rg, ef, rg2, ef2)
    PROVE  Made(p, j + 1, rg2, ef2)
<1> DEFINE x == j + 1
<1>0. IsPoint(p) /\ UsesOf(p.memop) \subseteq GPRs
  BY ExecutionAssumption DEF IsPoint
<1>1. CASE p.kind \in DataKinds
  <2>1. ASSUME Wanted(p) PROVE DataMade(p, x, rg2, ef2)
    <3>1. DataMade(p, j, rg, ef)
      BY <1>1, <2>1 DEF Made
    <3>2. j \in 0 .. Len(Inserted(p)) - 1
      BY DEF ILen
    <3> QED  BY <1>0, <1>1, <2>1, <3>1, <3>2, DataStep
  <2> HIDE DEF x
  <2>2. p.kind \notin {"counter", "libcounter", "replace", "call", "threadinit", "check"}
    BY <1>1 DEF DataKinds
  <2>3. Made(p, x, rg2, ef2)
    BY <2>1, <2>2 DEF Made
  <2> QED  BY <2>3 DEF x
<1>2. CASE p.kind = "counter"
  <2>1. j = 0 /\ x = 1
    BY <1>2, FewInstructions
  <2>2. ef = << >> /\ op = Inserted(p)[1]
    BY <1>2, <2>1 DEF Made
  <2>3. ef2 = Meant(p)
    BY <1>2, <2>2, CounterStep
  <2> HIDE DEF x
  <2>4. Made(p, x, rg2, ef2)
    BY <1>2, <2>1, <2>3 DEF Made, DataKinds
  <2> QED  BY <2>4 DEF x
<1>3. CASE p.kind = "libcounter"
  <2>1. j \in 0 .. 1
    BY <1>3, FewInstructions
  <2>2. LibMade(p, j, rg, ef)
    BY <1>3 DEF Made
  <2>3. LibMade(p, x, rg2, ef2)
    BY <1>3, <2>1, <2>2, LibStep
  <2> HIDE DEF x
  <2>4. Made(p, x, rg2, ef2)
    BY <1>3, <2>3 DEF Made, DataKinds
  <2> QED  BY <2>4 DEF x
<1>4. CASE p.kind = "replace"
  <2>1. j \in 0 .. 3 /\ op = StoreSite[j + 1]
    BY <1>4, FewInstructions
  <2>2. ReplaceMade(p, j, rg, ef)
    BY <1>4 DEF Made
  <2>3. ReplaceMade(p, x, rg2, ef2)
    BY <1>4, <2>1, <2>2, ReplaceStep
  <2> HIDE DEF x
  <2>4. Made(p, x, rg2, ef2)
    BY <1>4, <2>3 DEF Made, DataKinds
  <2> QED  BY <2>4 DEF x
<1>5. CASE p.kind = "call"
  <2>1. CallMade(p, j, rg, ef)
    BY <1>5 DEF Made
  <2>2. CallMade(p, x, rg2, ef2)
    BY <1>5, <2>1, CallStep
  <2> HIDE DEF x
  <2>4. Made(p, x, rg2, ef2)
    BY <1>5, <2>2 DEF Made, DataKinds
  <2> QED  BY <2>4 DEF x
<1>6. CASE p.kind \in {"threadinit", "check"}
  <2>1. ef = << >>
    BY <1>6 DEF Made
  <2>2. op[1] \in {"op", "cmp", "jl"}
    BY <1>6, QuietCode
  <2>3. ef2 = ef
    BY <2>2 DEF Runs
  <2> HIDE DEF x
  <2>4. Made(p, x, rg2, ef2)
    BY <1>6, <2>1, <2>3 DEF Made, DataKinds
  <2> QED  BY <2>4 DEF x
<1> QED  BY <1>0, <1>1, <1>2, <1>3, <1>4, <1>5, <1>6 DEF IsPoint, Kinds, DataKinds

LEMMA MadeEnds ==
    ASSUME NEW p \in Points, NEW rg, NEW ef, Made(p, ILen(p), rg, ef)
    PROVE  Wrote(p, ef)
<1>1. CASE p.kind \in DataKinds
  <2>1. Wanted(p) => DataMade(p, Len(Inserted(p)), rg, ef)
    BY <1>1 DEF Made, ILen
  <2> QED  BY <1>1, <2>1, DataEnds DEF Wrote
<1>2. CASE p.kind = "counter"
  <2>1. ef = Meant(p)
    <3>1. ILen(p) = 1
      BY <1>2, FewInstructions
    <3> QED  BY <1>2, <3>1 DEF Made
  <2> QED  BY <2>1 DEF Wrote
<1>3. CASE p.kind = "libcounter"
  <2>1. ef = Meant(p)
    <3>1. ILen(p) = 2
      BY <1>3, FewInstructions
    <3> QED  BY <1>3, <3>1 DEF Made, LibMade
  <2> QED  BY <2>1 DEF Wrote
<1>4. CASE p.kind = "replace"
  <2>1. ef = Replaced2
    <3>1. ILen(p) = 4
      BY <1>4, FewInstructions
    <3> QED  BY <1>4, <3>1 DEF Made, ReplaceMade
  <2>2. Meant(p) = Replaced2
    BY <1>4 DEF Meant, Replaced2, SavedCX, StoredSite, SiteTerm
  <2> QED  BY <2>1, <2>2 DEF Wrote
<1>5. CASE p.kind \in {"call", "threadinit", "check"}
  <2>1. ef = << >>
    BY <1>5 DEF Made, CallMade
  <2>2. Meant(p) = << >>
    BY <1>5 DEF Meant
  <2> QED  BY <2>1, <2>2 DEF Wrote
<1>6. IsPoint(p)
  BY ExecutionAssumption
<1> QED  BY <1>1, <1>2, <1>3, <1>4, <1>5, <1>6 DEF IsPoint, Kinds, DataKinds

-----------------------------------------------------------------------------
(* When the saving is done the body may begin.                              *)

\* Nothing is saved before a replaced call while CX is dead.
LEMMA NothingSaved ==
    ASSUME NEW p \in Points, p.kind = "replace", CX \notin p.liveIn
    PROVE  Len(Saves(p)) = 0
<1> DEFINE c == Inserted(p)
           D == UNION {RegistersDefined(c[k]) : k \in 1 .. Len(c)}
           g == Guards(p)
<1>1. Len(c) = 4 /\ c = StoreSite
  BY FewInstructions DEF ILen
<1>2. \A k \in 1 .. 4 : RegistersDefined(c[k]) \subseteq {CX}
  <2>1. c[1] = <<"save", CX>> /\ c[2] = Op(CX, "site", << >>) /\ c[3] = Store(NoReg, "site", CX) /\ c[4] = <<"restore", CX>>
    BY <1>1, SiteCode
  <2> HIDE DEF c
  <2>2. \A k \in 1 .. 4 : k = 1 \/ k = 2 \/ k = 3 \/ k = 4
    OBVIOUS
  <2> QED  BY <2>1, <2>2 DEF RegistersDefined, Op, Store
<1>3. D \subseteq {CX}
  BY <1>1, <1>2
<1>4. Live(p) = p.liveIn
  BY PointFacts DEF Live
<1>5. Regs(p) = Live(p) \cap D
  BY DEF Regs, getProtectedRegisters
<1> HIDE DEF D
<1>6. Regs(p) = {}
  BY <1>3, <1>4, <1>5
<1>7. Method(p) = "none"
  BY MethodOf
<1>8. Needed(p) = FALSE
  BY <1>6, <1>7 DEF Needed, Inline
<1>9. Inner(g) /\ (Len(g) # 0 => Regs(p) # {} \/ Method(p) # "none")
  BY GuardsOf
<1>10. Len(g) = 0 /\ IsSeq(g)
  BY <1>6, <1>7, <1>9 DEF Inner
<1> DEFINE e == Raised(FALSE)
<1>11. e \in Seq({}) /\ Len(e) = 0
  BY DEF Raised
<1>12. Saves(p) = Cat(e, g)
  BY <1>8 DEF Saves
<1> HIDE DEF e, g
<1>13. IsSeq(e)
  BY <1>11 DEF IsSeq
<1>14. IsCat(Cat(e, g), e, g)
  BY <1>10, <1>13, Concat
<1>15. Len(Cat(e, g)) = Len(e) + Len(g)
  BY <1>14 DEF IsCat
<1> QED  BY <1>10, <1>11, <1>12, <1>15

LEMMA SavedSame ==
    ASSUME NEW p \in Points, NEW rg, NEW fl, NEW st, NEW f, PSaving(SLen(p), p, rg, fl, st, f),
           NEW r \in GPRs \ {SP}, r = AX => Method(p) # "light", p.kind # "threadinit"
    PROVE  rg[r] = ProgramReg(p)[r]
<1>1. PICK n : n = Len(Saves(p))
  OBVIOUS
<1>2. Same(Saves(p), n, Before(p), R0(p), F0, rg, fl)
  BY <1>1 DEF PSaving, Saving, SLen
<1>3. r = AX => ~Lahfed(Saves(p), n)
  BY <1>1, SavesOf
<1>4. r \in Before(p)
  BY DEF Before
<1>5. rg[r] = R0(p)[r]
  BY <1>2, <1>3, <1>4 DEF Same
<1> QED  BY <1>5 DEF R0, ProgramReg

LEMMA Ready ==
    ASSUME NEW p \in Points, NEW rg, NEW fl, NEW st, NEW f, PSaving(SLen(p), p, rg, fl, st, f)
    PROVE  Made(p, 0, rg, << >>)
<1>0. IsPoint(p) /\ UsesOf(p.memop) \subseteq GPRs
  BY ExecutionAssumption DEF IsPoint
<1>1. ASSUME NEW r \in GPRs \ {SP}, r = AX => Method(p) # "light", p.kind # "threadinit"
      PROVE  rg[r] = ProgramReg(p)[r]
  BY <1>1, SavedSame
<1>2. CASE p.kind \in DataKinds
  <2>1. p.kind = "fill" /\ Wanted(p) => Untouched(p, rg)
    <3> SUFFICES ASSUME p.kind = "fill", Wanted(p), NEW u \in UsesOf(p.memop) PROVE rg[u] = ProgramReg(p)[u]
      BY DEF Untouched
    <3>1. u \in GPRs \ {SP} /\ (u = AX => Method(p) # "light")
      BY <1>0 DEF Wanted
    <3> QED  BY <1>1, <3>1
  <2>2. p.threadReg # NoReg => rg[p.threadReg] = <<"threaddata", 0>>
    <3> SUFFICES ASSUME p.threadReg # NoReg PROVE rg[p.threadReg] = <<"threaddata", 0>>
      OBVIOUS
    <3>1. p.threadReg \in GPRs /\ p.threadReg # AX /\ p.threadReg # SP /\ p.kind # "threadinit"
      BY <1>2, PointFacts DEF DataKinds
    <3>2. rg[p.threadReg] = ProgramReg(p)[p.threadReg]
      BY <1>1, <3>1
    <3> QED  BY <3>1, <3>2 DEF ProgramReg
  <2>3. Wanted(p) => DataMade(p, 0, rg, << >>)
    BY <1>2, <2>1, <2>2, DataBegins
  <2>4. p.kind \notin {"counter", "libcounter", "replace", "call", "threadinit", "check"}
    BY <1>2 DEF DataKinds
  <2> QED  BY <2>3, <2>4 DEF Made
<1>3. CASE p.kind = "replace"
  <2>1. rg[CX] = <<"program", CX>>
    <3>1. CX \in GPRs \ {SP} /\ CX # AX /\ p.threadReg = NoReg /\ CX # NoReg
      BY <1>3, NoRegIsNone, PointFacts
    <3>2. rg[CX] = ProgramReg(p)[CX]
      BY <1>1, <1>3, <3>1
    <3> QED  BY <3>1, <3>2 DEF ProgramReg
  <2>2. AsCalled(p, rg)
    <3> SUFFICES ASSUME CX \notin p.liveIn, NEW r \in GPRs, r # CX PROVE rg[r] = ProgramReg(p)[r]
      BY DEF AsCalled
    <3>1. CASE r = SP
      <4>1. Len(Saves(p)) = 0
        BY <1>3, NothingSaved
      <4>2. AtDepth(Saves(p), 0, p.sp, rg)
        BY <4>1 DEF PSaving, Saving, Undoable, SLen
      <4>3. SavesWell(Saves(p)) /\ 0 \in 0 .. Len(Saves(p)) /\ p.sp \in Int
        BY <4>1, EnteredIs, PointFacts
      <4>4. Depth(Saves(p), 0) = 0
        <5>1. PICK s, z : s = Saves(p) /\ z = 0
          OBVIOUS
        <5>2. SavesWell(s) /\ z \in 0 .. Len(s)
          BY <4>3, <5>1
        <5>3. Depth(s, z) = 0
          BY <5>1, <5>2, DepthType
        <5> QED  BY <5>1, <5>3
      <4>5. rg[SP] = SPvalue(p.sp)
        BY <4>2, <4>3, <4>4 DEF AtDepth
      <4> QED  BY <3>1, <4>5 DEF ProgramReg
    <3>2. CASE r # SP
      <4>1. Method(p) # "light"
        BY <1>3, MethodOf
      <4> QED  BY <1>1, <1>3, <3>2, <4>1
    <3> QED  BY <3>1, <3>2
  <2>3. ReplaceMade(p, 0, rg, << >>)
    BY <2>1, <2>2 DEF ReplaceMade
  <2> QED  BY <1>3, <2>3 DEF Made, DataKinds
<1>4. CASE p.kind = "libcounter"
  <2>1. LibMade(p, 0, rg, << >>)
    BY DEF LibMade
  <2> QED  BY <1>4, <2>1 DEF Made, DataKinds
<1>5. CASE p.kind = "call"
  <2>1. CallMade(p, 0, rg, << >>)
    BY DEF CallMade, Loaded
  <2> QED  BY <1>5, <2>1 DEF Made, DataKinds
<1>6. CASE p.kind \in {"counter", "threadinit", "check"}
  BY <1>6 DEF Made, DataKinds
<1> QED  BY <1>0, <1>2, <1>3, <1>4, <1>5, <1>6 DEF IsPoint, Kinds, DataKinds

-----------------------------------------------------------------------------
(* What has been written and called, by the place in the point.             *)

ArgTerm(p, k) == T(IF p.args[k] = "constant" THEN "constant" ELSE "&data", << >>)
\* The function is entered as it was declared: CalledAsDeclared of the point p.
Declared(p, ca) ==
    IF p.kind = "replace"
    THEN CX \notin p.liveIn => \A r \in GPRs : (r = CX => ~OthersSave) => ca.reg[r] = ProgramReg(p)[r]
    ELSE /\ ca.reg[SP][2] % 16 = 0
         /\ \A k \in 1 .. Len(p.args) : ca.reg[ArgRegs[k]] = ArgTerm(p, k)
Early(ef, ca) == ef = << >> /\ ca = << >>
Half(i, p, rg, ef, ca) == Made(p, i, rg, ef) /\ ca = << >>
Late(p, ef, ca) == Wrote(p, ef) /\ (ca # << >> => Declared(p, ca))
PointMeaning(k, p, rg, ef, ca) ==
    /\ k <= SLen(p) => Early(ef, ca)
    /\ \A i \in 0 .. BLen(p) - 1 : k = SLen(p) + i + 1 => Half(i, p, rg, ef, ca)
    /\ k > SLen(p) + BLen(p) => Late(p, ef, ca)

LEMMA MadeMeans ==
    ASSUME NEW p \in Points, NEW i \in 0 .. ILen(p), NEW rg, NEW ef, Made(p, i, rg, ef), NEW ca, ca = << >>
    PROVE  PointMeaning(SLen(p) + i + 1, p, rg, ef, ca)
<1> DEFINE n == SLen(p)
           b == BLen(p)
           c == ILen(p)
           k == n + i + 1
<1>1. n \in Nat /\ b \in Nat /\ c \in Nat /\ (b = c \/ b = c + 1) /\ i \in 0 .. c
  BY PLengths
<1>2. Half(i, p, rg, ef, ca)
  BY DEF Half
<1>3. i = c => Late(p, ef, ca)
  BY MadeEnds DEF Late
<1> HIDE DEF n, b, c
<1>4. ~(k <= n) /\ (\A x \in 0 .. b - 1 : k = n + x + 1 => x = i) /\ (k > n + b => i = c)
  BY <1>1
<1> HIDE DEF k
<1>5. PointMeaning(k, p, rg, ef, ca)
  BY <1>2, <1>3, <1>4 DEF PointMeaning, n, b
<1> QED  BY <1>5 DEF k, n

\* A check writes nothing, taken or not.
LEMMA CheckMeans ==
    ASSUME NEW p \in Points, p.kind = "check", NEW i \in 0 .. BLen(p), NEW rg, NEW ef, ef = << >>, NEW ca, ca = << >>
    PROVE  PointMeaning(SLen(p) + i + 1, p, rg, ef, ca)
<1> DEFINE n == SLen(p)
           b == BLen(p)
           k == n + i + 1
<1>1. n \in Nat /\ b \in Nat
  BY PLengths
<1>2. \A x : Made(p, x, rg, ef)
  BY DEF Made, DataKinds
<1>3. \A x : Half(x, p, rg, ef, ca)
  BY <1>2 DEF Half
<1>4. Late(p, ef, ca)
  BY <1>2, MadeEnds DEF Late
<1> HIDE DEF n, b
<1>5. ~(k <= n)
  BY <1>1
<1> HIDE DEF k
<1>6. PointMeaning(k, p, rg, ef, ca)
  BY <1>3, <1>4, <1>5 DEF PointMeaning, n, b
<1> QED  BY <1>6 DEF k, n

LEMMA EarlyMeans ==
    ASSUME NEW p \in Points, NEW i \in 0 .. SLen(p) - 1, NEW rg, NEW ef, NEW ca, Early(ef, ca)
    PROVE  PointMeaning(i + 1, p, rg, ef, ca)
<1> DEFINE n == SLen(p)
           b == BLen(p)
           k == i + 1
<1>1. n \in Nat /\ b \in Nat
  BY PLengths
<1> HIDE DEF n, b
<1>2. i \in 0 .. n - 1
  BY DEF n
<1>3. (\A x \in 0 .. b - 1 : ~(k = n + x + 1)) /\ ~(k > n + b)
  BY <1>1, <1>2
<1> HIDE DEF k
<1>4. PointMeaning(k, p, rg, ef, ca)
  BY <1>3 DEF PointMeaning, n, b
<1> QED  BY <1>4 DEF k

LEMMA LateMeans ==
    ASSUME NEW p \in Points, NEW k \in Int, k > SLen(p) + BLen(p), NEW rg, NEW ef, NEW ca, Late(p, ef, ca)
    PROVE  PointMeaning(k, p, rg, ef, ca)
<1> DEFINE n == SLen(p)
           b == BLen(p)
<1>1. n \in Nat /\ b \in Nat
  BY PLengths
<1> HIDE DEF n, b
<1>2. k > n + b
  BY DEF n, b
<1>3. ~(k <= n) /\ \A x \in 0 .. b - 1 : ~(k = n + x + 1)
  BY <1>1, <1>2
<1> QED  BY <1>3 DEF PointMeaning, n, b

\* When the body begins nothing has been made of it.
LEMMA BodyMeans ==
    ASSUME NEW p \in Points, NEW rg, NEW fl, NEW st, NEW f, PSaving(SLen(p), p, rg, fl, st, f),
           NEW ef, NEW ca, Early(ef, ca)
    PROVE  PointMeaning(SLen(p) + 1, p, rg, ef, ca)
<1>1. PICK e, z : e = << >> /\ z = 0
  OBVIOUS
<1>2. Made(p, z, rg, e)
  BY <1>1, Ready
<1>3. ef = e /\ ca = << >>
  BY <1>1 DEF Early
<1>4. z \in 0 .. ILen(p)
  BY <1>1, PLengths
<1>5. PointMeaning(SLen(p) + z + 1, p, rg, ef, ca)
  BY <1>2, <1>3, <1>4, MadeMeans
<1>6. SLen(p) + z + 1 = SLen(p) + 1
  BY <1>1, PLengths
<1> QED  BY <1>5, <1>6

-----------------------------------------------------------------------------
(* What is in the argument registers, by the place in the wrapper.          *)

\* Constants come from the point, addresses from the last argument to the first.
Passed(j, p, rg) ==
    \A k \in 1 .. Len(p.args) :
        p.args[k] = "constant" \/ j + k > WLen + Len(p.args) + 1 => rg[ArgRegs[k]] = ArgTerm(p, k)
Ahead(j, p, rg, ca) ==
    /\ ca = << >>
    /\ Passed(j, p, rg)
    /\ j > WLen + Len(p.args) + 8 => rg[SP][2] % 16 = 0
WrapperMeaning(j, p, rg, ef, ca) ==
    /\ Wrote(p, ef)
    /\ j <= WLen + Len(p.args) + 10 => Ahead(j, p, rg, ca)
    /\ j > WLen + Len(p.args) + 10 => (ca # << >> => Declared(p, ca))

LEMMA ArgRegsAre ==
    /\ \A k \in 1 .. 6 : ArgRegs[k] \in GPRs \ {AX, SP, R14, R15}
    /\ \A k, l \in 1 .. 6 : ArgRegs[k] = ArgRegs[l] => k = l
  BY DEF ArgRegs, GPRs, AX, SP, R14, R15, DX, CX

LEMMA ArgsOf ==
    ASSUME NEW p \in Points
    PROVE  /\ p.args \in Seq({"constant", "address"}) /\ Len(p.args) \in 0 .. 6 /\ Len(p.args) <= Len(ArgRegs)
           /\ p.kind = "check" => \A k \in 1 .. Len(p.args) : p.args[k] = "address"
<1>1. IsPoint(p) /\ Len(ArgRegs) = 6
  BY ExecutionAssumption DEF ArgRegs
<1>2. p.args \in Seq({"constant", "address"}) /\ Len(p.args) <= 6 /\ (p.kind = "check" => \A k \in DOMAIN p.args : p.args[k] = "address")
  BY <1>1 DEF IsPoint
<1>3. ASSUME NEW a, a \in Seq({"constant", "address"}) PROVE Len(a) \in Nat /\ DOMAIN a = 1 .. Len(a)
  BY <1>3
<1>4. Len(p.args) \in Nat /\ DOMAIN p.args = 1 .. Len(p.args)
  BY <1>2, <1>3
<1>5. PICK n : n = Len(p.args)
  OBVIOUS
<1>6. n \in Nat /\ n <= 6 /\ DOMAIN p.args = 1 .. n
  BY <1>2, <1>4, <1>5
<1>7. n \in 0 .. 6
  BY <1>6
<1>8. p.kind = "check" => \A k \in 1 .. n : p.args[k] = "address"
  BY <1>2, <1>6
<1> QED  BY <1>1, <1>2, <1>5, <1>7, <1>8

LEMMA ConstantsLoaded ==
    ASSUME NEW p \in Points, p.kind = "call", NEW rg, Loaded(p, ILen(p), rg),
           NEW k \in 1 .. Len(p.args), p.args[k] = "constant"
    PROVE  rg[ArgRegs[k]] = ConstantTerm
<1> DEFINE S == Constants(p)
           N == Cardinality(S)
<1>1. S \in SUBSET GPRs /\ N = ILen(p)
  BY CallCode
<1>2. k \in S
  BY ArgsOf DEF Constants
<1> HIDE DEF S
<1>3. PICK n \in 1 .. N : n = Upto(S, k)
  BY <1>1, <1>2, UptoType
<1>4. Nth(S, n) \in S /\ Upto(S, Nth(S, n)) = n
  BY <1>1, <1>3, NthIs
<1>5. Nth(S, n) = k
  BY <1>1, <1>2, <1>3, <1>4, UptoType
<1>6. \A x \in 1 .. N : rg[ArgRegs[Nth(S, x)]] = ConstantTerm
  BY <1>1 DEF Loaded, S
<1> QED  BY <1>3, <1>5, <1>6

LEMMA WrapperStarts ==
    ASSUME NEW p \in Points, p.kind \in {"check", "call"}, NEW rg, IsFile(rg), NEW ef, Made(p, ILen(p), rg, ef),
           NEW a, NEW rg2, rg2 = MovedTo(rg, a), NEW ca, ca = << >>
    PROVE  WrapperMeaning(1, p, rg2, ef, ca)
<1> DEFINE m == Len(p.args)
<1>1. m \in 0 .. 6 /\ WLen \in Nat
  <2>1. Entered(p) \in Int
    BY EnteredIs
  <2> QED  BY <2>1, ArgsOf, WFacts
<1>2. Wrote(p, ef)
  BY MadeEnds
<1>3. \A r \in GPRs : r # SP => rg2[r] = rg[r]
  BY MovedToIs
<1>4. ASSUME NEW k \in 1 .. m, p.args[k] = "constant" PROVE rg2[ArgRegs[k]] = ArgTerm(p, k)
  <2>1. p.kind = "call"
    BY <1>4, ArgsOf
  <2>2. CallMade(p, ILen(p), rg, ef)
    BY <2>1 DEF Made
  <2>3. rg[ArgRegs[k]] = ConstantTerm
    BY <1>4, <2>1, <2>2, ConstantsLoaded DEF CallMade
  <2>4. ArgRegs[k] \in GPRs \ {SP}
    <3>1. k \in 1 .. 6
      <4> HIDE DEF m
      <4> QED  BY <1>1
    <3> QED  BY <3>1, ArgRegsAre
  <2>5. ArgTerm(p, k) = ConstantTerm
    BY <1>4 DEF ArgTerm, ConstantTerm
  <2> QED  BY <1>3, <2>3, <2>4, <2>5
<1>5. ASSUME NEW k \in 1 .. m PROVE ~(1 + k > WLen + m + 1)
  BY <1>1
<1>6. ~(1 > WLen + m + 8) /\ ~(1 > WLen + m + 10)
  BY <1>1
<1> DEFINE j == 1
<1>7. /\ ~(j > WLen + m + 8) /\ ~(j > WLen + m + 10)
      /\ \A k \in 1 .. m : p.args[k] = "constant" \/ j + k > WLen + m + 1 => rg2[ArgRegs[k]] = ArgTerm(p, k)
  BY <1>4, <1>5, <1>6
<1> HIDE DEF j
<1>8. Passed(j, p, rg2)
  BY <1>7 DEF Passed
<1>9. WrapperMeaning(j, p, rg2, ef, ca)
  BY <1>2, <1>7, <1>8 DEF WrapperMeaning, Ahead
<1> QED  BY <1>9 DEF j

\* A replaced call: the function sees what the other one would have seen.
LEMMA ReplacedMeans ==
    ASSUME NEW p \in Points, p.kind = "replace", NEW rg, NEW ef, Made(p, ILen(p), rg, ef), NEW fl,
           NEW ca, ca = [reg |-> rg, flags |-> fl]
    PROVE  Late(p, ef, ca)
<1>1. Wrote(p, ef)
  BY MadeEnds
<1>2. ILen(p) = 4
  BY FewInstructions
<1>3. ReplaceMade(p, 4, rg, ef)
  BY <1>2 DEF Made
<1>4. AsCalled(p, rg) /\ (~OthersSave => rg[CX] = <<"program", CX>>)
  BY <1>3 DEF ReplaceMade
<1>5. ProgramReg(p)[CX] = <<"program", CX>>
  <2>1. CX \in GPRs /\ CX # SP /\ p.threadReg = NoReg /\ CX # NoReg
    BY NoRegIsNone, PointFacts
  <2> QED  BY <2>1 DEF ProgramReg
<1>6. ca.reg = rg
  OBVIOUS
<1>7. CX \notin p.liveIn => \A r \in GPRs : (r = CX => ~OthersSave) => rg[r] = ProgramReg(p)[r]
  BY <1>4, <1>5 DEF AsCalled
<1>8. Declared(p, ca)
  BY <1>6, <1>7 DEF Declared
<1> QED  BY <1>1, <1>8 DEF Late

-----------------------------------------------------------------------------
(* A step of the point, and what it means.                                  *)

LEMMA PointMeans ==
    ASSUME Next, ~Done, pc[1] = "point", NEW p \in Points, text.point = PointCode(p), AtPoint(pc[2], p, reg, flags, stack, fp),
           PointMeaning(pc[2], p, reg, effects, called)
    PROVE  \/ pc'[1] = "point" /\ PointMeaning(pc'[2], p, reg', effects', called')
           \/ pc' = <<"wrapper", 1>> /\ WrapperMeaning(1, p, reg', effects', called')
<1> DEFINE c == PointCode(p)
           k == pc[2]
           n == SLen(p)
           b == BLen(p)
           i == ILen(p)
<1>1. /\ Len(c) = n + b + n
      /\ \A x \in 1 .. n : c[x] = Saves(p)[x]
      /\ \A x \in 1 .. i : c[n + x] = Inserted(p)[x]
      /\ p.kind = "replace" => c[n + i + 1] = <<"external">>
      /\ p.kind \in {"check", "call"} => c[n + i + 1] = <<"call">>
      /\ \A x \in 1 .. n : c[n + b + n + 1 - x] = Undo(Saves(p)[x])
  <2>1. LaidIn(c, p, n, i, b)
    BY PCode
  <2> HIDE DEF c, n, i, b
  <2> QED  BY <2>1 DEF LaidIn
<1>2. current = c[k] /\ ~(k > Len(c)) /\ k = pc[2]
  <2>1. text["point"] = c
    OBVIOUS
  <2> QED  BY <2>1 DEF Done, current
<1>3. n \in Nat /\ b \in Nat /\ i \in Nat /\ b = (IF Calls(p) THEN i + 1 ELSE i)
  BY PLengths
<1>4. \A x \in 1 .. n : Saves(p)[x] \in SaveOps
  BY PLengths
<1>5. Calls(p) <=> p.kind \in {"check", "call", "replace"}
  BY PLengths
<1>6. \/ \E j \in 0 .. n - 1 : k = j + 1 /\ PSaving(j, p, reg, flags, stack, fp)
      \/ \E j \in 0 .. i - 1 : k = n + j + 1 /\ PBody(j, p, reg, flags, stack, fp)
      \/ Calls(p) /\ k = n + i + 1 /\ PBody(i, p, reg, flags, stack, fp)
      \/ \E j \in 1 .. n : k = n + b + n + 1 - j /\ PUnwinding(j, p, reg, flags, stack, fp)
      \/ k = n + b + n + 1 /\ PUnwinding(0, p, reg, flags, stack, fp)
  <2>1. PlacedAt(k, p, reg, flags, stack, fp)
    BY PPlace
  <2> QED  BY <2>1 DEF PlacedAt
<1> DEFINE At(x) == PointMeaning(x, p, reg', effects', called')
<1>7. /\ k <= n => Early(effects, called)
      /\ \A x \in 0 .. b - 1 : k = n + x + 1 => Half(x, p, reg, effects, called)
      /\ k > n + b => Late(p, effects, called)
  BY DEF PointMeaning
<1>8. Forward => pc'[1] = "point" /\ pc'[2] = k + 1
  BY DEF Forward
<1> HIDE DEF c, k, n, b, i, At
<1>9. ASSUME NEW j \in 0 .. n - 1, k = j + 1, PSaving(j, p, reg, flags, stack, fp)
      PROVE  pc'[1] = "point" /\ At(pc'[2])
  <2> DEFINE op == Saves(p)[j + 1]
  <2>1. j + 1 \in 1 .. n
    BY <1>3
  <2>2. op = current /\ op \in SaveOps
    BY <1>1, <1>2, <1>4, <1>9, <2>1
  <2> HIDE DEF op
  <2>3. op[1] \in {"push", "pushf", "lahf", "addsp"}
    BY <2>2, SaveOp
  <2>4. SavedBy(op, reg, flags, stack, reg', flags', stack') /\ fp' = fp /\ Forward
    BY <2>2, <2>3, SaveOpStep
  <2>5. PSaving(j + 1, p, reg', flags', stack', fp')
    BY <1>9, <2>4, PSaves1 DEF op, n
  <2>6. effects' = effects /\ called' = called
    BY <2>2, <2>3, QuietStep
  <2>7. k <= n
    BY <1>3, <1>9
  <2>8. Early(effects', called')
    BY <1>7, <2>6, <2>7
  <2>9. CASE j + 1 = n
    <3>1. PSaving(n, p, reg', flags', stack', fp')
      BY <2>5, <2>9
    <3>2. At(n + 1)
      BY <2>8, <3>1, BodyMeans DEF At, n
    <3> QED  BY <1>8, <1>9, <2>4, <2>9, <3>2
  <2>10. CASE j + 1 # n
    <3> DEFINE x == j + 1
    <3>1. x \in 0 .. n - 1
      BY <1>3, <2>10
    <3> HIDE DEF x
    <3>2. At(x + 1)
      BY <2>8, <3>1, EarlyMeans DEF At, n
    <3> QED  BY <1>8, <1>9, <2>4, <3>2 DEF x
  <2> QED  BY <2>9, <2>10
<1>10. ASSUME NEW j \in 0 .. i - 1, k = n + j + 1, PBody(j, p, reg, flags, stack, fp)
       PROVE  pc'[1] = "point" /\ At(pc'[2])
  <2> DEFINE op == Inserted(p)[j + 1]
  <2>1. j + 1 \in 1 .. i /\ n + (j + 1) = n + j + 1 /\ j \in 0 .. b - 1
    BY <1>3
  <2>2. op = current /\ op = Inserted(p)[j + 1]
    <3>1. c[n + (j + 1)] = Inserted(p)[j + 1]
      BY <1>1, <2>1
    <3> QED  BY <1>2, <1>10, <2>1, <3>1
  <2>3. Half(j, p, reg, effects, called)
    BY <1>7, <1>10, <2>1
  <2>4. Plain(p, op)
    <3>1. AllPlain(p, Inserted(p))
      BY InsertedPlain
    <3> QED  BY <2>1, <3>1 DEF AllPlain, i, ILen
  <2> HIDE DEF op
  <2>5. \/ Forward
        \/ p.kind = "check" /\ pc' = <<pc[1], pc[2] + 2>>
    BY <1>10, <2>2, BodyEffect DEF i
  <2>6. Runs(op, reg, effects, reg', effects') /\ called' = called
    <3>1. op[1] \in {"op", "store", "add", "cmp", "jl", "save", "restore"}
      BY <2>4 DEF Plain
    <3> QED  BY <2>2, <3>1, BodyRuns
  <2>7. IsFile(reg)
    BY <1>10 DEF PBody, InBody, Unwinding, Undoable, AtDepth
  <2> DEFINE x == j + 1
  <2>8. Made(p, x, reg', effects') /\ called' = << >>
    <3>1. Made(p, j, reg, effects) /\ called = << >>
      BY <2>3 DEF Half
    <3> QED  BY <2>2, <2>6, <2>7, <3>1, MadeStep DEF i
  <2>9. x \in 0 .. i /\ n + x + 1 = k + 1 /\ n + (j + 2) + 1 = k + 2 /\ (Calls(p) => j + 2 \in 0 .. b)
    BY <1>3, <1>10
  <2> HIDE DEF x
  <2>10. CASE Forward
    <3>1. At(n + x + 1)
      BY <2>8, <2>9, MadeMeans DEF At, n, i
    <3> QED  BY <1>8, <2>9, <2>10, <3>1
  <2>11. CASE p.kind = "check" /\ pc' = <<pc[1], pc[2] + 2>>
    <3>1. effects' = << >>
      BY <2>8, <2>11 DEF Made
    <3> DEFINE y == j + 2
    <3>2. y \in 0 .. b
      BY <1>5, <2>9, <2>11
    <3> HIDE DEF y
    <3>3. At(n + y + 1)
      BY <2>8, <2>11, <3>1, <3>2, CheckMeans DEF At, n, b
    <3>4. pc'[1] = "point" /\ pc'[2] = k + 2
      BY <1>2, <2>11
    <3> QED  BY <2>9, <3>3, <3>4 DEF y
  <2> QED  BY <2>5, <2>10, <2>11
<1>11. ASSUME Calls(p), k = n + i + 1, PBody(i, p, reg, flags, stack, fp)
       PROVE  \/ pc'[1] = "point" /\ At(pc'[2])
              \/ pc' = <<"wrapper", 1>> /\ WrapperMeaning(1, p, reg', effects', called')
  <2>1. Made(p, i, reg, effects) /\ called = << >>
    <3>1. i \in 0 .. b - 1
      BY <1>3, <1>11
    <3>2. Half(i, p, reg, effects, called)
      BY <1>7, <1>11, <3>1
    <3> QED  BY <3>2 DEF Half
  <2>2. CASE p.kind = "replace"
    <3>1. PICK op : op = current /\ op = <<"external">>
      BY <1>1, <1>2, <1>11, <2>2
    <3>2. effects' = effects /\ called' = [reg |-> reg, flags |-> flags] /\ Forward
      BY <3>1, QuietStep
    <3>3. Late(p, effects', called')
      BY <2>1, <2>2, <3>2, ReplacedMeans DEF i
    <3>4. k + 1 \in Int /\ k + 1 > n + b
      BY <1>3, <1>11
    <3> DEFINE x == k + 1
    <3>5. x \in Int /\ x > n + b
      BY <3>4
    <3> HIDE DEF x
    <3>6. At(x)
      BY <3>3, <3>5, LateMeans DEF At, n, b
    <3> QED  BY <1>8, <3>2, <3>6 DEF x
  <2>3. CASE p.kind \in {"check", "call"}
    <3>1. PICK op : op = current /\ op[1] = "call"
      BY <1>1, <1>2, <1>11, <2>3
    <3>2. effects' = effects /\ called' = called
      BY <3>1, QuietStep
    <3>3. reg' = MovedTo(reg, reg[SP][2] - 8) /\ pc' = <<"wrapper", 1>>
      BY <3>1, OtherSteps
    <3>4. IsFile(reg)
      BY <1>11 DEF PBody, InBody, Unwinding, Undoable, AtDepth
    <3>5. PICK a : reg' = MovedTo(reg, a)
      BY <3>3
    <3>6. Made(p, ILen(p), reg, effects') /\ called' = << >>
      BY <2>1, <3>2 DEF i
    <3>7. WrapperMeaning(1, p, reg', effects', called')
      BY <2>3, <3>4, <3>5, <3>6, WrapperStarts
    <3> QED  BY <3>3, <3>7
  <2> QED  BY <1>5, <1>11, <2>2, <2>3
<1>12. ASSUME NEW j \in 1 .. n, k = n + b + n + 1 - j, PUnwinding(j, p, reg, flags, stack, fp)
       PROVE  pc'[1] = "point" /\ At(pc'[2])
  <2> DEFINE op == Saves(p)[j]
  <2>1. op \in SaveOps /\ Undo(op) = current
    BY <1>1, <1>2, <1>4, <1>12
  <2> HIDE DEF op
  <2>2. Forward
    BY <2>1, UndoStep
  <2>3. PICK u : u = current /\ u[1] \in {"pop", "popf", "sahf", "addsp"}
    BY <2>1, SaveOp DEF Undo, Pop, AddSP
  <2>4. effects' = effects /\ called' = called
    BY <2>3, QuietStep
  <2> DEFINE x == k + 1
  <2>5. x \in Int /\ x > n + b /\ k > n + b
    BY <1>3, <1>12
  <2>6. Late(p, effects', called')
    BY <1>7, <2>4, <2>5
  <2> HIDE DEF x
  <2>7. At(x)
    BY <2>5, <2>6, LateMeans DEF At, n, b
  <2> QED  BY <1>8, <2>2, <2>7 DEF x
<1>13. ~(k = n + b + n + 1)
  BY <1>1, <1>2, <1>3
<1> QED  BY <1>6, <1>9, <1>10, <1>11, <1>12, <1>13 DEF At

-----------------------------------------------------------------------------
(* A step of the wrapper, and what it means.                                *)

\* No argument register is written.
Spared(rg, rg2) == \A k \in 1 .. 6 : rg2[ArgRegs[k]] = rg[ArgRegs[k]]

LEMMA SavedSpares ==
    ASSUME NEW op \in SaveOps, NEW rg, IsFile(rg), NEW fl, NEW st, NEW rg2, NEW fl2, NEW st2,
           SavedBy(op, rg, fl, st, rg2, fl2, st2)
    PROVE  Spared(rg, rg2)
<1>1. \A k \in 1 .. 6 : ArgRegs[k] \in GPRs /\ ArgRegs[k] # AX /\ ArgRegs[k] # SP
  BY ArgRegsAre
<1>2. CASE op[1] \in {"push", "pushf", "addsp"}
  <2>1. PICK a : rg2 = MovedTo(rg, a)
    BY <1>2 DEF SavedBy
  <2>2. \A r \in GPRs : r # SP => rg2[r] = rg[r]
    BY <2>1, MovedToIs
  <2> QED  BY <1>1, <2>2 DEF Spared
<1>3. CASE op[1] = "lahf"
  <2>1. PICK v : rg2 = Write(rg, AX, v)
    BY <1>3 DEF SavedBy
  <2>2. \A r \in GPRs : r # AX => rg2[r] = rg[r]
    BY <2>1, Written
  <2> QED  BY <1>1, <2>2 DEF Spared
<1> QED  BY <1>2, <1>3, SaveOp

LEMMA MiddleSpares ==
    ASSUME NEW q \in 0 .. 8, NEW op, op = Middle(q), NEW rg, IsFile(rg), NEW st, NEW f, NEW rg2, NEW st2, NEW f2,
           MiddleBy(op, rg, st, f, rg2, st2, f2)
    PROVE  Spared(rg, rg2)
<1>1. \A k \in 1 .. 6 : ArgRegs[k] \in GPRs /\ ArgRegs[k] # SP /\ ArgRegs[k] # R14 /\ ArgRegs[k] # R15
  BY ArgRegsAre
<1>2. \/ op[1] = "mov" /\ op[3] = R14
      \/ op[1] \in {"addsp", "andsp", "push"}
      \/ op[1] = "op" /\ op[2] = R15
      \/ op[1] = "pop" /\ op[2] = R15
      \/ op[1] = "fxsave"
  <2>1. q \in {0, 1, 2, 3, 4, 5, 6, 7, 8}
    OBVIOUS
  <2> HIDE DEF Middle
  <2> QED  BY <2>1, MiddleIs
<1>3. CASE op[1] = "mov" /\ op[3] = R14
  <2>1. PICK v : rg2 = Write(rg, R14, v)
    BY <1>3 DEF MiddleBy
  <2>2. \A r \in GPRs : r # R14 => rg2[r] = rg[r]
    BY <2>1, Written
  <2> QED  BY <1>1, <2>2 DEF Spared
<1>4. CASE op[1] \in {"addsp", "andsp", "push"}
  <2>1. PICK a : rg2 = MovedTo(rg, a)
    BY <1>4 DEF MiddleBy
  <2>2. \A r \in GPRs : r # SP => rg2[r] = rg[r]
    BY <2>1, MovedToIs
  <2> QED  BY <1>1, <2>2 DEF Spared
<1>5. CASE op[1] = "op" /\ op[2] = R15
  <2>1. PICK v : rg2 = Write(rg, R15, v)
    BY <1>5 DEF MiddleBy
  <2>2. \A r \in GPRs : r # R15 => rg2[r] = rg[r]
    BY <2>1, Written
  <2> QED  BY <1>1, <2>2 DEF Spared
<1>6. CASE op[1] = "pop" /\ op[2] = R15
  <2>1. PICK a, v : rg2 = Write(MovedTo(rg, a), R15, v)
    BY <1>6 DEF MiddleBy
  <2>2. IsFile(MovedTo(rg, a)) /\ \A r \in GPRs : r # SP => MovedTo(rg, a)[r] = rg[r]
    BY MovedToIs
  <2> DEFINE mid == MovedTo(rg, a)
  <2>3. rg2 = Write(mid, R15, v) /\ IsFile(mid) /\ \A r \in GPRs : r # SP => mid[r] = rg[r]
    BY <2>1, <2>2
  <2> HIDE DEF mid
  <2>4. \A r \in GPRs : r # R15 => rg2[r] = mid[r]
    BY <2>3, Written
  <2> QED  BY <1>1, <2>3, <2>4 DEF Spared
<1>7. CASE op[1] = "fxsave"
  BY <1>7 DEF MiddleBy, Spared
<1> QED  BY <1>2, <1>3, <1>4, <1>5, <1>6, <1>7

\* Outside of the passing.
LEMMA PassedOn ==
    ASSUME NEW p \in Points, NEW j \in Int, j <= WLen \/ j >= WLen + Len(p.args) + 1, NEW rg, NEW rg2, Spared(rg, rg2),
           Passed(j, p, rg)
    PROVE  Passed(j + 1, p, rg2)
<1> DEFINE m == Len(p.args)
           x == j + 1
<1>1. m \in 0 .. 6 /\ WLen \in Nat
  <2>1. Entered(p) \in Int
    BY EnteredIs
  <2> QED  BY <2>1, ArgsOf, WFacts
<1>2. \A k \in 1 .. m : p.args[k] = "constant" \/ j + k > WLen + m + 1 => rg[ArgRegs[k]] = ArgTerm(p, k)
  BY DEF Passed
<1>3. j <= WLen \/ j >= WLen + m + 1
  OBVIOUS
<1> HIDE DEF m
<1>4. \A k \in 1 .. m : rg2[ArgRegs[k]] = rg[ArgRegs[k]]
  <2>1. \A k \in 1 .. m : k \in 1 .. 6
    BY <1>1
  <2> QED  BY <2>1 DEF Spared
<1>5. \A k \in 1 .. m : x + k > WLen + m + 1 => j + k > WLen + m + 1
  BY <1>1, <1>3
<1> HIDE DEF x
<1>6. \A k \in 1 .. m : p.args[k] = "constant" \/ x + k > WLen + m + 1 => rg2[ArgRegs[k]] = ArgTerm(p, k)
  BY <1>2, <1>4, <1>5
<1>7. Passed(x, p, rg2)
  BY <1>6 DEF Passed, m
<1> QED  BY <1>7 DEF x

LEMMA PassStep ==
    ASSUME Next, ~Done, IsFile(reg), NEW p \in Points, NEW x \in 0 .. Len(p.args) - 1, NEW op, op = current,
           op = PassArguments(p.args)[x + 1], Passed(WLen + x + 1, p, reg)
    PROVE  Passed(WLen + x + 1 + 1, p, reg')
<1> DEFINE m == Len(p.args)
           h == m - x
           j == WLen + x + 1
           y == j + 1
           d == ArgRegs[h]
<1>1. m \in 0 .. 6 /\ WLen \in Nat /\ x \in 0 .. m - 1
  <2>1. Entered(p) \in Int
    BY EnteredIs
  <2> QED  BY <2>1, ArgsOf, WFacts
<1>2. \A k \in 1 .. m : p.args[k] = "constant" \/ j + k > WLen + m + 1 => reg[ArgRegs[k]] = ArgTerm(p, k)
  BY DEF Passed
<1> HIDE DEF m
<1>3. h \in 1 .. m /\ h \in 1 .. 6 /\ m - (x + 1) + 1 = h /\ x + 1 \in 1 .. m
  BY <1>1
<1>4. \A k \in 1 .. m : k \in 1 .. 6 /\ (y + k > WLen + m + 1 => k = h \/ j + k > WLen + m + 1)
  BY <1>1
<1>5. op = (IF p.args[h] = "address" THEN Op(d, "&data", << >>) ELSE Mov(d, d))
  <2>1. x + 1 \in 1 .. Len(p.args) /\ p.args \in Seq({"constant", "address"})
    BY <1>3, ArgsOf DEF m
  <2>2. PICK a, z : a = p.args /\ z = x + 1
    OBVIOUS
  <2>3. PassArguments(a)[z] = (IF a[Len(a) - z + 1] = "address" THEN Op(ArgRegs[Len(a) - z + 1], "&data", << >>)
                               ELSE Mov(ArgRegs[Len(a) - z + 1], ArgRegs[Len(a) - z + 1]))
    BY <2>1, <2>2, PassIs
  <2>4. Len(a) - z + 1 = h
    BY <1>3, <2>2 DEF m
  <2> QED  BY <2>2, <2>3, <2>4
<1>6. p.args[h] \in {"constant", "address"}
  BY <1>3, ArgsOf DEF m
<1> HIDE DEF h, j, y
<1>7. d \in GPRs /\ \A k \in 1 .. 6 : ArgRegs[k] \in GPRs /\ (ArgRegs[k] = d => k = h)
  BY <1>3, ArgRegsAre
<1>8. reg'[d] = ArgTerm(p, h) /\ \A r \in GPRs : r # d => reg'[r] = reg[r]
  <2> HIDE DEF d
  <2>1. CASE p.args[h] = "address"
    <3>1. op = Op(d, "&data", << >>) /\ op[1] = "op" /\ op[2] = d /\ op[3] = "&data" /\ op[4] = << >>
      BY <1>5, <2>1 DEF Op
    <3>2. reg' = Write(reg, d, Value(op, reg))
      BY <3>1, PlainStep
    <3>3. Value(op, reg) = T("&data", << >>)
      <4>1. Read(reg, << >>) = << >>
        BY ReadIs
      <4> DEFINE non == "&data"
      <4>2. non # "load" /\ Value(op, reg) = Computed(non, << >>)
        BY <3>1, <4>1 DEF Value
      <4> HIDE DEF non
      <4>3. Computed(non, << >>) = T(non, << >>)
        BY <4>2, Values
      <4> QED  BY <4>2, <4>3 DEF non
    <3>4. ArgTerm(p, h) = T("&data", << >>)
      BY <2>1 DEF ArgTerm
    <3> QED  BY <1>7, <3>2, <3>3, <3>4, Written
  <2>2. CASE p.args[h] # "address"
    <3>1. op[1] = "mov" /\ op[2] = d /\ op[3] = d
      BY <1>5, <2>2 DEF Mov
    <3>2. reg' = Write(reg, d, reg[d])
      BY <3>1, OtherSteps
    <3>3. reg[d] = ArgTerm(p, h)
      BY <1>2, <1>3, <1>6, <2>2 DEF d
    <3> QED  BY <1>7, <3>2, <3>3, Written
  <2> QED  BY <2>1, <2>2
<1>9. \A k \in 1 .. m : p.args[k] = "constant" \/ y + k > WLen + m + 1 => reg'[ArgRegs[k]] = ArgTerm(p, k)
  <2> SUFFICES ASSUME NEW k \in 1 .. m, p.args[k] = "constant" \/ y + k > WLen + m + 1
               PROVE  reg'[ArgRegs[k]] = ArgTerm(p, k)
    OBVIOUS
  <2>1. CASE k = h
    BY <1>8, <2>1 DEF d
  <2>2. CASE k # h
    <3>1. reg[ArgRegs[k]] = ArgTerm(p, k)
      BY <1>2, <1>4, <2>2
    <3>2. ArgRegs[k] \in GPRs /\ ArgRegs[k] # d
      BY <1>4, <1>7, <2>2
    <3> QED  BY <1>8, <3>1, <3>2
  <2> QED  BY <2>1, <2>2
<1>10. Passed(y, p, reg')
  BY <1>9 DEF Passed, m
<1> QED  BY <1>10 DEF y, j

LEMMA FxGuard ==
    ASSUME Next, ~Done, NEW op, op = current, op[1] = "fxsave"
    PROVE  reg[SP][2] % 16 = 0 /\ reg' = reg
<1>1. FxSaveOrRestore
  BY DEF Next, Is, BranchJL, TransferFlags, Compute, WriteData, SaveOrRestore, Compare, CallWrapper,
         ReturnFromWrapper, PushOrPop, ExternalCall
<1> QED  BY <1>1 DEF FxSaveOrRestore, sp

LEMMA WrapperSizes ==
    ASSUME NEW p \in Points
    PROVE  WLen \in Nat /\ Len(p.args) \in 0 .. 6 /\ WLen = Len(WSaves)
<1>1. Entered(p) \in Int
  BY EnteredIs
<1> QED  BY <1>1, ArgsOf, WFacts

\* An instruction that spares the argument registers, before the call.
LEMMA AheadOn ==
    ASSUME NEW p \in Points, NEW j \in Int, j <= WLen \/ j >= WLen + Len(p.args) + 1, j <= WLen + Len(p.args) + 9,
           NEW rg, NEW rg2, Spared(rg, rg2), j > WLen + Len(p.args) + 7 => rg2[SP][2] % 16 = 0,
           NEW ef, NEW ca, WrapperMeaning(j, p, rg, ef, ca)
    PROVE  WrapperMeaning(j + 1, p, rg2, ef, ca)
<1> DEFINE m == Len(p.args)
           x == j + 1
<1>1. WLen \in Nat /\ m \in 0 .. 6
  BY WrapperSizes
<1>2. Wrote(p, ef) /\ (j <= WLen + m + 10 => Ahead(j, p, rg, ca))
  BY DEF WrapperMeaning
<1>3. j <= WLen + m + 9 /\ (j > WLen + m + 7 => rg2[SP][2] % 16 = 0)
  OBVIOUS
<1> HIDE DEF m
<1>4. j <= WLen + m + 10 /\ ~(x > WLen + m + 10) /\ (x > WLen + m + 8 => j > WLen + m + 7)
  BY <1>1, <1>3
<1>5. Passed(j, p, rg) /\ ca = << >>
  BY <1>2, <1>4 DEF Ahead
<1>6. Passed(x, p, rg2)
  BY <1>5, PassedOn
<1> HIDE DEF x
<1>7. Ahead(x, p, rg2, ca)
  BY <1>3, <1>4, <1>5, <1>6 DEF Ahead, m
<1>8. WrapperMeaning(x, p, rg2, ef, ca)
  BY <1>2, <1>4, <1>7 DEF WrapperMeaning, m
<1> QED  BY <1>8 DEF x

LEMMA MiddleMeans ==
    ASSUME Next, ~Done, NEW p \in Points, p.kind # "replace", NEW E \in Int, NEW R, NEW F, NEW M, NEW q \in 0 .. 14,
           WAligned(q, E, R, F, M, reg, stack, fp), NEW op, op = current, op = Middle(q),
           NEW j, j = WLen + Len(p.args) + q + 1, WrapperMeaning(j, p, reg, effects, called)
    PROVE  WrapperMeaning(j + 1, p, reg', effects', called')
<1> DEFINE m == Len(p.args)
           x == j + 1
<1>1. WLen \in Nat /\ m \in 0 .. 6 /\ j = WLen + m + q + 1
  BY WrapperSizes
<1>2. /\ Wrote(p, effects)
      /\ j <= WLen + m + 10 => Ahead(j, p, reg, called)
      /\ j > WLen + m + 10 => (called # << >> => Declared(p, called))
  BY DEF WrapperMeaning
<1>3. IsFile(reg) /\ Aligned(q, E - WDepth, Base16(E - WDepth), reg, stack, fp)
  BY DEF WAligned, Aligned
<1>4. MiddleBy(op, reg, stack, fp, reg', stack', fp')
  BY <1>3, MiddleEffect
<1>5. effects' = effects /\ (q # 9 => called' = called) /\ (q = 9 => called' = [reg |-> reg, flags |-> flags])
  <2>1. op[1] \notin {"store", "add", "save"} /\ (q # 9 => op[1] # "external") /\ (q = 9 => op[1] = "external")
    <3>1. q \in {0, 1, 2, 3, 4, 5, 6, 7, 8, 9, 10, 11, 12, 13, 14}
      OBVIOUS
    <3> HIDE DEF Middle
    <3> QED  BY <3>1, MiddleIs
  <2> QED  BY <2>1, QuietStep
<1> HIDE DEF m
<1>6. CASE q \in 0 .. 8
  <2>1. j \in Int /\ j >= WLen + m + 1 /\ j <= WLen + m + 9 /\ (j > WLen + m + 7 => q = 7 \/ q = 8) /\ (q = 8 => j > WLen + m + 8)
        /\ j <= WLen + m + 10
    BY <1>1, <1>6
  <2>2. Spared(reg, reg')
    BY <1>3, <1>4, <1>6, MiddleSpares
  <2>3. ASSUME q = 7 PROVE reg'[SP][2] % 16 = 0
    <3>1. op[1] = "fxsave"
      BY <2>3, MiddleIs
    <3> QED  BY <3>1, FxGuard
  <2>4. ASSUME q = 8 PROVE reg'[SP][2] % 16 = 0
    <3> DEFINE a == Base16(E - WDepth) - StackAlign
    <3>1. reg[SP] = SPvalue(a)
      BY <1>3, <2>4 DEF Aligned
    <3>2. a \in Int /\ StackAlign \in Int /\ StackAlign % 16 = 0
      <4>1. E - WDepth \in Int
        BY WFacts
      <4>2. Base16(E - WDepth) \in Int /\ StackAlign \in Int
        BY <4>1, BaseBelow
      <4> QED  BY <4>2, ExecutionAssumption
    <3> HIDE DEF a
    <3>3. reg[SP][2] = a
      BY <3>1 DEF SPvalue
    <3>4. a % 16 = 0
      BY <1>2, <2>1, <2>4, <3>3 DEF Ahead, m
    <3>5. op[1] = "addsp" /\ op[2] = -StackAlign
      BY <2>4, MiddleIs
    <3>6. reg' = MovedTo(reg, a + op[2])
      BY <1>4, <3>3, <3>5 DEF MiddleBy
    <3> DEFINE b == a + op[2]
    <3>7. b % 16 = 0
      <4>1. b = a - StackAlign
        BY <3>2, <3>5
      <4>2. \A u, v \in Int : u % 16 = 0 /\ v % 16 = 0 => (u - v) % 16 = 0
        OBVIOUS
      <4> QED  BY <3>2, <3>4, <4>1, <4>2
    <3>8. reg' = MovedTo(reg, b)
      BY <3>6
    <3> HIDE DEF b
    <3>9. reg'[SP] = SPvalue(b)
      BY <1>3, <3>8, MovedToIs
    <3> QED  BY <3>7, <3>9 DEF SPvalue
  <2>5. j > WLen + m + 7 => reg'[SP][2] % 16 = 0
    BY <2>1, <2>3, <2>4
  <2>6. WrapperMeaning(x, p, reg', effects, called)
    BY <2>1, <2>2, <2>5, AheadOn DEF m
  <2>7. called' = called
    BY <1>5, <1>6
  <2> QED  BY <1>5, <2>6, <2>7
<1>7. CASE q = 9
  <2>1. j = WLen + m + 10 /\ j <= WLen + m + 10 /\ j > WLen + m + 8 /\ ~(x <= WLen + m + 10)
    BY <1>1, <1>7
  <2>2. reg[SP][2] % 16 = 0 /\ Passed(j, p, reg)
    BY <1>2, <2>1 DEF Ahead, m
  <2>3. \A k \in 1 .. m : reg[ArgRegs[k]] = ArgTerm(p, k)
    <3>1. \A k \in 1 .. m : j + k > WLen + m + 1
      BY <1>1, <2>1
    <3> QED  BY <2>2, <3>1 DEF Passed, m
  <2>4. called' = [reg |-> reg, flags |-> flags]
    BY <1>5, <1>7
  <2>5. called'.reg = reg
    BY <2>4
  <2>6. Declared(p, called')
    BY <2>2, <2>3, <2>5 DEF Declared, m
  <2> HIDE DEF x
  <2>7. WrapperMeaning(x, p, reg', effects', called')
    BY <1>2, <1>5, <2>1, <2>6 DEF WrapperMeaning, m
  <2> QED  BY <2>7 DEF x
<1>8. CASE q \in 10 .. 14
  <2>1. j > WLen + m + 10 /\ ~(x <= WLen + m + 10)
    BY <1>1, <1>8
  <2>2. called' = called /\ effects' = effects
    BY <1>5, <1>8
  <2>3. called # << >> => Declared(p, called)
    BY <1>2, <2>1
  <2> HIDE DEF x
  <2>4. WrapperMeaning(x, p, reg', effects', called')
    BY <1>2, <2>1, <2>2, <2>3 DEF WrapperMeaning, m
  <2> QED  BY <2>4 DEF x
<1> QED  BY <1>6, <1>7, <1>8

LEMMA WrapperMeans ==
    ASSUME Next, pc[1] = "wrapper", NEW p \in Points, p.kind # "replace", text.wrapper = generateWrapperInstructions(p.args),
           NEW E \in Int, NEW R, NEW F, NEW M, InWrapper(pc[2], Len(p.args), E, R, F, M, reg, flags, stack, fp),
           WrapperMeaning(pc[2], p, reg, effects, called)
    PROVE  \/ Forward /\ WrapperMeaning(pc[2] + 1, p, reg', effects', called')
           \/ current = <<"ret">> /\ effects' = effects /\ called' = called /\ Late(p, effects, called)
<1> DEFINE w == generateWrapperInstructions(p.args)
           m == Len(p.args)
           j == pc[2]
<1>0. WLen \in Nat /\ m \in Nat /\ m \in 0 .. 6 /\ WLen = Len(WSaves) /\ InWrapper(j, m, E, R, F, M, reg, flags, stack, fp)
  BY WrapperSizes
<1>1. /\ \A k \in 1 .. WLen : w[k] = WSaves[k]
      /\ \A k \in 1 .. 6 : w[WLen + m + k] = AlignStack[k]
      /\ \A k \in 1 .. 9 : w[WLen + m + 6 + k] = CallStack[k]
      /\ \A k \in 1 .. WLen : w[WLen + m + 15 + WLen + 1 - k] = Undo(WSaves[k])
      /\ w[WLen + m + 15 + WLen + 1] = <<"ret">>
      /\ \A k \in 1 .. m : w[WLen + k] = PassArguments(p.args)[k]
  <2>0. PICK a : a = p.args
    OBVIOUS
  <2>1. /\ WrapperCode(generateWrapperInstructions(a), Len(WSaves), Len(a))
        /\ \A k \in 1 .. Len(a) : generateWrapperInstructions(a)[Len(WSaves) + k] = PassArguments(a)[k]
    BY <2>0, ArgsOf, WrapperAt
  <2>2. WrapperCode(w, WLen, m) /\ \A k \in 1 .. m : w[WLen + k] = PassArguments(p.args)[k]
    BY <2>0, <2>1 DEF WLen
  <2> HIDE DEF w
  <2> QED  BY <2>2 DEF WrapperCode
<1>2. ~Done /\ current = w[j]
  <2>1. text["wrapper"] = w
    OBVIOUS
  <2> QED  BY <2>1 DEF Done, current
<1>3. \A k \in 1 .. WLen : WSaves[k] \in SaveOps
  <2>1. SavesWell(WSaves)
    BY WSavesIs
  <2> QED  BY <1>0, <2>1 DEF SavesWell
<1>4. /\ Wrote(p, effects)
      /\ j <= WLen + m + 10 => Ahead(j, p, reg, called)
      /\ j > WLen + m + 10 => (called # << >> => Declared(p, called))
  BY DEF WrapperMeaning
<1>5. WrapperMeaning(j, p, reg, effects, called)
  OBVIOUS
<1> HIDE DEF j
<1>6. \/ \E i \in 0 .. WLen - 1 : j = i + 1 /\ WSaving(i, E, R, F, M, reg, flags, stack, fp)
      \/ \E i \in 0 .. m - 1 : j = WLen + i + 1 /\ WUnwinding(WLen, E, R, F, M, reg, flags, stack, fp)
      \/ \E q \in 0 .. 14 : j = WLen + m + q + 1 /\ WAligned(q, E, R, F, M, reg, stack, fp)
      \/ \E i \in 1 .. WLen : j = WLen + m + 15 + WLen + 1 - i /\ WUnwinding(i, E, R, F, M, reg, flags, stack, fp)
      \/ j = WLen + m + 15 + WLen + 1 /\ WUnwinding(0, E, R, F, M, reg, flags, stack, fp)
  <2>1. Placed(j, m, E, R, F, M, reg, flags, stack, fp)
    BY <1>0, WPlace
  <2> QED  BY <2>1 DEF Placed
<1> HIDE DEF w, m
<1>7. ASSUME NEW i \in 0 .. WLen - 1, j = i + 1, WSaving(i, E, R, F, M, reg, flags, stack, fp)
      PROVE  Forward /\ WrapperMeaning(j + 1, p, reg', effects', called')
  <2> DEFINE op == WSaves[i + 1]
  <2>1. i + 1 \in 1 .. WLen
    BY <1>0
  <2>2. op = current /\ op \in SaveOps
    BY <1>1, <1>2, <1>3, <1>7, <2>1
  <2> HIDE DEF op
  <2>3. op[1] \in {"push", "pushf", "lahf", "addsp"}
    BY <2>2, SaveOp
  <2>4. SavedBy(op, reg, flags, stack, reg', flags', stack') /\ Forward
    BY <1>2, <2>2, <2>3, SaveOpStep
  <2>5. effects' = effects /\ called' = called
    BY <1>2, <2>2, <2>3, QuietStep
  <2>6. IsFile(reg)
    BY <1>7 DEF WSaving, Saving, Undoable, AtDepth
  <2>7. Spared(reg, reg')
    BY <2>2, <2>4, <2>6, SavedSpares
  <2>8. j \in Int /\ j <= WLen /\ j <= WLen + m + 9 /\ ~(j > WLen + m + 7)
    BY <1>0, <1>7
  <2>9. WrapperMeaning(j + 1, p, reg', effects, called)
    BY <1>5, <2>7, <2>8, AheadOn DEF m
  <2> QED  BY <2>4, <2>5, <2>9
<1>8. ASSUME NEW i \in 0 .. m - 1, j = WLen + i + 1, WUnwinding(WLen, E, R, F, M, reg, flags, stack, fp)
      PROVE  Forward /\ WrapperMeaning(j + 1, p, reg', effects', called')
  <2> DEFINE op == PassArguments(p.args)[i + 1]
  <2>1. i + 1 \in 1 .. m /\ WLen + (i + 1) = WLen + i + 1
    BY <1>0
  <2>2. op = current
    <3>1. w[WLen + (i + 1)] = PassArguments(p.args)[i + 1]
      BY <1>1, <2>1
    <3> QED  BY <1>2, <1>8, <2>1, <3>1
  <2>3. Passes(op)
    <3>1. PICK a : a = p.args
      OBVIOUS
    <3>2. \A k \in 1 .. Len(a) : Passes(PassArguments(a)[k])
      BY <3>1, ArgsOf, PassesWell
    <3> QED  BY <2>1, <3>1, <3>2 DEF m
  <2>4. IsFile(reg)
    BY <1>8 DEF WUnwinding, Unwinding, Undoable, AtDepth
  <2>5. op = PassArguments(p.args)[i + 1]
    OBVIOUS
  <2> HIDE DEF op
  <2>6. effects' = effects /\ called' = called /\ Forward
    <3>1. op[1] \in {"op", "mov"}
      BY <2>3 DEF Passes
    <3> QED  BY <1>2, <2>2, <3>1, QuietStep
  <2> DEFINE x == j + 1
  <2>7. j <= WLen + m + 10 /\ x <= WLen + m + 10 /\ ~(x > WLen + m + 8) /\ ~(x > WLen + m + 10) /\ x = WLen + i + 1 + 1
    BY <1>0, <1>8
  <2>8. Passed(WLen + i + 1, p, reg) /\ called = << >>
    BY <1>4, <1>8, <2>7 DEF Ahead
  <2>9. Passed(WLen + i + 1 + 1, p, reg')
    BY <1>2, <2>2, <2>4, <2>5, <2>8, PassStep DEF m
  <2>10. Passed(x, p, reg')
    BY <2>7, <2>9
  <2> HIDE DEF x
  <2>11. Ahead(x, p, reg', called)
    BY <2>7, <2>8, <2>10 DEF Ahead, m
  <2>12. WrapperMeaning(x, p, reg', effects, called)
    BY <1>4, <2>7, <2>11 DEF WrapperMeaning, m
  <2> QED  BY <2>6, <2>12 DEF x
<1>9. ASSUME NEW q \in 0 .. 14, j = WLen + m + q + 1, WAligned(q, E, R, F, M, reg, stack, fp)
      PROVE  Forward /\ WrapperMeaning(j + 1, p, reg', effects', called')
  <2> DEFINE op == Middle(q)
  <2>1. op = current
    <3>1. CASE q < 6
      <4>1. q + 1 \in 1 .. 6 /\ WLen + m + (q + 1) = WLen + m + q + 1
        BY <1>0, <3>1
      <4>2. w[WLen + m + (q + 1)] = AlignStack[q + 1]
        BY <1>1, <4>1
      <4> QED  BY <1>2, <1>9, <3>1, <4>1, <4>2 DEF Middle
    <3>2. CASE ~(q < 6)
      <4>1. q - 5 \in 1 .. 9 /\ WLen + m + 6 + (q - 5) = WLen + m + q + 1
        BY <1>0, <3>2
      <4>2. w[WLen + m + 6 + (q - 5)] = CallStack[q - 5]
        BY <1>1, <4>1
      <4> QED  BY <1>2, <1>9, <3>2, <4>1, <4>2 DEF Middle
    <3> QED  BY <3>1, <3>2
  <2>2. IsFile(reg)
    BY <1>9 DEF WAligned, Aligned
  <2>3. op = Middle(q)
    OBVIOUS
  <2> HIDE DEF op
  <2>4. Forward
    BY <1>2, <2>1, <2>2, <2>3, MiddleEffect
  <2>5. WrapperMeaning(j + 1, p, reg', effects', called')
    BY <1>2, <1>5, <1>9, <2>1, <2>3, MiddleMeans DEF m
  <2> QED  BY <2>4, <2>5
<1>10. ASSUME NEW i \in 1 .. WLen, j = WLen + m + 15 + WLen + 1 - i, WUnwinding(i, E, R, F, M, reg, flags, stack, fp)
       PROVE  Forward /\ WrapperMeaning(j + 1, p, reg', effects', called')
  <2> DEFINE op == WSaves[i]
             x == j + 1
  <2>1. op \in SaveOps /\ Undo(op) = current
    BY <1>1, <1>2, <1>3, <1>10
  <2> HIDE DEF op
  <2>2. Forward
    BY <1>2, <2>1, UndoStep
  <2>3. PICK u : u = current /\ u[1] \in {"pop", "popf", "sahf", "addsp"}
    BY <2>1, SaveOp DEF Undo, Pop, AddSP
  <2>4. effects' = effects /\ called' = called
    BY <1>2, <2>3, QuietStep
  <2>5. j > WLen + m + 10 /\ ~(x <= WLen + m + 10)
    BY <1>0, <1>10
  <2> HIDE DEF x
  <2>6. WrapperMeaning(x, p, reg', effects', called')
    BY <1>4, <2>4, <2>5 DEF WrapperMeaning, m
  <2> QED  BY <2>2, <2>6 DEF x
<1>11. ASSUME j = WLen + m + 15 + WLen + 1
       PROVE  current = <<"ret">> /\ effects' = effects /\ called' = called /\ Late(p, effects, called)
  <2>1. current = <<"ret">>
    BY <1>1, <1>2, <1>11
  <2>2. PICK u : u = current /\ u[1] = "ret"
    BY <2>1
  <2>3. effects' = effects /\ called' = called
    BY <1>2, <2>2, QuietStep
  <2>4. j > WLen + m + 10
    BY <1>0, <1>11
  <2> QED  BY <1>4, <2>1, <2>3, <2>4 DEF Late
<1>12. \/ Forward /\ WrapperMeaning(j + 1, p, reg', effects', called')
       \/ current = <<"ret">> /\ effects' = effects /\ called' = called /\ Late(p, effects, called)
  BY <1>6, <1>7, <1>8, <1>9, <1>10, <1>11
<1> QED  BY <1>12 DEF j

-----------------------------------------------------------------------------
(* The invariant with its meaning, and what it says.                        *)

Meaning ==
    IF pc[1] = "point" THEN PointMeaning(pc[2], pt, reg, effects, called)
    ELSE WrapperMeaning(pc[2], pt, reg, effects, called)

LEMMA InitMeans == Init => Meaning
<1> SUFFICES ASSUME Init PROVE Meaning
  OBVIOUS
<1>1. /\ pt \in Points /\ pc = <<"point", 1>> /\ reg = ProgramReg(pt) /\ stack = ProgramStack(pt)
      /\ flags = F0 /\ fp = NoneYet /\ Early(effects, called)
  BY DEF Init, F0, NoneYet, Early
<1>2. SLen(pt) \in Nat
  BY <1>1, PLengths
<1>3. PointMeaning(1, pt, reg, effects, called)
  <2>1. CASE SLen(pt) = 0
    <3>1. PSaving(0, pt, reg, flags, stack, fp)
      BY <1>1, Begins
    <3>2. PointMeaning(SLen(pt) + 1, pt, reg, effects, called)
      BY <1>1, <2>1, <3>1, BodyMeans
    <3> QED  BY <2>1, <3>2
  <2>2. CASE SLen(pt) # 0
    <3>1. PICK z : z = 0
      OBVIOUS
    <3>2. z \in 0 .. SLen(pt) - 1 /\ z + 1 = 1
      BY <1>2, <2>2, <3>1
    <3>3. PointMeaning(z + 1, pt, reg, effects, called)
      BY <1>1, <3>2, EarlyMeans
    <3> QED  BY <3>2, <3>3
  <2> QED  BY <2>1, <2>2
<1> QED  BY <1>1, <1>3 DEF Meaning

LEMMA NextMeans == Inv /\ Meaning /\ [Next]_vars => Meaning'
<1> SUFFICES ASSUME Inv, Meaning, [Next]_vars PROVE Meaning'
  OBVIOUS
<1>1. CASE UNCHANGED vars
  BY <1>1 DEF vars, Meaning
<1>2. CASE Next /\ Done
  BY <1>1, <1>2, DoneStays
<1>3. CASE Next /\ ~Done
  <2>1. /\ pt \in Points
        /\ text = [point |-> PointCode(pt), wrapper |-> IF Calls(pt) THEN generateWrapperInstructions(pt.args) ELSE << >>]
    BY DEF Inv
  <2>2. Next /\ ~Done
    BY <1>3
  <2>3. Entered(pt) \in Int /\ WLen \in Nat /\ SLen(pt) \in Nat /\ BLen(pt) \in Nat
    BY <2>1, EnteredIs, WrapperSizes, PLengths
  <2>4. pt' = pt
    <3>1. PICK op : op = current
      OBVIOUS
    <3> QED  BY <2>2 DEF Next, Compute, TransferFlags, PushOrPop, WriteData, SaveOrRestore, Compare, BranchJL,
                  CallWrapper, ReturnFromWrapper, ExternalCall, FxSaveOrRestore
  <2>5. ASSUME pc'[1] = "point", PointMeaning(pc'[2], pt, reg', effects', called') PROVE Meaning'
    BY <2>4, <2>5 DEF Meaning
  <2>6. ASSUME pc'[1] = "wrapper", WrapperMeaning(pc'[2], pt, reg', effects', called') PROVE Meaning'
    BY <2>4, <2>6 DEF Meaning
  <2>7. CASE InThePoint
    <3>1. pc[1] = "point" /\ AtPoint(pc[2], pt, reg, flags, stack, fp) /\ text.point = PointCode(pt)
      BY <2>1, <2>7 DEF InThePoint
    <3>2. PointMeaning(pc[2], pt, reg, effects, called)
      BY <3>1 DEF Meaning
    <3>3. \/ pc'[1] = "point" /\ PointMeaning(pc'[2], pt, reg', effects', called')
          \/ pc' = <<"wrapper", 1>> /\ WrapperMeaning(1, pt, reg', effects', called')
      BY <2>1, <2>2, <3>1, <3>2, PointMeans
    <3>4. CASE pc' = <<"wrapper", 1>> /\ WrapperMeaning(1, pt, reg', effects', called')
      <4>1. pc'[1] = "wrapper" /\ pc'[2] = 1
        BY <3>4
      <4> QED  BY <2>6, <3>4, <4>1
    <3> QED  BY <2>5, <3>3, <3>4
  <2>8. CASE InTheWrapper
    <3>1. PICK R, F, M : /\ CallFrame(pt, R, F, M)
                         /\ InWrapper(pc[2], Len(pt.args), Entered(pt), R, F, M, reg, flags, stack, fp)
      BY <2>8 DEF InTheWrapper
    <3>2. pc[1] = "wrapper" /\ WrapperMeaning(pc[2], pt, reg, effects, called)
      BY <2>8 DEF InTheWrapper, Meaning
    <3>3. text.wrapper = generateWrapperInstructions(pt.args) /\ pt.kind # "replace"
      <4>1. pt.kind \in {"check", "call"}
        BY <3>1 DEF CallFrame
      <4>2. Calls(pt)
        BY <4>1 DEF Calls
      <4> QED  BY <2>1, <4>1, <4>2
    <3>4. \/ Forward /\ WrapperMeaning(pc[2] + 1, pt, reg', effects', called')
          \/ current = <<"ret">> /\ effects' = effects /\ called' = called /\ Late(pt, effects, called)
      BY <2>1, <2>2, <2>3, <3>1, <3>2, <3>3, WrapperMeans
    <3>5. CASE Forward /\ WrapperMeaning(pc[2] + 1, pt, reg', effects', called')
      <4>1. pc'[1] = "wrapper" /\ pc'[2] = pc[2] + 1
        BY <3>2, <3>5 DEF Forward
      <4> QED  BY <2>6, <3>5, <4>1
    <3>6. CASE current = <<"ret">> /\ effects' = effects /\ called' = called /\ Late(pt, effects, called)
      <4>1. WUnwinding(0, Entered(pt), R, F, M, reg, flags, stack, fp)
        <5>1. PICK m, E, args : m = Len(args) /\ E = Entered(pt) /\ args = pt.args
          OBVIOUS
        <5>2. /\ args \in Seq({"constant", "address"}) /\ Len(args) <= Len(ArgRegs) /\ E \in Int
              /\ text.wrapper = generateWrapperInstructions(args)
              /\ InWrapper(pc[2], m, E, R, F, M, reg, flags, stack, fp)
          BY <2>1, <2>3, <3>1, <3>3, <5>1, ArgsOf
        <5>3. Forward \/ WUnwinding(0, E, R, F, M, reg, flags, stack, fp)
          BY <2>2, <3>2, <5>1, <5>2, WrapperStep
        <5>4. ~Forward
          <6>1. PICK op : op = current /\ op[1] = "ret"
            BY <3>6
          <6>2. pc' = <<"point", TopOf(stack, reg[SP][2])[2]>>
            BY <2>2, <6>1, OtherSteps
          <6>3. pc'[1] = "point"
            BY <6>2
          <6> QED  BY <3>2, <6>3 DEF Forward
        <5> QED  BY <5>1, <5>3, <5>4
      <4>2. pc'[1] = "point" /\ pc'[2] = SLen(pt) + BLen(pt) + 1
        BY <2>1, <2>2, <3>1, <3>6, <4>1, ReturnEffect
      <4> DEFINE k == SLen(pt) + BLen(pt) + 1
      <4>3. k \in Int /\ k > SLen(pt) + BLen(pt)
        BY <2>3
      <4> HIDE DEF k
      <4>4. PointMeaning(k, pt, reg', effects', called')
        BY <2>1, <3>6, <4>3, LateMeans
      <4> QED  BY <2>5, <4>2, <4>4 DEF k
    <3> QED  BY <3>4, <3>5, <3>6
  <2> QED  BY <2>7, <2>8 DEF Inv
<1> QED  BY <1>1, <1>2, <1>3

LEMMA MeansIt == Inv /\ Meaning => DoesWhatWasMeant
<1> SUFFICES ASSUME Inv, Meaning PROVE DoesWhatWasMeant
  OBVIOUS
<1>1. pt \in Points /\ text.point = PointCode(pt)
  BY DEF Inv
<1>2. Len(PointCode(pt)) = SLen(pt) + BLen(pt) + SLen(pt)
  <2>1. LaidIn(PointCode(pt), pt, SLen(pt), ILen(pt), BLen(pt))
    BY <1>1, PCode
  <2> QED  BY <2>1 DEF LaidIn
<1> DEFINE n == SLen(pt)
           b == BLen(pt)
           c == ILen(pt)
           k == pc[2]
<1>3. n \in Nat /\ b \in Nat /\ c \in Nat /\ b = (IF Calls(pt) THEN c + 1 ELSE c)
  BY <1>1, PLengths
<1>4. pc[1] = "point" =>
        /\ k <= n => Early(effects, called)
        /\ \A i \in 0 .. b - 1 : k = n + i + 1 => Half(i, pt, reg, effects, called)
        /\ k > n + b => Late(pt, effects, called)
  BY DEF Meaning, PointMeaning
<1>5. InThePoint =>
        \/ \E j \in 0 .. n - 1 : k = j + 1
        \/ \E j \in 0 .. c - 1 : k = n + j + 1
        \/ Calls(pt) /\ k = n + c + 1
        \/ \E j \in 1 .. n : k = n + b + n + 1 - j
        \/ k = n + b + n + 1
  <2> SUFFICES ASSUME InThePoint
               PROVE  \/ \E j \in 0 .. n - 1 : k = j + 1
                      \/ \E j \in 0 .. c - 1 : k = n + j + 1
                      \/ Calls(pt) /\ k = n + c + 1
                      \/ \E j \in 1 .. n : k = n + b + n + 1 - j
                      \/ k = n + b + n + 1
    OBVIOUS
  <2>1. PlacedAt(pc[2], pt, reg, flags, stack, fp)
    BY <1>1, PPlace DEF InThePoint
  <2> QED  BY <2>1 DEF PlacedAt
<1> HIDE DEF n, b, c, k
<1>6. InThePoint => k \in Int /\ (k <= n \/ (\E j \in 0 .. b - 1 : k = n + j + 1) \/ k > n + b)
  <2>1. ASSUME NEW j \in 0 .. c - 1 PROVE j \in 0 .. b - 1
    BY <1>3
  <2>2. ASSUME Calls(pt) PROVE c \in 0 .. b - 1
    BY <1>3, <2>2
  <2>3. ASSUME NEW j \in 0 .. n - 1 PROVE j + 1 \in Int /\ j + 1 <= n
    BY <1>3
  <2>4. ASSUME NEW j \in 1 .. n PROVE n + b + n + 1 - j \in Int /\ n + b + n + 1 - j > n + b
    BY <1>3
  <2>5. n + b + n + 1 \in Int /\ n + b + n + 1 > n + b
    BY <1>3
  <2>6. ASSUME NEW j \in 0 .. b - 1 PROVE n + j + 1 \in Int
    BY <1>3
  <2> QED  BY <1>5, <2>1, <2>2, <2>3, <2>4, <2>5, <2>6
<1>7. called # << >> => Declared(pt, called)
  <2>1. CASE InThePoint
    <3>1. pc[1] = "point"
      BY <2>1 DEF InThePoint
    <3>2. CASE k <= n
      BY <1>4, <3>1, <3>2 DEF Early
    <3>3. CASE \E j \in 0 .. b - 1 : k = n + j + 1
      BY <1>4, <3>1, <3>3 DEF Half
    <3>4. CASE k > n + b
      BY <1>4, <3>1, <3>4 DEF Late
    <3> QED  BY <1>6, <2>1, <3>2, <3>3, <3>4
  <2>2. CASE InTheWrapper
    <3>1. pc[1] = "wrapper"
      BY <2>2 DEF InTheWrapper
    <3>2. WrapperMeaning(k, pt, reg, effects, called)
      BY <3>1 DEF Meaning, k
    <3> DEFINE m == Len(pt.args)
    <3>3. /\ k <= WLen + m + 10 => called = << >>
          /\ k > WLen + m + 10 => (called # << >> => Declared(pt, called))
      BY <3>2 DEF WrapperMeaning, Ahead
    <3>4. k \in Int /\ WLen \in Nat /\ m \in Nat
      <4>1. PICK E, R, F, M, l : E = Entered(pt) /\ l = m /\ InWrapper(k, l, E, R, F, M, reg, flags, stack, fp)
        BY <2>2 DEF InTheWrapper, k
      <4>2. WLen \in Nat /\ m \in Nat /\ l \in Nat
        BY <1>1, <4>1, WrapperSizes
      <4>3. \/ \E i \in 0 .. WLen : k = i + 1
            \/ \E i \in 0 .. l : k = WLen + i + 1
            \/ \E q \in 0 .. 15 : k = WLen + l + q + 1
            \/ \E i \in 0 .. WLen : k = WLen + l + 15 + WLen + 1 - i
        BY <4>1 DEF InWrapper
      <4> QED  BY <4>2, <4>3
    <3> HIDE DEF m
    <3>5. k <= WLen + m + 10 \/ k > WLen + m + 10
      BY <3>4
    <3> QED  BY <3>3, <3>5
  <2> QED  BY <2>1, <2>2 DEF Inv
<1>8. CalledAsDeclared
  BY <1>7 DEF CalledAsDeclared, Declared, ArgTerm
<1>9. WritesWhatWasMeant
  <2> SUFFICES ASSUME Done, pt.kind = "fill" => ~(MovedSP \/ FlagsInAX \/ pt.skipped) PROVE effects = Meant(pt)
    BY DEF WritesWhatWasMeant
  <2>1. pc[1] = "point" /\ k > n + b + n /\ InThePoint
    <3>1. pc[1] = "point" /\ pc[2] > Len(text.point)
      BY DEF Done
    <3> QED  BY <1>1, <1>2, <3>1 DEF Inv, InTheWrapper, k, n, b
  <2>2. k > n + b
    BY <1>3, <1>6, <2>1
  <2>3. Wrote(pt, effects)
    BY <1>4, <2>1, <2>2 DEF Late
  <2>4. Wanted(pt)
    BY DEF Wanted, MovedSP, FlagsInAX, Method
  <2> QED  BY <2>3, <2>4 DEF Wrote
<1> QED  BY <1>8, <1>9 DEF DoesWhatWasMeant

\* The function a point calls is entered as it was declared, on an aligned
\* stack and with the arguments the tool added (generateTrampoline and
\* generateWrapperInstructions); and what a point writes is what was meant: one
\* increment of the right counter, the four fields of the right entry of the
\* address buffer, the place of a replaced call, and nothing else; whatever
\* the point, as long as its operand depends neither on SP nor on AX while AX
\* holds the flags, and was looked at.
THEOREM DoesAsMeant == Spec => []DoesWhatWasMeant
<1>1. Init => Inv /\ Meaning
  BY InitHolds, InitMeans
<1>2. (Inv /\ Meaning) /\ [Next]_vars => (Inv /\ Meaning)'
  BY NextHolds, NextMeans
<1>3. Inv /\ Meaning => DoesWhatWasMeant
  BY MeansIt
<1> QED  BY <1>1, <1>2, <1>3, PTL DEF Spec

=============================================================================
