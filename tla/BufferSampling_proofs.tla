------------------------ MODULE BufferSampling_proofs ------------------------
(***************************************************************************)
(* Theorems about BufferSampling for any number of threads and blocks, any *)
(* capacity and sampling windows, as long as the executable is the only    *)
(* image (with more they do not hold, as the runs with a late image show); *)
(* the last two are about a program with one thread.                       *)
(***************************************************************************)
EXTENDS BufferSampling, FiniteSetTheorems, TLAPS

\* the points of the blocks in NonmaxKeys have their check and increment on,
\* and either all of their fills or none
PointsShape ==
    /\ loaded = {FirstImage}
    /\ check = {FirstImage} \X NonmaxKeys
    /\ inc = check
    /\ fill = check \/ fill = {}

\* after the check there is room for the block if it is going to count
\* itself; when it may fill, now or after a switch, it has counted itself
BlockShape(t) ==
    /\ memop[t] < Memops[block[t]]
    /\ loc[t] # "fill" => memop[t] = 0
    /\ loc[t] = "inc" /\ block[t] \in inc => current[t] + Memops[block[t]] <= Capacity
    /\ loc[t] = "fill" /\ block[t] \in inc => Memops[block[t]] <= current[t]

IInv ==
    /\ TypeOK
    /\ PointsShape
    /\ \A t \in Threads : BlockShape(t)
    /\ ~corrupt

\* loading a second image ends all of this
UntilSecondImage ==
    /\ FirstImage \in loaded
    /\ loaded \subseteq Images
    /\ loaded = {FirstImage} => IInv

\* Every block has at least one memory operation and fits into a buffer.
LEMMA MemopsType ==
    ASSUME NEW p \in Points
    PROVE  Memops[p] \in Nat /\ 1 <= Memops[p] /\ Memops[p] <= Capacity /\ Capacity \in Nat
BY MemopsAssumption, CapacityAssumption

\* The sampling period is positive, so that a remainder lies below it.
LEMMA PeriodType == Period \in Nat \ {0}
BY SampleAssumption DEF Period

\* The number of entries of a point is a natural number.
LEMMA EntriesType ==
    ASSUME NEW t \in Threads, NEW p \in Points, numElements[t] \in Nat
    PROVE  EntriesOf(t, p) \in Nat
<1>1. IsFiniteSet(1 .. numElements[t])
  BY FS_Interval
<1>2. {n \in Entries(t) : buffer[t][n] = p} \subseteq 1 .. numElements[t]
  BY DEF Entries
<1>3. IsFiniteSet({n \in Entries(t) : buffer[t][n] = p})
  BY <1>1, <1>2, FS_Subset
<1> QED  BY <1>3, FS_CardinalityType DEF EntriesOf

\* The only fills that a step can turn on are those of the blocks in
\* NonmaxKeys, and it turns on or off all of them.
LEMMA SwitchShape ==
    ASSUME PointsShape, NEW t \in Threads, SwitchFills(t)
    PROVE  fill' = check \/ fill' = {}
BY ImagesAssumption DEF PointsShape, SwitchFills, PointsWithKey

-----------------------------------------------------------------------------
\* The initial states satisfy the invariant.
LEMMA InitInv == Init => IInv
<1> SUFFICES ASSUME Init PROVE IInv
  OBVIOUS
<1>1. <<FirstImage, Block0>> \in Points
  BY ImagesAssumption DEF Points
<1>2. TypeOK
  <2>1. PointsOf(FirstImage) \subseteq Points /\ loaded \subseteq Images
    BY ImagesAssumption DEF PointsOf, Points, Init
  <2>2. AccessCount \in 0 .. Period - 1
    BY PeriodType DEF Init
  <2>3. /\ current \in [Threads -> 0 .. Capacity]
        /\ numElements \in [Threads -> 0 .. Capacity]
        /\ counters \in [Threads -> [Points -> 0 .. AccessLimit + 1]]
    BY CapacityAssumption, LimitAssumption DEF Init
  <2>4. buffer \in [Threads -> [1 .. Capacity -> Points \cup {Blank}]]
    BY DEF Init, EmptyBuffer
  <2> QED  BY <1>1, <2>1, <2>2, <2>3, <2>4 DEF Init, TypeOK, Locs
<1>3. PointsShape
  BY DEF Init, PointsShape, PointsOf
<1>4. ASSUME NEW t \in Threads PROVE BlockShape(t)
  BY <1>1, MemopsType DEF Init, BlockShape
<1> QED  BY <1>2, <1>3, <1>4 DEF IInv, Init

\* A step that leaves the points and the place of every thread alone keeps
\* the shapes.
LEMMA StutterInv == IInv /\ UNCHANGED vars => IInv'
BY DEF IInv, TypeOK, PointsShape, BlockShape, vars, programVars, bufferVars, pointVars,
       flushVars, PointsWithKey

-----------------------------------------------------------------------------
\* The inserted code keeps the invariant.
LEMMA SnippetsInv ==
    ASSUME IInv, NEW t \in Threads, Snippets(t)
    PROVE  IInv'
<1>1. block[t] \in Points
  BY DEF IInv, TypeOK
<1>2. Memops[block[t]] \in Nat /\ 1 <= Memops[block[t]] /\ Memops[block[t]] <= Capacity
      /\ Capacity \in Nat
  BY <1>1, MemopsType
<1>3. current[t] \in 0 .. Capacity /\ memop[t] \in Nat /\ memop[t] < Memops[block[t]]
  BY DEF IInv, TypeOK, BlockShape
<1>4. CASE CheckBuffer(t)
  <2>1. TypeOK'
    BY <1>4 DEF CheckBuffer, Goto, At, IInv, TypeOK, Locs, bufferVars, pointVars, flushVars
  <2>2. PointsShape'
    BY <1>4 DEF CheckBuffer, IInv, PointsShape, pointVars
  <2>3. ASSUME NEW s \in Threads PROVE BlockShape(s)'
    <3>1. CASE s = t
      <4>1. loc'[t] \in {"sample", "inc"}
        BY <1>4 DEF CheckBuffer, Goto, IInv, TypeOK
      <4>2. loc'[t] = "inc" /\ block[t] \in inc => ~Full(t)
        BY <1>4 DEF CheckBuffer, Goto, IInv, TypeOK, PointsShape
      <4>3. ~Full(t) => current[t] + Memops[block[t]] <= Capacity
        BY <1>2, <1>3 DEF Full
      <4>4. memop[t] = 0
        BY <1>4 DEF CheckBuffer, At, IInv, BlockShape
      <4> QED  BY <1>3, <1>4, <3>1, <4>1, <4>2, <4>3, <4>4
                 DEF CheckBuffer, BlockShape, bufferVars, pointVars
    <3>2. CASE s # t
      BY <1>4, <3>2 DEF CheckBuffer, Goto, IInv, TypeOK, BlockShape, bufferVars, pointVars
    <3> QED  BY <3>1, <3>2
  <2> QED  BY <1>4, <2>1, <2>2, <2>3 DEF IInv, CheckBuffer, bufferVars
<1>5. CASE IncBuffer(t)
  <2>1. current'[t] \in 0 .. Capacity
    BY <1>2, <1>3, <1>5 DEF IncBuffer, At, IInv, TypeOK, BlockShape
  <2>2. current' = [current EXCEPT ![t] = current'[t]]
    BY <1>5 DEF IncBuffer, IInv, TypeOK
  <2>3. TypeOK'
    BY <1>5, <2>1, <2>2 DEF IncBuffer, Goto, At, IInv, TypeOK, Locs, pointVars, flushVars
  <2>4. PointsShape'
    BY <1>5 DEF IncBuffer, IInv, PointsShape, pointVars
  <2>5. ASSUME NEW s \in Threads PROVE BlockShape(s)'
    <3>1. CASE s = t
      <4>1. loc'[t] = "fill"
        BY <1>5 DEF IncBuffer, Goto, IInv, TypeOK
      <4>2. block[t] \in inc => Memops[block[t]] <= current'[t]
        BY <1>2, <1>3, <1>5 DEF IncBuffer, IInv, TypeOK
      <4> QED  BY <1>3, <1>5, <3>1, <4>1, <4>2 DEF IncBuffer, BlockShape, pointVars
    <3>2. CASE s # t
      BY <1>5, <3>2 DEF IncBuffer, Goto, IInv, TypeOK, BlockShape, pointVars
    <3> QED  BY <3>1, <3>2
  <2> QED  BY <1>5, <2>3, <2>4, <2>5 DEF IInv, IncBuffer
<1>6. CASE Fill(t)
  <2>1. block[t] \in fill => Slot(t) \in 1 .. Capacity
    BY <1>2, <1>3, <1>6 DEF Slot, Fill, At, IInv, BlockShape, PointsShape
  <2>2. ~corrupt' /\ buffer' \in [Threads -> [1 .. Capacity -> Points \cup {Blank}]]
    <3>1. CASE UNCHANGED <<buffer, corrupt>>
      BY <3>1 DEF IInv, TypeOK
    <3>2. CASE block[t] \in fill
      <4>1. ~corrupt' /\ buffer' = [buffer EXCEPT ![t][Slot(t)] = block[t]]
        BY <1>6, <2>1, <3>2 DEF Fill, IInv
      <4>2. [buffer[t] EXCEPT ![Slot(t)] = block[t]]
              \in [1 .. Capacity -> Points \cup {Blank}]
        BY <1>1, <2>1, <3>2 DEF IInv, TypeOK
      <4>3. buffer' = [buffer EXCEPT ![t] = [buffer[t] EXCEPT ![Slot(t)] = block[t]]]
        BY <4>1 DEF IInv, TypeOK
      <4> QED  BY <4>1, <4>2, <4>3 DEF IInv, TypeOK
    <3> QED  BY <1>6, <3>1, <3>2 DEF Fill
  <2>3. /\ memop' \in [Threads -> Nat]
        /\ loc' \in [Threads -> Locs]
        /\ memop'[t] < Memops[block[t]]
        /\ loc'[t] # "fill" => memop'[t] = 0
        /\ \A s \in Threads \ {t} : memop'[s] = memop[s] /\ loc'[s] = loc[s]
        /\ loc'[t] \in {"fill", "idle"}
    <3>0. loc \in [Threads -> Locs] /\ memop \in [Threads -> Nat] /\ loc[t] = "fill"
      BY <1>6 DEF Fill, At, IInv, TypeOK
    <3>1. CASE memop[t] + 1 < Memops[block[t]]
      <4>1. memop' = [memop EXCEPT ![t] = memop[t] + 1] /\ loc' = loc
        BY <1>6, <3>0, <3>1 DEF Fill, NextMemop
      <4> QED  BY <1>2, <1>3, <3>0, <3>1, <4>1
    <3>2. CASE ~(memop[t] + 1 < Memops[block[t]])
      <4>1. memop' = [memop EXCEPT ![t] = 0] /\ loc' = [loc EXCEPT ![t] = "idle"]
        BY <1>6, <3>2 DEF Fill, NextMemop, Goto
      <4> QED  BY <1>2, <1>3, <3>0, <4>1 DEF Locs
    <3> QED  BY <3>1, <3>2
  <2>4. TypeOK'
    BY <1>6, <2>2, <2>3 DEF Fill, IInv, TypeOK, pointVars, flushVars
  <2>5. PointsShape'
    BY <1>6 DEF Fill, IInv, PointsShape, pointVars
  <2>6. ASSUME NEW s \in Threads PROVE BlockShape(s)'
    <3>1. /\ UNCHANGED <<block, current, inc, fill>>
          /\ loc[t] = "fill"
          /\ BlockShape(s)
      BY <1>6 DEF Fill, At, IInv, pointVars
    <3>2. CASE s = t
      BY <2>3, <3>1, <3>2 DEF BlockShape
    <3>3. CASE s # t
      BY <2>3, <3>1, <3>3 DEF BlockShape
    <3> QED  BY <3>2, <3>3
  <2> QED  BY <2>2, <2>4, <2>5, <2>6 DEF IInv
<1> QED  BY <1>4, <1>5, <1>6 DEF Snippets

-----------------------------------------------------------------------------
\* For the shapes it is enough that t moves from and to places outside the
\* block, and that no increment is turned on.
LEMMA ElsewhereInv ==
    ASSUME IInv, NEW t \in Threads, NEW place \in Locs,
           place \notin {"inc", "fill"}, loc[t] # "fill",
           Goto(t, place), UNCHANGED <<block, memop, current>>, inc' \subseteq inc
    PROVE  \A s \in Threads : BlockShape(s)'
<1> SUFFICES ASSUME NEW s \in Threads PROVE BlockShape(s)'
  OBVIOUS
<1>1. BlockShape(s)
  BY DEF IInv
<1>2. CASE s = t
  <2>1. loc'[s] = place /\ memop[s] = 0
    BY <1>1, <1>2 DEF Goto, IInv, TypeOK, BlockShape
  <2> QED  BY <1>1, <1>2, <2>1 DEF BlockShape
<1>3. CASE s # t
  <2>1. loc'[s] = loc[s]
    BY <1>3 DEF Goto, IInv, TypeOK
  <2> QED  BY <1>1, <2>1 DEF BlockShape
<1> QED  BY <1>2, <1>3

\* The program keeps the invariant: entering a block, exiting.
LEMMA EnterInv ==
    ASSUME IInv, NEW t \in Threads, NEW p \in Points, Enter(t, p)
    PROVE  IInv'
<1>1. memop[t] = 0 /\ loc[t] = "idle" /\ loc' = [loc EXCEPT ![t] = "check"]
  BY DEF Enter, At, Goto, IInv, BlockShape
<1>2. counters' \in [Threads -> [Points -> 0 .. AccessLimit + 1]]
  <2>1. counters[t] \in [Points -> 0 .. AccessLimit + 1]
    BY DEF IInv, TypeOK
  <2>2. DEFINE n == IF counters[t][p] > AccessLimit THEN counters[t][p] ELSE counters[t][p] + 1
  <2>3. n \in 0 .. AccessLimit + 1
    BY <2>1, LimitAssumption
  <2>4. [counters[t] EXCEPT ![p] = n] \in [Points -> 0 .. AccessLimit + 1]
    BY <2>1, <2>3
  <2>5. counters' = [counters EXCEPT ![t] = [counters[t] EXCEPT ![p] = n]]
    BY DEF Enter, IInv, TypeOK
  <2> QED  BY <2>4, <2>5 DEF IInv, TypeOK
<1>3. TypeOK'
  BY <1>1, <1>2 DEF Enter, IInv, TypeOK, Locs, bufferVars, pointVars, flushVars
<1>4. PointsShape'
  BY DEF Enter, IInv, PointsShape, pointVars
<1>5. ASSUME NEW s \in Threads PROVE BlockShape(s)'
  <2>1. BlockShape(s) /\ UNCHANGED <<memop, current, inc>>
    BY DEF Enter, IInv, bufferVars, pointVars
  <2>2. CASE s = t
    <3>1. block'[s] = p /\ loc'[s] = "check"
      BY <1>1, <2>2 DEF Enter, IInv, TypeOK
    <3> QED  BY <1>1, <2>1, <2>2, <3>1, MemopsType DEF BlockShape
  <2>3. CASE s # t
    BY <1>1, <2>1, <2>3 DEF Enter, IInv, TypeOK, BlockShape
  <2> QED  BY <2>2, <2>3
<1> QED  BY <1>3, <1>4, <1>5 DEF IInv, Enter, bufferVars

LEMMA FinishInv == IInv /\ Finish => IInv'
<1> SUFFICES ASSUME IInv, Finish PROVE IInv'
  OBVIOUS
<1>1. TypeOK'
  BY DEF Finish, IInv, TypeOK, Locs, bufferVars, pointVars, flushVars
<1>2. PointsShape'
  BY DEF Finish, IInv, PointsShape, pointVars
<1>3. ASSUME NEW s \in Threads PROVE BlockShape(s)'
  BY DEF Finish, IInv, BlockShape, bufferVars, pointVars
<1> QED  BY <1>1, <1>2, <1>3 DEF IInv, Finish, bufferVars

-----------------------------------------------------------------------------
\* process_thread_buffer keeps the invariant.
LEMMA FlushInv ==
    ASSUME IInv, NEW t \in Threads, Flush(t)
    PROVE  IInv'
<1>1. CASE ReadSampler(t)
  <2>1. PICK place \in {"clear", "process"} : Goto(t, place)
    BY <1>1 DEF ReadSampler
  <2>2. TypeOK'
    BY <1>1 DEF ReadSampler, Goto, At, IInv, TypeOK, Locs, Sampling, bufferVars, pointVars
  <2>3. PointsShape'
    BY <1>1 DEF ReadSampler, IInv, PointsShape, pointVars
  <2>4. \A s \in Threads : BlockShape(s)'
    BY <1>1, <2>1, ElsewhereInv DEF ReadSampler, At, Locs, bufferVars, pointVars
  <2> QED  BY <1>1, <2>2, <2>3, <2>4 DEF IInv, ReadSampler, bufferVars
<1>2. CASE Process(t)
  <2>1. \A p \in Points : numElements[t] \in Nat /\ accesses[p] \in Nat
    BY CapacityAssumption DEF IInv, TypeOK
  <2>2. \A p \in Points : (accesses[p] + EntriesOf(t, p)) % Memops[p] \in Nat
    BY <2>1, EntriesType, MemopsType
  <2>3. accesses' \in [Points -> Nat]
    BY <1>2, <2>2 DEF Process, IInv, TypeOK
  <2>4. TypeOK'
    BY <1>2, <2>3 DEF Process, Goto, At, IInv, TypeOK, Locs, bufferVars, pointVars, flushVars
  <2>5. PointsShape'
    BY <1>2 DEF Process, IInv, PointsShape, pointVars
  <2>6. \A s \in Threads : BlockShape(s)'
    BY <1>2, ElsewhereInv DEF Process, At, Locs, bufferVars, pointVars
  <2> QED  BY <1>2, <2>4, <2>5, <2>6 DEF IInv, Process, bufferVars
<1>3. CASE LimitBlocks(t)
  <2>1. PICK removed : /\ NonmaxKeys' = NonmaxKeys \ removed
                       /\ check' = check \ PointsWithKey(removed)
                       /\ inc' = inc \ PointsWithKey(removed)
                       /\ fill' = fill \ PointsWithKey(removed)
    BY <1>3 DEF LimitBlocks
  <2>2. ({FirstImage} \X NonmaxKeys)' = ({FirstImage} \X NonmaxKeys) \ PointsWithKey(removed)
    BY <2>1, ImagesAssumption DEF PointsWithKey
  <2>3. TypeOK'
    BY <1>3, <2>1 DEF LimitBlocks, Goto, At, IInv, TypeOK, Locs, bufferVars, flushVars
  <2>4. PointsShape'
    BY <1>3, <2>1, <2>2 DEF LimitBlocks, IInv, PointsShape
  <2>5. \A s \in Threads : BlockShape(s)'
    BY <1>3, <2>1, ElsewhereInv DEF LimitBlocks, At, Locs, bufferVars
  <2> QED  BY <1>3, <2>3, <2>4, <2>5 DEF IInv, LimitBlocks, bufferVars
<1>4. CASE SwitchSampling(t)
  <2>1. fill' = fill \/ fill' = check \/ fill' = {}
    BY <1>4, SwitchShape DEF SwitchSampling, IInv
  <2>2. AccessCount' \in 0 .. Period - 1
    <3>1. AccessCount \in Nat /\ numElements[t] \in Nat
      BY PeriodType, CapacityAssumption DEF IInv, TypeOK
    <3> QED  BY <1>4, <3>1, PeriodType DEF SwitchSampling
  <2>3. TypeOK'
    BY <1>4, <2>1, <2>2 DEF SwitchSampling, Goto, At, IInv, TypeOK, Locs, bufferVars, flushVars
  <2>4. PointsShape'
    BY <1>4, <2>1 DEF SwitchSampling, IInv, PointsShape
  <2>5. \A s \in Threads : BlockShape(s)'
    BY <1>4, ElsewhereInv DEF SwitchSampling, At, Locs, bufferVars
  <2> QED  BY <1>4, <2>3, <2>4, <2>5 DEF IInv, SwitchSampling, bufferVars
<1>5. CASE ClearBuffer(t)
  <2>1. /\ current' = [current EXCEPT ![t] = 0]
        /\ loc' = [loc EXCEPT ![t] = IF exiting THEN "done" ELSE "inc"]
        /\ UNCHANGED <<block, memop, inc>>
        /\ loc[t] = "clear"
    BY <1>5 DEF ClearBuffer, Goto, At, pointVars
  <2>2. TypeOK'
    BY <1>5, <2>1, CapacityAssumption
       DEF ClearBuffer, IInv, TypeOK, Locs, EmptyBuffer, pointVars
  <2>3. PointsShape'
    BY <1>5 DEF ClearBuffer, IInv, PointsShape, pointVars
  <2>4. ASSUME NEW s \in Threads PROVE BlockShape(s)'
    <3>1. BlockShape(s) /\ block[s] \in Points
      BY DEF IInv, TypeOK
    <3>2. CASE s = t
      BY <2>1, <3>1, <3>2, MemopsType DEF IInv, TypeOK, BlockShape
    <3>3. CASE s # t
      BY <2>1, <3>1, <3>3 DEF IInv, TypeOK, BlockShape
    <3> QED  BY <3>2, <3>3
  <2> QED  BY <1>5, <2>2, <2>3, <2>4 DEF IInv, ClearBuffer
<1> QED  BY <1>1, <1>2, <1>3, <1>4, <1>5 DEF Flush

-----------------------------------------------------------------------------
\* Until a second image is loaded the shapes of the points and of the blocks
\* under execution are an inductive invariant.
THEOREM Invariance == Spec => []UntilSecondImage
<1>1. Init => UntilSecondImage
  BY InitInv, ImagesAssumption DEF UntilSecondImage, Init
<1>2. UntilSecondImage /\ [Next]_vars => UntilSecondImage'
  <2> SUFFICES ASSUME UntilSecondImage, [Next]_vars PROVE UntilSecondImage'
    OBVIOUS
  <2>1. CASE UNCHANGED vars
    BY <2>1, StutterInv DEF UntilSecondImage, vars, pointVars
  <2>2. CASE \E t \in Threads, image \in Images : LoadImage(t, image)
    BY <2>2 DEF LoadImage, UntilSecondImage
  <2>3. ASSUME Next, ~\E t \in Threads, image \in Images : LoadImage(t, image)
        PROVE  UntilSecondImage'
    <3>1. IInv => IInv'
      BY <2>3, EnterInv, SnippetsInv, FlushInv, FinishInv DEF Next
    <3>2. loaded' = loaded
      BY <2>3 DEF Next, Enter, Finish, Snippets, CheckBuffer, IncBuffer, Fill, Flush,
             ReadSampler, Process, LimitBlocks, SwitchSampling, ClearBuffer, pointVars
    <3> QED  BY <3>1, <3>2 DEF UntilSecondImage
  <2> QED  BY <2>1, <2>2, <2>3
<1> QED  BY <1>1, <1>2, PTL DEF Spec

\* With one image there is never a second one.
LEMMA OneImage ==
    ASSUME Images = {FirstImage}
    PROVE  UntilSecondImage => IInv
BY DEF UntilSecondImage

\* Every variable keeps its type; no buffer gets longer than its entries.
THEOREM TypeCorrect ==
    ASSUME Images = {FirstImage}
    PROVE  Spec => []TypeOK
<1>1. UntilSecondImage => TypeOK
  BY OneImage DEF IInv
<1> QED  BY <1>1, Invariance, PTL

\* No fill writes outside the entries of its buffer, whatever other threads
\* switch off or on while a thread is in the middle of a block.
THEOREM FillsStayInBounds ==
    ASSUME Images = {FirstImage}
    PROVE  Spec => []FillsInBounds
<1>1. UntilSecondImage => FillsInBounds
  BY OneImage DEF IInv, FillsInBounds
<1> QED  BY <1>1, Invariance, PTL

\* The fills that follow the sampler are switched together.
THEOREM OneModeForAll ==
    ASSUME Images = {FirstImage}
    PROVE  Spec => []OneMode
<1>1. UntilSecondImage => OneMode
  BY OneImage DEF IInv, PointsShape, OneMode
<1> QED  BY <1>1, Invariance, PTL

\* A block that is over its limit stays off.
THEOREM LimitIsFinalForOneImage ==
    ASSUME Images = {FirstImage}
    PROVE  Spec => LimitIsFinal
<1>1. UntilSecondImage /\ UntilSecondImage' /\ [Next]_vars
        => [\A p \in Points : p[1] \in loaded /\ p \notin check => p \notin fill']_vars
  <2> SUFFICES ASSUME IInv, IInv', Next, NEW p \in Points, p \in fill' PROVE p \in check
    BY OneImage DEF UntilSecondImage, Points
  <2>1. check' \subseteq check
    BY DEF IInv, PointsShape, Next, Snippets, Flush, Enter, CheckBuffer, IncBuffer, Fill,
           ReadSampler, Process, LimitBlocks, SwitchSampling, ClearBuffer, Finish,
           LoadImage, pointVars
  <2> QED  BY <2>1 DEF IInv, PointsShape
<1> QED  BY <1>1, Invariance, PTL DEF Spec, LimitIsFinal

-----------------------------------------------------------------------------
(* A program with one thread: nobody switches a point while the thread is   *)
(* in the middle of a block, and nobody adds to the sampler's count between *)
(* the first and the last critical section of process_thread_buffer.        *)

\* the entries of the buffer that a point has filled
Held(t, p) == {n \in 1 .. Capacity : buffer[t][n] = p}

\* the thread is in the middle of a block that records
Filling(t) == loc[t] = "fill" /\ block[t] \in fill

\* the buffer holds whole executions of p and the operations done of this one
WholeSoFar(t, p) ==
    Cardinality(Held(t, p)) % Memops[p]
        = IF Filling(t) /\ block[t] = p THEN memop[t] ELSE 0

\* what process_thread_buffer has read is still so
ReadsStable(t) ==
    loc[t] \in {"process", "limit", "switch"} =>
        isSampling[t] = Sampling(0) /\ numElements[t] = current[t]

\* nothing has been written past the entries counted, nor ahead in a block
BlankBeyond(t) ==
    \A n \in 1 .. Capacity :
        n > current[t] \/ (Filling(t) /\ n >= Slot(t)) => buffer[t][n] = Blank

\* the mode of the fills is that of the sampler
ModeShape == fill = IF Sampling(0) THEN check ELSE {}

NothingLeftOver == \A p \in Points : accesses[p] = 0

AloneInv(t) ==
    /\ ModeShape
    /\ ReadsStable(t)
    /\ BlankBeyond(t)
    /\ \A p \in Points : WholeSoFar(t, p)
    /\ NothingLeftOver

\* A remainder goes up by one and starts again at the divisor.
LEMMA NextRemainder ==
    ASSUME NEW m \in Nat \ {0}, NEW c \in Nat
    PROVE  (c + 1) % m = IF (c % m) + 1 < m THEN (c % m) + 1 ELSE 0
<1> DEFINE q1 == c \div m
           r1 == c % m
           q2 == (c + 1) \div m
           r2 == (c + 1) % m
<1>1. q1 \in Int /\ r1 \in 0 .. m - 1 /\ c = m * q1 + r1
  OBVIOUS
<1>2. q2 \in Int /\ r2 \in 0 .. m - 1 /\ c + 1 = m * q2 + r2
  OBVIOUS
<1> HIDE DEF q1, r1, q2, r2
<1>3. m * (q2 - q1) = r1 + 1 - r2
  BY <1>1, <1>2
<1>4. ~(q2 - q1 >= 2) /\ ~(q2 - q1 <= -1)
  BY <1>1, <1>2, <1>3
<1>5. q2 - q1 \in {0, 1}
  BY <1>1, <1>2, <1>4
<1>6. (q2 - q1 = 0 => r2 = r1 + 1) /\ (q2 - q1 = 1 => r1 + 1 - r2 = m)
  BY <1>1, <1>2, <1>3
<1> QED  BY <1>1, <1>2, <1>5, <1>6 DEF r1, r2

\* A remainder is its own remainder.
LEMMA RemainderTwice ==
    ASSUME NEW m \in Nat \ {0}, NEW c \in Nat
    PROVE  ((c % m) + 0) % m = c % m
<1>1. c % m \in 0 .. m - 1
  OBVIOUS
<1>2. \A y \in 0 .. m - 1 : y % m = y
  OBVIOUS
<1> QED  BY <1>1, <1>2

\* The entries of a point are finitely many.
LEMMA HeldFinite ==
    ASSUME NEW t, NEW p
    PROVE  IsFiniteSet(Held(t, p)) /\ Cardinality(Held(t, p)) \in Nat
<1>1. IsFiniteSet(1 .. Capacity)
  BY CapacityAssumption, FS_Interval
<1> QED  BY <1>1, FS_Subset, FS_CardinalityType DEF Held

\* At the start the buffer is empty and the sampler samples.
LEMMA InitAlone ==
    ASSUME NEW t \in Threads
    PROVE  Init => AloneInv(t)
<1> SUFFICES ASSUME Init PROVE AloneInv(t)
  OBVIOUS
<1>1. Sampling(0)
  <2>1. \A m \in Nat \ {0} : 0 % m = 0
    OBVIOUS
  <2> QED  BY <2>1, PeriodType, SampleAssumption DEF Init, Sampling
<1>2. ASSUME NEW p \in Points PROVE WholeSoFar(t, p)
  <2>1. Held(t, p) = {}
    BY BlankAssumption DEF Held, Init, EmptyBuffer
  <2>2. Cardinality(Held(t, p)) = 0
    BY <2>1, FS_EmptySet
  <2>3. \A m \in Nat \ {0} : 0 % m = 0
    OBVIOUS
  <2> QED  BY <2>2, <2>3, MemopsType DEF WholeSoFar, Filling, Init
<1>3. BlankBeyond(t)
  BY DEF BlankBeyond, Init, Filling, EmptyBuffer
<1> QED  BY <1>1, <1>2, <1>3 DEF AloneInv, ModeShape, ReadsStable, NothingLeftOver, Init

\* What the thread does outside its fills leaves the buffer as it is.
LEMMA SameBuffer ==
    ASSUME NEW t \in Threads, \A p \in Points : WholeSoFar(t, p), ~Filling(t),
           buffer' = buffer, Filling(t)' => memop'[t] = 0
    PROVE  \A p \in Points : WholeSoFar(t, p)'
<1> SUFFICES ASSUME NEW p \in Points PROVE WholeSoFar(t, p)'
  OBVIOUS
<1>1. Held(t, p)' = Held(t, p)
  BY DEF Held
<1>2. Cardinality(Held(t, p)) % Memops[p] = 0
  BY DEF WholeSoFar
<1> QED  BY <1>1, <1>2 DEF WholeSoFar

\* Where nothing is filled and the sampler is left alone, only what has been
\* read and what is blank need to be looked at.
LEMMA QuietStep ==
    ASSUME NEW t \in Threads, AloneInv(t), ~Filling(t), buffer' = buffer,
           accesses' = accesses, AccessCount' = AccessCount,
           fill' = IF Sampling(0) THEN check' ELSE {},
           ReadsStable(t)', BlankBeyond(t)', Filling(t)' => memop'[t] = 0
    PROVE  AloneInv(t)'
<1>1. \A p \in Points : WholeSoFar(t, p)'
  BY SameBuffer DEF AloneInv
<1>2. ModeShape'
  BY DEF ModeShape, Sampling, Period
<1> QED  BY <1>1, <1>2 DEF AloneInv, NothingLeftOver

\* The thread in a block: entering it, checking and counting.
LEMMA CountAlone ==
    ASSUME NEW t \in Threads, IInv, AloneInv(t),
           (\E p \in Points : Enter(t, p)) \/ CheckBuffer(t) \/ IncBuffer(t)
    PROVE  AloneInv(t)'
<1>1. /\ loc[t] \in {"idle", "check", "inc"} /\ memop[t] = 0
      /\ UNCHANGED <<buffer, accesses, AccessCount, fill, check, memop>>
  BY DEF Enter, CheckBuffer, IncBuffer, At, IInv, BlockShape, bufferVars, pointVars
<1>2. loc'[t] \in {"check", "sample", "inc", "fill"} /\ ~Filling(t)
  BY <1>1 DEF Enter, CheckBuffer, IncBuffer, Goto, IInv, TypeOK, Filling
<1>3. ReadsStable(t)'
  BY <1>2 DEF ReadsStable
<1>4. BlankBeyond(t)'
  <2>1. CASE IncBuffer(t)
    <3>1. block[t] \in Points /\ current[t] \in 0 .. Capacity
      BY DEF IInv, TypeOK
    <3>2. Memops[block[t]] \in Nat /\ 1 <= Memops[block[t]] /\ Capacity \in Nat
      BY <3>1, MemopsType
    <3>3. /\ current'[t] \in {current[t], current[t] + Memops[block[t]]}
          /\ block[t] \in fill => current'[t] = current[t] + Memops[block[t]]
          /\ block' = block
      BY <2>1 DEF IncBuffer, IInv, TypeOK, PointsShape
    <3>4. ASSUME NEW n \in 1 .. Capacity, n > current'[t] \/ (Filling(t)' /\ n >= Slot(t)')
          PROVE  n > current[t]
      BY <1>1, <3>1, <3>2, <3>3, <3>4 DEF Filling, Slot
    <3> QED  BY <1>1, <3>4 DEF BlankBeyond, AloneInv
  <2>2. CASE ~IncBuffer(t)
    BY <1>1, <1>2, <2>2 DEF Enter, CheckBuffer, Goto, IInv, TypeOK, BlankBeyond, Filling,
           AloneInv, bufferVars
  <2> QED  BY <2>1, <2>2
<1> QED  BY <1>1, <1>2, <1>3, <1>4, QuietStep DEF AloneInv, ModeShape

\* A fill: the entry is a blank one, and the last one completes the block.
LEMMA FillAlone ==
    ASSUME NEW t \in Threads, IInv, AloneInv(t), Fill(t)
    PROVE  AloneInv(t)'
<1>1. /\ loc[t] = "fill" /\ block[t] \in Points
      /\ loc \in [Threads -> Locs] /\ memop \in [Threads -> Nat]
      /\ current[t] \in 0 .. Capacity
  BY DEF Fill, At, IInv, TypeOK
<1>2. Memops[block[t]] \in Nat /\ 1 <= Memops[block[t]] /\ Memops[block[t]] <= Capacity
      /\ Capacity \in Nat
  BY <1>1, MemopsType
<1>3. memop[t] \in Nat /\ memop[t] < Memops[block[t]]
  BY <1>1 DEF IInv, BlockShape
<1>4. UNCHANGED <<block, current, fill, check, AccessCount, accesses>>
  BY DEF Fill, pointVars
<1>5. \/ memop[t] + 1 < Memops[block[t]] /\ memop'[t] = memop[t] + 1 /\ loc'[t] = "fill"
      \/ memop[t] + 1 = Memops[block[t]] /\ memop'[t] = 0 /\ loc'[t] = "idle"
  <2>1. CASE memop[t] + 1 < Memops[block[t]]
    BY <1>1, <2>1 DEF Fill, NextMemop
  <2>2. CASE ~(memop[t] + 1 < Memops[block[t]])
    BY <1>1, <1>2, <1>3, <2>2 DEF Fill, NextMemop, Goto
  <2> QED  BY <2>1, <2>2
<1>6. ModeShape' /\ NothingLeftOver'
  BY <1>4 DEF AloneInv, ModeShape, NothingLeftOver, Sampling, Period
<1>7. ReadsStable(t)'
  BY <1>5 DEF ReadsStable
<1>8. CASE block[t] \notin fill
  <2>1. buffer' = buffer /\ ~Filling(t) /\ ~Filling(t)'
    BY <1>4, <1>8 DEF Fill, Filling
  <2>2. BlankBeyond(t)'
    BY <1>4, <2>1 DEF BlankBeyond, AloneInv
  <2>3. \A p \in Points : WholeSoFar(t, p)'
    BY <2>1, SameBuffer DEF AloneInv
  <2> QED  BY <1>6, <1>7, <2>2, <2>3 DEF AloneInv
<1>9. CASE block[t] \in fill
  <2> DEFINE s == Slot(t)
  <2>1. s \in 1 .. Capacity /\ s <= current[t]
    BY <1>1, <1>2, <1>3, <1>9 DEF Slot, IInv, BlockShape, PointsShape
  <2>2. buffer'[t] = [buffer[t] EXCEPT ![s] = block[t]]
        /\ buffer[t] \in [1 .. Capacity -> Points \cup {Blank}]
    BY <1>9, <2>1 DEF Fill, IInv, TypeOK
  <2>3. buffer[t][s] = Blank
    BY <1>1, <1>9, <2>1 DEF AloneInv, BlankBeyond, Filling
  <2>4. Slot(t)' = s + 1 \/ loc'[t] = "idle"
    BY <1>1, <1>2, <1>3, <1>4, <1>5 DEF Slot
  <2>5. BlankBeyond(t)'
    <3> SUFFICES ASSUME NEW n \in 1 .. Capacity,
                        n > current[t] \/ (Filling(t)' /\ n >= Slot(t)')
                 PROVE  buffer'[t][n] = Blank
      BY <1>4 DEF BlankBeyond
    <3>1. n # s /\ (n > current[t] \/ n >= s)
      BY <1>1, <2>1, <2>4 DEF Filling
    <3>2. buffer[t][n] = Blank
      BY <1>1, <1>9, <3>1 DEF AloneInv, BlankBeyond, Filling
    <3> QED  BY <2>1, <2>2, <3>1, <3>2
  <2> HIDE DEF s
  <2>6. ASSUME NEW p \in Points PROVE WholeSoFar(t, p)'
    <3>1. CASE p = block[t]
      <4>1. Held(t, p)' = Held(t, p) \cup {s} /\ s \notin Held(t, p)
        BY <1>1, <2>1, <2>2, <2>3, <3>1, BlankAssumption DEF Held
      <4>2. Cardinality(Held(t, p)') = Cardinality(Held(t, p)) + 1
        BY <4>1, HeldFinite, FS_AddElement
      <4>3. Cardinality(Held(t, p)) \in Nat
        BY HeldFinite
      <4>4. Cardinality(Held(t, p)) % Memops[p] = memop[t]
        BY <1>1, <1>9, <3>1 DEF AloneInv, WholeSoFar, Filling
      <4>5. Memops[p] \in Nat \ {0}
        BY <1>2, <3>1
      <4>6. (Cardinality(Held(t, p)) + 1) % Memops[p]
               = IF memop[t] + 1 < Memops[p] THEN memop[t] + 1 ELSE 0
        BY <4>3, <4>4, <4>5, NextRemainder
      <4> QED  BY <1>2, <1>3, <1>4, <1>5, <1>9, <3>1, <4>2, <4>6 DEF WholeSoFar, Filling
    <3>2. CASE p # block[t]
      <4>1. Held(t, p)' = Held(t, p)
        BY <2>1, <2>2, <2>3, <3>2, BlankAssumption DEF Held
      <4> QED  BY <1>4, <3>2, <4>1 DEF AloneInv, WholeSoFar
    <3> QED  BY <3>1, <3>2
  <2> QED  BY <1>6, <1>7, <2>5, <2>6 DEF AloneInv
<1> QED  BY <1>8, <1>9

\* process_thread_buffer: the entries simulated are whole executions of every
\* block, and the last critical section switches the fills with the sampler.
LEMMA FlushAlone ==
    ASSUME NEW t \in Threads, IInv, IInv', AloneInv(t), Flush(t)
    PROVE  AloneInv(t)'
<1> USE DEF At
<1>1. loc \in [Threads -> Locs] /\ current[t] \in 0 .. Capacity /\ Capacity \in Nat
  BY CapacityAssumption DEF IInv, TypeOK
<1>2. CASE ReadSampler(t)
  <2>1. /\ loc[t] = "sample" /\ loc'[t] \in {"clear", "process"}
        /\ UNCHANGED <<buffer, current, accesses, AccessCount, fill, check>>
        /\ isSampling'[t] = Sampling(0) /\ numElements'[t] = current[t]
    BY <1>1, <1>2 DEF ReadSampler, Goto, IInv, TypeOK, bufferVars, pointVars
  <2>2. ReadsStable(t)'
    BY <2>1 DEF ReadsStable, Sampling, Period
  <2>3. BlankBeyond(t)' /\ ~Filling(t) /\ ~Filling(t)'
    BY <2>1 DEF AloneInv, BlankBeyond, Filling
  <2> QED  BY <2>1, <2>2, <2>3, QuietStep DEF AloneInv, ModeShape
<1>3. CASE Process(t)
  <2>1. /\ loc[t] = "process" /\ loc'[t] = "limit"
        /\ UNCHANGED <<buffer, current, AccessCount, fill, check, isSampling, numElements>>
    BY <1>1, <1>3 DEF Process, Goto, bufferVars, pointVars, flushVars
  <2>2. ReadsStable(t)' /\ BlankBeyond(t)' /\ ModeShape' /\ ~Filling(t) /\ ~Filling(t)'
    BY <2>1 DEF AloneInv, ReadsStable, BlankBeyond, Filling, Sampling, Period, ModeShape
  <2>3. \A p \in Points : WholeSoFar(t, p)'
    BY <2>1, <2>2, SameBuffer DEF AloneInv
  <2>4. ASSUME NEW p \in Points PROVE accesses'[p] = 0
    <3>1. accesses[p] = 0
      BY DEF AloneInv, NothingLeftOver
    <3>2. numElements[t] = current[t]
      BY <2>1 DEF AloneInv, ReadsStable
    <3>3. {n \in Entries(t) : buffer[t][n] = p} = Held(t, p)
      BY <1>1, <3>2, BlankAssumption DEF Entries, Held, AloneInv, BlankBeyond
    <3>4. EntriesOf(t, p) = Cardinality(Held(t, p))
      BY <3>3 DEF EntriesOf
    <3>5. Cardinality(Held(t, p)) % Memops[p] = 0 /\ Cardinality(Held(t, p)) \in Nat
      BY <2>2, HeldFinite DEF AloneInv, WholeSoFar
    <3>6. (accesses[p] + EntriesOf(t, p)) % Memops[p] = 0
      BY <3>1, <3>4, <3>5
    <3> QED  BY <1>3, <3>1, <3>6 DEF Process
  <2> QED  BY <2>2, <2>3, <2>4 DEF AloneInv, NothingLeftOver
<1>4. CASE LimitBlocks(t)
  <2>1. /\ loc[t] = "limit" /\ loc'[t] = "switch"
        /\ UNCHANGED <<buffer, current, accesses, AccessCount, isSampling, numElements>>
    BY <1>1, <1>4 DEF LimitBlocks, Goto, bufferVars, flushVars
  <2>2. PICK removed : check' = check \ removed /\ fill' = fill \ removed
    BY <1>4 DEF LimitBlocks
  <2>3. ReadsStable(t)' /\ BlankBeyond(t)' /\ ~Filling(t) /\ ~Filling(t)'
    BY <2>1 DEF AloneInv, ReadsStable, BlankBeyond, Filling, Sampling, Period
  <2>4. fill' = IF Sampling(0) THEN check' ELSE {}
    BY <2>2 DEF AloneInv, ModeShape
  <2> QED  BY <2>1, <2>3, <2>4, QuietStep
<1>5. CASE SwitchSampling(t)
  <2>1. /\ loc[t] = "switch" /\ loc'[t] = "clear"
        /\ UNCHANGED <<buffer, current, accesses, check>>
        /\ AccessCount' = (AccessCount + numElements[t]) % Period
    BY <1>1, <1>5 DEF SwitchSampling, Goto, bufferVars
  <2>2. ReadsStable(t)' /\ BlankBeyond(t)' /\ ~Filling(t) /\ ~Filling(t)'
    BY <2>1 DEF AloneInv, ReadsStable, BlankBeyond, Filling
  <2>3. \A p \in Points : WholeSoFar(t, p)'
    BY <2>1, <2>2, SameBuffer DEF AloneInv
  <2>4. Sampling(0)' <=> Sampling(numElements[t])
    <3>1. AccessCount \in Nat /\ numElements[t] \in Nat
      BY PeriodType, CapacityAssumption DEF IInv, TypeOK
    <3>2. AccessCount + numElements[t] \in Nat
      BY <3>1
    <3>3. (((AccessCount + numElements[t]) % Period) + 0) % Period
             = (AccessCount + numElements[t]) % Period
      BY <3>2, PeriodType, RemainderTwice
    <3>4. Sampling(0)' <=> (AccessCount' + 0) % Period < SampleOn
      BY DEF Sampling, Period
    <3> QED  BY <2>1, <3>3, <3>4 DEF Sampling
  <2>5. isSampling[t] = Sampling(0)
    BY <2>1 DEF AloneInv, ReadsStable
  <2>6. fill \ PointsWithKey(NonmaxKeys) = {} /\ fill \cup (loaded \X NonmaxKeys) = check
    BY ImagesAssumption DEF IInv, PointsShape, PointsWithKey
  <2>7. fill' = IF Sampling(numElements[t]) THEN check ELSE {}
    <3>1. CASE SwitchesMode(numElements[t])
      <4>1. fill' = IF isSampling[t] THEN fill \ PointsWithKey(NonmaxKeys)
                    ELSE fill \cup (loaded \X NonmaxKeys)
        BY <1>5, <3>1 DEF SwitchSampling, SwitchFills
      <4>2. Sampling(numElements[t]) <=> ~Sampling(0)
        BY <3>1 DEF SwitchesMode, Sampling
      <4> QED  BY <2>5, <2>6, <4>1, <4>2
    <3>2. CASE ~SwitchesMode(numElements[t])
      <4>1. fill' = fill /\ fill = IF Sampling(0) THEN check ELSE {}
        BY <1>5, <3>2 DEF SwitchSampling, SwitchFills, AloneInv, ModeShape
      <4>2. Sampling(0) = Sampling(numElements[t])
        BY <3>2 DEF SwitchesMode
      <4> QED  BY <4>1, <4>2
    <3> QED  BY <3>1, <3>2
  <2> QED  BY <2>1, <2>2, <2>3, <2>4, <2>7 DEF AloneInv, ModeShape, NothingLeftOver
<1>6. CASE ClearBuffer(t)
  <2>1. /\ loc'[t] \in {"done", "inc"} /\ buffer'[t] = EmptyBuffer
        /\ UNCHANGED <<accesses, AccessCount, fill, check>>
    BY <1>1, <1>6 DEF ClearBuffer, Goto, IInv, TypeOK, pointVars
  <2>2. ReadsStable(t)' /\ BlankBeyond(t)' /\ ModeShape' /\ NothingLeftOver' /\ ~Filling(t)'
    BY <2>1 DEF AloneInv, ReadsStable, BlankBeyond, Filling, EmptyBuffer, ModeShape,
           NothingLeftOver, Sampling, Period
  <2>3. ASSUME NEW p \in Points PROVE WholeSoFar(t, p)'
    <3>1. Held(t, p)' = {}
      BY <2>1, BlankAssumption DEF Held, EmptyBuffer
    <3>2. Cardinality(Held(t, p)') = 0
      BY <3>1, FS_EmptySet
    <3>3. \A m \in Nat \ {0} : 0 % m = 0
      OBVIOUS
    <3> QED  BY <2>2, <3>2, <3>3, MemopsType DEF WholeSoFar
  <2> QED  BY <2>2, <2>3 DEF AloneInv
<1> QED  BY <1>2, <1>3, <1>4, <1>5, <1>6 DEF Flush

\* With a single thread, until a second image is loaded, all of this is
\* inductive.
LEMMA AloneInvariance ==
    ASSUME NEW t \in Threads, Threads = {t}
    PROVE  Spec => [](loaded = {FirstImage} => AloneInv(t))
<1>1. Init => AloneInv(t)
  BY InitAlone
<1>2. /\ UntilSecondImage /\ UntilSecondImage'
      /\ (loaded = {FirstImage} => AloneInv(t))
      /\ [Next]_vars
      => (loaded = {FirstImage} => AloneInv(t))'
  <2> SUFFICES ASSUME UntilSecondImage, UntilSecondImage', loaded' = {FirstImage},
                      loaded = {FirstImage} => AloneInv(t), [Next]_vars
               PROVE  AloneInv(t)'
    OBVIOUS
  <2>1. loaded \subseteq loaded'
    BY DEF Next, Enter, LoadImage, Finish, Snippets, CheckBuffer, IncBuffer, Fill, Flush,
           ReadSampler, Process, LimitBlocks, SwitchSampling, ClearBuffer, pointVars, vars
  <2>2. loaded = {FirstImage} /\ IInv /\ IInv' /\ AloneInv(t)
    BY <2>1 DEF UntilSecondImage
  <2>3. ~\E image \in Images : LoadImage(t, image)
    BY <2>2 DEF LoadImage
  <2>4. CASE UNCHANGED vars
    BY <2>2, <2>4 DEF vars, programVars, bufferVars, pointVars, flushVars, AloneInv,
           ModeShape, ReadsStable, BlankBeyond, WholeSoFar, NothingLeftOver, Held, Filling,
           Slot, Sampling, Period
  <2>5. CASE Finish
    <3>1. /\ loc[t] = "idle" /\ loc'[t] = "sample"
          /\ UNCHANGED <<buffer, current, accesses, AccessCount, fill, check>>
      BY <2>5 DEF Finish, bufferVars, pointVars
    <3>2. ReadsStable(t)' /\ BlankBeyond(t)' /\ ~Filling(t) /\ ~Filling(t)'
      BY <2>2, <3>1 DEF AloneInv, ReadsStable, BlankBeyond, Filling
    <3> QED  BY <2>2, <3>1, <3>2, QuietStep DEF AloneInv, ModeShape
  <2> QED  BY <2>2, <2>3, <2>4, <2>5, CountAlone, FillAlone, FlushAlone DEF Next, Snippets
<1> QED  BY <1>1, <1>2, Invariance, PTL DEF Spec

\* A program with one thread and one image: the fills are on exactly while the
\* sampler samples, whichever blocks have been switched off for good.
THEOREM ModeFollows == Spec => []ModeFollowsSampler
<1>1. ASSUME NEW t \in Threads, Threads = {t}
      PROVE  Spec => []ModeFollowsSampler
  <2>1. UntilSecondImage /\ (loaded = {FirstImage} => AloneInv(t)) => ModeFollowsSampler
    BY DEF UntilSecondImage, IInv, PointsShape, AloneInv, ModeShape, ModeFollowsSampler,
           Alone
  <2> QED  BY <1>1, <2>1, AloneInvariance, Invariance, PTL
<1>2. CASE ~\E t \in Threads : Threads = {t}
  <2>1. Cardinality(Threads) # 1
    BY <1>2, ThreadsAssumption, FS_Singleton
  <2>2. ModeFollowsSampler
    BY <2>1 DEF ModeFollowsSampler, Alone
  <2> QED  BY <2>2, PTL
<1> QED  BY <1>1, <1>2

\* A program with one thread and one image: what is simulated of a block are
\* whole executions, as tool_image_fini asserts.
THEOREM BlocksAreWhole == Spec => []WholeBlocks
<1>1. ASSUME NEW t \in Threads, Threads = {t}
      PROVE  Spec => []WholeBlocks
  <2>1. (loaded = {FirstImage} => AloneInv(t)) => WholeBlocks
    BY DEF AloneInv, NothingLeftOver, WholeBlocks, Alone
  <2> QED  BY <1>1, <2>1, AloneInvariance, PTL
<1>2. CASE ~\E t \in Threads : Threads = {t}
  <2>1. Cardinality(Threads) # 1
    BY <1>2, ThreadsAssumption, FS_Singleton
  <2>2. WholeBlocks
    BY <2>1 DEF WholeBlocks, Alone
  <2> QED  BY <2>2, PTL
<1> QED  BY <1>1, <1>2
=============================================================================
