---------------------------- MODULE BufferSampling ----------------------------
(***************************************************************************)
(* The address buffer of the cache simulation: the code that the tool      *)
(* inserts at every memory operation fills it, process_thread_buffer       *)
(* empties it, and, as it does so, switches the inserted code off and on,  *)
(* block by block when a block has been simulated often enough and all     *)
(* together when the sampling period changes between on and off.           *)
(*                                                                         *)
(* A block with m memory operations carries a check of the free space and  *)
(* an increment of the buffer's length by m at its first operation, and a  *)
(* fill at each operation, which addresses its entry backwards from the    *)
(* new length.  The three kinds of points are switched separately, while   *)
(* other threads are stopped anywhere, so a thread may find a point        *)
(* switched in the middle of a block.                                      *)
(*                                                                         *)
(* A point is a pair <<image, block>>, but the key it is switched by holds *)
(* only the number of the block, not the image.  The stop of the other     *)
(* threads around a switch (module ThreadSuspend) makes a switch one step. *)
(* All threads are registered.  With several images one thread is modelled *)
(* (FastData's rows of other threads are not).                             *)
(***************************************************************************)
EXTENDS Integers, FiniteSets

CONSTANTS Threads,
          Images, FirstImage,       \* instrumented files; the executable
          Blocks,                   \* block numbers
          Block0,                   \* the block of memory operation 0
          Memops,                   \* memory operations of each <<image, block>>
          Capacity,                 \* entries of a buffer, BUFFER_ENTRIES
          AccessLimit,              \* METASIM_SAMPLE_MAX, 0: no limit
          SampleOn, SampleOff,      \* METASIM_SAMPLE_ON, METASIM_SAMPLE_OFF
          NoThread, Blank

Points == Images \X Blocks

ASSUME ThreadsAssumption == IsFiniteSet(Threads) /\ NoThread \notin Threads
ASSUME ImagesAssumption == FirstImage \in Images /\ Block0 \in Blocks
ASSUME CapacityAssumption == Capacity \in Nat
ASSUME MemopsAssumption == Memops \in [Points -> 1 .. Capacity]
ASSUME LimitAssumption == AccessLimit \in Nat
ASSUME SampleAssumption == SampleOn \in Nat \ {0} /\ SampleOff \in Nat
ASSUME BlankAssumption == Blank \notin Points

VARIABLES loc,          \* where each thread is
          block,        \* the <<image, block>> it executes
          memop,        \* the next memory operation to fill in, from 0
          current,      \* BUFFER_CURRENT of the thread's buffer
          buffer,       \* its entries; an entry is the point that filled it
          corrupt,      \* a fill has written outside the entries
          counters,     \* executions of each block by each thread
          loaded,       \* AllData->allimages
          check, inc, fill,     \* the enabled points of each type
          NonmaxKeys,   \* blocks whose fills follow the sampler
          AccessCount,  \* Sampler->AccessCount, modulo the period
          dataLock,     \* owner of AllData across two steps
          numElements, isSampling,      \* locals of process_thread_buffer
          accesses,     \* entries simulated of each point, modulo its Memops
          exiting       \* the program has joined its threads and exits

programVars == <<loc, block, memop>>
bufferVars == <<current, buffer, corrupt>>
pointVars == <<loaded, check, inc, fill, NonmaxKeys>>
flushVars == <<numElements, isSampling>>
vars == <<programVars, bufferVars, counters, pointVars, AccessCount, dataLock,
          flushVars, accesses, exiting>>

Period == SampleOn + SampleOff
\* SamplingMethod::CurrentlySampling(count); SampleOn = 0 switches all points
\* off when the image is loaded, which leaves nothing to model
Sampling(count) == (AccessCount + count) % Period < SampleOn
\* a defective variant: the count has been added before
SwitchesModeCountedFirst(count) == Sampling(count) # Sampling(2 * count)
SwitchesMode(count) == Sampling(0) # Sampling(count)
ExceedsAccessLimit(count) == AccessLimit > 0 /\ count > AccessLimit

Locs == {"idle", "check", "sample", "process", "limit", "switch", "clear", "inc",
         "fill", "done"}

TypeOK ==
    /\ loc \in [Threads -> Locs]
    /\ block \in [Threads -> Points]
    /\ memop \in [Threads -> Nat]
    /\ current \in [Threads -> 0 .. Capacity]
    /\ buffer \in [Threads -> [1 .. Capacity -> Points \cup {Blank}]]
    /\ corrupt \in BOOLEAN
    /\ counters \in [Threads -> [Points -> 0 .. AccessLimit + 1]]
    /\ loaded \subseteq Images
    /\ check \subseteq Points /\ inc \subseteq Points /\ fill \subseteq Points
    /\ NonmaxKeys \subseteq Blocks
    /\ AccessCount \in 0 .. Period - 1
    /\ dataLock \in Threads \cup {NoThread}
    /\ numElements \in [Threads -> 0 .. Capacity]
    /\ isSampling \in [Threads -> BOOLEAN]
    /\ accesses \in [Points -> Nat]
    /\ exiting \in BOOLEAN

EmptyBuffer == [n \in 1 .. Capacity |-> Blank]
PointsOf(image) == {image} \X Blocks
PointsWithKey(keys) == Images \X keys

Init ==
    /\ loc = [t \in Threads |-> "idle"]
    /\ block = [t \in Threads |-> <<FirstImage, Block0>>]
    /\ memop = [t \in Threads |-> 0]
    /\ current = [t \in Threads |-> 0]
    /\ buffer = [t \in Threads |-> EmptyBuffer]
    /\ corrupt = FALSE
    /\ counters = [t \in Threads |-> [p \in Points |-> 0]]
    /\ loaded = {FirstImage}
    /\ check = PointsOf(FirstImage)
    /\ inc = PointsOf(FirstImage)
    /\ fill = PointsOf(FirstImage)
    /\ NonmaxKeys = Blocks
    /\ AccessCount = 0
    /\ dataLock = NoThread
    /\ numElements = [t \in Threads |-> 0]
    /\ isSampling = [t \in Threads |-> FALSE]
    /\ accesses = [p \in Points |-> 0]
    /\ exiting = FALSE

At(t, place) == ~corrupt /\ loc[t] = place
Goto(t, place) == loc' = [loc EXCEPT ![t] = place]

-----------------------------------------------------------------------------
(* The inserted code.                                                       *)

\* t executes a block; the counter saturates where ExceedsAccessLimit stops
\* telling its values apart
Enter(t, p) ==
    /\ At(t, "idle")
    /\ ~exiting
    /\ p[1] \in loaded
    /\ block' = [block EXCEPT ![t] = p]
    /\ counters' = [counters EXCEPT ![t][p] = IF @ > AccessLimit THEN @ ELSE @ + 1]
    /\ Goto(t, "check")
    /\ UNCHANGED <<memop, bufferVars, pointVars, AccessCount, dataLock, flushVars, accesses,
                   exiting>>

\* a defective variant: the block's own operations are left out
FullIgnoresMemops(t) == current[t] >= Capacity

\* cmp current, BUFFER_ENTRIES - m; jl past the call of process_buffer
Full(t) == current[t] >= Capacity - Memops[block[t]]

CheckBuffer(t) ==
    /\ At(t, "check")
    /\ Goto(t, IF block[t] \in check /\ Full(t) THEN "sample" ELSE "inc")
    /\ UNCHANGED <<block, memop, bufferVars, counters, pointVars, AccessCount, dataLock,
                   flushVars, accesses, exiting>>

IncBuffer(t) ==
    /\ At(t, "inc")
    /\ current' = IF block[t] \in inc
                    THEN [current EXCEPT ![t] = @ + Memops[block[t]]]
                    ELSE current
    /\ Goto(t, "fill")
    /\ UNCHANGED <<block, memop, buffer, corrupt, counters, pointVars, AccessCount,
                   dataLock, flushVars, accesses, exiting>>

\* a defective variant: all operations share an entry
SlotOfBlock(t) == current[t] + 1 - Memops[block[t]]

\* the entry of the next memory operation: 1 + memopIdInBlock - m past current
Slot(t) == current[t] + 1 + memop[t] - Memops[block[t]]

NextMemop(t) ==
    IF memop[t] + 1 < Memops[block[t]]
      THEN memop' = [memop EXCEPT ![t] = @ + 1] /\ UNCHANGED loc
      ELSE memop' = [memop EXCEPT ![t] = 0] /\ Goto(t, "idle")

Fill(t) ==
    /\ At(t, "fill")
    /\ IF block[t] \notin fill
         THEN UNCHANGED <<buffer, corrupt>>
         ELSE IF Slot(t) \in 1 .. Capacity
                THEN /\ buffer' = [buffer EXCEPT ![t][Slot(t)] = block[t]]
                     /\ UNCHANGED corrupt
                ELSE corrupt' = TRUE /\ UNCHANGED buffer
    /\ NextMemop(t)
    /\ UNCHANGED <<block, current, counters, pointVars, AccessCount, dataLock, flushVars,
                   accesses, exiting>>

-----------------------------------------------------------------------------
(* process_thread_buffer: three critical sections of AllData, then the      *)
(* buffer is cleared.                                                       *)

ReadSampler(t) ==
    /\ At(t, "sample")
    /\ dataLock = NoThread
    /\ numElements' = [numElements EXCEPT ![t] = current[t]]
    /\ isSampling' = [isSampling EXCEPT ![t] = Sampling(0)]
    /\ Goto(t, IF NonmaxKeys = {} THEN "clear" ELSE "process")
    /\ UNCHANGED <<block, memop, bufferVars, counters, pointVars, AccessCount, dataLock,
                   accesses, exiting>>

Entries(t) == 1 .. numElements[t]
EntriesOf(t, p) == Cardinality({n \in Entries(t) : buffer[t][n] = p})

\* Refresh and ProcessBuffer: blank entries are skipped
Process(t) ==
    /\ At(t, "process")
    /\ dataLock = NoThread
    /\ accesses' = IF isSampling[t]
                     THEN [p \in Points |-> (accesses[p] + EntriesOf(t, p)) % Memops[p]]
                     ELSE accesses
    /\ Goto(t, "limit")
    /\ UNCHANGED <<block, memop, bufferVars, counters, pointVars, AccessCount, dataLock,
                   flushVars, exiting>>

\* a blank entry is all zero: it is taken for one of memory operation 0
EntryPoint(e) == IF e = Blank THEN <<FirstImage, Block0>> ELSE e

OverLimit(t) ==
    {EntryPoint(buffer[t][n])[2] : n \in
        {n \in Entries(t) : ExceedsAccessLimit(counters[t][EntryPoint(buffer[t][n])])}}

\* a defective variant: the block stays in NonmaxKeys
LimitKeepsKey(t) ==
    /\ At(t, "limit")
    /\ dataLock = NoThread
    /\ dataLock' = t
    /\ LET MemsRemoved == IF isSampling[t] THEN OverLimit(t) \cap NonmaxKeys ELSE {}
       IN /\ check' = check \ PointsWithKey(MemsRemoved)
          /\ inc' = inc \ PointsWithKey(MemsRemoved)
          /\ fill' = fill \ PointsWithKey(MemsRemoved)
    /\ Goto(t, "switch")
    /\ UNCHANGED <<block, memop, bufferVars, counters, loaded, NonmaxKeys, AccessCount,
                   flushVars, accesses, exiting>>

\* SetDynamicPoints on the three keys of every block in MemsRemoved
LimitBlocks(t) ==
    /\ At(t, "limit")
    /\ dataLock = NoThread
    /\ dataLock' = t
    /\ LET MemsRemoved == IF isSampling[t] THEN OverLimit(t) \cap NonmaxKeys ELSE {}
       IN /\ NonmaxKeys' = NonmaxKeys \ MemsRemoved
          /\ check' = check \ PointsWithKey(MemsRemoved)
          /\ inc' = inc \ PointsWithKey(MemsRemoved)
          /\ fill' = fill \ PointsWithKey(MemsRemoved)
    /\ Goto(t, "switch")
    /\ UNCHANGED <<block, memop, bufferVars, counters, loaded, AccessCount, flushVars,
                   accesses, exiting>>

\* a defective variant: sampling turns every fill on again
SwitchAllFills(t) ==
    fill' = IF ~SwitchesMode(numElements[t]) THEN fill
            ELSE IF isSampling[t] THEN fill \ PointsWithKey(NonmaxKeys)
            ELSE fill \cup PointsWithKey(Blocks)

\* the keys in NonmaxKeys are those of the fills
SwitchFills(t) ==
    fill' = IF ~SwitchesMode(numElements[t]) THEN fill
            ELSE IF isSampling[t] THEN fill \ PointsWithKey(NonmaxKeys)
            ELSE fill \cup (loaded \X NonmaxKeys)

\* a defective variant: the check and the increment follow the sampler, too
SwitchAllPoints(t) ==
    /\ At(t, "switch")
    /\ SwitchFills(t)
    /\ IF SwitchesMode(numElements[t]) /\ isSampling[t]
         THEN check' = {} /\ inc' = {}
         ELSE UNCHANGED <<check, inc>>
    /\ AccessCount' = (AccessCount + numElements[t]) % Period
    /\ dataLock' = NoThread
    /\ Goto(t, "clear")
    /\ UNCHANGED <<block, memop, bufferVars, counters, loaded, NonmaxKeys, flushVars,
                   accesses, exiting>>

SwitchSampling(t) ==
    /\ At(t, "switch")
    /\ SwitchFills(t)
    /\ AccessCount' = (AccessCount + numElements[t]) % Period
    /\ dataLock' = NoThread
    /\ Goto(t, "clear")
    /\ UNCHANGED <<block, memop, bufferVars, counters, loaded, check, inc, NonmaxKeys,
                   flushVars, accesses, exiting>>

\* DONE_WITH_BUFFER
ClearBuffer(t) ==
    /\ At(t, "clear")
    /\ current' = [current EXCEPT ![t] = 0]
    /\ buffer' = [buffer EXCEPT ![t] = EmptyBuffer]
    /\ numElements' = [numElements EXCEPT ![t] = 0]
    /\ isSampling' = [isSampling EXCEPT ![t] = FALSE]
    /\ Goto(t, IF exiting THEN "done" ELSE "inc")
    /\ UNCHANGED <<block, memop, corrupt, counters, pointVars, AccessCount, dataLock,
                   accesses, exiting>>

-----------------------------------------------------------------------------
(* tool_dynamic_init and tool_image_init of a library that is loaded later. *)
(* Every fill known so far is (again) one that follows the sampler.         *)
LoadImage(t, image) ==
    /\ At(t, "idle")
    /\ ~exiting
    /\ dataLock = NoThread
    /\ image \notin loaded
    /\ loaded' = loaded \cup {image}
    /\ check' = check \cup PointsOf(image)
    /\ inc' = inc \cup PointsOf(image)
    /\ fill' = fill \cup PointsOf(image)
    /\ NonmaxKeys' = Blocks
    /\ UNCHANGED <<programVars, bufferVars, counters, AccessCount, dataLock, flushVars,
                   accesses, exiting>>

(* tool_image_fini of the executable, when the program has joined its       *)
(* threads: what is left in every thread's buffer is processed.             *)
Finish ==
    /\ ~corrupt
    /\ ~exiting
    /\ \A t \in Threads : loc[t] = "idle"
    /\ exiting' = TRUE
    /\ loc' = [t \in Threads |-> "sample"]
    /\ UNCHANGED <<block, memop, bufferVars, counters, pointVars, AccessCount, dataLock,
                   flushVars, accesses>>

Flush(t) ==
    ReadSampler(t) \/ Process(t) \/ LimitBlocks(t) \/ SwitchSampling(t) \/ ClearBuffer(t)

Snippets(t) == CheckBuffer(t) \/ IncBuffer(t) \/ Fill(t)

Next ==
    \/ \E t \in Threads :
          \/ \E p \in Points : Enter(t, p)
          \/ \E image \in Images : LoadImage(t, image)
          \/ Snippets(t)
          \/ Flush(t)
    \/ Finish

(* Threads go on once they are in a block, and the program executes every   *)
(* block of the first image again and again.                                *)
Fairness ==
    \A t \in Threads :
        /\ WF_vars(Snippets(t) \/ Flush(t))
        /\ \A p \in PointsOf(FirstImage) : SF_vars(Enter(t, p))

Spec == Init /\ [][Next]_vars
FairSpec == Spec /\ Fairness

-----------------------------------------------------------------------------
(* Properties.                                                              *)

(* No fill writes outside the entries of its buffer, not over its header    *)
(* (which holds the length) and not past its end, whatever is switched      *)
(* while the thread is in the middle of a block.                            *)
FillsInBounds == ~corrupt

(* A block that has gone over its access limit and has been switched off    *)
(* records nothing any more: its fills stay off for good.                   *)
LimitIsFinal == [][\A p \in Points : p[1] \in loaded /\ p \notin check
                                       => p \notin fill']_vars

(* Whatever the threads do, the fills that follow the sampler are all on or *)
(* all off when no switch is in progress.                                   *)
OneMode ==
    dataLock = NoThread =>
        \/ loaded \X NonmaxKeys \subseteq fill
        \/ (loaded \X NonmaxKeys) \cap fill = {}

\* what holds of one thread until a second image is loaded
Alone == Cardinality(Threads) = 1 /\ loaded = {FirstImage}

(* With one thread and one image the fills are on exactly while the sampler *)
(* samples.                                                                 *)
ModeFollowsSampler ==
    Alone /\ dataLock = NoThread =>
        loaded \X NonmaxKeys = IF Sampling(0) THEN fill ELSE (loaded \X NonmaxKeys) \ fill

(* With one thread and one image a block is simulated as a whole: between   *)
(* two flushes the accesses simulated for a block are a multiple of its     *)
(* memory operations (the assertion of tool_image_fini).                    *)
WholeBlocks ==
    Alone => \A p \in Points : accesses[p] = 0

(* Sampling that has been switched off comes back, as the program runs on   *)
(* with one thread and one image, unless every block has been switched off  *)
(* for good.                                                                *)
SamplingResumes ==
    []<>(~Alone \/ exiting \/ NonmaxKeys = {} \/ loaded \X NonmaxKeys \subseteq fill)
=============================================================================
