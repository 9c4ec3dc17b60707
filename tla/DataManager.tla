---------------------------- MODULE DataManager ----------------------------
(***************************************************************************)
(* The data a tool's run time keeps per image and thread (DataManager and  *)
(* FastData of InstrumentationCommon.hpp), with the four tools that keep   *)
(* it there: basic block and loop counters (CounterFunctions.cpp), the     *)
(* cache simulation (Simulation.cpp), function timers (TimerFunctions.cpp) *)
(* and loop timers (LoopTimer.cpp).                                        *)
(*                                                                         *)
(* An object of a tool is <<i, 0>>, the one in the data section of image   *)
(* i, or <<i, t>>, made by the run time for thread t.  A thread is its     *)
(* pthread_t, a number.  What a simulated access does to the caches is in  *)
(* CacheHierarchy, sampling in BufferSampling; here every access of a      *)
(* processed buffer is charged to its instruction once.                    *)
(***************************************************************************)
EXTENDS Integers, Sequences, FiniteSets, FiniteSetsExt

CONSTANTS Threads,      \* the pthread_t of the threads; Main loads the images
          Main,
          Images,       \* image keys, positive
          Executable,   \* the image whose object is the master
          Shift, Slots, \* ThreadHashShift, ThreadHashMod + 1
          Kinds,        \* tool -> its counters or timers: sequence of [type, leader]
          Memops,       \* block -> the memory instructions of it
          Addresses,    \* bases of the accesses of a block
          Capacity,     \* of a buffer
          MaxEvents     \* bound, for each tool: executions of instrumented code

Tools == {"counter", "simulation", "function", "loop"}
ASSUME DataAssumption ==
    /\ Threads \subseteq Nat \ {0} /\ Main \in Threads
    /\ Images \subseteq Nat \ {0} /\ Executable \in Images
    /\ Slots \in Nat \ {0} /\ Shift \in Nat \ {0} /\ Capacity \in Nat \ {0} /\ MaxEvents \in [Tools -> Nat]
\* Simulated blocks have memory operations, and they fit into a buffer
\* (the immediate operand of the check, CacheSimulation.C:456).
ASSUME MemopAssumption ==
    /\ DOMAIN Kinds["simulation"] \subseteq DOMAIN Memops /\ Addresses \subseteq Nat
    /\ \A b \in DOMAIN Memops :
          Memops[b] \subseteq Nat /\ IsFiniteSet(Memops[b]) /\ Cardinality(Memops[b]) \in 1 .. Capacity
\* Memory instructions are numbered through the blocks (memopSeq,
\* CacheSimulation.C:653).
ASSUME NumberingAssumption ==
    /\ IsFiniteSet(DOMAIN Memops)
    /\ \A b \in DOMAIN Memops : \E low \in Memops[b] : Memops[b] = low .. low + Cardinality(Memops[b]) - 1
    /\ \A b, c \in DOMAIN Memops : b # c => Memops[b] \cap Memops[c] = {}
\* The counter of an instruction names that of its block (BasicBlockCounter.C:297);
\* the cache simulation counts blocks (CacheSimulation.C:370).
ASSUME LeaderAssumption ==
    \A tl \in {"counter", "simulation", "function", "loop"} :
       /\ IsFiniteSet(DOMAIN Kinds[tl])
       /\ \A x \in DOMAIN Kinds[tl] : Kinds[tl][x].type = "instruction" =>
             /\ tl = "counter" /\ Kinds[tl][x].leader \in DOMAIN Kinds[tl]
             /\ Kinds[tl][Kinds[tl][x].leader].type # "instruction"

VARIABLES tool,       \* which tool the program was instrumented with
          pc,         \* thread -> "none", "alldata", "fastdata", "run" or "done"
          heap,       \* object -> what the tool keeps for an image and a thread
          buffers,    \* buffer -> its entries
          datamap,    \* image -> thread -> object
          allthreads, threadseq, images, firstimage,
          threaddata, \* image -> slot -> [id, data], read by inserted code
          fast,       \* FastData: [imagecount, stats], stats being rows of objects by thread sequence
          failed,     \* the assertion that stopped the process, or "no"
          report,     \* what was printed at exit
          log         \* ghost: every execution of instrumented code, in order

vars == <<tool, pc, heap, buffers, datamap, allthreads, threadseq, images, firstimage,
          threaddata, fast, failed, report, log>>
Managed == <<datamap, allthreads, threadseq, images, firstimage, threaddata>>

-----------------------------------------------------------------------------
Indices == DOMAIN Kinds[tool]
NULL == <<0, 0>>
Put(f, x, v) == [y \in DOMAIN f \cup {x} |-> IF y = x THEN v ELSE f[y]]
Least(S) == Min(S)

\* RangeStats::RangeStats, Update; MAX_64BIT_VALUE is above every address.
Top == 99
ASSUME TopAssumption == \A b \in DOMAIN Memops : \A m \in Memops[b] : \A a \in Addresses : a + m <= Top
NoRange == [min |-> Top, max |-> 0, count |-> 0]
Update(r, addr, n) == [min |-> IF addr < r.min THEN addr ELSE r.min,
                       max |-> IF addr > r.max THEN addr ELSE r.max,
                       count |-> r.count + n]
AllMemops == UNION {Memops[b] : b \in DOMAIN Memops}
NoStats == [m \in AllMemops |-> NoRange]
BlockOf(m) == CHOOSE b \in DOMAIN Memops : m \in Memops[b]

\* An instruction that is counted with its block holds the index of the
\* block's counter where its own would be.
Zeroed(counters) == [x \in Indices |-> IF Kinds[tool][x].type = "instruction" THEN counters[x] ELSE 0]
Index(o, x) == IF Kinds[tool][x].type = "instruction" THEN heap[o].counters[x] ELSE x
Timers == [x \in Indices |-> [accum |-> 0, last |-> 0, depth |-> 0]]
StaticObject(i) ==
    [thread |-> 0, image |-> i, master |-> i = Executable, stats |-> NoStats,
     counters |-> [x \in Indices |-> IF Kinds[tool][x].type = "instruction" THEN Kinds[tool][x].leader ELSE 0],
     timers |-> Timers, handlers |-> NULL, rhandlers |-> NULL, buffer |-> <<i, 0>>]

Init ==
    /\ tool \in Tools
    /\ pc = [t \in Threads |-> IF t = Main THEN "run" ELSE "none"]
    /\ heap = [o \in {<<i, 0>> : i \in Images} |-> StaticObject(o[1])]
    /\ buffers = [o \in {<<i, 0>> : i \in Images} |-> <<>>]
    /\ datamap = <<>> /\ allthreads = {} /\ threadseq = [u \in {Main} |-> 0] /\ images = {} /\ firstimage = 0
    /\ threaddata = [i \in Images |-> [h \in 0 .. Slots - 1 |-> [id |-> 0, data |-> NULL]]]
    /\ fast = [imagecount |-> 0, stats |-> <<>>]
    /\ failed = "no" /\ report = {} /\ log = <<>>

-----------------------------------------------------------------------------
(* The tools' datagen: an object for image i and thread t from a template. *)
(* dm is the data map so far, hp the heap; the result is the new heap with *)
(* the object's identity.                                                  *)

\* GenerateCounterArray: the template is given the thread's name, too.
GenerateCounterArray(hp, tmpl, typ, i, t) ==
    LET named == [hp EXCEPT ![tmpl].thread = t, ![tmpl].image = i]
    IN  IF typ = "image" THEN [heap |-> named, data |-> tmpl]
        ELSE [heap |-> Put(named, <<i, t>>, [named[tmpl] EXCEPT !.counters = Zeroed(@), !.master = FALSE]),
              data |-> <<i, t>>]

\* GenerateCacheStats
GenerateCacheStats(hp, dm, tmpl, typ, i, t, first) ==
    LET o == IF typ = "image" THEN tmpl ELSE <<i, t>>
        own == typ = "thread" \/ i = first
        shared == hp[dm[first][t]]
        made == [hp[tmpl] EXCEPT
                   !.thread = t, !.image = i, !.stats = NoStats,
                   !.handlers = IF own THEN <<i, t>> ELSE shared.handlers,
                   !.rhandlers = IF own THEN <<i, t>> ELSE @,
                   !.buffer = IF typ = "thread" THEN <<i, t>> ELSE IF i # first THEN shared.buffer ELSE @,
                   !.counters = IF typ = "thread" THEN Zeroed(@) ELSE @]
    IN  [heap |-> Put(hp, o, made), data |-> o]

\* GenerateFunctionTimers, GenerateLoopTimers
GenerateTimers(hp, tmpl, typ, i, t) ==
    [heap |-> Put(hp, <<i, t>>, [hp[tmpl] EXCEPT !.master = @ /\ typ = "image", !.timers = Timers]),
     data |-> <<i, t>>]

datagen(hp, dm, tmpl, typ, i, t, first) ==
    CASE tool = "counter" -> GenerateCounterArray(hp, tmpl, typ, i, t)
      [] tool = "simulation" -> GenerateCacheStats(hp, dm, tmpl, typ, i, t, first)
      [] OTHER -> GenerateTimers(hp, tmpl, typ, i, t)

-----------------------------------------------------------------------------
HashThread(t) == (t \div Shift) % Slots
\* SetThreadData looks for a slot that is free, and asserts that it was the
\* first one it looked at.
CollidesNever(td, t) == FALSE
Collides(td, t) == td[HashThread(t)].id # 0
Probed(td, t) ==
    LET free == {d \in 0 .. Slots - 1 : td[(HashThread(t) + d) % Slots].id = 0}
    IN  IF free = {} THEN HashThread(t) ELSE (HashThread(t) + Least(free)) % Slots
SetThreadData(td, t, o) == [td EXCEPT ![Probed(td, t)] = [id |-> t, data |-> o]]

\* FastData::FastData, AddImage
NewFastData(o) == [imagecount |-> 0, stats |-> <<[j \in 1 .. Capacity |-> o]>>]
FastAddImage(f, o) ==
    [imagecount |-> f.imagecount + 1,
     stats |-> IF f.imagecount = 0 THEN <<[j \in 1 .. Capacity |-> o]>> ELSE f.stats]

\* tool_image_init, with DataManager::AddImage: the object from the image's
\* data section goes into the table before the data of every thread is made.
\* Images come while the program has one thread (CounterFunctions.cpp:101).
LoadImage(i) ==
    LET o == <<i, 0>>
        threads == allthreads \cup {Main}
        td == SetThreadData(threaddata[i], Main, o)
        first == IF firstimage = 0 THEN i ELSE firstimage
        gen == datagen(heap, datamap, o, "image", i, Main, first)
    IN  /\ failed = "no" /\ report = {} /\ pc[Main] = "run" /\ i \notin images
        /\ allthreads \subseteq {Main} /\ \A t \in Threads \ {Main} : pc[t] = "none"
        /\ images' = images \cup {i} /\ allthreads' = threads /\ firstimage' = first
        /\ threaddata' = [threaddata EXCEPT ![i] =
               IF Cardinality(threads) = 1 THEN [h \in DOMAIN td |-> [td[h] EXCEPT !.data = o]] ELSE td]
        /\ datamap' = Put(datamap, i, [u \in {Main} |-> gen.data])
        /\ heap' = gen.heap
        /\ fast' = IF tool = "simulation"
                   THEN FastAddImage(IF fast.imagecount = 0 THEN NewFastData(gen.data) ELSE fast,
                                     datamap'[Least(images')][Main])
                   ELSE fast
        /\ UNCHANGED <<tool, pc, buffers, threadseq, failed, report, log>>

\* pthread_create, and pthread_join of a thread whose pthread_t may be given
\* to another one afterwards.
Create(t) ==
    /\ failed = "no" /\ report = {} /\ images # {} /\ pc[Main] = "run" /\ pc[t] \in {"none", "done"}
    /\ pc' = [pc EXCEPT ![t] = "alldata"]
    /\ UNCHANGED <<tool, heap, buffers, fast, failed, report, log, Managed>>
Finish(t) ==
    /\ failed = "no" /\ report = {} /\ t # Main /\ pc[t] = "run"
    /\ pc' = [pc EXCEPT ![t] = "done"]
    /\ UNCHANGED <<tool, heap, buffers, fast, failed, report, log, Managed>>

\* tool_thread_init, DataManager::AddThread: the template is the data of the
\* known thread with the least pthread_t.
Template(i) == datamap[i][Least(allthreads)]
ThreadInit(t) ==
    LET made(i) == datagen(heap, datamap, Template(i), "thread", i, t, firstimage)
        \* image after image; what is made for one is made from what is its own
        all == [o \in DOMAIN heap \cup {made(i).data : i \in images} |->
                   IF o[1] \in images THEN made(o[1]).heap[o] ELSE heap[o]]
    IN  /\ failed = "no" /\ report = {} /\ pc[t] = "alldata"
        /\ CASE t \in allthreads ->
                  /\ failed' = "allthreads.count(tid) == 0"
                  /\ UNCHANGED <<pc, heap, buffers, Managed>>
             [] t \notin allthreads /\ \E i \in images : Collides(threaddata[i], t) ->
                  /\ failed' = "actual == h"
                  /\ UNCHANGED <<pc, heap, buffers, Managed>>
             [] OTHER ->
                  /\ heap' = all
                  /\ buffers' = [b \in DOMAIN buffers \cup {<<i, t>> : i \in images} |->
                                     IF b[2] = t THEN <<>> ELSE buffers[b]]
                  /\ datamap' = [i \in images |-> Put(datamap[i], t, made(i).data)]
                  /\ threaddata' = [i \in Images |-> IF i \in images
                                        THEN SetThreadData(threaddata[i], t, made(i).data) ELSE threaddata[i]]
                  /\ threadseq' = Put(threadseq, t, Cardinality(DOMAIN threadseq))
                  /\ allthreads' = allthreads \cup {t}
                  /\ pc' = [pc EXCEPT ![t] = IF tool = "simulation" THEN "fastdata" ELSE "run"]
                  /\ UNCHANGED <<images, firstimage, failed>>
        /\ UNCHANGED <<tool, fast, report, log>>

\* FastData::AddThread, under a lock of its own: other threads may be added
\* to the data manager, or to FastData, first.  A row is what it happens to be
\* until Refresh fills it, unless there is only one image.
FastAddThread(t) ==
    LET seq == threadseq[t] + 1
        size == IF seq > Len(fast.stats) THEN seq ELSE Len(fast.stats)
        old == [r \in 1 .. size |-> IF r <= Len(fast.stats) THEN fast.stats[r] ELSE [j \in 1 .. Capacity |-> NULL]]
    IN  /\ failed = "no" /\ report = {} /\ pc[t] = "fastdata"
        /\ fast' = [fast EXCEPT !.stats =
               IF fast.imagecount = 1
               THEN [old EXCEPT ![seq] = [j \in 1 .. Capacity |-> datamap[Least(images)][t]]] ELSE old]
        /\ pc' = [pc EXCEPT ![t] = "run"]
        /\ UNCHANGED <<tool, heap, buffers, failed, report, log, Managed>>

-----------------------------------------------------------------------------
(* Inserted code.                                                          *)

Own(t, i) == datamap[i][t]
\* What inserted code finds for the thread: the counters and the simulation
\* use the table, the timers GetData.
Found(t, i) == IF tool \in {"counter", "simulation"} THEN threaddata[i][HashThread(t)].data ELSE Own(t, i)

\* FastData::Refresh: with several images, the object of each entry's image.
RefreshNever(f, q, t) == f
Refresh(f, q, t) ==
    IF f.imagecount = 1 THEN f
    ELSE [f EXCEPT !.stats[threadseq[t] + 1] =
             [j \in 1 .. Capacity |-> IF j <= Len(q) THEN Own(t, q[j].image) ELSE @[j]]]

\* ProcessBuffer with AddressRangeHandler::Process, for all n entries: entry j
\* is read from the buffer of the object in row j.
Charge(s, row, n) ==
    LET done[j \in 0 .. n] ==
            IF j = 0 THEN s.heap
            ELSE LET o == row[j]
                     e == s.buffers[s.heap[o].buffer][j]
                 IN  [done[j - 1] EXCEPT ![o].stats[e.memop] = Update(@, e.addr, 1)]
    IN  done[n]
ProcessBuffer(s, n, t) ==
    LET row == s.fast.stats[threadseq[t] + 1]
        ok == \A j \in 1 .. n : row[j] # NULL /\ Len(s.buffers[s.heap[row[j]].buffer]) >= j
    IN  IF ok THEN [s EXCEPT !.heap = Charge(s, row, n)] ELSE [s EXCEPT !.failed = "NULL"]

\* process_thread_buffer, while sampling is on and points are left.
Machine == [heap |-> heap, buffers |-> buffers, fast |-> fast, failed |-> failed]
process_thread_buffer(s, i, t) ==
    LET b == s.heap[datamap[i][t]].buffer
        q == s.buffers[b]
        refreshed == [s EXCEPT !.fast = Refresh(s.fast, q, t)]
    IN  [ProcessBuffer(refreshed, Len(q), t) EXCEPT !.buffers[b] = <<>>]

Event(t, i, kind, x, addr) == [thread |-> t, image |-> i, kind |-> kind, index |-> x, addr |-> addr]
Fill(o, m, addr, k) == [image |-> o[1], memop |-> m, addr |-> addr + m, at |-> k]
\* The entries of a block, in the order of its memory instructions.
Filled(o, b, addr, k) ==
    LET n == Cardinality(Memops[b])
        low == Least(Memops[b])
    IN  [j \in 1 .. n |-> Fill(o, low + j - 1, addr, k)]

\* A block or loop head runs: its counter is incremented; a simulated block
\* has the buffer processed when there is no room, and fills it.
Run(t, i, x, addr) ==
    LET o == Found(t, i)
        room == Len(buffers[heap[o].buffer]) + Cardinality(Memops[x]) <= Capacity
        s == IF tool = "simulation" /\ ~room THEN process_thread_buffer(Machine, i, t) ELSE Machine
        b == s.heap[o].buffer
    IN  /\ failed = "no" /\ report = {} /\ pc[t] = "run" /\ i \in images /\ Len(log) < MaxEvents[tool]
        /\ tool \in {"counter", "simulation"} /\ Kinds[tool][x].type # "instruction"
        /\ heap' = [s.heap EXCEPT ![o].counters[x] = @ + 1]
        /\ buffers' = IF tool = "simulation"
                      THEN [s.buffers EXCEPT ![b] = @ \o Filled(o, x, addr, Len(log) + 1)] ELSE s.buffers
        /\ fast' = s.fast /\ failed' = s.failed
        /\ log' = Append(log, Event(t, i, "run", x, addr))
        /\ UNCHANGED <<tool, pc, report, Managed>>

\* The time stamp counter: the number of events so far.
Now == Len(log) + 1
\* function_entry, loop_entry
function_entry(r) == [r EXCEPT !.last = IF r.depth = 0 THEN Now ELSE @, !.depth = @ + 1]
loop_entry(r) == [r EXCEPT !.last = Now]
\* function_exit, loop_exit
function_exit(r) ==
    IF r.depth = 1 THEN [accum |-> r.accum + Now - r.last, last |-> Now, depth |-> 0]
    ELSE [r EXCEPT !.depth = @ - 1]
loop_exit(r) == [r EXCEPT !.accum = @ + Now - r.last]

\* How often the thread is inside function or loop x, k events into the log.
Count(k, t, i, kind, x) == Cardinality({j \in 1 .. k : log[j].thread = t /\ log[j].image = i
                                                          /\ log[j].kind = kind /\ log[j].index = x})
Depth(k, t, i, x) == Count(k, t, i, "enter", x) - Count(k, t, i, "exit", x)
Timed(t, i, x, kind, r) ==
    /\ failed = "no" /\ report = {} /\ pc[t] = "run" /\ i \in images /\ Len(log) < MaxEvents[tool]
    /\ heap' = [heap EXCEPT ![Found(t, i)].timers[x] = r]
    /\ log' = Append(log, Event(t, i, kind, x, 0))
    /\ UNCHANGED <<tool, pc, buffers, fast, failed, report, Managed>>
Timer(t, i, x) == heap[Found(t, i)].timers[x]
\* A function may call itself; a loop is left before it is entered again.
Enter(t, i, x) ==
    /\ tool \in {"function", "loop"} /\ (tool = "loop" => Depth(Len(log), t, i, x) = 0)
    /\ i \in images /\ pc[t] = "run"
    /\ Timed(t, i, x, "enter", IF tool = "function" THEN function_entry(Timer(t, i, x)) ELSE loop_entry(Timer(t, i, x)))
Leave(t, i, x) ==
    /\ tool \in {"function", "loop"} /\ Depth(Len(log), t, i, x) > 0
    /\ Timed(t, i, x, "exit", IF tool = "function" THEN function_exit(Timer(t, i, x)) ELSE loop_exit(Timer(t, i, x)))

-----------------------------------------------------------------------------
(* tool_image_fini of the executable, when it has joined its threads.      *)

Line(i, x, seq, values) == [image |-> i, index |-> x, seq |-> seq, values |-> values]
Everyone == -1

\* What the heading says: how many images and threads, and in a file of
\* counters how many blocks (or instructions) and loops they count.
Tally(i) == LET loops == {x \in DOMAIN Kinds["counter"] : Kinds["counter"][x].type = "loop"}
            IN  [blocks |-> Cardinality(DOMAIN Kinds["counter"] \ loops), loops |-> Cardinality(loops)]
Heading == <<Cardinality(images), Cardinality(allthreads)>>
CounterHeading ==
    Line(0, 0, 0, Heading \o <<SumFunction([i \in images |-> Tally(i).blocks]), SumFunction([i \in images |-> Tally(i).loops])>>)
\* In a file of the simulation the accesses that were made, from the counters
\* of the blocks, and those that were processed, from the ranges.
Objects == {Own(t, i) : t \in allthreads, i \in images}
TotalMemop(hp) ==
    SumFunction([o \in Objects |-> SumFunction([b \in Indices |-> hp[o].counters[b] * Cardinality(Memops[b])])])
Sampled(hp) == SumFunction([o \in Objects |-> SumFunction([m \in AllMemops |-> hp[o].stats[m].count])])
SimulationHeading(hp) == Line(0, 0, 0, Heading \o <<TotalMemop(hp), Sampled(hp)>>)

\* A line for each image says whether it is the executable (1) or a library.
ImageType(o) == IF heap[o].master THEN 1 ELSE 0
CounterImages == {Line(i, 0, 0, <<ImageType(Own(Main, i)), Tally(i).blocks, Tally(i).loops>>) : i \in images}
SimulationImages == {Line(i, 0, 0, <<ImageType(Own(Main, i))>>) : i \in images}

\* CounterFunctions.cpp: a line with the sum over all threads, and one for
\* each thread that ran the block or loop (PRINT_MINIMUM is 1).
CounterLinesOfMain ==
    UNION {LET n == heap[Own(Main, i)].counters[Index(Own(Main, i), x)]
           IN  {Line(i, x, seq, <<n>>) : seq \in IF n > 0 THEN {Everyone, 0} ELSE {}} : i \in images, x \in Indices}
CounterLinesOf(i, x) ==
    LET idx == Index(Own(Main, i), x)
        of == [t \in allthreads |-> heap[Own(t, i)].counters[idx]]
        sum == SumFunction(of)
    IN  {Line(i, x, Everyone, <<sum>>) : n \in {1} \cap 1 .. sum}
            \cup {Line(i, x, threadseq[t], <<of[t]>>) : t \in {u \in allthreads : sum > 0 /\ of[u] > 0}}
CounterLines == UNION {CounterLinesOf(i, x) : i \in images, x \in Indices}

\* Simulation.cpp: what the instructions of a block have seen, put together.
Aggregate(s, b) ==
    LET upd(m, r) == Update(Update(r, s[m].min, 0), s[m].max, s[m].count)
    IN  FoldSet(upd, NoRange, Memops[b])
SimulationLinesOf(hp, i, t) ==
    LET s == hp[Own(t, i)]
    IN  {Line(i, b, threadseq[s.thread],
              <<s.counters[b], Aggregate(s.stats, b).count, Aggregate(s.stats, b).min, Aggregate(s.stats, b).max>>) :
             b \in {c \in DOMAIN Memops : Aggregate(s.stats, c).count # 0}}
SimulationLines(hp) == UNION {SimulationLinesOf(hp, i, t) : i \in images, t \in allthreads}

\* TimerFunctions.cpp, LoopTimer.cpp
TimerLines == {Line(i, x, threadseq[t], <<heap[Own(t, i)].timers[x].accum>>) :
                   i \in images, x \in Indices, t \in allthreads}

\* the buffers of the threads up to n, in the order of the set allthreads
Flushed[n \in 0 .. Max(allthreads)] ==
    IF n = 0 THEN Machine
    ELSE IF n \in allthreads THEN process_thread_buffer(Flushed[n - 1], Executable, n)
    ELSE Flushed[n - 1]

Exit ==
    LET s == IF tool = "simulation" THEN Flushed[Max(allthreads)] ELSE Machine
    IN  /\ failed = "no" /\ report = {} /\ Executable \in images
        /\ heap[Own(Main, Executable)].master
        /\ \A t \in Threads \ {Main} : pc[t] \in {"none", "done"}
        /\ heap' = s.heap /\ buffers' = s.buffers /\ fast' = s.fast /\ failed' = s.failed
        /\ report' = CASE tool = "counter" -> {CounterHeading} \cup CounterImages \cup CounterLines
                       [] tool = "simulation" ->
                              {SimulationHeading(s.heap)} \cup SimulationImages \cup SimulationLines(s.heap)
                       [] OTHER -> TimerLines
        /\ UNCHANGED <<tool, pc, log, Managed>>
Stopped == (failed # "no" \/ report # {}) /\ UNCHANGED vars

Next ==
    \/ \E i \in Images : LoadImage(i)
    \/ \E t \in Threads : Create(t) \/ ThreadInit(t) \/ FastAddThread(t) \/ Finish(t)
    \/ \E t \in Threads, i \in images :
          \/ \E x \in Indices, addr \in Addresses : tool \in {"counter", "simulation"} /\ Run(t, i, x, addr)
          \/ \E x \in Indices : Enter(t, i, x) \/ Leave(t, i, x)
    \/ Exit
    \/ Stopped
Spec == Init /\ [][Next]_vars

-----------------------------------------------------------------------------
(* A running thread's inserted code finds data that is the thread's alone, *)
(* in every image, whichever way it looks; the process stops itself only   *)
(* when two pthread_t share a slot or one is used twice, never on a row    *)
(* that was not filled (SetThreadData, InstrumentationCommon.hpp:476; the  *)
(* order of AddThread in DataManager and FastData).                        *)
FindsItsOwn ==
    /\ \A t \in allthreads, i \in images :
          pc[t] \in {"run", "done"} =>
              /\ Found(t, i) = Own(t, i) /\ heap[Own(t, i)].image = i
              /\ \A u \in allthreads, j \in images : Own(u, j) = Own(t, i) => u = t /\ j = i
    /\ failed = "actual == h" =>
           \E t \in Threads, u \in allthreads : pc[t] = "alldata" /\ t # u /\ HashThread(t) = HashThread(u)
    /\ failed = "allthreads.count(tid) == 0" => \E t \in allthreads : pc[t] = "alldata"
    /\ failed # "NULL"

\* Executions of block x whose accesses have been charged: all that left no
\* entry in a buffer.
Waiting == {k \in DOMAIN log : \E b \in DOMAIN buffers : \E j \in DOMAIN buffers[b] : buffers[b][j].at = k}
Charged(t, i, x) == {k \in DOMAIN log \ Waiting :
                        log[k].thread = t /\ log[k].image = i /\ log[k].index = x}
RangeOf(S, off) == IF S = {} THEN NoRange
                   ELSE [min |-> Min({log[k].addr : k \in S}) + off, max |-> Max({log[k].addr : k \in S}) + off,
                         count |-> Cardinality(S)]
(* However threads come and buffers are processed, every execution of a    *)
(* block is in the counter of its thread and image, and nowhere else, and  *)
(* every access is either charged, with its address, to the instruction,   *)
(* thread and image that made it, or still in a buffer (GenerateCacheStats *)
(* and GenerateCounterArray, Refresh, ProcessBuffer).                      *)
NothingLost ==
    \A t \in allthreads, i \in images :
        /\ \A x \in Indices : Kinds[tool][x].type # "instruction" =>
               heap[Own(t, i)].counters[x] = Count(Len(log), t, i, "run", x)
        /\ tool = "simulation" =>
               \A m \in AllMemops : heap[Own(t, i)].stats[m] = RangeOf(Charged(t, i, BlockOf(m)), m)

(* The time charged to a function or loop is the time its outermost        *)
(* completed activations took, of every thread by itself, recursion and    *)
(* other threads notwithstanding (function_entry, TimerFunctions.cpp:77).  *)
Inside(t, i, x) ==
    LET exits == {k \in DOMAIN log : Depth(k, t, i, x) = 0 /\ Depth(k - 1, t, i, x) = 1}
    IN  Cardinality({k \in DOMAIN log : Depth(k, t, i, x) > 0 /\ \E e \in exits : k < e})

(* What is printed is what happened: for every image and thread the times  *)
(* a block ran, the accesses that were processed and their least and       *)
(* greatest address, and the time spent in a function or loop; sums are    *)
(* sums over all threads, in the numbering of the threads.                 *)
Ran(t, i, x) == Count(Len(log), t, i, "run", x)
TimesRun(i, x) ==
    LET b == IF Kinds[tool][x].type = "instruction" THEN Kinds[tool][x].leader ELSE x
        all == {k \in DOMAIN log : log[k].image = i /\ log[k].index = b}
    IN  {Line(i, x, threadseq[t], <<Ran(t, i, b)>>) : t \in {u \in allthreads : Ran(u, i, b) > 0}}
            \cup {Line(i, x, Everyone, <<Cardinality(all)>>) : n \in all}
Happened ==
    CASE tool = "counter" -> UNION {TimesRun(i, x) : i \in images, x \in Indices}
      [] tool = "simulation" ->
             {Line(l[1], l[2], threadseq[l[3]],
                   LET S == Charged(l[3], l[1], l[2])
                       n == Cardinality(Memops[l[2]])
                   IN  <<Ran(l[3], l[1], l[2]), n * Cardinality(S),
                         RangeOf(S, Min(Memops[l[2]])).min, RangeOf(S, Max(Memops[l[2]])).max>>) :
                l \in {k \in images \X (DOMAIN Memops) \X allthreads : Charged(k[3], k[1], k[2]) # {}}}
      [] OTHER -> {Line(i, x, threadseq[t], <<Inside(t, i, x)>>) : i \in images, x \in Indices, t \in allthreads}
\* The heading and the lines of the images: what the counters add up to is
\* every access made, what the ranges add up to every access that no longer
\* waits, and one image is the executable.
Announced ==
    LET memops == [k \in DOMAIN log |-> Cardinality(Memops[log[k].index])]
        type(i) == IF i = Executable THEN 1 ELSE 0
        loops == Cardinality({x \in Indices : Kinds[tool][x].type = "loop"})
        blocks == Cardinality(Indices) - loops
        n == Cardinality(images)
    IN  CASE tool = "counter" ->
                 {Line(0, 0, 0, <<n, Cardinality(allthreads), n * blocks, n * loops>>)}
                     \cup {Line(i, 0, 0, <<type(i), blocks, loops>>) : i \in images}
          [] tool = "simulation" ->
                 {Line(0, 0, 0, <<n, Cardinality(allthreads), SumFunction(memops), SumFunctionOnSet(memops, DOMAIN log \ Waiting)>>)}
                     \cup {Line(i, 0, 0, <<type(i)>>) : i \in images}
          [] OTHER -> {}
ReportIsRight == report # {} => report = Announced \cup Happened

(* "clear all threads' buffers" (Simulation.cpp:471): when the results are *)
(* printed no access waits in a buffer.                                    *)
BuffersCleared == report # {} /\ failed = "no" => \A b \in DOMAIN buffers : buffers[b] = <<>>
=============================================================================
