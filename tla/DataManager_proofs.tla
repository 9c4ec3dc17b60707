-------------------------- MODULE DataManager_proofs --------------------------
(***************************************************************************)
(* Proofs that inserted code finds the data of its own thread and image    *)
(* (FindsItsOwn), that no execution and no access is lost or charged to    *)
(* another (NothingLost), and that what is printed is what happened        *)
(* (ReportIsRight), whatever the tool, the images and the threads.         *)
(*                                                                         *)
(* What the data manager keeps is one table, seen in four ways: datamap,   *)
(* the slots of threaddata, the rows of FastData and the buffers named by  *)
(* the objects.  The invariant DataInv says that all four name             *)
(* Object(t, i) for every known thread and image, and what a buffer may    *)
(* hold: entries of one image, except in the one buffer the main thread    *)
(* has for all.  On top of it KeptInv says what the objects and buffers    *)
(* hold, for the executions that have happened.                            *)
(***************************************************************************)
EXTENDS DataManager, FiniteSetTheorems, SequenceTheorems, NumberLemmas

\* What a thread can be at.
Places == {"none", "alldata", "fastdata", "run", "done"}
\* The tools whose data of an image serves the main thread, and the object of
\* thread t for image i.
OneObject == {"counter", "simulation"}
Object(t, i) == IF t = Main /\ tool \in OneObject THEN <<i, 0>> ELSE <<i, t>>
\* Where its accesses are collected: the main thread has one buffer for all
\* images, the other threads one for each.
BufferOf(t, i) == IF t = Main THEN <<firstimage, 0>> ELSE <<i, t>>
Fields == {"thread", "image", "master", "stats", "counters", "timers", "handlers", "rhandlers", "buffer"}

\* Which images and threads are known, and the objects they have in datamap.
Registration ==
    /\ tool \in Tools /\ pc \in [Threads -> Places] /\ pc[Main] = "run"
    /\ images \subseteq Images /\ allthreads \subseteq Threads /\ IsFiniteSet(allthreads)
    /\ IF images = {} THEN allthreads = {} /\ firstimage = 0
       ELSE Main \in allthreads /\ firstimage \in images
    /\ \A t \in Threads \ {Main} :
          /\ IF pc[t] = "none" THEN t \notin allthreads ELSE images # {}
          /\ pc[t] \in {"fastdata", "run", "done"} => t \in allthreads
    /\ DOMAIN datamap = images
    /\ \A i \in images : datamap[i] = [t \in allthreads |-> Object(t, i)]

\* Threads have numbers of their own (threadseq).
Numbering ==
    /\ DOMAIN threadseq = allthreads \cup {Main}
    /\ \A t \in DOMAIN threadseq : threadseq[t] \in 0 .. Cardinality(DOMAIN threadseq) - 1
    /\ \A t, u \in DOMAIN threadseq : threadseq[t] = threadseq[u] => t = u

\* The slots inserted code looks at: every known thread has the slot it hashes
\* to, in every image, and no slot is taken by another.
Slot == [id : Nat, data : Nat \X Nat]
Tables ==
    /\ threaddata \in [Images -> [0 .. Slots - 1 -> Slot]]
    /\ \A i \in Images \ images : \A h \in 0 .. Slots - 1 : threaddata[i][h].id = 0
    /\ \A i \in images : \A t \in allthreads :
          /\ threaddata[i][HashThread(t)].id = t
          /\ tool \in OneObject => threaddata[i][HashThread(t)].data = Object(t, i)
    /\ \A i \in images : \A h \in 0 .. Slots - 1 :
          threaddata[i][h].id # 0 =>
             threaddata[i][h].id \in allthreads /\ HashThread(threaddata[i][h].id) = h

\* Objects are of their image, and every known thread's exist.
HeapOk(hp) ==
    /\ DOMAIN hp \subseteq Images \X Nat
    /\ \A o \in DOMAIN hp : DOMAIN hp[o] = Fields /\ hp[o].image = o[1]
    /\ \A i \in Images : <<i, 0>> \in DOMAIN hp
    /\ \A i \in images : \A t \in allthreads : Object(t, i) \in DOMAIN hp

\* The buffers of the cache simulation.
Entry == [image : Images, memop : Int, addr : Int, at : Nat]
BuffersOk(hp, bf) ==
    /\ \A i \in Images \ images : hp[<<i, 0>>].buffer = <<i, 0>>
    /\ \A i \in images : \A t \in allthreads : hp[Object(t, i)].buffer = BufferOf(t, i)
                                                /\ BufferOf(t, i) \in DOMAIN bf
    /\ \A i \in Images : <<i, 0>> \in DOMAIN bf
    /\ \A b \in DOMAIN bf : /\ bf[b] \in Seq(Entry) /\ Len(bf[b]) <= Capacity
                            /\ \A j \in 1 .. Len(bf[b]) : /\ bf[b][j].image \in images
                                                          /\ b[2] # 0 => bf[b][j].image = b[1]

\* The rows of FastData: right at all times when there is one image, filled by
\* Refresh when there are several, and there for every thread that runs.
RowsOk(f) ==
    /\ f \in [imagecount : Nat, stats : Seq([1 .. Capacity -> Nat \X Nat])]
    /\ f.imagecount = 0 <=> images = {}
    /\ f.imagecount = 1 => images = {firstimage}
    /\ \A t \in allthreads : pc[t] # "fastdata" =>
          /\ threadseq[t] + 1 \in 1 .. Len(f.stats)
          /\ f.imagecount = 1 =>
                \A j \in 1 .. Capacity : f.stats[threadseq[t] + 1][j] = Object(t, firstimage)

\* Why the process may have stopped.
StopsForCause ==
    /\ failed \in {"no", "actual == h", "allthreads.count(tid) == 0"}
    /\ failed = "actual == h" =>
           \E t \in Threads, u \in allthreads : pc[t] = "alldata" /\ t # u /\ HashThread(t) = HashThread(u)
    /\ failed = "allthreads.count(tid) == 0" => \E t \in allthreads : pc[t] = "alldata"

Happening == [thread : Threads, image : Images, kind : {"run", "enter", "exit"}, index : Indices, addr : Nat]

\* The inductive invariant.
DataInv ==
    /\ Registration /\ Numbering /\ Tables /\ HeapOk(heap) /\ StopsForCause /\ log \in Seq(Happening)
    /\ tool = "simulation" => BuffersOk(heap, buffers) /\ RowsOk(fast)

-----------------------------------------------------------------------------
\* An entry put into a map.
LEMMA PutDomain ==
    ASSUME NEW f, NEW x, NEW v
    PROVE  DOMAIN Put(f, x, v) = DOMAIN f \cup {x}
BY DEF Put

LEMMA PutHere ==
    ASSUME NEW f, NEW x, NEW v
    PROVE  Put(f, x, v)[x] = v
BY DEF Put

LEMMA PutElsewhere ==
    ASSUME NEW f, NEW x, NEW v
    PROVE  \A y \in DOMAIN f : y # x => Put(f, x, v)[y] = f[y]
BY DEF Put

\* A thread's slot is one of the table.
LEMMA HashIn ==
    ASSUME NEW t \in Nat
    PROVE  HashThread(t) \in 0 .. Slots - 1
<1>1. Slots \in Nat \ {0} /\ Shift \in Nat \ {0}
  BY DataAssumption
<1>2. t \div Shift \in Nat
  BY <1>1
<1> QED  BY <1>1, <1>2 DEF HashThread

\* A thread whose slot is free gets it (SetThreadData).
LEMMA ProbedIs ==
    ASSUME NEW td \in [0 .. Slots - 1 -> Slot], NEW t \in Nat, td[HashThread(t)].id = 0
    PROVE  Probed(td, t) = HashThread(t)
<1>1. HashThread(t) \in 0 .. Slots - 1 /\ Slots \in Nat \ {0}
  BY HashIn, DataAssumption
<1> DEFINE H == HashThread(t)
           free == {d \in 0 .. Slots - 1 : td[(H + d) % Slots].id = 0}
<1> HIDE DEF H
<1>2. (H + 0) % Slots = H
  BY <1>1 DEF H
<1>3. 0 \in free
  BY <1>1, <1>2 DEF H
<1>4. Least(free) = 0
  <2>1. free \subseteq Nat /\ \A x \in free : 0 <= x
    BY <1>1
  <2> HIDE DEF free
  <2>2. \A x \in free : (\A y \in free : x <= y) => x = 0
    BY <1>3, <2>1
  <2> QED  BY <1>3, <2>1, <2>2 DEF Least, Min
<1> QED  BY <1>2, <1>3, <1>4 DEF Probed, H

-----------------------------------------------------------------------------
\* What inserted code and the processing of a buffer change of the objects
\* leaves them where they are.
SameObjects(h1, h2) ==
    /\ DOMAIN h2 = DOMAIN h1
    /\ \A o \in DOMAIN h1 : /\ DOMAIN h2[o] = DOMAIN h1[o]
                            /\ h2[o].image = h1[o].image /\ h2[o].buffer = h1[o].buffer

\* The invariant's clauses about objects and buffers stay.
LEMMA StillOk ==
    ASSUME NEW h1, NEW h2, HeapOk(h1), SameObjects(h1, h2)
    PROVE  HeapOk(h2) /\ \A bf : BuffersOk(h1, bf) => BuffersOk(h2, bf)
<1>1. HeapOk(h2)
  BY DEF HeapOk, SameObjects
<1>2. \A i \in Images : h2[<<i, 0>>].buffer = h1[<<i, 0>>].buffer
  BY DEF HeapOk, SameObjects
<1>3. \A i \in images : \A t \in allthreads : h2[Object(t, i)].buffer = h1[Object(t, i)].buffer
  BY DEF HeapOk, SameObjects
<1> QED  BY <1>1, <1>2, <1>3 DEF BuffersOk

\* Charging entries to instructions (ProcessBuffer), one after the other.
ChargeOne(s, row, h, j) ==
    [h EXCEPT ![row[j]].stats[s.buffers[s.heap[row[j]].buffer][j].memop] =
                 Update(@, s.buffers[s.heap[row[j]].buffer][j].addr, 1)]

LEMMA ChargeRuns ==
    ASSUME NEW s, NEW row, NEW n \in Nat
    PROVE  \E done : /\ Charge(s, row, n) = done[n]
                     /\ \A j \in 0 .. n : done[j] = IF j = 0 THEN s.heap ELSE ChargeOne(s, row, done[j - 1], j)
<1> DEFINE next(h, j) == [h EXCEPT ![row[j]].stats[s.buffers[s.heap[row[j]].buffer][j].memop] =
                                      Update(@, s.buffers[s.heap[row[j]].buffer][j].addr, 1)]
           Loop(f, k) == f = [j \in 0 .. k |-> IF j = 0 THEN s.heap ELSE next(f[j - 1], j)]
           T == {k \in 0 .. n : \E f : Loop(f, k)}
<1>1. \A h, j : next(h, j) = ChargeOne(s, row, h, j)
  BY DEF ChargeOne
<1> HIDE DEF next
<1>2. 0 \in T
  <2>1. Loop([j \in 0 .. 0 |-> s.heap], 0)
    OBVIOUS
  <2> HIDE DEF Loop
  <2> QED  BY <2>1
<1>3. ASSUME NEW k \in 0 .. n - 1, k \in T PROVE k + 1 \in T
  <2>1. PICK f : Loop(f, k)
    BY <1>3
  <2>2. k \in Nat /\ k + 1 \in 0 .. n /\ 0 .. k + 1 = (0 .. k) \cup {k + 1}
        /\ \A m \in 0 .. k : m # k + 1 /\ (m # 0 => m - 1 \in 0 .. k)
    OBVIOUS
  <2> DEFINE g == [m \in 0 .. k + 1 |-> IF m = k + 1 THEN next(f[k], k + 1) ELSE f[m]]
  <2>3. ASSUME NEW m \in 0 .. k + 1
        PROVE  g[m] = IF m = 0 THEN s.heap ELSE next(g[m - 1], m)
    <3>1. CASE m = k + 1
      <4>1. m # 0 /\ m - 1 = k /\ k \in 0 .. k + 1 /\ k # k + 1
        BY <2>2, <3>1
      <4>2. g[m] = next(f[k], k + 1) /\ g[k] = f[k]
        BY <3>1, <4>1
      <4> QED  BY <3>1, <4>1, <4>2
    <3>2. CASE m \in 0 .. k
      <4>1. g[m] = f[m] /\ (m # 0 => g[m - 1] = f[m - 1])
        BY <2>2, <3>2
      <4>2. f[m] = IF m = 0 THEN s.heap ELSE next(f[m - 1], m)
        BY <2>1, <3>2
      <4> QED  BY <4>1, <4>2
    <3> QED  BY <2>2, <3>1, <3>2
  <2>4. g = [m \in 0 .. k + 1 |-> g[m]]
    OBVIOUS
  <2> HIDE DEF g
  <2>5. Loop(g, k + 1)
    BY <2>3, <2>4
  <2> HIDE DEF Loop
  <2> QED  BY <2>2, <2>5
<1>4. \E f : Loop(f, n)
  <2> HIDE DEF T
  <2>1. 0 .. n \subseteq T
    BY <1>2, <1>3, UpTo
  <2> QED  BY <2>1 DEF T
<1> DEFINE done == CHOOSE f : Loop(f, n)
<1>5. Loop(done, n)
  <2> HIDE DEF Loop
  <2> QED  BY <1>4
<1>6. Charge(s, row, n) = done[n]
  BY DEF Charge, next
<1> HIDE DEF done
<1>7. \A j \in 0 .. n : done[j] = IF j = 0 THEN s.heap ELSE next(done[j - 1], j)
  BY <1>5
<1> QED  BY <1>1, <1>6, <1>7

LEMMA ChargeIs ==
    ASSUME NEW s, NEW row, NEW n \in Nat, \A o \in DOMAIN s.heap : DOMAIN s.heap[o] = Fields
    PROVE  SameObjects(s.heap, Charge(s, row, n))
<1> DEFINE next(h, j) == ChargeOne(s, row, h, j)
<1>1. ASSUME NEW h, NEW j, SameObjects(s.heap, h) PROVE SameObjects(s.heap, next(h, j))
  <2> DEFINE o == row[j]
             m == s.buffers[s.heap[row[j]].buffer][j].memop
             v == Update(h[o].stats[m], s.buffers[s.heap[row[j]].buffer][j].addr, 1)
  <2>1. next(h, j) = [h EXCEPT ![o] = [h[o] EXCEPT !.stats = [h[o].stats EXCEPT ![m] = v]]]
    BY DEF ChargeOne
  <2> HIDE DEF o, m, v, next
  <2> QED  BY <1>1, <2>1 DEF SameObjects, Fields
<1> HIDE DEF next
<1>6. PICK done : /\ Charge(s, row, n) = done[n]
                  /\ \A j \in 0 .. n : done[j] = IF j = 0 THEN s.heap ELSE ChargeOne(s, row, done[j - 1], j)
  BY ChargeRuns
<1>7. \A j \in 0 .. n : done[j] = IF j = 0 THEN s.heap ELSE next(done[j - 1], j)
  BY <1>6 DEF next
<1> DEFINE K == {j \in 0 .. n : SameObjects(s.heap, done[j])}
<1>8. 0 \in K
  BY <1>7 DEF SameObjects
<1>9. ASSUME NEW k \in 0 .. n - 1, k \in K PROVE k + 1 \in K
  <2>1. k + 1 \in 0 .. n /\ k + 1 # 0 /\ (k + 1) - 1 = k
    OBVIOUS
  <2>2. done[k + 1] = next(done[k], k + 1)
    BY <1>7, <2>1
  <2> QED  BY <1>1, <1>9, <2>1, <2>2
<1>10. n \in K
  <2> HIDE DEF K
  <2>1. 0 .. n \subseteq K
    BY <1>8, <1>9, UpTo
  <2> QED  BY <2>1
<1> QED  BY <1>6, <1>10

-----------------------------------------------------------------------------
(* The start of the program, and the images. *)

\* The program has one thread and no image.
LEMMA InitData == Init => DataInv
<1> SUFFICES ASSUME Init PROVE DataInv
  OBVIOUS
<1>1. /\ tool \in Tools /\ pc = [t \in Threads |-> IF t = Main THEN "run" ELSE "none"]
      /\ heap = [o \in {<<i, 0>> : i \in Images} |-> StaticObject(o[1])]
      /\ buffers = [o \in {<<i, 0>> : i \in Images} |-> <<>>]
      /\ datamap = <<>> /\ allthreads = {} /\ threadseq = [u \in {Main} |-> 0]
      /\ images = {} /\ firstimage = 0
      /\ threaddata = [i \in Images |-> [h \in 0 .. Slots - 1 |-> [id |-> 0, data |-> NULL]]]
      /\ fast = [imagecount |-> 0, stats |-> <<>>] /\ failed = "no"
  BY DEF Init
<1>2. Main \in Threads /\ Threads \subseteq Nat \ {0} /\ Images \subseteq Nat \ {0} /\ Capacity \in Nat \ {0}
  BY DataAssumption
<1>3. Registration
  BY <1>1, <1>2, FS_EmptySet DEF Registration, Places
<1>4. Numbering
  <2>1. DOMAIN threadseq = {Main} /\ Cardinality({Main}) = 1
    BY <1>1, FS_Singleton
  <2> QED  BY <1>1, <2>1 DEF Numbering
<1>5. Tables
  BY <1>1 DEF Tables, Slot, NULL
<1>6. HeapOk(heap)
  <2>1. \A i \in Images : DOMAIN StaticObject(i) = Fields /\ StaticObject(i).image = i
    BY DEF StaticObject, Fields
  <2>2. DOMAIN heap = {<<i, 0>> : i \in Images}
    BY <1>1
  <2>3. \A i \in Images : <<i, 0>>[1] = i /\ heap[<<i, 0>>] = StaticObject(i)
    BY <1>1
  <2>4. \A o \in DOMAIN heap : \E i \in Images : o = <<i, 0>>
    BY <2>2
  <2>5. \A o \in DOMAIN heap : DOMAIN heap[o] = Fields /\ heap[o].image = o[1] /\ o \in Images \X Nat
    BY <2>1, <2>3, <2>4
  <2>6. \A i \in Images : <<i, 0>> \in DOMAIN heap
    BY <2>2
  <2> QED  BY <1>1, <2>5, <2>6 DEF HeapOk
<1>7. StopsForCause
  BY <1>1 DEF StopsForCause
<1>8. BuffersOk(heap, buffers)
  <2>1. \A i \in Images : StaticObject(i).buffer = <<i, 0>> /\ heap[<<i, 0>>] = StaticObject(i)
    BY <1>1 DEF StaticObject
  <2>2. DOMAIN buffers = {<<i, 0>> : i \in Images}
        /\ \A b \in DOMAIN buffers : buffers[b] = <<>>
    BY <1>1
  <2>3. <<>> \in Seq(Entry) /\ Len(<<>>) = 0
    OBVIOUS
  <2>4. \A b \in DOMAIN buffers :
           /\ buffers[b] \in Seq(Entry) /\ Len(buffers[b]) <= Capacity
           /\ \A j \in 1 .. Len(buffers[b]) : /\ buffers[b][j].image \in images
                                              /\ b[2] # 0 => buffers[b][j].image = b[1]
    <3> SUFFICES ASSUME NEW b \in DOMAIN buffers
                 PROVE  /\ buffers[b] \in Seq(Entry) /\ Len(buffers[b]) <= Capacity
                        /\ 1 .. Len(buffers[b]) = {}
      OBVIOUS
    <3>1. buffers[b] = <<>>
      BY <2>2
    <3>2. Len(buffers[b]) = 0
      BY <2>3, <3>1
    <3> QED  BY <1>2, <2>3, <3>1, <3>2
  <2>5. \A i \in Images : <<i, 0>> \in DOMAIN buffers
    BY <2>2
  <2>6. images = {}
    BY <1>1
  <2>7. \A i \in Images \ images : heap[<<i, 0>>].buffer = <<i, 0>>
    BY <2>1
  <2>8. \A i \in images : \A t \in allthreads : heap[Object(t, i)].buffer = BufferOf(t, i)
                                                   /\ BufferOf(t, i) \in DOMAIN buffers
    BY <2>6
  <2> QED  BY <2>4, <2>5, <2>7, <2>8 DEF BuffersOk
<1>9. RowsOk(fast)
  BY <1>1 DEF RowsOk
<1>10. log \in Seq(Happening)
  BY DEF Init
<1> QED  BY <1>3, <1>4, <1>5, <1>6, <1>7, <1>8, <1>9, <1>10 DEF DataInv

\* The identities of objects.
LEMMA ObjectIs ==
    ASSUME NEW i \in Images, NEW t \in Threads
    PROVE  /\ Object(t, i) \in Images \X Nat /\ Object(t, i)[1] = i
           /\ t # Main => Object(t, i) = <<i, t>>
           /\ t \in Nat \ {0} /\ i \in Nat \ {0}
<1>1. t \in Nat \ {0} /\ i \in Nat \ {0} /\ 0 \in Nat
  BY DataAssumption
<1> QED  BY <1>1 DEF Object

\* The image of the main thread gets its object (DataManager::AddImage).
LEMMA LoadImageManaged ==
    ASSUME DataInv, NEW i \in Images, LoadImage(i)
    PROVE  /\ i \notin images /\ images' = images \cup {i} /\ allthreads' = {Main}
           /\ allthreads \subseteq {Main} /\ \A t \in Threads \ {Main} : pc[t] = "none"
           /\ firstimage' = IF images = {} THEN i ELSE firstimage
           /\ datamap'[i] = [t \in {Main} |-> Object(Main, i)]
           /\ DOMAIN datamap' = images \cup {i} /\ \A j \in images : datamap'[j] = datamap[j]
           /\ \A j \in images : datamap[j] = [t \in {Main} |-> Object(Main, j)]
           /\ UNCHANGED <<tool, pc, buffers, threadseq, failed>>
           /\ images # {} => allthreads = {Main} /\ firstimage \in images
           /\ i \in Nat \ {0}
<1>1. /\ i \notin images /\ images' = images \cup {i} /\ allthreads' = allthreads \cup {Main}
      /\ allthreads \subseteq {Main} /\ \A t \in Threads \ {Main} : pc[t] = "none"
      /\ firstimage' = IF firstimage = 0 THEN i ELSE firstimage
      /\ UNCHANGED <<tool, pc, buffers, threadseq, failed>>
  BY DEF LoadImage
<1>2. i \in Nat \ {0} /\ Images \subseteq Nat \ {0}
  BY DataAssumption
<1>3. /\ images \subseteq Images
      /\ IF images = {} THEN allthreads = {} /\ firstimage = 0
         ELSE Main \in allthreads /\ firstimage \in images
      /\ DOMAIN datamap = images
      /\ \A j \in images : datamap[j] = [t \in allthreads |-> Object(t, j)]
  BY DEF DataInv, Registration
<1>4. allthreads' = {Main}
  BY <1>1
<1>5. firstimage' = IF images = {} THEN i ELSE firstimage
  BY <1>1, <1>2, <1>3
<1>6. images # {} => allthreads = {Main} /\ firstimage \in images
  BY <1>1, <1>3
<1> DEFINE gen == datagen(heap, datamap, <<i, 0>>, "image", i, Main,
                          IF firstimage = 0 THEN i ELSE firstimage)
<1>7. datamap' = Put(datamap, i, [u \in {Main} |-> gen.data])
  BY DEF LoadImage
<1>8. gen.data = Object(Main, i)
  <2>1. CASE tool = "counter"
    BY <2>1 DEF datagen, GenerateCounterArray, Object, OneObject
  <2>2. CASE tool = "simulation"
    BY <2>2 DEF datagen, GenerateCacheStats, Object, OneObject
  <2>3. CASE tool \notin {"counter", "simulation"}
    BY <2>3 DEF datagen, GenerateTimers, Object, OneObject
  <2> QED  BY <2>1, <2>2, <2>3
<1> HIDE DEF gen
<1>9. /\ DOMAIN datamap' = images \cup {i} /\ datamap'[i] = [u \in {Main} |-> Object(Main, i)]
      /\ \A j \in images : datamap'[j] = datamap[j]
  <2> DEFINE v == [u \in {Main} |-> gen.data]
  <2>1. v = [u \in {Main} |-> Object(Main, i)]
    BY <1>8
  <2> HIDE DEF v
  <2>2. DOMAIN Put(datamap, i, v) = DOMAIN datamap \cup {i}
    BY PutDomain
  <2>3. Put(datamap, i, v)[i] = v
    BY PutHere
  <2>4. \A y \in DOMAIN datamap : y # i => Put(datamap, i, v)[y] = datamap[y]
    BY PutElsewhere
  <2>5. datamap' = Put(datamap, i, v)
    BY <1>7 DEF v
  <2> QED  BY <1>1, <1>3, <2>1, <2>2, <2>3, <2>4, <2>5
<1>10. \A j \in images : datamap[j] = [t \in {Main} |-> Object(Main, j)]
  <2> SUFFICES ASSUME NEW j \in images PROVE datamap[j] = [t \in {Main} |-> Object(Main, j)]
    OBVIOUS
  <2>1. allthreads = {Main}
    BY <1>6
  <2> QED  BY <1>3, <2>1
<1> QED  BY <1>1, <1>2, <1>4, <1>5, <1>6, <1>9, <1>10

\* The tables with a new image in them.
LEMMA LoadImageTables ==
    ASSUME DataInv, NEW i \in Images, LoadImage(i)
    PROVE  Registration' /\ Numbering' /\ Tables'
<1>1. /\ i \notin images /\ images' = images \cup {i} /\ allthreads' = {Main}
      /\ allthreads \subseteq {Main} /\ \A t \in Threads \ {Main} : pc[t] = "none"
      /\ firstimage' = IF images = {} THEN i ELSE firstimage
      /\ datamap'[i] = [t \in {Main} |-> Object(Main, i)]
      /\ DOMAIN datamap' = images \cup {i} /\ \A j \in images : datamap'[j] = datamap[j]
      /\ \A j \in images : datamap[j] = [t \in {Main} |-> Object(Main, j)]
      /\ tool' = tool /\ pc' = pc /\ threadseq' = threadseq
      /\ images # {} => allthreads = {Main} /\ firstimage \in images
  BY LoadImageManaged
<1>2. \A t, j : Object(t, j)' = Object(t, j)
  BY <1>1 DEF Object
<1>3. Main \in Threads /\ Threads \subseteq Nat \ {0} /\ Main \in Nat
  BY DataAssumption
<1>4. Registration'
  <2>1. /\ tool \in Tools /\ pc \in [Threads -> Places] /\ pc[Main] = "run" /\ images \subseteq Images
    BY DEF DataInv, Registration
  <2>2. images' \subseteq Images /\ allthreads' \subseteq Threads /\ IsFiniteSet(allthreads')
    BY <1>1, <1>3, <2>1, FS_Singleton
  <2>3. Main \in allthreads' /\ firstimage' \in images' /\ images' # {}
    BY <1>1
  <2>4. \A t \in Threads \ {Main} :
           /\ IF pc'[t] = "none" THEN t \notin allthreads' ELSE images' # {}
           /\ pc'[t] \in {"fastdata", "run", "done"} => t \in allthreads'
    BY <1>1
  <2>5. \A j \in images' : datamap'[j] = [t \in allthreads' |-> Object(t, j)']
    <3> SUFFICES ASSUME NEW j \in images' PROVE datamap'[j] = [t \in {Main} |-> Object(t, j)]
      BY <1>1, <1>2
    <3>1. datamap'[j] = [t \in {Main} |-> Object(Main, j)]
      BY <1>1
    <3> QED  BY <3>1
  <2>6. DOMAIN datamap' = images'
    BY <1>1
  <2> QED  BY <1>1, <2>1, <2>2, <2>3, <2>4, <2>5, <2>6 DEF Registration
<1>5. Numbering'
  <2>1. DOMAIN threadseq = allthreads \cup {Main} /\ allthreads \cup {Main} = {Main}
    BY <1>1 DEF DataInv, Numbering
  <2> QED  BY <1>1, <2>1 DEF DataInv, Numbering
<1>6. Tables'
  <2> DEFINE td == threaddata[i]
             H == HashThread(Main)
             set == SetThreadData(td, Main, <<i, 0>>)
             new == IF Cardinality(allthreads \cup {Main}) = 1
                    THEN [h \in DOMAIN set |-> [set[h] EXCEPT !.data = <<i, 0>>]] ELSE set
  <2>1. threaddata' = [threaddata EXCEPT ![i] = new]
    BY DEF LoadImage
  <2>2. /\ threaddata \in [Images -> [0 .. Slots - 1 -> Slot]]
        /\ \A j \in Images \ images : \A h \in 0 .. Slots - 1 : threaddata[j][h].id = 0
    BY DEF DataInv, Tables
  <2>3. <<i, 0>> \in Nat \X Nat /\ H \in 0 .. Slots - 1
    BY <1>3, DataAssumption, HashIn
  <2>4. td \in [0 .. Slots - 1 -> Slot] /\ \A h \in 0 .. Slots - 1 : td[h].id = 0
    BY <1>1, <2>2
  <2>5. /\ set \in [0 .. Slots - 1 -> Slot] /\ set[H] = [id |-> Main, data |-> <<i, 0>>]
        /\ \A h \in 0 .. Slots - 1 : h # H => set[h] = td[h]
    <3> HIDE DEF td
    <3>1. td[HashThread(Main)].id = 0
      BY <2>3, <2>4
    <3>2. SetThreadData(td, Main, <<i, 0>>) = [td EXCEPT ![HashThread(Main)] = [id |-> Main, data |-> <<i, 0>>]]
      <4>1. td \in [0 .. Slots - 1 -> Slot] /\ Main \in Nat
        BY <1>3, <2>4
      <4>2. Probed(td, Main) = HashThread(Main)
        BY <3>1, <4>1, ProbedIs
      <4> QED  BY <4>2 DEF SetThreadData
    <3>3. [id |-> Main, data |-> <<i, 0>>] \in Slot
      BY <1>3, <2>3 DEF Slot
    <3>4. set = [td EXCEPT ![H] = [id |-> Main, data |-> <<i, 0>>]]
      BY <3>2
    <3> HIDE DEF set, H
    <3> QED  BY <2>3, <2>4, <3>3, <3>4
  <2>6. Cardinality(allthreads \cup {Main}) = 1
    BY <1>1, FS_Singleton
  <2> HIDE DEF set, H
  <2>7. /\ new \in [0 .. Slots - 1 -> Slot] /\ new[H] = [id |-> Main, data |-> <<i, 0>>]
        /\ \A h \in 0 .. Slots - 1 : h # H => new[h].id = 0
    <3>1. new = [h \in 0 .. Slots - 1 |-> [set[h] EXCEPT !.data = <<i, 0>>]]
      BY <2>5, <2>6
    <3>2. \A h \in 0 .. Slots - 1 : set[h] \in [id : Nat, data : Nat \X Nat]
      BY <2>5 DEF Slot
    <3>3. \A h \in 0 .. Slots - 1 : /\ new[h] \in Slot /\ new[h].id = set[h].id
                                    /\ new[h].data = <<i, 0>>
      BY <2>3, <3>1, <3>2 DEF Slot
    <3>4. new \in [0 .. Slots - 1 -> Slot]
      BY <3>1, <3>3
    <3>5. new[H] = [id |-> Main, data |-> <<i, 0>>]
      <4>1. new[H] \in [id : Nat, data : Nat \X Nat] /\ new[H].id = Main /\ new[H].data = <<i, 0>>
        BY <2>3, <2>5, <3>3 DEF Slot
      <4> QED  BY <4>1
    <3> QED  BY <2>4, <2>5, <3>3, <3>4, <3>5
  <2> HIDE DEF new, td
  <2>8. /\ threaddata' \in [Images -> [0 .. Slots - 1 -> Slot]]
        /\ threaddata'[i] = new /\ \A j \in Images : j # i => threaddata'[j] = threaddata[j]
    BY <2>1, <2>2, <2>7
  <2>9. \A j \in Images \ images' : \A h \in 0 .. Slots - 1 : threaddata'[j][h].id = 0
    BY <1>1, <2>2, <2>8
  <2>10. \A j \in images' : /\ threaddata'[j][H].id = Main
                            /\ tool \in OneObject => threaddata'[j][H].data = Object(Main, j)
    <3> SUFFICES ASSUME NEW j \in images'
                 PROVE  /\ threaddata'[j][H].id = Main
                        /\ tool \in OneObject => threaddata'[j][H].data = Object(Main, j)
      OBVIOUS
    <3>1. CASE j = i
      BY <2>7, <2>8, <3>1 DEF Object
    <3>2. CASE j # i
      <4>1. j \in images /\ Main \in allthreads /\ j \in Images
        BY <1>1, <3>2 DEF DataInv, Registration
      <4> QED  BY <2>8, <3>2, <4>1 DEF DataInv, Tables, H
    <3> QED  BY <3>1, <3>2
  <2>11. \A j \in images' : \A h \in 0 .. Slots - 1 :
            threaddata'[j][h].id # 0 => threaddata'[j][h].id = Main /\ h = H
    <3> SUFFICES ASSUME NEW j \in images', NEW h \in 0 .. Slots - 1, threaddata'[j][h].id # 0
                 PROVE  threaddata'[j][h].id = Main /\ h = H
      OBVIOUS
    <3>1. CASE j = i
      BY <2>7, <2>8, <3>1
    <3>2. CASE j # i
      <4>1. j \in images /\ j \in Images
        BY <1>1, <3>2 DEF DataInv, Registration
      <4>2. threaddata[j][h].id \in allthreads /\ HashThread(threaddata[j][h].id) = h
        BY <2>8, <3>2, <4>1 DEF DataInv, Tables
      <4> QED  BY <1>1, <2>8, <3>2, <4>1, <4>2 DEF H
    <3> QED  BY <3>1, <3>2
  <2>12. \A j \in images' : \A t \in allthreads' :
            /\ threaddata'[j][HashThread(t)].id = t
            /\ tool' \in OneObject => threaddata'[j][HashThread(t)].data = Object(t, j)'
    BY <1>1, <1>2, <2>10 DEF H
  <2>13. \A j \in images' : \A h \in 0 .. Slots - 1 :
            threaddata'[j][h].id # 0 =>
               threaddata'[j][h].id \in allthreads' /\ HashThread(threaddata'[j][h].id) = h
    BY <1>1, <2>11 DEF H
  <2> QED  BY <2>8, <2>9, <2>12, <2>13 DEF Tables
<1> QED  BY <1>4, <1>5, <1>6

\* The object of a new image, with the buffer of the first one (the datagen
\* functions on an image).
LEMMA LoadImageObject ==
    ASSUME DataInv, NEW i \in Images, LoadImage(i)
    PROVE  \E rec : /\ heap' = Put(heap, Object(Main, i), rec)
                    /\ DOMAIN rec = Fields /\ rec.image = i
                    /\ tool = "simulation" => rec.buffer = <<firstimage', 0>>
<1> DEFINE o == <<i, 0>>
           first == IF firstimage = 0 THEN i ELSE firstimage
           gen == datagen(heap, datamap, o, "image", i, Main, first)
<1>1. heap' = gen.heap
  BY DEF LoadImage
<1>2. /\ i \notin images /\ firstimage' = first /\ first = IF images = {} THEN i ELSE firstimage
      /\ images # {} => allthreads = {Main} /\ firstimage \in images
      /\ \A j \in images : datamap[j] = [t \in {Main} |-> Object(Main, j)]
  BY LoadImageManaged DEF LoadImage
<1>3. /\ o \in DOMAIN heap /\ DOMAIN heap[o] = Fields /\ heap[o].image = i
  BY DEF DataInv, HeapOk
<1>4. CASE tool = "counter"
  <2>1. Object(Main, i) = o
    BY <1>4 DEF Object, OneObject
  <2>2. gen.heap = [heap EXCEPT ![o].thread = Main, ![o].image = i]
    BY <1>4 DEF datagen, GenerateCounterArray
  <2> DEFINE rec == [heap[o] EXCEPT !.thread = Main, !.image = i]
  <2>3. DOMAIN rec = Fields /\ rec.image = i
    BY <1>3 DEF Fields
  <2>4. gen.heap = [heap EXCEPT ![o] = rec]
    BY <1>3, <2>2
  <2> HIDE DEF rec, o
  <2>5. gen.heap = Put(heap, o, rec)
    BY <1>3, <2>4 DEF Put
  <2> QED  BY <1>1, <1>4, <2>1, <2>3, <2>5
<1>5. CASE tool = "simulation"
  <2>1. Object(Main, i) = o
    BY <1>5 DEF Object, OneObject
  <2> DEFINE shared == heap[datamap[first][Main]]
             rec == [heap[o] EXCEPT
                       !.thread = Main, !.image = i, !.stats = NoStats,
                       !.handlers = IF i = first THEN <<i, Main>> ELSE shared.handlers,
                       !.rhandlers = IF i = first THEN <<i, Main>> ELSE @,
                       !.buffer = IF i # first THEN shared.buffer ELSE @,
                       !.counters = @]
  <2>2. gen = [heap |-> Put(heap, o, rec), data |-> o]
    BY <1>5 DEF datagen, GenerateCacheStats
  <2>3. DOMAIN rec = Fields /\ rec.image = i
    BY <1>3 DEF Fields
  <2>4. rec.buffer = IF i # first THEN shared.buffer ELSE heap[o].buffer
    BY <1>3 DEF Fields
  <2>5. BuffersOk(heap, buffers)
    BY <1>5 DEF DataInv
  <2>6. CASE images = {}
    <3>1. heap[o].buffer = <<i, 0>> /\ first = i
      BY <1>2, <2>5, <2>6 DEF BuffersOk
    <3> HIDE DEF rec
    <3> QED  BY <1>1, <1>2, <1>5, <2>1, <2>2, <2>3, <2>4, <3>1
  <2>7. CASE images # {}
    <3>1. first = firstimage /\ firstimage \in images /\ allthreads = {Main} /\ i # first
      BY <1>2, <2>7
    <3>2. datamap[first][Main] = Object(Main, first)
      <4>1. datamap[first] = [t \in {Main} |-> Object(Main, first)]
        BY <1>2, <3>1
      <4> QED  BY <4>1
    <3>3. shared.buffer = <<firstimage, 0>>
      BY <2>5, <3>1, <3>2 DEF BuffersOk, BufferOf
    <3> HIDE DEF rec
    <3> QED  BY <1>1, <1>2, <1>5, <2>1, <2>2, <2>3, <2>4, <3>1, <3>3
  <2> QED  BY <2>6, <2>7
<1>6. CASE tool \notin {"counter", "simulation"}
  <2>1. Object(Main, i) = <<i, Main>>
    BY <1>6 DEF Object, OneObject
  <2> DEFINE rec == [heap[o] EXCEPT !.master = @ /\ "image" = "image", !.timers = Timers]
  <2>2. gen = [heap |-> Put(heap, <<i, Main>>, rec), data |-> <<i, Main>>]
    BY <1>6 DEF datagen, GenerateTimers
  <2>3. DOMAIN rec = Fields /\ rec.image = i
    BY <1>3 DEF Fields
  <2> HIDE DEF rec
  <2> QED  BY <1>1, <1>6, <2>1, <2>2, <2>3
<1> QED  BY <1>4, <1>5, <1>6

\* The objects with a new image's, and their buffers.
LEMMA LoadImageHeap ==
    ASSUME DataInv, NEW i \in Images, LoadImage(i)
    PROVE  HeapOk(heap)' /\ StopsForCause' /\ (tool = "simulation" => BuffersOk(heap, buffers)')
<1>1. /\ i \notin images /\ images' = images \cup {i} /\ allthreads' = {Main}
      /\ firstimage' = IF images = {} THEN i ELSE firstimage
      /\ UNCHANGED <<tool, pc, buffers, failed>>
      /\ images # {} => allthreads = {Main} /\ firstimage \in images
      /\ images \subseteq Images
  BY LoadImageManaged DEF DataInv, Registration
<1>2. PICK rec : /\ heap' = Put(heap, Object(Main, i), rec)
                 /\ DOMAIN rec = Fields /\ rec.image = i
                 /\ tool = "simulation" => rec.buffer = <<firstimage', 0>>
  BY LoadImageObject
<1> DEFINE o == Object(Main, i)
<1>3. Main \in Threads /\ o \in Images \X Nat /\ o[1] = i
  BY DataAssumption, ObjectIs
<1>4. \A t, j : Object(t, j)' = Object(t, j)
  BY <1>1 DEF Object
<1>5. DOMAIN heap' = DOMAIN heap \cup {o}
  BY <1>2, PutDomain
<1>6. heap'[o] = rec
  BY <1>2, PutHere
<1>7. \A p \in DOMAIN heap : p # o => heap'[p] = heap[p]
  BY <1>2, PutElsewhere
<1>8. \A j \in images : Object(Main, j) # o
  <2> SUFFICES ASSUME NEW j \in images PROVE Object(Main, j) # o
    OBVIOUS
  <2>1. Object(Main, j)[1] = j
    BY <1>1, <1>3, ObjectIs
  <2> QED  BY <1>1, <1>3, <2>1
<1> HIDE DEF o
<1>9. HeapOk(heap)
  BY DEF DataInv
<1>10. \A p \in DOMAIN heap' : p \in Images \X Nat /\ DOMAIN heap'[p] = Fields /\ heap'[p].image = p[1]
  <2> SUFFICES ASSUME NEW p \in DOMAIN heap'
               PROVE  p \in Images \X Nat /\ DOMAIN heap'[p] = Fields /\ heap'[p].image = p[1]
    OBVIOUS
  <2>1. CASE p = o
    BY <1>2, <1>3, <1>6, <2>1
  <2>2. CASE p # o
    BY <1>5, <1>7, <1>9, <2>2 DEF HeapOk
  <2> QED  BY <2>1, <2>2
<1>11. \A j \in images' : \A t \in allthreads' : Object(t, j)' \in DOMAIN heap'
  <2> SUFFICES ASSUME NEW j \in images' PROVE Object(Main, j) \in DOMAIN heap'
    BY <1>1, <1>4
  <2>1. CASE j = i
    BY <1>5, <2>1 DEF o
  <2>2. CASE j # i
    BY <1>1, <1>5, <1>9, <2>2 DEF HeapOk
  <2> QED  BY <2>1, <2>2
<1>12. HeapOk(heap)'
  <2>1. \A j \in Images : <<j, 0>> \in DOMAIN heap'
    BY <1>5, <1>9 DEF HeapOk
  <2>2. DOMAIN heap' \subseteq Images \X Nat
    BY <1>10
  <2> QED  BY <1>10, <1>11, <2>1, <2>2 DEF HeapOk
<1>13. StopsForCause'
  <2>1. failed' = "no"
    BY <1>1 DEF LoadImage
  <2> QED  BY <2>1 DEF StopsForCause
<1>14. ASSUME tool = "simulation" PROVE BuffersOk(heap, buffers)'
  <2>1. BuffersOk(heap, buffers) /\ o = <<i, 0>> /\ rec.buffer = <<firstimage', 0>>
    BY <1>2, <1>14 DEF DataInv, Object, OneObject, o
  <2>2. \A j \in Images \ images' : heap'[<<j, 0>>].buffer = <<j, 0>>
    <3> SUFFICES ASSUME NEW j \in Images \ images' PROVE heap'[<<j, 0>>].buffer = <<j, 0>>
      OBVIOUS
    <3>1. <<j, 0>> # o /\ <<j, 0>> \in DOMAIN heap /\ j \notin images
      BY <1>1, <1>9, <2>1 DEF HeapOk
    <3> QED  BY <1>7, <2>1, <3>1 DEF BuffersOk
  <2>3. \A j \in images' : heap'[Object(Main, j)].buffer = <<firstimage', 0>>
    <3> SUFFICES ASSUME NEW j \in images' PROVE heap'[Object(Main, j)].buffer = <<firstimage', 0>>
      OBVIOUS
    <3>1. CASE j = i
      BY <1>6, <2>1, <3>1 DEF o
    <3>2. CASE j # i
      <4>1. j \in images /\ Main \in allthreads /\ firstimage' = firstimage
        BY <1>1, <3>2
      <4>2. Object(Main, j) \in DOMAIN heap /\ Object(Main, j) # o
        BY <1>8, <1>9, <4>1 DEF HeapOk
      <4>3. heap[Object(Main, j)].buffer = <<firstimage, 0>>
        BY <2>1, <4>1 DEF BuffersOk, BufferOf
      <4> QED  BY <1>7, <4>1, <4>2, <4>3
    <3> QED  BY <3>1, <3>2
  <2>4. firstimage' \in Images
    BY <1>1
  <2>5. \A j \in images' : \A t \in allthreads' : heap'[Object(t, j)'].buffer = BufferOf(t, j)'
                                                  /\ BufferOf(t, j)' \in DOMAIN buffers'
    <3>1. \A j : BufferOf(Main, j)' = <<firstimage', 0>>
      BY DEF BufferOf
    <3>2. <<firstimage', 0>> \in DOMAIN buffers'
      BY <1>1, <2>1, <2>4 DEF BuffersOk
    <3> QED  BY <1>1, <1>4, <2>3, <3>1, <3>2
  <2>6. \A j \in Images : <<j, 0>> \in DOMAIN buffers'
    BY <1>1, <2>1 DEF BuffersOk
  <2>7. \A b \in DOMAIN buffers' :
           /\ buffers'[b] \in Seq(Entry) /\ Len(buffers'[b]) <= Capacity
           /\ \A j \in 1 .. Len(buffers'[b]) : /\ buffers'[b][j].image \in images'
                                               /\ b[2] # 0 => buffers'[b][j].image = b[1]
    BY <1>1, <2>1 DEF BuffersOk
  <2> QED  BY <2>2, <2>5, <2>6, <2>7 DEF BuffersOk
<1> QED  BY <1>12, <1>13, <1>14

\* The rows of FastData after an image (FastData::AddImage).
LEMMA LoadImageRows ==
    ASSUME DataInv, NEW i \in Images, LoadImage(i), tool = "simulation"
    PROVE  RowsOk(fast)'
<1>1. /\ i \notin images /\ images' = images \cup {i} /\ allthreads' = {Main}
      /\ firstimage' = IF images = {} THEN i ELSE firstimage
      /\ datamap'[i] = [t \in {Main} |-> Object(Main, i)]
      /\ UNCHANGED <<tool, pc, threadseq>>
      /\ images # {} => allthreads = {Main} /\ firstimage \in images
      /\ i \in Nat \ {0}
  BY LoadImageManaged
<1>2. RowsOk(fast) /\ Main \in Threads /\ Capacity \in Nat \ {0} /\ Object(Main, i) \in Nat \X Nat
      /\ DOMAIN threadseq = {Main} /\ threadseq[Main] = 0
  <2>1. DOMAIN threadseq = {Main} /\ Cardinality({Main}) = 1 /\ threadseq[Main] \in 0 .. Cardinality({Main}) - 1
    <3>1. DOMAIN threadseq = allthreads \cup {Main} /\ allthreads \subseteq {Main}
      BY LoadImageManaged DEF DataInv, Numbering
    <3>2. DOMAIN threadseq = {Main}
      BY <3>1
    <3> QED  BY <3>2, FS_Singleton DEF DataInv, Numbering
  <2>2. Object(Main, i) \in Nat \X Nat
    BY ObjectIs, DataAssumption
  <2>3. threadseq[Main] = 0
    BY <2>1
  <2> QED  BY <2>1, <2>2, <2>3, DataAssumption DEF DataInv
<1>3. Object(Main, i)' = Object(Main, i) /\ Object(Main, firstimage)' = Object(Main, firstimage')
  BY <1>1 DEF Object
<1> DEFINE first == IF firstimage = 0 THEN i ELSE firstimage
           gen == datagen(heap, datamap, <<i, 0>>, "image", i, Main, first)
           row == [j \in 1 .. Capacity |-> datamap'[Least(images')][Main]]
<1>4. fast' = IF fast.imagecount = 0
              THEN [imagecount |-> 1, stats |-> <<row>>]
              ELSE [imagecount |-> fast.imagecount + 1, stats |-> fast.stats]
  <2>1. fast' = FastAddImage(IF fast.imagecount = 0 THEN NewFastData(gen.data) ELSE fast,
                             datamap'[Least(images')][Main])
    BY DEF LoadImage
  <2> HIDE DEF gen
  <2>2. \A o : NewFastData(o).imagecount = 0
    BY DEF NewFastData
  <2> HIDE DEF row
  <2>3. \A f : FastAddImage(f, datamap'[Least(images')][Main]) =
                  [imagecount |-> f.imagecount + 1,
                   stats |-> IF f.imagecount = 0 THEN <<row>> ELSE f.stats]
    BY DEF FastAddImage, row
  <2>4. CASE fast.imagecount = 0
    <3>1. fast' = FastAddImage(NewFastData(gen.data), datamap'[Least(images')][Main])
      BY <2>1, <2>4
    <3> QED  BY <2>2, <2>3, <2>4, <3>1
  <2>5. CASE fast.imagecount # 0
    <3>1. fast' = FastAddImage(fast, datamap'[Least(images')][Main])
      BY <2>1, <2>5
    <3> QED  BY <2>3, <2>5, <3>1
  <2> QED  BY <2>4, <2>5
<1>5. CASE images = {}
  <2>1. fast.imagecount = 0 /\ images' = {i} /\ firstimage' = i
    BY <1>1, <1>2, <1>5 DEF RowsOk
  <2>2. Least({i}) = i
    BY <1>1 DEF Least, Min
  <2>3. datamap'[Least(images')][Main] = Object(Main, i)
    BY <1>1, <2>1, <2>2
  <2>4. row = [j \in 1 .. Capacity |-> Object(Main, i)]
    BY <2>3
  <2> HIDE DEF row
  <2>5. fast' = [imagecount |-> 1, stats |-> <<row>>] /\ row \in [1 .. Capacity -> Nat \X Nat]
    BY <1>2, <1>4, <2>1, <2>4
  <2>6. fast' \in [imagecount : Nat, stats : Seq([1 .. Capacity -> Nat \X Nat])]
        /\ Len(fast'.stats) = 1 /\ fast'.stats[1] = row
    BY <2>5
  <2>7. ASSUME NEW t \in allthreads'
        PROVE  /\ threadseq'[t] + 1 \in 1 .. Len(fast'.stats)
               /\ \A j \in 1 .. Capacity : fast'.stats[threadseq'[t] + 1][j] = Object(t, firstimage)'
    <3>1. t = Main /\ threadseq'[t] + 1 = 1
      BY <1>1, <1>2
    <3>2. Object(t, firstimage)' = Object(Main, i)
      BY <1>1, <2>1, <3>1 DEF Object
    <3>3. fast'.stats[threadseq'[t] + 1] = row
      BY <2>6, <3>1
    <3>4. \A j \in 1 .. Capacity : row[j] = Object(Main, i)
      BY <2>4
    <3>5. 1 \in 1 .. Len(fast'.stats)
      BY <2>6
    <3> QED  BY <3>1, <3>2, <3>3, <3>4, <3>5
  <2> QED  BY <2>1, <2>5, <2>6, <2>7 DEF RowsOk
<1>6. CASE images # {}
  <2>1. /\ fast.imagecount \in Nat \ {0} /\ firstimage' = firstimage /\ allthreads = {Main}
        /\ fast.stats \in Seq([1 .. Capacity -> Nat \X Nat])
    BY <1>1, <1>2, <1>6 DEF RowsOk
  <2>2. fast' = [imagecount |-> fast.imagecount + 1, stats |-> fast.stats]
    BY <1>4, <2>1
  <2>3. fast' \in [imagecount : Nat, stats : Seq([1 .. Capacity -> Nat \X Nat])]
        /\ fast'.imagecount # 0 /\ fast'.imagecount # 1 /\ fast'.stats = fast.stats
    BY <2>1, <2>2
  <2>4. \A t \in allthreads' : pc'[t] # "fastdata" => threadseq'[t] + 1 \in 1 .. Len(fast'.stats)
    BY <1>1, <1>2, <2>1, <2>3 DEF RowsOk
  <2> QED  BY <1>1, <2>3, <2>4 DEF RowsOk
<1> QED  BY <1>5, <1>6

\* tool_image_init.
LEMMA LoadImageKeeps ==
    ASSUME DataInv, NEW i \in Images, LoadImage(i)
    PROVE  DataInv'
<1>1. tool' = tool /\ log' = log
  BY DEF LoadImage
<1>2. (log \in Seq(Happening))'
  BY <1>1 DEF DataInv, Happening, Indices
<1> QED  BY <1>1, <1>2, LoadImageTables, LoadImageHeap, LoadImageRows DEF DataInv

-----------------------------------------------------------------------------
(* Threads. *)

\* What the numbers of the threads are.
LEMMA SequenceIs ==
    ASSUME DataInv
    PROVE  /\ IsFiniteSet(DOMAIN threadseq) /\ Cardinality(DOMAIN threadseq) \in Nat
           /\ \A t \in DOMAIN threadseq : threadseq[t] \in Nat
<1>1. DOMAIN threadseq = allthreads \cup {Main} /\ IsFiniteSet(allthreads)
      /\ \A t \in DOMAIN threadseq : threadseq[t] \in 0 .. Cardinality(DOMAIN threadseq) - 1
  BY DEF DataInv, Registration, Numbering
<1>2. IsFiniteSet(allthreads \cup {Main})
  BY <1>1, FS_AddElement
<1>3. Cardinality(DOMAIN threadseq) \in Nat
  BY <1>1, <1>2, FS_CardinalityType
<1> QED  BY <1>1, <1>2, <1>3

\* Steps after which a thread is known to as many as before.
LEMMA CreateKeeps ==
    ASSUME DataInv, NEW t \in Threads, Create(t) \/ Finish(t)
    PROVE  DataInv'
<1>1. /\ UNCHANGED <<tool, heap, buffers, fast, failed, Managed>> /\ failed = "no"
      /\ t # Main /\ images # {}
      /\ \E p \in {"alldata", "done"} : pc' = [pc EXCEPT ![t] = p]
      /\ \/ pc[t] = "none" /\ pc' = [pc EXCEPT ![t] = "alldata"]
         \/ pc[t] \in {"run", "done"}
  BY DEF Create, Finish, DataInv, Registration
<1>2. UNCHANGED <<tool, heap, buffers, datamap, allthreads, threadseq, images, firstimage, threaddata, fast, failed>>
  BY <1>1 DEF Managed
<1>3. \A u, i : Object(u, i)' = Object(u, i) /\ BufferOf(u, i)' = BufferOf(u, i)
  BY <1>2 DEF Object, BufferOf
<1>4. Registration'
  BY <1>1, <1>2, <1>3 DEF DataInv, Registration, Places
<1>5. Numbering' /\ Tables' /\ HeapOk(heap)'
  <2>1. Numbering' /\ HeapOk(heap)'
    BY <1>2, <1>3 DEF DataInv, Numbering, HeapOk
  <2>2. Tables'
    BY <1>2, <1>3 DEF DataInv, Tables
  <2> QED  BY <2>1, <2>2
<1>6. StopsForCause'
  BY <1>1, <1>2 DEF StopsForCause
<1>7. ASSUME tool = "simulation" PROVE BuffersOk(heap, buffers)'
  <2>1. BuffersOk(heap, buffers)
    BY <1>7 DEF DataInv
  <2> QED  BY <1>2, <1>3, <2>1 DEF BuffersOk
<1>8. ASSUME tool = "simulation" PROVE RowsOk(fast)'
  <2>1. RowsOk(fast)
    BY <1>8 DEF DataInv
  <2>2. \A u \in allthreads : pc'[u] # "fastdata" => pc[u] # "fastdata"
    BY <1>1 DEF DataInv, Registration
  <2> QED  BY <1>2, <1>3, <2>1, <2>2 DEF RowsOk
<1>9. (log \in Seq(Happening))'
  BY <1>2 DEF Create, Finish, DataInv, Happening, Indices
<1> QED  BY <1>2, <1>4, <1>5, <1>6, <1>7, <1>8, <1>9 DEF DataInv

\* The rows of a thread in FastData (FastData::AddThread).
LEMMA FastAddThreadKeeps ==
    ASSUME DataInv, NEW t \in Threads, FastAddThread(t)
    PROVE  DataInv'
<1>1. /\ UNCHANGED <<tool, heap, buffers, datamap, allthreads, threadseq, images, firstimage, threaddata, failed>>
      /\ failed = "no" /\ pc[t] = "fastdata" /\ pc' = [pc EXCEPT ![t] = "run"]
  BY DEF FastAddThread, Managed
<1>2. t # Main /\ t \in allthreads /\ images # {}
  BY <1>1 DEF DataInv, Registration
<1>3. \A u, i : Object(u, i)' = Object(u, i) /\ BufferOf(u, i)' = BufferOf(u, i)
  BY <1>1 DEF Object, BufferOf
<1>4. Registration'
  BY <1>1, <1>2, <1>3 DEF DataInv, Registration, Places
<1>5. Numbering' /\ Tables' /\ HeapOk(heap)'
  <2>1. Numbering' /\ HeapOk(heap)'
    BY <1>1, <1>3 DEF DataInv, Numbering, HeapOk
  <2>2. Tables'
    BY <1>1, <1>3 DEF DataInv, Tables
  <2> QED  BY <2>1, <2>2
<1>6. StopsForCause'
  BY <1>1 DEF StopsForCause
<1>7. ASSUME tool = "simulation" PROVE BuffersOk(heap, buffers)'
  <2>1. BuffersOk(heap, buffers)
    BY <1>7 DEF DataInv
  <2> QED  BY <1>1, <1>3, <2>1 DEF BuffersOk
<1>8. ASSUME tool = "simulation" PROVE RowsOk(fast)'
  <2> DEFINE Row == [1 .. Capacity -> Nat \X Nat]
             seq == threadseq[t] + 1
             size == IF seq > Len(fast.stats) THEN seq ELSE Len(fast.stats)
             old == [r \in 1 .. size |-> IF r <= Len(fast.stats) THEN fast.stats[r]
                                                                ELSE [j \in 1 .. Capacity |-> NULL]]
             own == [j \in 1 .. Capacity |-> datamap[Least(images)][t]]
             new == IF fast.imagecount = 1 THEN [old EXCEPT ![seq] = own] ELSE old
  <2>1. RowsOk(fast) /\ fast.stats \in Seq(Row) /\ fast.imagecount \in Nat
    BY <1>8 DEF DataInv, RowsOk
  <2>2. \A u \in allthreads : threadseq[u] \in Nat /\ (u # t => threadseq[u] # threadseq[t])
    BY <1>2, SequenceIs DEF DataInv, Numbering
  <2>3. fast' = [fast EXCEPT !.stats = new]
    BY DEF FastAddThread
  <2>4. seq \in 1 .. size /\ size \in Nat /\ Len(fast.stats) \in Nat /\ Len(fast.stats) <= size
        /\ 1 .. Len(fast.stats) \subseteq 1 .. size
    BY <1>2, <2>1, <2>2
  <2>5. [j \in 1 .. Capacity |-> NULL] \in Row
    BY DEF NULL
  <2>6. \A r \in 1 .. Len(fast.stats) : fast.stats[r] \in Row
    BY <2>1
  <2> HIDE DEF Row, seq, size
  <2>7. old \in [1 .. size -> Row] /\ \A r \in 1 .. Len(fast.stats) : old[r] = fast.stats[r]
    BY <2>4, <2>5, <2>6
  <2>8. fast.imagecount = 1 => own = [j \in 1 .. Capacity |-> Object(t, firstimage)] /\ own \in Row
    <3> SUFFICES ASSUME fast.imagecount = 1
                 PROVE  own = [j \in 1 .. Capacity |-> Object(t, firstimage)] /\ own \in Row
      OBVIOUS
    <3>1. images = {firstimage} /\ firstimage \in Images /\ firstimage \in Nat
      BY <1>2, <2>1, DataAssumption DEF RowsOk, DataInv, Registration
    <3>2. Least({firstimage}) = firstimage
      BY <3>1 DEF Least, Min
    <3>3. datamap[Least(images)][t] = Object(t, firstimage)
      BY <1>2, <3>1, <3>2 DEF DataInv, Registration
    <3>4. Object(t, firstimage) \in Nat \X Nat
      BY <3>1, ObjectIs, DataAssumption
    <3> QED  BY <3>3, <3>4 DEF Row
  <2> HIDE DEF old, own
  <2>9. new \in [1 .. size -> Row]
    BY <2>7, <2>8
  <2>10. \A r \in 1 .. Len(fast.stats) : r # seq => new[r] = fast.stats[r]
    BY <2>4, <2>7, <2>8
  <2>11. fast.imagecount = 1 => new[seq] = [j \in 1 .. Capacity |-> Object(t, firstimage)]
    BY <2>4, <2>7, <2>8
  <2> HIDE DEF new
  <2>12. new \in Seq(Row) /\ Len(new) = size
    BY <2>4, <2>9
  <2>13. fast' \in [imagecount : Nat, stats : Seq(Row)] /\ fast'.stats = new /\ fast'.imagecount = fast.imagecount
    BY <2>1, <2>3, <2>12 DEF RowsOk, Row
  <2>14. ASSUME NEW u \in allthreads, pc'[u] # "fastdata"
         PROVE  /\ threadseq[u] + 1 \in 1 .. Len(new)
                /\ fast.imagecount = 1 =>
                      \A j \in 1 .. Capacity : new[threadseq[u] + 1][j] = Object(u, firstimage)
    <3>1. CASE u = t
      BY <2>4, <2>11, <2>12, <3>1 DEF seq
    <3>2. CASE u # t
      <4>1. pc[u] # "fastdata"
        BY <1>1, <2>14, <3>2 DEF DataInv, Registration
      <4>2. /\ threadseq[u] + 1 \in 1 .. Len(fast.stats)
            /\ fast.imagecount = 1 =>
                  \A j \in 1 .. Capacity : fast.stats[threadseq[u] + 1][j] = Object(u, firstimage)
        BY <2>1, <4>1 DEF RowsOk
      <4>3. threadseq[u] + 1 # seq
        BY <1>2, <2>2, <3>2 DEF seq
      <4> QED  BY <2>4, <2>10, <2>12, <4>2, <4>3
    <3> QED  BY <3>1, <3>2
  <2>15. (fast'.imagecount = 0 <=> images' = {}) /\ (fast'.imagecount = 1 => images' = {firstimage'})
    BY <1>1, <2>1, <2>13 DEF RowsOk
  <2> QED  BY <1>1, <1>3, <2>13, <2>14, <2>15 DEF RowsOk, Row
<1>9. (log \in Seq(Happening))'
  BY <1>1 DEF FastAddThread, DataInv, Happening, Indices
<1> QED  BY <1>1, <1>4, <1>5, <1>6, <1>7, <1>8, <1>9 DEF DataInv

\* The least of the known threads.
LEMMA LeastThread ==
    ASSUME DataInv, allthreads # {}
    PROVE  Least(allthreads) \in allthreads
<1>1. allthreads \subseteq Nat
  BY DataAssumption DEF DataInv, Registration
<1>2. PICK x \in allthreads : \A y \in allthreads : x <= y
  BY <1>1, LeastNumber
<1>3. \E m \in allthreads : \A y \in allthreads : m <= y
  BY <1>2
<1> QED  BY <1>3 DEF Least, Min

\* What a thread gets for an image, made from the object of another thread
\* (the datagen functions on a thread).
MadeFor(g, i, t) ==
    /\ g.data = <<i, t>> /\ DOMAIN g.heap = DOMAIN heap \cup {<<i, t>>}
    /\ DOMAIN g.heap[<<i, t>>] = Fields /\ g.heap[<<i, t>>].image = i
    /\ tool = "simulation" => g.heap[<<i, t>>].buffer = <<i, t>>
    /\ \A o \in DOMAIN heap : o # <<i, t>> => /\ DOMAIN g.heap[o] = Fields /\ g.heap[o].image = o[1]
                                              /\ g.heap[o].buffer = heap[o].buffer

LEMMA MadeIs ==
    ASSUME DataInv, NEW i \in images, NEW t \in Threads, t # Main, NEW u \in allthreads, NEW g,
           g = datagen(heap, datamap, datamap[i][u], "thread", i, t, firstimage)
    PROVE  MadeFor(g, i, t)
<1> DEFINE tmpl == Object(u, i)
           n == <<i, t>>
<1>1. datamap[i][u] = tmpl /\ u \in Threads /\ i \in Images
  BY DEF DataInv, Registration
<1>2. tmpl \in DOMAIN heap /\ tmpl[1] = i /\ \A o \in DOMAIN heap : DOMAIN heap[o] = Fields /\ heap[o].image = o[1]
  BY <1>1, ObjectIs DEF DataInv, HeapOk
<1>3. g = datagen(heap, datamap, tmpl, "thread", i, t, firstimage)
  BY <1>1
<1>4. CASE tool = "counter"
  <2> DEFINE named == [heap EXCEPT ![tmpl].thread = t, ![tmpl].image = i]
             rec == [named[tmpl] EXCEPT !.counters = Zeroed(@), !.master = FALSE]
  <2>1. g = [heap |-> Put(named, n, rec), data |-> n]
    BY <1>3, <1>4 DEF datagen, GenerateCounterArray
  <2> HIDE DEF tmpl, n
  <2>2. /\ DOMAIN named = DOMAIN heap
        /\ \A o \in DOMAIN heap : /\ DOMAIN named[o] = Fields /\ named[o].image = o[1]
                                  /\ named[o].buffer = heap[o].buffer
    BY <1>2 DEF Fields
  <2>3. DOMAIN rec = Fields /\ rec.image = i
    BY <1>2, <2>2 DEF Fields
  <2> HIDE DEF named, rec
  <2>4. g.heap = Put(named, n, rec) /\ g.data = n
    BY <2>1
  <2>5. DOMAIN g.heap = DOMAIN heap \cup {n}
    <3>1. DOMAIN Put(named, n, rec) = DOMAIN named \cup {n}
      BY PutDomain
    <3> QED  BY <2>2, <2>4, <3>1
  <2>6. g.heap[n] = rec
    BY <2>4, PutHere
  <2>7. \A o \in DOMAIN heap : o # n => g.heap[o] = named[o]
    BY <2>2, <2>4, PutElsewhere
  <2> QED  BY <1>4, <2>2, <2>3, <2>4, <2>5, <2>6, <2>7 DEF n, MadeFor
<1>5. CASE tool = "simulation"
  <2> DEFINE shared == heap[datamap[firstimage][t]]
             rec == [heap[tmpl] EXCEPT
                       !.thread = t, !.image = i, !.stats = NoStats,
                       !.handlers = IF TRUE THEN n ELSE shared.handlers,
                       !.rhandlers = IF TRUE THEN n ELSE @,
                       !.buffer = n,
                       !.counters = Zeroed(@)]
  <2>1. g = [heap |-> Put(heap, n, rec), data |-> n]
    BY <1>3, <1>5 DEF datagen, GenerateCacheStats
  <2> HIDE DEF tmpl, n
  <2>2. DOMAIN rec = Fields /\ rec.image = i /\ rec.buffer = n
    BY <1>2 DEF Fields
  <2> HIDE DEF rec
  <2>3. g.heap = Put(heap, n, rec) /\ g.data = n
    BY <2>1
  <2>4. DOMAIN g.heap = DOMAIN heap \cup {n}
    <3>1. DOMAIN Put(heap, n, rec) = DOMAIN heap \cup {n}
      BY PutDomain
    <3> QED  BY <2>3, <3>1
  <2>5. g.heap[n] = rec
    BY <2>3, PutHere
  <2>6. \A o \in DOMAIN heap : o # n => g.heap[o] = heap[o]
    BY <2>3, PutElsewhere
  <2> QED  BY <1>2, <2>2, <2>3, <2>4, <2>5, <2>6 DEF n, MadeFor
<1>6. CASE tool \notin {"counter", "simulation"}
  <2> DEFINE rec == [heap[tmpl] EXCEPT !.master = @ /\ "thread" = "image", !.timers = Timers]
  <2>1. g = [heap |-> Put(heap, n, rec), data |-> n]
    BY <1>3, <1>6 DEF datagen, GenerateTimers
  <2> HIDE DEF tmpl, n
  <2>2. DOMAIN rec = Fields /\ rec.image = i
    BY <1>2 DEF Fields
  <2> HIDE DEF rec
  <2>3. g.heap = Put(heap, n, rec) /\ g.data = n
    BY <2>1
  <2>4. DOMAIN g.heap = DOMAIN heap \cup {n}
    <3>1. DOMAIN Put(heap, n, rec) = DOMAIN heap \cup {n}
      BY PutDomain
    <3> QED  BY <2>3, <3>1
  <2>5. g.heap[n] = rec
    BY <2>3, PutHere
  <2>6. \A o \in DOMAIN heap : o # n => g.heap[o] = heap[o]
    BY <2>3, PutElsewhere
  <2> QED  BY <1>2, <1>6, <2>2, <2>3, <2>4, <2>5, <2>6 DEF n, MadeFor
<1> QED  BY <1>4, <1>5, <1>6

\* A thread that is known already, or whose slot is taken, stops the process.
LEMMA ThreadInitStops ==
    ASSUME DataInv, NEW t \in Threads, ThreadInit(t),
           t \in allthreads \/ \E i \in images : Collides(threaddata[i], t)
    PROVE  DataInv'
<1>1. /\ UNCHANGED <<tool, pc, heap, buffers, Managed, fast>> /\ failed = "no" /\ pc[t] = "alldata"
      /\ IF t \in allthreads THEN failed' = "allthreads.count(tid) == 0" ELSE failed' = "actual == h"
  <2>1. CASE t \in allthreads
    BY <2>1 DEF ThreadInit
  <2>2. CASE t \notin allthreads
    BY <2>2 DEF ThreadInit
  <2> QED  BY <2>1, <2>2
<1>2. UNCHANGED <<tool, pc, heap, buffers, datamap, allthreads, threadseq, images, firstimage, threaddata, fast>>
  BY <1>1 DEF Managed
<1>3. \A u, i : Object(u, i)' = Object(u, i) /\ BufferOf(u, i)' = BufferOf(u, i)
  BY <1>2 DEF Object, BufferOf
<1>4. Registration' /\ Numbering' /\ Tables' /\ HeapOk(heap)'
  <2>1. Registration'
    BY <1>2, <1>3 DEF DataInv, Registration
  <2>2. Numbering' /\ HeapOk(heap)'
    BY <1>2, <1>3 DEF DataInv, Numbering, HeapOk
  <2>3. Tables'
    BY <1>2, <1>3 DEF DataInv, Tables
  <2> QED  BY <2>1, <2>2, <2>3
<1>5. StopsForCause'
  <2>1. CASE t \in allthreads
    BY <1>1, <1>2, <2>1 DEF StopsForCause
  <2>2. CASE t \notin allthreads
    <3>1. PICK i \in images : threaddata[i][HashThread(t)].id # 0
      BY <2>2 DEF Collides
    <3>2. HashThread(t) \in 0 .. Slots - 1
      BY HashIn, DataAssumption
    <3> DEFINE u == threaddata[i][HashThread(t)].id
    <3>3. u \in allthreads /\ HashThread(u) = HashThread(t)
      BY <3>1, <3>2 DEF DataInv, Tables
    <3> HIDE DEF u
    <3>4. \E v \in allthreads : t # v /\ HashThread(t) = HashThread(v)
      BY <2>2, <3>3
    <3>5. failed' = "actual == h"
      BY <1>1, <2>2
    <3> QED  BY <1>1, <1>2, <3>4, <3>5 DEF StopsForCause
  <2> QED  BY <2>1, <2>2
<1>6. ASSUME tool = "simulation" PROVE BuffersOk(heap, buffers)' /\ RowsOk(fast)'
  <2>1. BuffersOk(heap, buffers) /\ RowsOk(fast)
    BY <1>6 DEF DataInv
  <2>2. BuffersOk(heap, buffers)'
    BY <1>2, <1>3, <2>1 DEF BuffersOk
  <2>3. RowsOk(fast)'
    BY <1>2, <1>3, <2>1 DEF RowsOk
  <2> QED  BY <2>2, <2>3
<1>7. (log \in Seq(Happening))'
  BY <1>2 DEF ThreadInit, DataInv, Happening, Indices
<1> QED  BY <1>2, <1>4, <1>5, <1>6, <1>7 DEF DataInv

\* A thread that is new and whose slots are free is added to every table
\* (DataManager::AddThread).
LEMMA ThreadInitManaged ==
    ASSUME DataInv, NEW t \in Threads, ThreadInit(t),
           t \notin allthreads, \A i \in images : ~ Collides(threaddata[i], t)
    PROVE  /\ t # Main /\ images # {} /\ Main \in allthreads /\ failed' = "no"
           /\ UNCHANGED <<tool, fast, images, firstimage>> /\ allthreads' = allthreads \cup {t}
           /\ threadseq' = Put(threadseq, t, Cardinality(DOMAIN threadseq))
           /\ pc' = [pc EXCEPT ![t] = IF tool = "simulation" THEN "fastdata" ELSE "run"]
           /\ buffers' = [b \in DOMAIN buffers \cup {<<i, t>> : i \in images} |->
                              IF b[2] = t THEN <<>> ELSE buffers[b]]
           /\ datamap' = [i \in images |-> Put(datamap[i], t, <<i, t>>)]
           /\ threaddata' = [i \in Images |-> IF i \in images
                                 THEN [threaddata[i] EXCEPT ![HashThread(t)] = [id |-> t, data |-> <<i, t>>]]
                                 ELSE threaddata[i]]
           /\ DOMAIN heap' = DOMAIN heap \cup {<<i, t>> : i \in images}
           /\ \A o \in DOMAIN heap' : DOMAIN heap'[o] = Fields /\ heap'[o].image = o[1]
           /\ \A i \in images : tool = "simulation" => heap'[<<i, t>>].buffer = <<i, t>>
           /\ \A o \in DOMAIN heap : o[2] # t => heap'[o].buffer = heap[o].buffer
<1> DEFINE made(i) == datagen(heap, datamap, Template(i), "thread", i, t, firstimage)
           all == [o \in DOMAIN heap \cup {made(i).data : i \in images} |->
                      IF o[1] \in images THEN made(o[1]).heap[o] ELSE heap[o]]
<1>1. /\ failed = "no" /\ pc[t] = "alldata" /\ t # Main /\ images # {} /\ Main \in allthreads
      /\ t \in Nat \ {0} /\ images \subseteq Images /\ images \subseteq Nat
  BY DataAssumption DEF DataInv, Registration, ThreadInit
<1>2. /\ heap' = all
      /\ buffers' = [b \in DOMAIN buffers \cup {<<i, t>> : i \in images} |->
                         IF b[2] = t THEN <<>> ELSE buffers[b]]
      /\ datamap' = [i \in images |-> Put(datamap[i], t, made(i).data)]
      /\ threaddata' = [i \in Images |-> IF i \in images
                            THEN SetThreadData(threaddata[i], t, made(i).data) ELSE threaddata[i]]
      /\ threadseq' = Put(threadseq, t, Cardinality(DOMAIN threadseq))
      /\ allthreads' = allthreads \cup {t}
      /\ pc' = [pc EXCEPT ![t] = IF tool = "simulation" THEN "fastdata" ELSE "run"]
      /\ UNCHANGED <<images, firstimage, failed, tool, fast>>
  BY DEF ThreadInit
<1>3. Least(allthreads) \in allthreads
  BY <1>1, LeastThread
<1>4. ASSUME NEW i \in images PROVE MadeFor(made(i), i, t)
  <2>1. made(i) = datagen(heap, datamap, datamap[i][Least(allthreads)], "thread", i, t, firstimage)
    BY DEF Template
  <2> HIDE DEF made
  <2> DEFINE u == Least(allthreads)
             g == made(i)
  <2>2. u \in allthreads /\ g = datagen(heap, datamap, datamap[i][u], "thread", i, t, firstimage)
    BY <1>3, <2>1
  <2> HIDE DEF u, g
  <2>3. MadeFor(g, i, t)
    BY <1>1, <2>2, MadeIs
  <2> QED  BY <2>3 DEF g
<1> HIDE DEF made
<1>5. \A i \in images : made(i).data = <<i, t>>
  BY <1>4 DEF MadeFor
<1>14. datamap' = [i \in images |-> Put(datamap[i], t, <<i, t>>)]
  BY <1>2, <1>5
<1>6. threaddata' = [i \in Images |-> IF i \in images
                        THEN [threaddata[i] EXCEPT ![HashThread(t)] = [id |-> t, data |-> <<i, t>>]]
                        ELSE threaddata[i]]
  <2>1. ASSUME NEW i \in images
        PROVE  SetThreadData(threaddata[i], t, made(i).data) =
                   [threaddata[i] EXCEPT ![HashThread(t)] = [id |-> t, data |-> <<i, t>>]]
    <3> DEFINE td == threaddata[i]
    <3>1. td \in [0 .. Slots - 1 -> Slot] /\ t \in Nat
      BY <1>1 DEF DataInv, Tables
    <3>2. td[HashThread(t)].id = 0
      BY DEF Collides
    <3> HIDE DEF td
    <3>3. Probed(td, t) = HashThread(t)
      BY <3>1, <3>2, ProbedIs
    <3> QED  BY <1>5, <3>3 DEF SetThreadData, td
  <2> QED  BY <1>2, <2>1
<1>7. DOMAIN heap' = DOMAIN heap \cup {<<i, t>> : i \in images}
  <2>1. {made(i).data : i \in images} = {<<i, t>> : i \in images}
    BY <1>5
  <2> QED  BY <1>2, <2>1
<1>8. \A o \in DOMAIN heap' : heap'[o] = IF o[1] \in images THEN made(o[1]).heap[o] ELSE heap[o]
  BY <1>2
<1>9. \A o \in DOMAIN heap : DOMAIN heap[o] = Fields /\ heap[o].image = o[1] /\ o \in Images \X Nat
  BY DEF DataInv, HeapOk
<1>10. \A o \in DOMAIN heap' : DOMAIN heap'[o] = Fields /\ heap'[o].image = o[1]
  <2> SUFFICES ASSUME NEW o \in DOMAIN heap' PROVE DOMAIN heap'[o] = Fields /\ heap'[o].image = o[1]
    OBVIOUS
  <2>1. CASE \E i \in images : o = <<i, t>>
    <3>1. PICK i \in images : o = <<i, t>>
      BY <2>1
    <3>2. o[1] = i /\ heap'[o] = made(i).heap[<<i, t>>]
      BY <1>8, <3>1
    <3> QED  BY <1>4, <3>2 DEF MadeFor
  <2>2. CASE ~ \E i \in images : o = <<i, t>>
    <3>1. o \in DOMAIN heap
      BY <1>7, <2>2
    <3>2. CASE o[1] \in images
      <4>1. PICK i \in images : i = o[1]
        BY <3>2
      <4>2. heap'[o] = made(i).heap[o] /\ o # <<i, t>>
        BY <1>8, <2>2, <4>1
      <4>3. MadeFor(made(i), i, t)
        BY <1>4
      <4>4. DOMAIN made(i).heap[o] = Fields /\ made(i).heap[o].image = o[1]
        BY <3>1, <4>2, <4>3 DEF MadeFor
      <4> QED  BY <4>2, <4>4
    <3>3. CASE o[1] \notin images
      BY <1>8, <1>9, <3>1, <3>3
    <3> QED  BY <3>2, <3>3
  <2> QED  BY <2>1, <2>2
<1>11. \A i \in images : tool = "simulation" => heap'[<<i, t>>].buffer = <<i, t>>
  <2> SUFFICES ASSUME NEW i \in images, tool = "simulation" PROVE heap'[<<i, t>>].buffer = <<i, t>>
    OBVIOUS
  <2>1. <<i, t>> \in DOMAIN heap' /\ <<i, t>>[1] = i
    BY <1>7
  <2>2. heap'[<<i, t>>] = made(i).heap[<<i, t>>]
    BY <1>8, <2>1
  <2> QED  BY <1>4, <2>2 DEF MadeFor
<1>12. \A o \in DOMAIN heap : o[2] # t => heap'[o].buffer = heap[o].buffer
  <2> SUFFICES ASSUME NEW o \in DOMAIN heap, o[2] # t PROVE heap'[o].buffer = heap[o].buffer
    OBVIOUS
  <2>1. o \in DOMAIN heap'
    BY <1>7
  <2>2. CASE o[1] \in images
    <3>1. PICK i \in images : i = o[1]
      BY <2>2
    <3>2. heap'[o] = made(i).heap[o] /\ o # <<i, t>>
      BY <1>8, <2>1, <3>1
    <3>3. MadeFor(made(i), i, t)
      BY <1>4
    <3>4. made(i).heap[o].buffer = heap[o].buffer
      BY <3>2, <3>3 DEF MadeFor
    <3> QED  BY <3>2, <3>4
  <2>3. CASE o[1] \notin images
    BY <1>8, <2>1, <2>3
  <2> QED  BY <2>2, <2>3
<1>13. failed' = "no"
  BY <1>1, <1>2
<1> QED  BY <1>1, <1>2, <1>14, <1>6, <1>7, <1>10, <1>11, <1>12, <1>13

\* tool_thread_init.
LEMMA ThreadInitKeeps ==
    ASSUME DataInv, NEW t \in Threads, ThreadInit(t)
    PROVE  DataInv'
<1> SUFFICES ASSUME t \notin allthreads, \A i \in images : ~ Collides(threaddata[i], t)
             PROVE  DataInv'
  BY ThreadInitStops
<1> DEFINE C == Cardinality(DOMAIN threadseq)
<1>1. /\ t # Main /\ images # {} /\ Main \in allthreads /\ failed' = "no"
      /\ UNCHANGED <<tool, fast, images, firstimage>> /\ allthreads' = allthreads \cup {t}
      /\ threadseq' = Put(threadseq, t, C)
      /\ pc' = [pc EXCEPT ![t] = IF tool = "simulation" THEN "fastdata" ELSE "run"]
      /\ buffers' = [b \in DOMAIN buffers \cup {<<i, t>> : i \in images} |->
                         IF b[2] = t THEN <<>> ELSE buffers[b]]
      /\ datamap' = [i \in images |-> Put(datamap[i], t, <<i, t>>)]
      /\ threaddata' = [i \in Images |-> IF i \in images
                            THEN [threaddata[i] EXCEPT ![HashThread(t)] = [id |-> t, data |-> <<i, t>>]]
                            ELSE threaddata[i]]
      /\ DOMAIN heap' = DOMAIN heap \cup {<<i, t>> : i \in images}
      /\ \A o \in DOMAIN heap' : DOMAIN heap'[o] = Fields /\ heap'[o].image = o[1]
      /\ \A i \in images : tool = "simulation" => heap'[<<i, t>>].buffer = <<i, t>>
      /\ \A o \in DOMAIN heap : o[2] # t => heap'[o].buffer = heap[o].buffer
  BY ThreadInitManaged
<1>2. /\ t \in Nat \ {0} /\ Main \in Nat \ {0} /\ images \subseteq Images /\ Images \subseteq Nat \ {0}
      /\ allthreads \subseteq Threads /\ allthreads \subseteq Nat \ {0} /\ Main \in Threads
  BY DataAssumption DEF DataInv, Registration
<1>3. \A u, i : Object(u, i)' = Object(u, i) /\ BufferOf(u, i)' = BufferOf(u, i)
  BY <1>1 DEF Object, BufferOf
<1>4. \A i : Object(t, i) = <<i, t>>
  BY <1>1 DEF Object
<1>5. Registration'
  <2>1. /\ tool' \in Tools /\ pc' \in [Threads -> Places] /\ pc'[Main] = "run"
        /\ images' \subseteq Images /\ allthreads' \subseteq Threads
        /\ Main \in allthreads' /\ firstimage' \in images' /\ images' # {}
        /\ pc'[t] \in {"fastdata", "run"} /\ \A u \in Threads : u # t => pc'[u] = pc[u]
    BY <1>1, <1>2 DEF DataInv, Registration, Places
  <2>2. IsFiniteSet(allthreads')
    BY <1>1, FS_AddElement DEF DataInv, Registration
  <2>3. \A u \in Threads \ {Main} :
           /\ IF pc'[u] = "none" THEN u \notin allthreads' ELSE images' # {}
           /\ pc'[u] \in {"fastdata", "run", "done"} => u \in allthreads'
    BY <1>1, <2>1 DEF DataInv, Registration
  <2>4. ASSUME NEW i \in images'
        PROVE  datamap'[i] = [u \in allthreads' |-> Object(u, i)']
    <3> DEFINE d == datamap[i]
    <3>1. i \in images /\ d = [u \in allthreads |-> Object(u, i)]
      BY <1>1 DEF DataInv, Registration
    <3>2. datamap'[i] = Put(d, t, <<i, t>>)
      BY <1>1, <3>1
    <3> HIDE DEF d
    <3>3. Put(d, t, <<i, t>>) = [u \in allthreads \cup {t} |-> IF u = t THEN <<i, t>> ELSE d[u]]
      BY <3>1 DEF Put
    <3>4. \A u \in allthreads \cup {t} : (IF u = t THEN <<i, t>> ELSE d[u]) = Object(u, i)
      BY <1>4, <3>1
    <3> QED  BY <1>1, <1>3, <3>2, <3>3, <3>4
  <2>5. DOMAIN datamap' = images'
    BY <1>1
  <2> QED  BY <2>1, <2>2, <2>3, <2>4, <2>5 DEF Registration
<1>6. Numbering'
  <2>1. /\ DOMAIN threadseq = allthreads \cup {Main} /\ t \notin DOMAIN threadseq
        /\ IsFiniteSet(DOMAIN threadseq) /\ C \in Nat
        /\ \A u \in DOMAIN threadseq : threadseq[u] \in 0 .. C - 1
        /\ \A u, v \in DOMAIN threadseq : threadseq[u] = threadseq[v] => u = v
    BY <1>1, SequenceIs DEF DataInv, Numbering
  <2>2. Cardinality(DOMAIN threadseq \cup {t}) = C + 1
    BY <2>1, FS_AddElement
  <2> HIDE DEF C
  <2>3. DOMAIN threadseq' = DOMAIN threadseq \cup {t}
    <3>1. DOMAIN Put(threadseq, t, C) = DOMAIN threadseq \cup {t}
      BY PutDomain
    <3> QED  BY <1>1, <3>1
  <2>4. threadseq'[t] = C
    BY <1>1, PutHere
  <2>5. \A u \in DOMAIN threadseq : threadseq'[u] = threadseq[u]
    BY <1>1, <2>1, PutElsewhere
  <2>6. \A u \in DOMAIN threadseq' : threadseq'[u] \in 0 .. Cardinality(DOMAIN threadseq') - 1
    BY <2>1, <2>2, <2>3, <2>4, <2>5
  <2>7. \A u, v \in DOMAIN threadseq' : threadseq'[u] = threadseq'[v] => u = v
    BY <2>1, <2>3, <2>4, <2>5
  <2>8. DOMAIN threadseq' = allthreads' \cup {Main}
    BY <1>1, <2>1, <2>3
  <2> QED  BY <2>6, <2>7, <2>8 DEF Numbering
<1>7. Tables'
  <2> DEFINE H == HashThread(t)
             new(i) == [threaddata[i] EXCEPT ![H] = [id |-> t, data |-> <<i, t>>]]
  <2>1. H \in 0 .. Slots - 1 /\ \A u \in allthreads : HashThread(u) \in 0 .. Slots - 1
    BY <1>2, HashIn
  <2>2. /\ \A i \in Images : threaddata[i] \in [0 .. Slots - 1 -> Slot]
        /\ \A i \in Images \ images : \A h \in 0 .. Slots - 1 : threaddata[i][h].id = 0
    BY DEF DataInv, Tables
  <2>3. ASSUME NEW i \in images
        PROVE  /\ threaddata[i][H].id = 0
               /\ \A u \in allthreads :
                     /\ threaddata[i][HashThread(u)].id = u
                     /\ tool \in OneObject => threaddata[i][HashThread(u)].data = Object(u, i)
                     /\ HashThread(u) # H
               /\ \A h \in 0 .. Slots - 1 :
                     threaddata[i][h].id # 0 =>
                        threaddata[i][h].id \in allthreads /\ HashThread(threaddata[i][h].id) = h
    <3>1. threaddata[i][H].id = 0
      BY DEF Collides
    <3>2. \A u \in allthreads : threaddata[i][HashThread(u)].id = u /\ u # 0
      BY <1>2 DEF DataInv, Tables
    <3> QED  BY <3>1, <3>2 DEF DataInv, Tables
  <2> HIDE DEF H
  <2>4. ASSUME NEW i \in images
        PROVE  /\ new(i) \in [0 .. Slots - 1 -> Slot] /\ new(i)[H] = [id |-> t, data |-> <<i, t>>]
               /\ \A h \in 0 .. Slots - 1 : h # H => new(i)[h] = threaddata[i][h]
    <3>1. [id |-> t, data |-> <<i, t>>] \in Slot
      BY <1>2 DEF Slot
    <3> QED  BY <1>2, <2>1, <2>2, <3>1
  <2>5. /\ \A i \in images : threaddata'[i] = new(i)
        /\ \A i \in Images \ images : threaddata'[i] = threaddata[i]
        /\ DOMAIN threaddata' = Images
        /\ threaddata' = [i \in Images |-> IF i \in images THEN new(i) ELSE threaddata[i]]
    BY <1>1, <1>2 DEF H
  <2> HIDE DEF new
  <2>6. threaddata' \in [Images -> [0 .. Slots - 1 -> Slot]]
    <3>1. ASSUME NEW i \in Images PROVE threaddata'[i] \in [0 .. Slots - 1 -> Slot]
      <4>1. CASE i \in images
        <5>1. threaddata'[i] = new(i)
          BY <2>5, <4>1
        <5>2. new(i) \in [0 .. Slots - 1 -> Slot]
          BY <2>4, <4>1
        <5> QED  BY <5>1, <5>2
      <4>2. CASE i \notin images
        <5>1. threaddata'[i] = threaddata[i]
          BY <2>5, <4>2
        <5> QED  BY <2>2, <5>1
      <4> QED  BY <4>1, <4>2
    <3>2. threaddata' = [i \in Images |-> threaddata'[i]]
      BY <2>5
    <3> QED  BY <3>1, <3>2
  <2>7. \A i \in Images \ images' : \A h \in 0 .. Slots - 1 : threaddata'[i][h].id = 0
    BY <1>1, <2>2, <2>5
  <2>8. ASSUME NEW i \in images', NEW u \in allthreads'
        PROVE  /\ threaddata'[i][HashThread(u)].id = u
               /\ tool' \in OneObject => threaddata'[i][HashThread(u)].data = Object(u, i)'
    <3>1. i \in images /\ threaddata'[i] = new(i)
      BY <1>1, <2>5
    <3>2. CASE u = t
      <4>1. threaddata'[i][H] = [id |-> t, data |-> <<i, t>>] /\ HashThread(u) = H /\ Object(u, i)' = <<i, t>>
        BY <1>3, <1>4, <2>4, <3>1, <3>2 DEF H
      <4> QED  BY <3>2, <4>1
    <3>3. CASE u # t
      <4>1. u \in allthreads /\ HashThread(u) \in 0 .. Slots - 1 /\ HashThread(u) # H
        BY <1>1, <2>1, <2>3, <3>1, <3>3
      <4>2. new(i)[HashThread(u)] = threaddata[i][HashThread(u)]
        BY <2>4, <3>1, <4>1
      <4> QED  BY <1>1, <1>3, <2>3, <3>1, <4>1, <4>2
    <3> QED  BY <3>2, <3>3
  <2>9. ASSUME NEW i \in images', NEW h \in 0 .. Slots - 1, threaddata'[i][h].id # 0
        PROVE  threaddata'[i][h].id \in allthreads' /\ HashThread(threaddata'[i][h].id) = h
    <3>1. i \in images /\ threaddata'[i] = new(i)
      BY <1>1, <2>5
    <3>2. CASE h = H
      <4>1. threaddata'[i][h] = [id |-> t, data |-> <<i, t>>]
        BY <2>4, <3>1, <3>2
      <4>2. threaddata'[i][h].id = t
        BY <4>1
      <4> QED  BY <1>1, <3>2, <4>2 DEF H
    <3>3. CASE h # H
      <4>1. threaddata'[i][h] = threaddata[i][h]
        BY <2>4, <3>1, <3>3
      <4> QED  BY <1>1, <2>3, <2>9, <3>1, <4>1
    <3> QED  BY <3>2, <3>3
  <2> QED  BY <2>6, <2>7, <2>8, <2>9 DEF Tables
<1>8. /\ HeapOk(heap) /\ \A i \in images : <<i, t>> \in DOMAIN heap'
      /\ \A o \in DOMAIN heap : o \in DOMAIN heap'
  BY <1>1 DEF DataInv
<1>9. \A i \in images : \A u \in allthreads : Object(u, i) \in DOMAIN heap /\ Object(u, i)[2] # t
  <2> SUFFICES ASSUME NEW i \in images, NEW u \in allthreads
               PROVE  Object(u, i) \in DOMAIN heap /\ Object(u, i)[2] # t
    OBVIOUS
  <2>1. Object(u, i)[2] \in {0, u}
    BY DEF Object
  <2> QED  BY <1>2, <1>8, <2>1 DEF HeapOk
<1>10. HeapOk(heap)'
  <2>1. DOMAIN heap' \subseteq Images \X Nat
    BY <1>1, <1>2, <1>8 DEF HeapOk
  <2>2. \A i \in Images : <<i, 0>> \in DOMAIN heap'
    BY <1>8 DEF HeapOk
  <2>3. \A i \in images' : \A u \in allthreads' : Object(u, i)' \in DOMAIN heap'
    <3> SUFFICES ASSUME NEW i \in images, NEW u \in allthreads' PROVE Object(u, i) \in DOMAIN heap'
      BY <1>1, <1>3
    <3>1. CASE u = t
      BY <1>4, <1>8, <3>1
    <3>2. CASE u \in allthreads
      BY <1>8, <1>9, <3>2
    <3> QED  BY <1>1, <3>1, <3>2
  <2> QED  BY <1>1, <2>1, <2>2, <2>3 DEF HeapOk
<1>11. StopsForCause'
  BY <1>1 DEF StopsForCause
<1>12. ASSUME tool = "simulation" PROVE BuffersOk(heap, buffers)'
  <2>1. BuffersOk(heap, buffers)
    BY <1>12 DEF DataInv
  <2>2. \A i \in Images \ images' : heap'[<<i, 0>>].buffer = <<i, 0>>
    <3> SUFFICES ASSUME NEW i \in Images \ images PROVE heap'[<<i, 0>>].buffer = <<i, 0>>
      BY <1>1
    <3>1. <<i, 0>> \in DOMAIN heap /\ <<i, 0>>[2] # t /\ heap[<<i, 0>>].buffer = <<i, 0>>
      BY <1>2, <1>8, <2>1 DEF HeapOk, BuffersOk
    <3> QED  BY <1>1, <3>1
  <2>3. ASSUME NEW i \in images', NEW u \in allthreads'
        PROVE  heap'[Object(u, i)'].buffer = BufferOf(u, i)' /\ BufferOf(u, i)' \in DOMAIN buffers'
    <3>1. i \in images
      BY <1>1
    <3>2. CASE u = t
      <4>1. Object(u, i)' = <<i, t>> /\ BufferOf(u, i)' = <<i, t>>
        BY <1>1, <1>3, <1>4, <3>2 DEF BufferOf
      <4> QED  BY <1>1, <1>12, <3>1, <4>1
    <3>3. CASE u \in allthreads
      <4>1. heap[Object(u, i)].buffer = BufferOf(u, i) /\ BufferOf(u, i) \in DOMAIN buffers
        BY <2>1, <3>1, <3>3 DEF BuffersOk
      <4>2. heap'[Object(u, i)].buffer = heap[Object(u, i)].buffer
        BY <1>1, <1>9, <3>1, <3>3
      <4> QED  BY <1>1, <1>3, <4>1, <4>2
    <3> QED  BY <1>1, <3>2, <3>3
  <2>4. \A i \in Images : <<i, 0>> \in DOMAIN buffers'
    BY <1>1, <2>1 DEF BuffersOk
  <2>5. ASSUME NEW b \in DOMAIN buffers'
        PROVE  /\ buffers'[b] \in Seq(Entry) /\ Len(buffers'[b]) <= Capacity
               /\ \A j \in 1 .. Len(buffers'[b]) : /\ buffers'[b][j].image \in images'
                                                   /\ b[2] # 0 => buffers'[b][j].image = b[1]
    <3>1. CASE b[2] = t
      <4>1. buffers'[b] = <<>>
        BY <1>1, <3>1
      <4>2. <<>> \in Seq(Entry) /\ Len(<<>>) = 0 /\ 0 <= Capacity /\ 1 .. 0 = {}
        BY DataAssumption
      <4> QED  BY <4>1, <4>2
    <3>2. CASE b[2] # t
      <4>1. b \in DOMAIN buffers /\ buffers'[b] = buffers[b]
        BY <1>1, <3>2
      <4> QED  BY <1>1, <2>1, <4>1 DEF BuffersOk
    <3> QED  BY <3>1, <3>2
  <2> QED  BY <2>2, <2>3, <2>4, <2>5 DEF BuffersOk
<1>13. ASSUME tool = "simulation" PROVE RowsOk(fast)'
  <2>1. RowsOk(fast)
    BY <1>13 DEF DataInv
  <2>2. \A u \in allthreads' : pc'[u] # "fastdata" => u \in allthreads /\ pc[u] # "fastdata"
    BY <1>1, <1>13 DEF DataInv, Registration
  <2>3. \A u \in allthreads : threadseq'[u] = threadseq[u]
    <3>1. allthreads \subseteq DOMAIN threadseq
      BY DEF DataInv, Numbering
    <3> QED  BY <1>1, <3>1, PutElsewhere
  <2> QED  BY <1>1, <1>3, <2>1, <2>2, <2>3 DEF RowsOk
<1>14. (log \in Seq(Happening))'
  BY <1>1 DEF ThreadInit, DataInv, Happening, Indices
<1> QED  BY <1>1, <1>5, <1>6, <1>7, <1>10, <1>11, <1>12, <1>13, <1>14 DEF DataInv

-----------------------------------------------------------------------------
(* Buffers. *)

\* What a machine of the cache simulation is between two buffers.
MachineOk(s) ==
    /\ DOMAIN s = {"heap", "buffers", "fast", "failed"} /\ s.failed = "no"
    /\ HeapOk(s.heap) /\ BuffersOk(s.heap, s.buffers) /\ RowsOk(s.fast)

\* The rows are filled with the thread's own objects (FastData::Refresh).
LEMMA RefreshIs ==
    ASSUME DataInv, NEW f, RowsOk(f), NEW q \in Seq(Entry), Len(q) <= Capacity, NEW t \in allthreads,
           pc[t] # "fastdata", \A j \in 1 .. Len(q) : q[j].image \in images
    PROVE  /\ RowsOk(Refresh(f, q, t))
           /\ \A j \in 1 .. Len(q) : Refresh(f, q, t).stats[threadseq[t] + 1][j] = Object(t, q[j].image)
<1> DEFINE Row == [1 .. Capacity -> Nat \X Nat]
           k == threadseq[t] + 1
           row == f.stats[k]
           filled == [j \in 1 .. Capacity |-> IF j <= Len(q) THEN Own(t, q[j].image) ELSE row[j]]
<1>1. /\ f \in [imagecount : Nat, stats : Seq(Row)] /\ k \in 1 .. Len(f.stats)
      /\ f.imagecount = 1 => images = {firstimage} /\ \A j \in 1 .. Capacity : row[j] = Object(t, firstimage)
  BY DEF RowsOk
<1>2. Capacity \in Nat /\ Len(q) \in Nat /\ \A j \in 1 .. Len(q) : j \in 1 .. Capacity
  BY DataAssumption
<1>3. CASE f.imagecount = 1
  <2>1. Refresh(f, q, t) = f
    BY <1>3 DEF Refresh
  <2>2. \A j \in 1 .. Len(q) : row[j] = Object(t, q[j].image)
    BY <1>1, <1>2, <1>3
  <2> QED  BY <2>1, <2>2
<1>4. CASE f.imagecount # 1
  <2>1. Refresh(f, q, t) = [f EXCEPT !.stats = [f.stats EXCEPT ![k] = filled]]
    BY <1>4 DEF Refresh
  <2>2. \A j \in 1 .. Len(q) : Own(t, q[j].image) = Object(t, q[j].image)
    BY DEF DataInv, Registration, Own
  <2>3. \A i \in images : Object(t, i) \in Nat \X Nat
    BY ObjectIs, DataAssumption DEF DataInv, Registration
  <2>4. row \in Row
    BY <1>1
  <2>5. filled \in Row
    <3>1. \A j \in 1 .. Capacity : j <= Len(q) => Own(t, q[j].image) \in Nat \X Nat
      BY <1>2, <2>2, <2>3
    <3> QED  BY <2>4, <3>1
  <2>6. \A j \in 1 .. Len(q) : filled[j] = Object(t, q[j].image)
    BY <1>2, <2>2
  <2> DEFINE stats == [f.stats EXCEPT ![k] = filled]
  <2> HIDE DEF filled, Row, k
  <2>7. stats \in Seq(Row) /\ Len(stats) = Len(f.stats) /\ stats[k] = filled
    BY <1>1, <2>5
  <2> HIDE DEF stats
  <2>8. /\ Refresh(f, q, t) \in [imagecount : Nat, stats : Seq(Row)]
        /\ Refresh(f, q, t).stats = stats /\ Refresh(f, q, t).imagecount = f.imagecount
    BY <1>1, <2>1, <2>7 DEF stats
  <2>9. RowsOk(Refresh(f, q, t))
    <3> DEFINE g == Refresh(f, q, t)
    <3>1. g \in [imagecount : Nat, stats : Seq(Row)] /\ g.imagecount = f.imagecount /\ Len(g.stats) = Len(f.stats)
      BY <2>7, <2>8
    <3> HIDE DEF g
    <3>2. RowsOk(g)
      BY <1>4, <3>1 DEF RowsOk, Row
    <3> QED  BY <3>2 DEF g
  <2> QED  BY <2>6, <2>7, <2>8, <2>9 DEF k
<1> QED  BY <1>3, <1>4

\* What is charged are the entries of the buffer, each to the thread's object
\* for its image.
ChargedFrom(s, s2, i, t) ==
    \E r, row : /\ r.heap = s.heap /\ r.buffers = s.buffers
                /\ s2.heap = Charge(r, row, Len(s.buffers[BufferOf(t, i)]))
                /\ \A j \in 1 .. Len(s.buffers[BufferOf(t, i)]) :
                       /\ row[j] = Object(t, s.buffers[BufferOf(t, i)][j].image)
                       /\ s.heap[row[j]].buffer = BufferOf(t, i)

\* A buffer is processed without meeting a row that was not filled, and is
\* empty afterwards (process_thread_buffer, ProcessBuffer).
LEMMA ProcessKeeps ==
    ASSUME DataInv, NEW s, MachineOk(s), NEW i \in images, NEW t \in allthreads, pc[t] # "fastdata",
           NEW s2, s2 = process_thread_buffer(s, i, t)
    PROVE  /\ MachineOk(s2) /\ SameObjects(s.heap, s2.heap) /\ s2.buffers = [s.buffers EXCEPT ![BufferOf(t, i)] = <<>>]
           /\ ChargedFrom(s, s2, i, t)
<1> DEFINE b == s.heap[datamap[i][t]].buffer
           q == s.buffers[b]
           n == Len(q)
           fresh == Refresh(s.fast, q, t)
           r == [s EXCEPT !.fast = fresh]
           row == fresh.stats[threadseq[t] + 1]
<1>1. /\ images \subseteq Images /\ t \in Threads /\ datamap[i][t] = Object(t, i)
      /\ firstimage \in images /\ Main \in Nat \ {0} /\ t \in Nat \ {0}
      /\ \A k \in images : k \in Nat \ {0}
  BY DataAssumption DEF DataInv, Registration
<1>2. HeapOk(s.heap) /\ BuffersOk(s.heap, s.buffers) /\ RowsOk(s.fast) /\ s.failed = "no"
      /\ DOMAIN s = {"heap", "buffers", "fast", "failed"}
  BY DEF MachineOk
<1>3. b = BufferOf(t, i) /\ b \in DOMAIN s.buffers
  BY <1>1, <1>2 DEF BuffersOk
<1>4. /\ q \in Seq(Entry) /\ n <= Capacity /\ n \in Nat
      /\ \A j \in 1 .. n : q[j].image \in images /\ (b[2] # 0 => q[j].image = b[1])
  BY <1>2, <1>3 DEF BuffersOk
<1> HIDE DEF q, b
<1>5. RowsOk(fresh) /\ \A j \in 1 .. n : row[j] = Object(t, q[j].image)
  <2> DEFINE f == s.fast
  <2>1. RowsOk(f)
    BY <1>2
  <2> HIDE DEF f
  <2>2. RowsOk(Refresh(f, q, t)) /\ \A j \in 1 .. n : Refresh(f, q, t).stats[threadseq[t] + 1][j] = Object(t, q[j].image)
    BY <1>4, <2>1, RefreshIs
  <2> QED  BY <2>2 DEF f
<1> HIDE DEF fresh
<1>6. DOMAIN r = DOMAIN s /\ r.heap = s.heap /\ r.buffers = s.buffers /\ r.failed = "no" /\ r.fast = fresh
  BY <1>2
<1>7. ASSUME NEW j \in 1 .. n
      PROVE  row[j] # NULL /\ s.heap[row[j]].buffer = b
  <2> DEFINE k == q[j].image
  <2>1. k \in images /\ row[j] = Object(t, k) /\ (b[2] # 0 => k = b[1])
    BY <1>4, <1>5
  <2>2. row[j] # NULL
    <3>1. Object(t, k)[1] = k /\ k # 0
      BY <1>1, <2>1, ObjectIs
    <3>2. NULL[1] = 0
      BY DEF NULL
    <3> QED  BY <2>1, <3>1, <3>2
  <2> HIDE DEF k
  <2>3. s.heap[Object(t, k)].buffer = BufferOf(t, k)
    BY <1>2, <2>1 DEF BuffersOk
  <2>4. BufferOf(t, k) = BufferOf(t, i)
    <3>1. CASE t = Main
      BY <3>1 DEF BufferOf
    <3>2. CASE t # Main
      <4>1. b = <<i, t>>
        BY <1>3, <3>2 DEF BufferOf
      <4>2. b[2] = t /\ b[1] = i
        BY <4>1
      <4>3. k = i
        BY <1>1, <2>1, <4>2
      <4> QED  BY <4>3
    <3> QED  BY <3>1, <3>2
  <2> QED  BY <1>3, <2>1, <2>2, <2>3, <2>4
<1> HIDE DEF row, r
<1>8. \A j \in 1 .. n : row[j] # NULL /\ Len(r.buffers[r.heap[row[j]].buffer]) >= j
  <2>1. \A j \in 1 .. n : r.buffers[r.heap[row[j]].buffer] = q
    BY <1>6, <1>7 DEF q
  <2> QED  BY <1>4, <1>7, <2>1
<1>9. ProcessBuffer(r, n, t) = [r EXCEPT !.heap = Charge(r, row, n)]
  BY <1>6, <1>8 DEF ProcessBuffer, row
<1> DEFINE h == Charge(r, row, n)
<1>10. SameObjects(s.heap, h)
  <2>1. \A o \in DOMAIN r.heap : DOMAIN r.heap[o] = Fields
    BY <1>2, <1>6 DEF HeapOk
  <2>2. SameObjects(r.heap, Charge(r, row, n))
    BY <1>4, <2>1, ChargeIs
  <2> QED  BY <1>6, <2>2
<1> HIDE DEF h
<1>11. s2 = [r EXCEPT !.heap = h, !.buffers = [s.buffers EXCEPT ![b] = <<>>]]
  <2>1. s2 = [[r EXCEPT !.heap = h] EXCEPT !.buffers[b] = <<>>]
    BY <1>9, Zenon DEF process_thread_buffer, b, q, fresh, r, h
  <2> QED  BY <1>2, <1>6, <2>1, Zenon
<1> DEFINE bf == [s.buffers EXCEPT ![b] = <<>>]
<1> HIDE DEF bf
<1>12. DOMAIN s2 = DOMAIN s /\ s2.heap = h /\ s2.buffers = bf /\ s2.failed = "no" /\ s2.fast = fresh
  BY <1>2, <1>6, <1>11 DEF bf
<1>13. HeapOk(h) /\ BuffersOk(h, s.buffers)
  <2> DEFINE h1 == s.heap
             b1 == s.buffers
  <2>1. HeapOk(h1) /\ SameObjects(h1, h) /\ BuffersOk(h1, b1)
    BY <1>2, <1>10
  <2> HIDE DEF h1, b1
  <2>2. HeapOk(h) /\ BuffersOk(h, b1)
    BY <2>1, StillOk
  <2> QED  BY <2>2 DEF b1
<1>14. BuffersOk(h, bf)
  <2>1. DOMAIN bf = DOMAIN s.buffers /\ \A c \in DOMAIN bf : bf[c] = <<>> \/ bf[c] = s.buffers[c]
    BY DEF bf
  <2>2. \A c \in DOMAIN bf : /\ bf[c] \in Seq(Entry) /\ Len(bf[c]) <= Capacity
                             /\ \A j \in 1 .. Len(bf[c]) : /\ bf[c][j].image \in images
                                                           /\ c[2] # 0 => bf[c][j].image = c[1]
    <3> SUFFICES ASSUME NEW c \in DOMAIN bf
                 PROVE  /\ bf[c] \in Seq(Entry) /\ Len(bf[c]) <= Capacity
                        /\ \A j \in 1 .. Len(bf[c]) : /\ bf[c][j].image \in images
                                                      /\ c[2] # 0 => bf[c][j].image = c[1]
      OBVIOUS
    <3>1. CASE bf[c] = <<>>
      <4>1. <<>> \in Seq(Entry) /\ Len(<<>>) = 0 /\ 0 <= Capacity /\ 1 .. 0 = {}
        BY DataAssumption
      <4> QED  BY <3>1, <4>1
    <3>2. CASE bf[c] = s.buffers[c]
      BY <1>2, <2>1, <3>2 DEF BuffersOk
    <3> QED  BY <2>1, <3>1, <3>2
  <2> QED  BY <1>13, <2>1, <2>2 DEF BuffersOk
<1>15. MachineOk(s2)
  BY <1>2, <1>5, <1>12, <1>13, <1>14 DEF MachineOk
<1>16. ChargedFrom(s, s2, i, t)
  <2>1. \A j \in 1 .. n : row[j] = Object(t, q[j].image) /\ s.heap[row[j]].buffer = b
    BY <1>5, <1>7 DEF row
  <2>2. q = s.buffers[BufferOf(t, i)] /\ r.heap = s.heap /\ r.buffers = s.buffers /\ s2.heap = Charge(r, row, n)
    BY <1>3, <1>6, <1>12 DEF q, h
  <2> QED  BY <1>3, <2>1, <2>2 DEF ChargedFrom
<1> QED  BY <1>3, <1>10, <1>12, <1>15, <1>16 DEF bf

\* A thread that runs is known, and finds its own object.
LEMMA FoundIs ==
    ASSUME DataInv, NEW t \in Threads, NEW i \in images, pc[t] \in {"run", "done"}
    PROVE  t \in allthreads /\ Own(t, i) = Object(t, i) /\ Found(t, i) = Object(t, i)
<1>1. t \in allthreads /\ images \subseteq Images
  BY DEF DataInv, Registration
<1>2. Own(t, i) = Object(t, i)
  BY <1>1 DEF DataInv, Registration, Own
<1>3. Found(t, i) = Object(t, i)
  BY <1>1, <1>2 DEF DataInv, Tables, Found, OneObject
<1> QED  BY <1>1, <1>2, <1>3

\* The memory instructions of a block have a least one.
LEMMA FilledIs ==
    ASSUME NEW o \in Images \X Nat, NEW x \in DOMAIN Memops, NEW addr \in Addresses, NEW k \in Nat
    PROVE  /\ Filled(o, x, addr, k) \in Seq(Entry) /\ Len(Filled(o, x, addr, k)) = Cardinality(Memops[x])
           /\ \A j \in 1 .. Cardinality(Memops[x]) :
                 /\ Filled(o, x, addr, k)[j].image = o[1]
                 /\ Filled(o, x, addr, k)[j] = Fill(o, Least(Memops[x]) + j - 1, addr, k)
<1> DEFINE n == Cardinality(Memops[x])
           low == Least(Memops[x])
           entry(j) == Fill(o, low + j - 1, addr, k)
<1>1. Memops[x] \subseteq Nat /\ IsFiniteSet(Memops[x]) /\ n \in Nat \ {0} /\ Addresses \subseteq Nat
  BY MemopAssumption, DataAssumption
<1>2. low \in Nat
  <2> DEFINE M == Memops[x]
  <2>1. M # {}
    BY <1>1, FS_EmptySet
  <2>2. \E y \in M : \A z \in M : y <= z
    <3> HIDE DEF M
    <3>1. M \subseteq Nat
      BY <1>1 DEF M
    <3> QED  BY <2>1, <3>1, LeastNumber
  <2>3. Least(M) \in M
    BY <2>2 DEF Least, Min
  <2> QED  BY <1>1, <2>3
<1> HIDE DEF low
<1>3. \A j \in 1 .. n : entry(j) \in Entry /\ entry(j).image = o[1]
  <2> SUFFICES ASSUME NEW j \in 1 .. n PROVE entry(j) \in Entry /\ entry(j).image = o[1]
    OBVIOUS
  <2>1. o[1] \in Images /\ low + j - 1 \in Int /\ addr + (low + j - 1) \in Int
    BY <1>1, <1>2
  <2> QED  BY <2>1 DEF Fill, Entry
<1> HIDE DEF entry
<1>4. Filled(o, x, addr, k) = [j \in 1 .. n |-> entry(j)]
  BY DEF Filled, entry, low
<1>7. \A j : entry(j) = Fill(o, Least(Memops[x]) + j - 1, addr, k)
  BY DEF entry, low
<1> HIDE DEF n
<1>5. n \in Nat
  BY <1>1
<1>6. [j \in 1 .. n |-> entry(j)] \in Seq(Entry) /\ Len([j \in 1 .. n |-> entry(j)]) = n
  BY <1>3, <1>5
<1> QED  BY <1>3, <1>4, <1>6, <1>7 DEF n

\* A step that changes neither the tables nor what is known of threads.
LEMMA SameTables ==
    ASSUME DataInv, UNCHANGED <<tool, pc, Managed>>, NEW h, h = heap', HeapOk(h), failed' = failed,
           (log \in Seq(Happening))',
           tool = "simulation" => \E bf, f : bf = buffers' /\ f = fast' /\ BuffersOk(h, bf) /\ RowsOk(f)
    PROVE  DataInv'
<1>1. UNCHANGED <<tool, pc, datamap, allthreads, threadseq, images, firstimage, threaddata, failed>>
  BY DEF Managed
<1>2. \A u, i : Object(u, i)' = Object(u, i) /\ BufferOf(u, i)' = BufferOf(u, i)
  BY <1>1 DEF Object, BufferOf
<1>3. Registration'
  BY <1>1, <1>2 DEF DataInv, Registration
<1>4. Numbering' /\ StopsForCause'
  BY <1>1 DEF DataInv, Numbering, StopsForCause
<1>5. Tables'
  BY <1>1, <1>2 DEF DataInv, Tables
<1>6. HeapOk(heap)'
  BY <1>1, <1>2 DEF HeapOk
<1>7. ASSUME tool = "simulation" PROVE BuffersOk(heap, buffers)' /\ RowsOk(fast)'
  <2>1. PICK bf, f : bf = buffers' /\ f = fast' /\ BuffersOk(h, bf) /\ RowsOk(f)
    BY <1>7
  <2>2. BuffersOk(heap, buffers)'
    BY <1>1, <1>2, <2>1 DEF BuffersOk
  <2>3. RowsOk(fast)'
    BY <1>1, <1>2, <2>1 DEF RowsOk
  <2> QED  BY <2>2, <2>3
<1> QED  BY <1>1, <1>3, <1>4, <1>5, <1>6, <1>7 DEF DataInv

\* Functions and loops are entered and left.
LEMMA TimedKeeps ==
    ASSUME DataInv, NEW t \in Threads, NEW i \in images, NEW x \in Indices, Enter(t, i, x) \/ Leave(t, i, x)
    PROVE  DataInv'
<1>1. PICK kind, r : kind \in {"enter", "exit"} /\ Timed(t, i, x, kind, r)
  <2>1. CASE Enter(t, i, x)
    BY <2>1 DEF Enter
  <2>2. CASE Leave(t, i, x)
    BY <2>2 DEF Leave
  <2> QED  BY <2>1, <2>2
<1>2. tool # "simulation"
  BY DEF Enter, Leave
<1> DEFINE o == Found(t, i)
<1>3. /\ heap' = [heap EXCEPT ![o].timers[x] = r] /\ log' = Append(log, Event(t, i, kind, x, 0))
      /\ UNCHANGED <<tool, pc, Managed, failed>>
  BY <1>1 DEF Timed
<1> HIDE DEF o
<1>4. PICK h : h = heap'
  OBVIOUS
<1>5. HeapOk(heap)
  BY DEF DataInv
<1>6. SameObjects(heap, h)
  <2>1. h = [heap EXCEPT ![o] = [heap[o] EXCEPT !.timers = [heap[o].timers EXCEPT ![x] = r]]]
    BY <1>3, <1>4
  <2> DEFINE v == [heap[o].timers EXCEPT ![x] = r]
  <2> HIDE DEF v
  <2>2. h = [heap EXCEPT ![o] = [heap[o] EXCEPT !.timers = v]]
    BY <2>1 DEF v
  <2>3. \A p \in DOMAIN heap : DOMAIN heap[p] = Fields
    BY <1>5 DEF HeapOk
  <2> QED  BY <2>2, <2>3 DEF SameObjects, Fields
<1>7. HeapOk(h)
  <2> DEFINE h1 == heap
  <2>1. HeapOk(h1) /\ SameObjects(h1, h)
    BY <1>5, <1>6
  <2> HIDE DEF h1
  <2> QED  BY <2>1, StillOk
<1>8. (log \in Seq(Happening))'
  <2>1. Event(t, i, kind, x, 0) \in Happening
    BY <1>1 DEF Event, Happening, DataInv, Registration
  <2>2. log \in Seq(Happening)
    BY DEF DataInv
  <2>3. Append(log, Event(t, i, kind, x, 0)) \in Seq(Happening)
    BY <2>1, <2>2
  <2> QED  BY <1>3, <2>3 DEF Happening, Indices
<1> QED  BY <1>2, <1>3, <1>4, <1>7, <1>8, SameTables

\* The start of a machine.
LEMMA MachineStarts ==
    ASSUME DataInv, tool = "simulation", failed = "no"
    PROVE  MachineOk(Machine)
<1>1. /\ DOMAIN Machine = {"heap", "buffers", "fast", "failed"} /\ Machine.failed = failed
      /\ Machine.heap = heap /\ Machine.buffers = buffers /\ Machine.fast = fast
  BY DEF Machine
<1> QED  BY <1>1 DEF MachineOk, DataInv

\* A block's entries are put into the thread's buffer, which has been
\* processed when there was no room.
LEMMA RunKeeps ==
    ASSUME DataInv, NEW t \in Threads, NEW i \in images, NEW x \in Indices, NEW addr \in Addresses,
           Run(t, i, x, addr)
    PROVE  DataInv'
<1> DEFINE o == Found(t, i)
           room == Len(buffers[heap[o].buffer]) + Cardinality(Memops[x]) <= Capacity
           s == IF tool = "simulation" /\ ~room THEN process_thread_buffer(Machine, i, t) ELSE Machine
           b == s.heap[o].buffer
           k == Len(log) + 1
           new == Filled(o, x, addr, k)
           event == Event(t, i, "run", x, addr)
<1>1. /\ failed = "no" /\ pc[t] = "run" /\ tool \in {"counter", "simulation"}
      /\ heap' = [s.heap EXCEPT ![o].counters[x] = @ + 1]
      /\ buffers' = IF tool = "simulation" THEN [s.buffers EXCEPT ![b] = @ \o new] ELSE s.buffers
      /\ fast' = s.fast /\ failed' = s.failed
      /\ log' = Append(log, event)
      /\ UNCHANGED <<tool, pc, Managed>>
  BY Zenon DEF Run
<1>2. t \in allthreads /\ o = Object(t, i) /\ o \in Images \X Nat /\ o[1] = i /\ i \in Images
  <2>1. t \in allthreads /\ o = Object(t, i) /\ i \in Images
    BY <1>1, FoundIs, Zenon DEF DataInv, Registration
  <2> QED  BY <2>1, ObjectIs
<1>3. (log \in Seq(Happening))'
  <2>1. event \in Happening
    BY <1>2, DataAssumption, MemopAssumption DEF Event, Happening
  <2>2. log \in Seq(Happening)
    BY DEF DataInv
  <2> HIDE DEF event
  <2>3. Append(log, event) \in Seq(Happening)
    BY <2>1, <2>2
  <2> QED  BY <1>1, <2>3, Zenon DEF Happening, Indices
<1> HIDE DEF event
<1>4. PICK h : h = heap'
  OBVIOUS
<1>5. ASSUME NEW g, HeapOk(g), h = [g EXCEPT ![o].counters[x] = @ + 1]
      PROVE  SameObjects(g, h) /\ HeapOk(h)
  <2> DEFINE v == [g[o].counters EXCEPT ![x] = @ + 1]
  <2>1. h = [g EXCEPT ![o] = [g[o] EXCEPT !.counters = v]]
    BY <1>5
  <2> HIDE DEF v, o
  <2>2. SameObjects(g, h)
    <3>1. \A p \in DOMAIN g : DOMAIN g[p] = Fields
      BY <1>5 DEF HeapOk
    <3> QED  BY <2>1, <3>1 DEF SameObjects, Fields
  <2> QED  BY <1>5, <2>2, StillOk
<1>6. CASE tool = "counter"
  <2>1. s = Machine
    BY <1>6
  <2>2. Machine.heap = heap /\ Machine.failed = failed
    BY DEF Machine
  <2> HIDE DEF s, o
  <2>3. h = [heap EXCEPT ![o].counters[x] = @ + 1] /\ failed' = failed
    BY <1>1, <1>4, <2>1, <2>2
  <2> DEFINE g == heap
  <2>4. HeapOk(g) /\ h = [g EXCEPT ![o].counters[x] = @ + 1]
    BY <2>3 DEF DataInv
  <2> HIDE DEF g
  <2>5. HeapOk(h)
    BY <1>5, <2>4
  <2>6. tool # "simulation"
    BY <1>6
  <2> QED  BY <1>1, <1>3, <1>4, <2>3, <2>5, <2>6, SameTables
<1>7. CASE tool = "simulation"
  <2>1. MachineOk(Machine) /\ Machine.heap = heap /\ Machine.buffers = buffers
    BY <1>1, <1>7, MachineStarts, Zenon DEF Machine
  <2>2. /\ x \in DOMAIN Memops /\ Cardinality(Memops[x]) \in 1 .. Capacity
        /\ k \in Nat /\ Capacity \in Nat
    BY <1>7, MemopAssumption, DataAssumption DEF Indices, DataInv
  <2>3. /\ new \in Seq(Entry) /\ Len(new) = Cardinality(Memops[x])
        /\ \A j \in 1 .. Cardinality(Memops[x]) : new[j].image = i
    <3> HIDE DEF o, k
    <3>1. /\ Filled(o, x, addr, k) \in Seq(Entry) /\ Len(Filled(o, x, addr, k)) = Cardinality(Memops[x])
          /\ \A j \in 1 .. Cardinality(Memops[x]) : Filled(o, x, addr, k)[j].image = o[1]
      BY <1>2, <2>2, FilledIs
    <3> QED  BY <1>2, <3>1
  <2> HIDE DEF new
  <2>4. heap[o].buffer = BufferOf(t, i) /\ BuffersOk(heap, buffers) /\ BufferOf(t, i) \in DOMAIN buffers
    BY <1>2, <1>7 DEF DataInv, BuffersOk
  <2>5. /\ MachineOk(s) /\ BufferOf(t, i) \in DOMAIN s.buffers
        /\ Len(s.buffers[BufferOf(t, i)]) + Cardinality(Memops[x]) <= Capacity
    <3>1. CASE room
      <4>1. s = Machine
        BY <3>1
      <4> HIDE DEF s
      <4> QED  BY <2>1, <2>4, <3>1, <4>1
    <3>2. CASE ~ room
      <4> DEFINE m == Machine
      <4>1. s = process_thread_buffer(m, i, t)
        BY <1>7, <3>2
      <4>2. MachineOk(m) /\ m.buffers = buffers
        BY <2>1
      <4>3. pc[t] # "fastdata"
        BY <1>1, Zenon
      <4> HIDE DEF s, m, room
      <4>4. MachineOk(s) /\ s.buffers = [m.buffers EXCEPT ![BufferOf(t, i)] = <<>>]
        BY <1>2, <4>1, <4>2, <4>3, ProcessKeeps
      <4>5. DOMAIN s.buffers = DOMAIN buffers /\ s.buffers[BufferOf(t, i)] = <<>>
        BY <2>4, <4>2, <4>4
      <4>6. Len(s.buffers[BufferOf(t, i)]) = 0
        BY <4>5
      <4> QED  BY <2>2, <2>4, <4>4, <4>5, <4>6
    <3> QED  BY <3>1, <3>2
  <2> HIDE DEF s
  <2>6. PICK g : g = s.heap
    OBVIOUS
  <2>7. PICK bf : bf = s.buffers
    OBVIOUS
  <2>8. PICK f : f = s.fast
    OBVIOUS
  <2>9. HeapOk(g) /\ BuffersOk(g, bf) /\ RowsOk(f) /\ s.failed = "no"
    BY <2>5, <2>6, <2>7, <2>8 DEF MachineOk
  <2>10. b = BufferOf(t, i)
    BY <1>2, <2>6, <2>9 DEF BuffersOk
  <2> HIDE DEF b, o
  <2>11. h = [g EXCEPT ![o].counters[x] = @ + 1]
    BY <1>1, <1>4, <2>6
  <2>12. SameObjects(g, h) /\ HeapOk(h)
    BY <1>5, <2>9, <2>11
  <2>13. BuffersOk(h, bf)
    BY <2>9, <2>12, StillOk
  <2>14. PICK bf2 : bf2 = buffers'
    OBVIOUS
  <2>15. bf2 = [bf EXCEPT ![b] = bf[b] \o new]
    BY <1>1, <1>7, <2>7, <2>14
  <2>16. /\ bf[b] \in Seq(Entry) /\ Len(bf[b]) + Len(new) <= Capacity /\ b \in DOMAIN bf
         /\ \A j \in 1 .. Len(bf[b]) : bf[b][j].image \in images /\ (b[2] # 0 => bf[b][j].image = b[1])
    BY <2>3, <2>5, <2>7, <2>9, <2>10 DEF BuffersOk
  <2>17. b[2] # 0 => b[1] = i
    BY <2>10 DEF BufferOf
  <2> DEFINE c == bf[b] \o new
  <2>18. /\ c \in Seq(Entry) /\ Len(c) <= Capacity
         /\ \A j \in 1 .. Len(c) : c[j].image \in images /\ (b[2] # 0 => c[j].image = b[1])
    <3> DEFINE a == bf[b]
    <3>1. a \in Seq(Entry) /\ new \in Seq(Entry)
      BY <2>3, <2>16
    <3> HIDE DEF a
    <3>2. /\ a \o new \in Seq(Entry) /\ Len(a \o new) = Len(a) + Len(new) /\ Len(a) \in Nat /\ Len(new) \in Nat
          /\ \A j \in 1 .. Len(a) + Len(new) : (a \o new)[j] = IF j <= Len(a) THEN a[j] ELSE new[j - Len(a)]
      BY <3>1
    <3>3. ASSUME NEW j \in 1 .. Len(a) + Len(new)
          PROVE  (a \o new)[j].image \in images /\ (b[2] # 0 => (a \o new)[j].image = b[1])
      <4>1. CASE j <= Len(a)
        <5>1. (a \o new)[j] = a[j] /\ j \in 1 .. Len(a)
          BY <3>2, <4>1
        <5> QED  BY <2>16, <5>1 DEF a
      <4>2. CASE ~ (j <= Len(a))
        <5>1. (a \o new)[j] = new[j - Len(a)] /\ j - Len(a) \in 1 .. Len(new)
          BY <3>2, <4>2
        <5>2. new[j - Len(a)].image = i
          BY <2>3, <5>1
        <5> QED  BY <2>17, <5>1, <5>2
      <4> QED  BY <4>1, <4>2
    <3> QED  BY <2>16, <3>2, <3>3 DEF a
  <2> HIDE DEF c
  <2>19. DOMAIN bf2 = DOMAIN bf /\ bf2[b] = c /\ \A d \in DOMAIN bf : d # b => bf2[d] = bf[d]
    BY <2>15, <2>16 DEF c
  <2>20. BuffersOk(h, bf2)
    <3>1. \A d \in DOMAIN bf2 : /\ bf2[d] \in Seq(Entry) /\ Len(bf2[d]) <= Capacity
                                /\ \A j \in 1 .. Len(bf2[d]) : /\ bf2[d][j].image \in images
                                                               /\ d[2] # 0 => bf2[d][j].image = d[1]
      <4> SUFFICES ASSUME NEW d \in DOMAIN bf2
                   PROVE  /\ bf2[d] \in Seq(Entry) /\ Len(bf2[d]) <= Capacity
                          /\ \A j \in 1 .. Len(bf2[d]) : /\ bf2[d][j].image \in images
                                                         /\ d[2] # 0 => bf2[d][j].image = d[1]
        OBVIOUS
      <4>1. CASE d = b
        BY <2>18, <2>19, <4>1
      <4>2. CASE d # b
        BY <2>13, <2>19, <4>2 DEF BuffersOk
      <4> QED  BY <4>1, <4>2
    <3> QED  BY <2>13, <2>19, <3>1 DEF BuffersOk
  <2>21. f = fast' /\ failed' = failed
    BY <1>1, <2>8, <2>9
  <2> QED  BY <1>1, <1>3, <1>4, <2>9, <2>12, <2>14, <2>20, <2>21, SameTables, Zenon
<1> QED  BY <1>1, <1>6, <1>7, Zenon

\* A finite set of numbers has a bound.
LEMMA FiniteBound ==
    ASSUME NEW S, IsFiniteSet(S), S \subseteq Nat
    PROVE  \E m \in Nat : \A y \in S : y <= m
<1>1. PICK n \in Nat : ExistsBijection(1 .. n, S)
  BY FS_NatBijection
<1>2. PICK f \in [1 .. n -> S] : \A y \in S : \E j \in 1 .. n : f[j] = y
  BY <1>1 DEF ExistsBijection, Bijection, Surjection
<1> DEFINE K == {k \in 0 .. n : \E m \in Nat : \A j \in 1 .. k : f[j] <= m}
<1>3. 0 \in K
  <2>1. 0 \in 0 .. n /\ 1 .. 0 = {} /\ 0 \in Nat
    OBVIOUS
  <2> QED  BY <2>1
<1>4. ASSUME NEW k \in 0 .. n - 1, k \in K PROVE k + 1 \in K
  <2>1. PICK m \in Nat : \A j \in 1 .. k : f[j] <= m
    BY <1>4
  <2>2. k + 1 \in 0 .. n /\ k + 1 \in 1 .. n
    OBVIOUS
  <2>3. \A j \in 1 .. k + 1 : f[j] \in Nat /\ (j \in 1 .. k \/ j = k + 1)
    <3>1. \A j \in 1 .. n : f[j] \in Nat
      OBVIOUS
    <3>2. \A j \in 1 .. k + 1 : j \in 1 .. n /\ (j \in 1 .. k \/ j = k + 1)
      OBVIOUS
    <3> QED  BY <3>1, <3>2
  <2> DEFINE m2 == IF f[k + 1] <= m THEN m ELSE f[k + 1]
  <2>4. m2 \in Nat /\ m <= m2 /\ f[k + 1] <= m2
    <3>1. f[k + 1] \in Nat
      BY <2>2
    <3> QED  BY <3>1
  <2> HIDE DEF m2
  <2>5. \A j \in 1 .. k + 1 : f[j] <= m2
    BY <2>1, <2>3, <2>4
  <2> QED  BY <2>2, <2>4, <2>5
<1>5. n \in K
  <2> HIDE DEF K
  <2>1. 0 .. n \subseteq K
    BY <1>3, <1>4, UpTo
  <2> QED  BY <2>1
<1> QED  BY <1>2, <1>5

\* The buffers of all threads, one after the other (tool_image_fini).
LEMMA FlushedRuns ==
    ASSUME DataInv, Executable \in images
    PROVE  /\ Max(allthreads) \in Nat /\ Max(allthreads) \in allthreads /\ \A t \in allthreads : t <= Max(allthreads)
           /\ \A n \in 0 .. Max(allthreads) :
                 Flushed[n] = IF n = 0 THEN Machine
                              ELSE IF n \in allthreads THEN process_thread_buffer(Flushed[n - 1], Executable, n)
                              ELSE Flushed[n - 1]
<1> DEFINE top == Max(allthreads)
           Loop(f, k) == f = [n \in 0 .. k |-> IF n = 0 THEN Machine
                                               ELSE IF n \in allthreads THEN process_thread_buffer(f[n - 1], Executable, n)
                                               ELSE f[n - 1]]
           T == {k \in 0 .. top : \E f : Loop(f, k)}
<1>1. top \in Nat /\ top \in allthreads /\ \A t \in allthreads : t <= top
  <2>1. allthreads \subseteq Nat /\ IsFiniteSet(allthreads) /\ allthreads # {}
    BY DataAssumption DEF DataInv, Registration
  <2>2. PICK m \in Nat : \A y \in allthreads : y <= m
    BY <2>1, FiniteBound
  <2>3. \E x \in allthreads : \A y \in allthreads : y <= x
    <3> DEFINE S == allthreads
    <3>1. S \subseteq Nat /\ S # {} /\ \A y \in S : y <= m
      BY <2>1, <2>2
    <3> HIDE DEF S
    <3>2. \E x \in S : \A y \in S : y <= x
      BY <3>1, GreatestNumber
    <3> QED  BY <3>2 DEF S
  <2>4. \E x \in allthreads : \A y \in allthreads : x >= y
    BY <2>1, <2>3
  <2>5. top \in allthreads /\ \A y \in allthreads : top >= y
    BY <2>4 DEF Max
  <2> QED  BY <2>1, <2>5
<1> HIDE DEF top
<1>2. 0 \in T
  <2>1. Loop([n \in 0 .. 0 |-> Machine], 0)
    OBVIOUS
  <2> HIDE DEF Loop
  <2> QED  BY <1>1, <2>1
<1>3. ASSUME NEW k \in 0 .. top - 1, k \in T PROVE k + 1 \in T
  <2>1. PICK f : Loop(f, k)
    BY <1>3
  <2>2. k \in Nat /\ k + 1 \in 0 .. top /\ 0 .. k + 1 = (0 .. k) \cup {k + 1}
        /\ \A m \in 0 .. k : m # k + 1 /\ (m # 0 => m - 1 \in 0 .. k)
    BY <1>1
  <2> DEFINE next(p, n) == IF n \in allthreads THEN process_thread_buffer(p, Executable, n) ELSE p
             g == [m \in 0 .. k + 1 |-> IF m = k + 1 THEN next(f[k], k + 1) ELSE f[m]]
  <2>3. \A m \in 0 .. k : f[m] = IF m = 0 THEN Machine ELSE next(f[m - 1], m)
    BY <2>1
  <2>4. ASSUME NEW h, h = [m \in 0 .. k + 1 |-> IF m = 0 THEN Machine ELSE next(h[m - 1], m)]
        PROVE  Loop(h, k + 1)
    BY <2>4
  <2> HIDE DEF next
  <2>5. ASSUME NEW m \in 0 .. k + 1
        PROVE  g[m] = IF m = 0 THEN Machine ELSE next(g[m - 1], m)
    <3>1. CASE m = k + 1
      <4>1. m # 0 /\ m - 1 = k /\ k \in 0 .. k + 1 /\ k # k + 1
        BY <2>2, <3>1
      <4>2. g[m] = next(f[k], k + 1) /\ g[k] = f[k]
        BY <3>1, <4>1
      <4> QED  BY <3>1, <4>1, <4>2
    <3>2. CASE m \in 0 .. k
      <4>1. g[m] = f[m] /\ (m # 0 => g[m - 1] = f[m - 1])
        BY <2>2, <3>2
      <4> QED  BY <2>3, <3>2, <4>1
    <3> QED  BY <2>2, <3>1, <3>2
  <2>6. g = [m \in 0 .. k + 1 |-> g[m]]
    OBVIOUS
  <2> HIDE DEF g, Loop
  <2>7. g = [m \in 0 .. k + 1 |-> IF m = 0 THEN Machine ELSE next(g[m - 1], m)]
    BY <2>5, <2>6
  <2>8. Loop(g, k + 1)
    BY <2>4, <2>7
  <2> QED  BY <2>2, <2>8
<1>4. \E f : Loop(f, top)
  <2> HIDE DEF T
  <2>1. 0 .. top \subseteq T
    BY <1>1, <1>2, <1>3, UpTo
  <2> QED  BY <1>1, <2>1 DEF T
<1>5. Loop(Flushed, top)
  <2> DEFINE F == CHOOSE f : Loop(f, top)
  <2>1. Loop(F, top)
    <3> HIDE DEF Loop
    <3> QED  BY <1>4
  <2>2. Flushed = F
    BY DEF Flushed, top
  <2> HIDE DEF F, Loop
  <2> QED  BY <2>1, <2>2
<1>6. \A n \in 0 .. top : Flushed[n] = IF n = 0 THEN Machine
                                       ELSE IF n \in allthreads THEN process_thread_buffer(Flushed[n - 1], Executable, n)
                                       ELSE Flushed[n - 1]
  BY <1>5
<1> HIDE DEF Loop, T
<1> QED  BY <1>1, <1>6 DEF top

LEMMA FlushedIs ==
    ASSUME DataInv, tool = "simulation", failed = "no", Executable \in images,
           \A t \in allthreads : pc[t] # "fastdata"
    PROVE  MachineOk(Flushed[Max(allthreads)])
<1> DEFINE top == Max(allthreads)
<1>1. top \in Nat
  BY FlushedRuns
<1>6. \A n \in 0 .. top : Flushed[n] = IF n = 0 THEN Machine
                                       ELSE IF n \in allthreads THEN process_thread_buffer(Flushed[n - 1], Executable, n)
                                       ELSE Flushed[n - 1]
  BY FlushedRuns
<1> HIDE DEF top
<1> DEFINE K == {n \in 0 .. top : MachineOk(Flushed[n])}
<1>7. 0 \in K
  <2>1. Flushed[0] = Machine /\ 0 \in 0 .. top
    BY <1>1, <1>6
  <2> QED  BY <2>1, MachineStarts
<1>8. ASSUME NEW k \in 0 .. top - 1, k \in K PROVE k + 1 \in K
  <2>1. k + 1 \in 0 .. top /\ k + 1 # 0 /\ (k + 1) - 1 = k
    BY <1>1
  <2>2. Flushed[k + 1] = IF k + 1 \in allthreads THEN process_thread_buffer(Flushed[k], Executable, k + 1)
                         ELSE Flushed[k]
    BY <1>6, <2>1
  <2>3. PICK p : p = Flushed[k]
    OBVIOUS
  <2>4. PICK s : s = Flushed[k + 1]
    OBVIOUS
  <2>5. MachineOk(p)
    BY <1>8, <2>3
  <2>6. CASE k + 1 \in allthreads
    <3>1. s = process_thread_buffer(p, Executable, k + 1) /\ pc[k + 1] # "fastdata"
      BY <2>2, <2>3, <2>4, <2>6
    <3>2. MachineOk(s)
      BY <2>5, <2>6, <3>1, ProcessKeeps
    <3> QED  BY <2>1, <2>4, <3>2
  <2>7. CASE k + 1 \notin allthreads
    <3>1. s = p
      BY <2>2, <2>3, <2>4, <2>7
    <3> QED  BY <2>1, <2>4, <2>5, <3>1
  <2> QED  BY <2>6, <2>7
<1>9. top \in K
  <2> HIDE DEF K
  <2>1. 0 .. top \subseteq K
    BY <1>1, <1>7, <1>8, UpTo
  <2> QED  BY <1>1, <2>1
<1> QED  BY <1>9 DEF top

\* tool_image_fini.
LEMMA ExitKeeps ==
    ASSUME DataInv, Exit
    PROVE  DataInv'
<1> DEFINE s == IF tool = "simulation" THEN Flushed[Max(allthreads)] ELSE Machine
<1>1. /\ failed = "no" /\ Executable \in images
      /\ \A t \in Threads \ {Main} : pc[t] \in {"none", "done"}
      /\ heap' = s.heap /\ buffers' = s.buffers /\ fast' = s.fast /\ failed' = s.failed
      /\ UNCHANGED <<tool, pc, log, Managed>>
  BY DEF Exit
<1>2. \A t \in allthreads : pc[t] # "fastdata"
  BY <1>1 DEF DataInv, Registration
<1>3. (log \in Seq(Happening))'
  BY <1>1 DEF DataInv, Happening, Indices
<1>4. CASE tool = "simulation"
  <2>1. MachineOk(s)
    BY <1>1, <1>2, <1>4, FlushedIs
  <2> HIDE DEF s
  <2>2. PICK h : h = heap'
    OBVIOUS
  <2>3. PICK bf, f : bf = buffers' /\ f = fast'
    OBVIOUS
  <2>4. HeapOk(h) /\ BuffersOk(h, bf) /\ RowsOk(f) /\ failed' = failed
    BY <1>1, <2>1, <2>2, <2>3 DEF MachineOk
  <2> QED  BY <1>1, <1>3, <2>2, <2>3, <2>4, SameTables
<1>5. CASE tool # "simulation"
  <2>1. heap' = heap /\ failed' = failed
    BY <1>1, <1>5 DEF Machine
  <2>2. PICK h : h = heap
    OBVIOUS
  <2>3. HeapOk(h) /\ h = heap'
    BY <2>1, <2>2 DEF DataInv
  <2> QED  BY <1>1, <1>3, <1>5, <2>1, <2>3, SameTables
<1> QED  BY <1>4, <1>5

\* Nothing happens.
LEMMA StutterKeeps ==
    ASSUME DataInv, UNCHANGED vars
    PROVE  DataInv'
<1>1. UNCHANGED <<tool, pc, Managed>> /\ heap' = heap /\ buffers' = buffers /\ fast' = fast
      /\ failed' = failed /\ log' = log
  BY DEF vars, Managed
<1>2. PICK h : h = heap
  OBVIOUS
<1>3. PICK bf, f : bf = buffers /\ f = fast
  OBVIOUS
<1>4. HeapOk(h) /\ h = heap'
  BY <1>1, <1>2 DEF DataInv
<1>5. tool = "simulation" => bf = buffers' /\ f = fast' /\ BuffersOk(h, bf) /\ RowsOk(f)
  BY <1>1, <1>2, <1>3 DEF DataInv
<1>6. (log \in Seq(Happening))'
  BY <1>1 DEF DataInv, Happening, Indices
<1> QED  BY <1>1, <1>4, <1>5, <1>6, SameTables

\* Every step keeps the invariant.
LEMMA StepKeeps == DataInv /\ [Next]_vars => DataInv'
<1> SUFFICES ASSUME DataInv, [Next]_vars PROVE DataInv'
  OBVIOUS
<1>1. ASSUME NEW i \in Images, LoadImage(i) PROVE DataInv'
  BY <1>1, LoadImageKeeps
<1>2. ASSUME NEW t \in Threads, Create(t) \/ Finish(t) PROVE DataInv'
  BY <1>2, CreateKeeps
<1>3. ASSUME NEW t \in Threads, ThreadInit(t) PROVE DataInv'
  BY <1>3, ThreadInitKeeps
<1>4. ASSUME NEW t \in Threads, FastAddThread(t) PROVE DataInv'
  BY <1>4, FastAddThreadKeeps
<1>5. ASSUME NEW t \in Threads, NEW i \in images, NEW x \in Indices, NEW addr \in Addresses, Run(t, i, x, addr)
      PROVE DataInv'
  BY <1>5, RunKeeps
<1>6. ASSUME NEW t \in Threads, NEW i \in images, NEW x \in Indices, Enter(t, i, x) \/ Leave(t, i, x)
      PROVE DataInv'
  BY <1>6, TimedKeeps
<1>7. CASE Exit
  BY <1>7, ExitKeeps
<1>8. CASE UNCHANGED vars
  BY <1>8, StutterKeeps
<1>9. \/ \E i \in Images : LoadImage(i)
      \/ \E t \in Threads : Create(t) \/ ThreadInit(t) \/ FastAddThread(t) \/ Finish(t)
      \/ \E t \in Threads, i \in images :
            \/ \E x \in Indices, addr \in Addresses : Run(t, i, x, addr)
            \/ \E x \in Indices : Enter(t, i, x) \/ Leave(t, i, x)
      \/ Exit
      \/ UNCHANGED vars
  BY DEF Next, Stopped
<1> QED  BY <1>1, <1>2, <1>3, <1>4, <1>5, <1>6, <1>7, <1>8, <1>9

-----------------------------------------------------------------------------
\* The invariant holds of every tool's run time, with any number of images and
\* threads.
LEMMA DataInvariance == Spec => []DataInv
<1> QED  BY InitData, StepKeeps, PTL DEF Spec

\* A running thread's inserted code finds the object that is the thread's
\* alone, whichever way it looks; the process stops itself only for a slot
\* or a pthread_t that is used twice, and the processing of a buffer never
\* meets a row that was not filled (SetThreadData, AddThread, Refresh).
THEOREM ThreadsFindTheirOwn == Spec => []FindsItsOwn
<1>1. DataInv => FindsItsOwn
  <2> SUFFICES ASSUME DataInv PROVE FindsItsOwn
    OBVIOUS
  <2>1. ASSUME NEW t \in allthreads, NEW i \in images, pc[t] \in {"run", "done"}
        PROVE  /\ Found(t, i) = Own(t, i) /\ heap[Own(t, i)].image = i
               /\ \A u \in allthreads, j \in images : Own(u, j) = Own(t, i) => u = t /\ j = i
    <3>1. allthreads \subseteq Threads /\ images \subseteq Images
      BY DEF DataInv, Registration
    <3>2. Own(t, i) = Object(t, i) /\ Found(t, i) = Object(t, i)
      BY <2>1, <3>1, FoundIs
    <3>3. \A u \in allthreads, j \in images : Own(u, j) = Object(u, j)
      BY DEF DataInv, Registration, Own
    <3>4. Object(t, i) \in DOMAIN heap /\ Object(t, i)[1] = i
      BY <3>1, ObjectIs DEF DataInv, HeapOk
    <3>5. heap[Own(t, i)].image = i
      BY <3>2, <3>4 DEF DataInv, HeapOk
    <3>6. ASSUME NEW u \in allthreads, NEW j \in images, Object(u, j) = Object(t, i)
          PROVE  u = t /\ j = i
      <4>1. j = i
        BY <3>1, <3>6, ObjectIs
      <4>2. \A v \in allthreads : Object(v, i)[2] = IF v = Main /\ tool \in OneObject THEN 0 ELSE v
        BY DEF Object
      <4>3. t \in Nat \ {0} /\ u \in Nat \ {0}
        BY <3>1, DataAssumption
      <4>4. Object(u, i)[2] = Object(t, i)[2]
        BY <3>6, <4>1
      <4> QED  BY <4>1, <4>2, <4>3, <4>4
    <3> QED  BY <3>2, <3>3, <3>5, <3>6
  <2>2. /\ failed = "actual == h" =>
               \E t \in Threads, u \in allthreads : pc[t] = "alldata" /\ t # u /\ HashThread(t) = HashThread(u)
        /\ failed = "allthreads.count(tid) == 0" => \E t \in allthreads : pc[t] = "alldata"
        /\ failed # "NULL"
    BY DEF DataInv, StopsForCause
  <2> QED  BY <2>1, <2>2 DEF FindsItsOwn
<1> QED  BY <1>1, DataInvariance, PTL

-----------------------------------------------------------------------------
(* What the objects keep, and what has happened.                           *)

\* Blocks and loops have counters of their own.
Counting(x) == Kinds[tool][x].type # "instruction"
\* An instruction's counter names its block's; timers leave counters alone.
Led(c) ==
    \A x \in Indices : /\ ~ Counting(x) => c[x] = Kinds[tool][x].leader
                       /\ Counting(x) /\ tool \notin OneObject => c[x] = 0
\* What an object keeps: for every index a counter and a timer, for every
\* memory instruction a range.
Shapes(hp) ==
    \A o \in DOMAIN hp : /\ DOMAIN hp[o].counters = Indices /\ DOMAIN hp[o].timers = Indices
                         /\ DOMAIN hp[o].stats = AllMemops
                         /\ Led(hp[o].counters)
LogKnown(l) ==
    \A k \in DOMAIN l : /\ l[k].thread \in allthreads /\ l[k].image \in images
                        /\ l[k].kind = "run" <=> tool \in OneObject
                        /\ tool \in OneObject => Counting(l[k].index) /\ l[k].addr \in Addresses
\* When a thread ran block x of an image.
Executions(l, t, i, x) == {k \in DOMAIN l : l[k].thread = t /\ l[k].image = i /\ l[k].index = x}
CountersRight(l, hp) ==
    tool \in OneObject =>
       /\ \A i \in Images \ images : \A x \in Indices : Counting(x) => hp[<<i, 0>>].counters[x] = 0
       /\ \A t \in allthreads : \A i \in images : \A x \in Indices :
             Counting(x) => hp[Object(t, i)].counters[x] = Cardinality(Executions(l, t, i, x))
\* The master is the executable's object, and an object of the cache
\* simulation knows its thread.
Marked(hp) ==
    /\ IsFiniteSet(images)
    /\ tool \in OneObject => \A i \in Images : hp[<<i, 0>>].master <=> i = Executable
    /\ tool = "simulation" => \A t \in allthreads : \A i \in images : hp[Object(t, i)].thread = t

\* The executions whose access by m waits in a buffer's entries q.
Pending(q, i, m) == {q[j].at : j \in {h \in 1 .. Len(q) : q[h].image = i /\ q[h].memop = m}}
\* Every entry is of an execution, in the buffer of its thread and image, once
\* for every memory instruction of the block, or not any more for any.
EntryRight(l, q, b, j) ==
    /\ q[j].at \in DOMAIN l /\ q[j].image = l[q[j].at].image
    /\ q[j].memop \in Memops[l[q[j].at].index]
    /\ q[j].addr = l[q[j].at].addr + q[j].memop
    /\ b = BufferOf(l[q[j].at].thread, q[j].image)
    /\ \A h \in 1 .. Len(q) : q[h].at = q[j].at /\ q[h].memop = q[j].memop => h = j
    /\ \A m \in Memops[l[q[j].at].index] : \E h \in 1 .. Len(q) : q[h].at = q[j].at /\ q[h].memop = m
EntriesRight(l, bf) == \A b \in DOMAIN bf : \A j \in 1 .. Len(bf[b]) : EntryRight(l, bf[b], b, j)
RangeIn(l, S, m) ==
    IF S = {} THEN NoRange
    ELSE [min |-> Min({l[k].addr : k \in S}) + m, max |-> Max({l[k].addr : k \in S}) + m, count |-> Cardinality(S)]
\* The ranges are those of the executions that no longer wait.
Accounted(l, hp, bf) ==
    \A t \in allthreads : \A i \in images : \A m \in AllMemops :
       hp[Object(t, i)].stats[m] = RangeIn(l, Executions(l, t, i, BlockOf(m)) \ Pending(bf[BufferOf(t, i)], i, m), m)

\* How deep a thread is inside of function or loop x after k events, and the
\* time of its activations that are over.
CountIn(l, k, t, i, kind, x) ==
    Cardinality({j \in 1 .. k : l[j].thread = t /\ l[j].image = i /\ l[j].kind = kind /\ l[j].index = x})
DepthIn(l, k, t, i, x) == CountIn(l, k, t, i, "enter", x) - CountIn(l, k, t, i, "exit", x)
Exits(l, t, i, x) == {k \in DOMAIN l : DepthIn(l, k, t, i, x) = 0 /\ DepthIn(l, k - 1, t, i, x) = 1}
Over(l, t, i, x) == {k \in DOMAIN l : DepthIn(l, k, t, i, x) > 0 /\ \E e \in Exits(l, t, i, x) : k < e}
TimerRight(l, r, t, i, x) ==
    /\ r.accum = Cardinality(Over(l, t, i, x))
    /\ r.depth = IF tool = "function" THEN DepthIn(l, Len(l), t, i, x) ELSE 0
    /\ DepthIn(l, Len(l), t, i, x) \in Nat /\ (tool = "loop" => DepthIn(l, Len(l), t, i, x) \in {0, 1})
    /\ IF DepthIn(l, Len(l), t, i, x) = 0
       THEN \A k \in 1 .. Len(l) : DepthIn(l, k, t, i, x) > 0 => k \in Over(l, t, i, x)
       ELSE /\ r.last \in 1 .. Len(l) /\ \A k \in r.last .. Len(l) : DepthIn(l, k, t, i, x) > 0
            /\ \A k \in 1 .. r.last - 1 : DepthIn(l, k, t, i, x) > 0 => k \in Over(l, t, i, x)
TimersRight(l, hp) ==
    tool \notin OneObject =>
       \A t \in allthreads : \A i \in images : \A x \in Indices :
          /\ DOMAIN hp[Object(t, i)].timers[x] = {"accum", "last", "depth"}
          /\ TimerRight(l, hp[Object(t, i)].timers[x], t, i, x)

KeptInv ==
    /\ Shapes(heap) /\ LogKnown(log) /\ CountersRight(log, heap) /\ Marked(heap) /\ TimersRight(log, heap)
    /\ tool = "simulation" => EntriesRight(log, buffers) /\ Accounted(log, heap, buffers)

-----------------------------------------------------------------------------
\* The start: nothing has happened.
LEMMA InitKept == Init => KeptInv
<1> SUFFICES ASSUME Init PROVE KeptInv
  OBVIOUS
<1>1. /\ heap = [o \in {<<i, 0>> : i \in Images} |-> StaticObject(o[1])]
      /\ buffers = [o \in {<<i, 0>> : i \in Images} |-> <<>>]
      /\ allthreads = {} /\ images = {} /\ log = <<>>
  BY DEF Init
<1>2. /\ DOMAIN heap = {<<i, 0>> : i \in Images}
      /\ \A i \in Images : heap[<<i, 0>>] = StaticObject(i)
      /\ \A o \in DOMAIN heap : \E i \in Images : o = <<i, 0>>
  BY <1>1
<1>3. Shapes(heap)
  <2>1. \A i \in Images : /\ DOMAIN StaticObject(i).counters = Indices /\ DOMAIN StaticObject(i).timers = Indices
                          /\ DOMAIN StaticObject(i).stats = AllMemops
                          /\ Led(StaticObject(i).counters)
    BY DEF StaticObject, Timers, NoStats, Counting, Led
  <2> QED  BY <1>2, <2>1 DEF Shapes
<1>4. LogKnown(log)
  BY <1>1 DEF LogKnown
<1>5. CountersRight(log, heap)
  <2>1. \A i \in Images : \A x \in Indices : Counting(x) => StaticObject(i).counters[x] = 0
    BY DEF StaticObject, Counting
  <2> QED  BY <1>1, <1>2, <2>1 DEF CountersRight
<1>6. Marked(heap)
  <2>1. \A i \in Images : StaticObject(i).master <=> i = Executable
    BY DEF StaticObject
  <2> QED  BY <1>1, <1>2, <2>1, FS_EmptySet DEF Marked
<1>7. TimersRight(log, heap) /\ Accounted(log, heap, buffers)
  BY <1>1 DEF TimersRight, Accounted
<1>8. EntriesRight(log, buffers)
  <2>1. \A b \in DOMAIN buffers : 1 .. Len(buffers[b]) = {}
    <3>1. \A b \in DOMAIN buffers : buffers[b] = <<>>
      BY <1>1
    <3>2. 1 .. Len(<<>>) = {}
      OBVIOUS
    <3> QED  BY <3>1, <3>2
  <2> QED  BY <2>1 DEF EntriesRight
<1> QED  BY <1>3, <1>4, <1>5, <1>6, <1>7, <1>8 DEF KeptInv

\* What has happened is only of known threads and images.
LEMMA NothingOfOthers ==
    ASSUME DataInv, NEW l, LogKnown(l), l \in Seq(Happening), NEW t, NEW i, t \notin allthreads \/ i \notin images
    PROVE  \A x : /\ Executions(l, t, i, x) = {} /\ Over(l, t, i, x) = {}
                  /\ \A k \in 0 .. Len(l) : DepthIn(l, k, t, i, x) = 0
<1>1. \A k \in 1 .. Len(l) : ~ (l[k].thread = t /\ l[k].image = i)
  BY DEF LogKnown
<1>2. DOMAIN l = 1 .. Len(l) /\ Len(l) \in Nat
  OBVIOUS
<1> TAKE x
<1>3. Executions(l, t, i, x) = {}
  BY <1>1, <1>2 DEF Executions
<1>4. ASSUME NEW k \in 0 .. Len(l) PROVE DepthIn(l, k, t, i, x) = 0
  <2>1. \A kind : {j \in 1 .. k : l[j].thread = t /\ l[j].image = i /\ l[j].kind = kind /\ l[j].index = x} = {}
    BY <1>1, <1>2
  <2>2. \A kind : CountIn(l, k, t, i, kind, x) = 0
    BY <2>1, FS_EmptySet DEF CountIn
  <2> QED  BY <2>2 DEF DepthIn
<1>5. Over(l, t, i, x) = {}
  BY <1>2, <1>4 DEF Over
<1> QED  BY <1>3, <1>4, <1>5

\* What a step does that only adds images and threads: known objects keep what
\* they have, new ones have counted and charged nothing, and what waits in a
\* buffer stays there.
KnownKept ==
    \A t \in allthreads : \A i \in images :
       /\ heap'[Object(t, i)].counters = heap[Object(t, i)].counters
       /\ heap'[Object(t, i)].stats = heap[Object(t, i)].stats
       /\ heap'[Object(t, i)].timers = heap[Object(t, i)].timers
       /\ tool = "simulation" => heap'[Object(t, i)].thread = heap[Object(t, i)].thread
NewEmpty ==
    \A t \in allthreads' : \A i \in images' : (t \notin allthreads \/ i \notin images) =>
       /\ tool \in OneObject => \A x \in Indices : Counting(x) => heap'[Object(t, i)].counters[x] = 0
       /\ tool = "simulation" => heap'[Object(t, i)].stats = NoStats /\ heap'[Object(t, i)].thread = t
       /\ tool \notin OneObject => heap'[Object(t, i)].timers = Timers
StaticKept ==
    /\ \A i \in Images : heap'[<<i, 0>>].master = heap[<<i, 0>>].master
    /\ \A i \in Images \ images' : heap'[<<i, 0>>].counters = heap[<<i, 0>>].counters
WaitingKept ==
    /\ images # {} => firstimage' = firstimage
    /\ \A t \in allthreads : \A i \in images : buffers'[BufferOf(t, i)] = buffers[BufferOf(t, i)]
    /\ \A b \in DOMAIN buffers' : buffers'[b] = <<>> \/ (b \in DOMAIN buffers /\ buffers'[b] = buffers[b])

LEMMA GrowKeeps ==
    ASSUME DataInv, KeptInv, log' = log, tool' = tool, images \subseteq images', allthreads \subseteq allthreads',
           IsFiniteSet(images'), Shapes(heap)', KnownKept, NewEmpty, StaticKept, tool = "simulation" => WaitingKept
    PROVE  KeptInv'
<1>1. /\ \A t, i : Object(t, i)' = Object(t, i)
      /\ Indices' = Indices /\ \A x : Counting(x)' = Counting(x)
  BY DEF Object, Indices, Counting
<1>2. /\ Shapes(heap) /\ LogKnown(log) /\ CountersRight(log, heap) /\ Marked(heap) /\ TimersRight(log, heap)
      /\ log \in Seq(Happening) /\ images \subseteq Images
  BY DEF KeptInv, DataInv, Registration
<1>3. ASSUME NEW t, NEW i, t \notin allthreads \/ i \notin images
      PROVE  \A x : /\ Executions(log, t, i, x) = {} /\ Over(log, t, i, x) = {}
                    /\ \A k \in 0 .. Len(log) : DepthIn(log, k, t, i, x) = 0
  <2>1. PICK l : l = log
    OBVIOUS
  <2>2. LogKnown(l) /\ l \in Seq(Happening)
    BY <1>2, <2>1
  <2> QED  BY <1>3, <2>1, <2>2, NothingOfOthers
<1>4. LogKnown(log)'
  BY <1>1, <1>2 DEF LogKnown
<1>5. CountersRight(log, heap)'
  <2> SUFFICES ASSUME tool \in OneObject
               PROVE  /\ \A i \in Images \ images' : \A x \in Indices : Counting(x) => heap'[<<i, 0>>].counters[x] = 0
                      /\ \A t \in allthreads' : \A i \in images' : \A x \in Indices :
                            Counting(x) => heap'[Object(t, i)].counters[x] = Cardinality(Executions(log, t, i, x))
    BY <1>1 DEF CountersRight, Executions
  <2>1. \A i \in Images \ images' : \A x \in Indices : Counting(x) => heap'[<<i, 0>>].counters[x] = 0
    BY <1>2 DEF CountersRight, StaticKept
  <2>2. ASSUME NEW t \in allthreads', NEW i \in images', NEW x \in Indices, Counting(x)
        PROVE  heap'[Object(t, i)].counters[x] = Cardinality(Executions(log, t, i, x))
    <3>1. CASE t \in allthreads /\ i \in images
      BY <1>2, <2>2, <3>1 DEF CountersRight, KnownKept
    <3>2. CASE t \notin allthreads \/ i \notin images
      <4>1. heap'[Object(t, i)].counters[x] = 0
        BY <2>2, <3>2 DEF NewEmpty
      <4>2. Executions(log, t, i, x) = {}
        BY <1>3, <3>2
      <4> QED  BY <4>1, <4>2, FS_EmptySet
    <3> QED  BY <3>1, <3>2
  <2> QED  BY <2>1, <2>2
<1>6. Marked(heap)'
  <2>1. tool \in OneObject => \A i \in Images : heap'[<<i, 0>>].master <=> i = Executable
    BY <1>2 DEF Marked, StaticKept
  <2>2. tool = "simulation" => \A t \in allthreads' : \A i \in images' : heap'[Object(t, i)].thread = t
    BY <1>2 DEF Marked, KnownKept, NewEmpty
  <2> QED  BY <1>1, <2>1, <2>2 DEF Marked
<1>7. TimersRight(log, heap)'
  <2> SUFFICES ASSUME tool \notin OneObject, NEW t \in allthreads', NEW i \in images', NEW x \in Indices
               PROVE  /\ DOMAIN heap'[Object(t, i)].timers[x] = {"accum", "last", "depth"}
                      /\ TimerRight(log, heap'[Object(t, i)].timers[x], t, i, x)
    <3>1. \A k, t, i, x : DepthIn(log, k, t, i, x)' = DepthIn(log, k, t, i, x)
      BY DEF DepthIn, CountIn
    <3>2. \A t, i, x : Over(log, t, i, x)' = Over(log, t, i, x)
      BY <3>1 DEF Over, Exits
    <3> QED  BY <1>1, <3>1, <3>2 DEF TimersRight, TimerRight
  <2>1. CASE t \in allthreads /\ i \in images
    BY <1>2, <2>1 DEF TimersRight, KnownKept
  <2>2. CASE t \notin allthreads \/ i \notin images
    <3>1. heap'[Object(t, i)].timers[x] = [accum |-> 0, last |-> 0, depth |-> 0]
      BY <2>2 DEF Timers, NewEmpty
    <3>2. Over(log, t, i, x) = {} /\ \A k \in 0 .. Len(log) : DepthIn(log, k, t, i, x) = 0
      BY <1>3, <2>2
    <3>3. Len(log) \in 0 .. Len(log) /\ 1 .. Len(log) \subseteq 0 .. Len(log)
      BY <1>2
    <3> QED  BY <3>1, <3>2, <3>3, FS_EmptySet DEF TimerRight
  <2> QED  BY <2>1, <2>2
<1>8. ASSUME tool = "simulation" PROVE EntriesRight(log, buffers)'
  <2>1. EntriesRight(log, buffers)
    BY <1>8 DEF KeptInv
  <2> SUFFICES ASSUME NEW b \in DOMAIN buffers', NEW j \in 1 .. Len(buffers'[b])
               PROVE  EntryRight(log, buffers[b], b, j)'
    BY DEF EntriesRight
  <2>2. b \in DOMAIN buffers /\ buffers'[b] = buffers[b] /\ j \in 1 .. Len(buffers[b])
    <3>1. 1 .. Len(<<>>) = {}
      OBVIOUS
    <3> QED  BY <1>8, <3>1 DEF WaitingKept
  <2>3. EntryRight(log, buffers[b], b, j)
    BY <2>1, <2>2 DEF EntriesRight
  <2>4. images # {}
    BY <1>2, <2>3 DEF LogKnown, EntryRight
  <2>5. firstimage' = firstimage
    BY <1>8, <2>4 DEF WaitingKept
  <2>6. PICK l, q : l = log /\ q = buffers[b]
    OBVIOUS
  <2>7. EntryRight(l, q, b, j)
    BY <2>3, <2>6
  <2>8. EntryRight(l, q, b, j)'
    BY <2>5, <2>7 DEF EntryRight, BufferOf
  <2> QED  BY <2>2, <2>6, <2>8
<1>9. ASSUME tool = "simulation" PROVE Accounted(log, heap, buffers)'
  <2>1. Accounted(log, heap, buffers)
    BY <1>9 DEF KeptInv
  <2> SUFFICES ASSUME NEW t \in allthreads', NEW i \in images', NEW m \in AllMemops
               PROVE  heap'[Object(t, i)].stats[m] =
                         RangeIn(log, Executions(log, t, i, BlockOf(m)) \ Pending(buffers'[BufferOf(t, i)'], i, m), m)
    BY <1>1 DEF Accounted, RangeIn, Executions, Pending
  <2>2. CASE t \in allthreads /\ i \in images
    <3>1. BufferOf(t, i)' = BufferOf(t, i)
      BY <1>9, <2>2 DEF WaitingKept, BufferOf
    <3> QED  BY <1>9, <2>1, <2>2, <3>1 DEF Accounted, KnownKept, WaitingKept
  <2>3. CASE t \notin allthreads \/ i \notin images
    <3>1. heap'[Object(t, i)].stats[m] = NoRange
      BY <1>9, <2>3 DEF NoStats, NewEmpty
    <3>2. Executions(log, t, i, BlockOf(m)) = {}
      BY <1>3, <2>3
    <3> QED  BY <3>1, <3>2 DEF RangeIn
  <2> QED  BY <2>2, <2>3
<1> QED  BY <1>4, <1>5, <1>6, <1>7, <1>8, <1>9 DEF KeptInv

\* A step that is about neither objects nor buffers.
LEMMA KeptSame ==
    ASSUME DataInv, KeptInv, UNCHANGED <<tool, heap, buffers, log, allthreads, images, firstimage>>
    PROVE  KeptInv'
<1>1. /\ \A t, i : Object(t, i)' = Object(t, i) /\ BufferOf(t, i)' = BufferOf(t, i)
      /\ Indices' = Indices /\ \A x : Counting(x)' = Counting(x)
      /\ \A c : Led(c)' = Led(c)
  BY DEF Object, BufferOf, Indices, Counting, Led
<1>2. Shapes(heap)'
  BY <1>1 DEF KeptInv, Shapes
<1>3. IsFiniteSet(images')
  BY DEF KeptInv, Marked
<1>4. KnownKept /\ NewEmpty /\ StaticKept
  BY DEF KnownKept, NewEmpty, StaticKept
<1>5. WaitingKept
  BY <1>1 DEF WaitingKept
<1> QED  BY <1>2, <1>3, <1>4, <1>5, GrowKeeps

\* A new image's object has the counters of its data section, and nothing is
\* charged to it (the datagen functions on an image).
LEMMA LoadImageContents ==
    ASSUME DataInv, NEW i \in Images, LoadImage(i)
    PROVE  \E rec : /\ heap' = Put(heap, Object(Main, i), rec)
                    /\ rec.counters = heap[<<i, 0>>].counters
                    /\ tool \in OneObject => rec.master = heap[<<i, 0>>].master
                    /\ rec.stats = NoStats \/ (tool # "simulation" /\ rec.stats = heap[<<i, 0>>].stats)
                    /\ rec.timers = Timers \/ (tool \in OneObject /\ rec.timers = heap[<<i, 0>>].timers)
                    /\ tool = "simulation" => rec.thread = Main
<1> DEFINE o == <<i, 0>>
           first == IF firstimage = 0 THEN i ELSE firstimage
           gen == datagen(heap, datamap, o, "image", i, Main, first)
<1>1. heap' = gen.heap
  BY DEF LoadImage
<1>2. o \in DOMAIN heap /\ DOMAIN heap[o] = Fields
  BY DEF DataInv, HeapOk
<1>3. CASE tool = "counter"
  <2>1. Object(Main, i) = o
    BY <1>3 DEF Object, OneObject
  <2>2. gen.heap = [heap EXCEPT ![o].thread = Main, ![o].image = i]
    BY <1>3 DEF datagen, GenerateCounterArray
  <2> DEFINE rec == [heap[o] EXCEPT !.thread = Main, !.image = i]
  <2>3. /\ rec.counters = heap[o].counters /\ rec.master = heap[o].master
        /\ rec.stats = heap[o].stats /\ rec.timers = heap[o].timers
    BY <1>2 DEF Fields
  <2>4. gen.heap = [heap EXCEPT ![o] = rec]
    BY <1>2, <2>2
  <2> HIDE DEF rec, o
  <2>5. gen.heap = Put(heap, o, rec)
    BY <1>2, <2>4 DEF Put
  <2> QED  BY <1>1, <1>3, <2>1, <2>3, <2>5 DEF o, OneObject
<1>4. CASE tool = "simulation"
  <2>1. Object(Main, i) = o
    BY <1>4 DEF Object, OneObject
  <2> DEFINE shared == heap[datamap[first][Main]]
             rec == [heap[o] EXCEPT
                       !.thread = Main, !.image = i, !.stats = NoStats,
                       !.handlers = IF i = first THEN <<i, Main>> ELSE shared.handlers,
                       !.rhandlers = IF i = first THEN <<i, Main>> ELSE @,
                       !.buffer = IF i # first THEN shared.buffer ELSE @,
                       !.counters = @]
  <2>2. gen = [heap |-> Put(heap, o, rec), data |-> o]
    BY <1>4 DEF datagen, GenerateCacheStats
  <2>3. /\ rec.counters = heap[o].counters /\ rec.master = heap[o].master
        /\ rec.stats = NoStats /\ rec.timers = heap[o].timers /\ rec.thread = Main
    BY <1>2 DEF Fields
  <2> HIDE DEF rec
  <2> QED  BY <1>1, <1>4, <2>1, <2>2, <2>3 DEF OneObject
<1>5. CASE tool \notin {"counter", "simulation"}
  <2>1. Object(Main, i) = <<i, Main>>
    BY <1>5 DEF Object, OneObject
  <2> DEFINE rec == [heap[o] EXCEPT !.master = @ /\ "image" = "image", !.timers = Timers]
  <2>2. gen = [heap |-> Put(heap, <<i, Main>>, rec), data |-> <<i, Main>>]
    BY <1>5 DEF datagen, GenerateTimers
  <2>3. rec.counters = heap[o].counters /\ rec.stats = heap[o].stats /\ rec.timers = Timers
    BY <1>2 DEF Fields
  <2> HIDE DEF rec
  <2> QED  BY <1>1, <1>5, <2>1, <2>2, <2>3 DEF OneObject
<1> QED  BY <1>3, <1>4, <1>5

LEMMA LoadImageKept ==
    ASSUME DataInv, KeptInv, NEW i \in Images, LoadImage(i)
    PROVE  KeptInv'
<1>1. /\ i \notin images /\ images' = images \cup {i} /\ allthreads' = {Main}
      /\ allthreads \subseteq {Main} /\ firstimage' = IF images = {} THEN i ELSE firstimage
      /\ UNCHANGED <<tool, buffers>> /\ log' = log
      /\ images # {} => allthreads = {Main}
      /\ images = {} => allthreads = {}
      /\ images \subseteq Images /\ Main \in Threads /\ Main # 0
  BY LoadImageManaged, DataAssumption DEF LoadImage, DataInv, Registration
<1> DEFINE o == Object(Main, i)
<1>2. PICK rec : /\ heap' = Put(heap, o, rec)
                 /\ rec.counters = heap[<<i, 0>>].counters
                 /\ tool \in OneObject => rec.master = heap[<<i, 0>>].master
                 /\ rec.stats = NoStats \/ (tool # "simulation" /\ rec.stats = heap[<<i, 0>>].stats)
                 /\ rec.timers = Timers \/ (tool \in OneObject /\ rec.timers = heap[<<i, 0>>].timers)
                 /\ tool = "simulation" => rec.thread = Main
  BY LoadImageContents
<1>3. \A t, j : Object(t, j)' = Object(t, j)
  BY <1>1 DEF Object
<1>4. /\ Indices' = Indices /\ \A x : Counting(x)' = Counting(x)
      /\ \A c : Led(c)' = Led(c)
  BY <1>1 DEF Indices, Counting, Led
<1>5. /\ \A j : j # i => <<j, 0>> # o /\ Object(Main, j) # o
      /\ tool \in OneObject => o = <<i, 0>>
      /\ tool \notin OneObject => \A j : <<j, 0>> # o
  BY <1>1 DEF Object
<1>6. /\ DOMAIN heap' = DOMAIN heap \cup {o} /\ heap'[o] = rec
      /\ \A p \in DOMAIN heap : p # o => heap'[p] = heap[p]
  <2> HIDE DEF o
  <2>1. DOMAIN heap' = DOMAIN heap \cup {o}
    BY <1>2, PutDomain
  <2>2. heap'[o] = rec
    BY <1>2, PutHere
  <2>3. \A p \in DOMAIN heap : p # o => heap'[p] = heap[p]
    BY <1>2, PutElsewhere
  <2> QED  BY <2>1, <2>2, <2>3
<1>7. /\ \A j \in Images : <<j, 0>> \in DOMAIN heap
      /\ \A j \in images : Main \in allthreads => Object(Main, j) \in DOMAIN heap
  BY DEF DataInv, HeapOk
<1> HIDE DEF o
<1>8. Shapes(heap)'
  <2>1. Shapes(heap)
    BY DEF KeptInv
  <2>2. /\ DOMAIN rec.counters = Indices /\ DOMAIN rec.timers = Indices /\ DOMAIN rec.stats = AllMemops
        /\ Led(rec.counters)
    <3>1. DOMAIN NoStats = AllMemops /\ DOMAIN Timers = Indices
      BY DEF NoStats, Timers
    <3> QED  BY <1>2, <1>7, <2>1, <3>1 DEF Shapes
  <2>3. \A p \in DOMAIN heap' : /\ DOMAIN heap'[p].counters = Indices /\ DOMAIN heap'[p].timers = Indices
                                /\ DOMAIN heap'[p].stats = AllMemops
                                /\ Led(heap'[p].counters)
    <3> SUFFICES ASSUME NEW p \in DOMAIN heap'
                 PROVE  /\ DOMAIN heap'[p].counters = Indices /\ DOMAIN heap'[p].timers = Indices
                        /\ DOMAIN heap'[p].stats = AllMemops
                        /\ Led(heap'[p].counters)
      OBVIOUS
    <3>1. CASE p = o
      BY <1>6, <2>2, <3>1
    <3>2. CASE p # o
      <4>1. p \in DOMAIN heap /\ heap'[p] = heap[p]
        BY <1>6, <3>2
      <4> QED  BY <2>1, <4>1 DEF Shapes
    <3> QED  BY <3>1, <3>2
  <2> QED  BY <1>1, <1>4, <2>3 DEF Shapes
<1>9. IsFiniteSet(images')
  BY <1>1, FS_AddElement DEF KeptInv, Marked
<1>10. KnownKept
  <2>1. \A t \in allthreads : \A j \in images : heap'[Object(t, j)] = heap[Object(t, j)]
    BY <1>1, <1>5, <1>6, <1>7
  <2> QED  BY <2>1 DEF KnownKept
<1>11. NewEmpty
  <2> SUFFICES ASSUME NEW t \in allthreads', NEW j \in images', t \notin allthreads \/ j \notin images
               PROVE  /\ tool \in OneObject => \A x \in Indices : Counting(x) => rec.counters[x] = 0
                      /\ tool = "simulation" => rec.stats = NoStats /\ rec.thread = t
                      /\ tool \notin OneObject => rec.timers = Timers
                      /\ Object(t, j) = o
    BY <1>6 DEF NewEmpty
  <2>1. t = Main /\ j = i
    BY <1>1
  <2>2. CountersRight(log, heap)
    BY DEF KeptInv
  <2>3. tool \in OneObject => \A x \in Indices : Counting(x) => heap[<<i, 0>>].counters[x] = 0
    BY <1>1, <2>2 DEF CountersRight
  <2> QED  BY <1>2, <2>1, <2>3 DEF o
<1>12. StaticKept
  <2>1. \A j \in Images : heap'[<<j, 0>>] = heap[<<j, 0>>] \/ (tool \in OneObject /\ j = i /\ heap'[<<j, 0>>] = rec)
    BY <1>5, <1>6, <1>7
  <2>2. \A j \in Images : heap'[<<j, 0>>].master = heap[<<j, 0>>].master
    BY <1>2, <2>1
  <2>3. \A j \in Images \ images' : heap'[<<j, 0>>].counters = heap[<<j, 0>>].counters
    BY <1>1, <2>1
  <2> QED  BY <2>2, <2>3 DEF StaticKept
<1>13. tool = "simulation" => WaitingKept
  BY <1>1 DEF WaitingKept
<1>14. images \subseteq images' /\ allthreads \subseteq allthreads'
  BY <1>1
<1> QED  BY <1>1, <1>8, <1>9, <1>10, <1>11, <1>12, <1>13, <1>14, GrowKeeps

\* What a thread gets for an image has counted and charged nothing; what it is
\* made from stays as it is (the datagen functions on a thread).
SameContents(r, q) ==
    /\ r.counters = q.counters /\ r.stats = q.stats /\ r.timers = q.timers /\ r.master = q.master
    /\ tool = "simulation" => r.thread = q.thread
Blank(r, t) ==
    /\ DOMAIN r.counters = Indices /\ DOMAIN r.timers = Indices /\ DOMAIN r.stats = AllMemops
    /\ Led(r.counters)
    /\ tool \in OneObject => \A x \in Indices : Counting(x) => r.counters[x] = 0
    /\ tool = "simulation" => r.stats = NoStats /\ r.thread = t
    /\ tool \notin OneObject => r.timers = Timers
MadeBlank(g, i, t) ==
    /\ Blank(g.heap[<<i, t>>], t)
    /\ \A o \in DOMAIN heap : o # <<i, t>> => SameContents(g.heap[o], heap[o])

LEMMA MadeContents ==
    ASSUME DataInv, KeptInv, NEW i \in images, NEW t \in Threads, t # Main, NEW u \in allthreads, NEW g,
           g = datagen(heap, datamap, datamap[i][u], "thread", i, t, firstimage)
    PROVE  MadeBlank(g, i, t)
<1> DEFINE tmpl == Object(u, i)
           n == <<i, t>>
<1>1. datamap[i][u] = tmpl /\ u \in Threads /\ i \in Images
  BY DEF DataInv, Registration
<1>2. tmpl \in DOMAIN heap /\ \A o \in DOMAIN heap : DOMAIN heap[o] = Fields
  BY <1>1 DEF DataInv, HeapOk
<1>3. g = datagen(heap, datamap, tmpl, "thread", i, t, firstimage)
  BY <1>1
<1>4. /\ DOMAIN heap[tmpl].counters = Indices /\ DOMAIN heap[tmpl].timers = Indices
      /\ DOMAIN heap[tmpl].stats = AllMemops
      /\ Led(heap[tmpl].counters)
  BY <1>2 DEF KeptInv, Shapes
<1>5. ASSUME NEW c, Led(c)
      PROVE  /\ DOMAIN Zeroed(c) = Indices
             /\ Led(Zeroed(c))
             /\ \A x \in Indices : Counting(x) => Zeroed(c)[x] = 0
  BY <1>5 DEF Zeroed, Counting, Led
<1>6. DOMAIN NoStats = AllMemops /\ DOMAIN Timers = Indices
  BY DEF NoStats, Timers
<1>7. CASE tool = "counter"
  <2> DEFINE named == [heap EXCEPT ![tmpl].thread = t, ![tmpl].image = i]
             rec == [named[tmpl] EXCEPT !.counters = Zeroed(@), !.master = FALSE]
  <2>1. g = [heap |-> Put(named, n, rec), data |-> n]
    BY <1>3, <1>7 DEF datagen, GenerateCounterArray
  <2> HIDE DEF tmpl, n
  <2>2. /\ DOMAIN named = DOMAIN heap
        /\ \A o \in DOMAIN heap : SameContents(named[o], heap[o]) /\ DOMAIN named[o] = Fields
    BY <1>2, <1>7 DEF Fields, SameContents
  <2>3. Blank(rec, t)
    <3>1. named[tmpl].counters = heap[tmpl].counters /\ named[tmpl].stats = heap[tmpl].stats
          /\ named[tmpl].timers = heap[tmpl].timers /\ DOMAIN named[tmpl] = Fields
      BY <1>2, <2>2 DEF SameContents
    <3> HIDE DEF named
    <3>2. rec.counters = Zeroed(heap[tmpl].counters) /\ rec.stats = heap[tmpl].stats /\ rec.timers = heap[tmpl].timers
      BY <3>1 DEF Fields
    <3> HIDE DEF rec
    <3> QED  BY <1>4, <1>5, <1>7, <3>2 DEF Blank, OneObject
  <2> HIDE DEF named, rec
  <2>4. g.heap = Put(named, n, rec)
    BY <2>1
  <2>5. g.heap[n] = rec
    BY <2>4, PutHere
  <2>6. \A o \in DOMAIN heap : o # n => g.heap[o] = named[o]
    BY <2>2, <2>4, PutElsewhere
  <2> QED  BY <2>2, <2>3, <2>5, <2>6 DEF n, MadeBlank
<1>8. CASE tool = "simulation"
  <2> DEFINE shared == heap[datamap[firstimage][t]]
             rec == [heap[tmpl] EXCEPT
                       !.thread = t, !.image = i, !.stats = NoStats,
                       !.handlers = IF TRUE THEN n ELSE shared.handlers,
                       !.rhandlers = IF TRUE THEN n ELSE @,
                       !.buffer = n,
                       !.counters = Zeroed(@)]
  <2>1. g = [heap |-> Put(heap, n, rec), data |-> n]
    BY <1>3, <1>8 DEF datagen, GenerateCacheStats
  <2> HIDE DEF tmpl, n
  <2>2. /\ rec.counters = Zeroed(heap[tmpl].counters) /\ rec.stats = NoStats /\ rec.timers = heap[tmpl].timers
        /\ rec.thread = t
    BY <1>2 DEF Fields
  <2> HIDE DEF rec
  <2>3. Blank(rec, t)
    BY <1>4, <1>5, <1>6, <1>8, <2>2 DEF Blank, OneObject
  <2>4. g.heap = Put(heap, n, rec)
    BY <2>1
  <2>5. g.heap[n] = rec
    BY <2>4, PutHere
  <2>6. \A o \in DOMAIN heap : o # n => g.heap[o] = heap[o]
    BY <2>4, PutElsewhere
  <2> QED  BY <2>3, <2>5, <2>6 DEF n, MadeBlank, SameContents
<1>9. CASE tool \notin {"counter", "simulation"}
  <2> DEFINE rec == [heap[tmpl] EXCEPT !.master = @ /\ "thread" = "image", !.timers = Timers]
  <2>1. g = [heap |-> Put(heap, n, rec), data |-> n]
    BY <1>3, <1>9 DEF datagen, GenerateTimers
  <2> HIDE DEF tmpl, n
  <2>2. rec.counters = heap[tmpl].counters /\ rec.stats = heap[tmpl].stats /\ rec.timers = Timers
    BY <1>2 DEF Fields
  <2> HIDE DEF rec
  <2>3. Blank(rec, t)
    BY <1>4, <1>6, <1>9, <2>2 DEF Blank, OneObject
  <2>4. g.heap = Put(heap, n, rec)
    BY <2>1
  <2>5. g.heap[n] = rec
    BY <2>4, PutHere
  <2>6. \A o \in DOMAIN heap : o # n => g.heap[o] = heap[o]
    BY <2>4, PutElsewhere
  <2> QED  BY <2>3, <2>5, <2>6 DEF n, MadeBlank, SameContents
<1> QED  BY <1>7, <1>8, <1>9

LEMMA ThreadInitContents ==
    ASSUME DataInv, KeptInv, NEW t \in Threads, ThreadInit(t),
           t \notin allthreads, \A i \in images : ~ Collides(threaddata[i], t)
    PROVE  /\ \A i \in images : Blank(heap'[<<i, t>>], t)
           /\ \A o \in DOMAIN heap : (~ \E i \in images : o = <<i, t>>) => SameContents(heap'[o], heap[o])
<1> DEFINE made(i) == datagen(heap, datamap, Template(i), "thread", i, t, firstimage)
           all == [o \in DOMAIN heap \cup {made(i).data : i \in images} |->
                      IF o[1] \in images THEN made(o[1]).heap[o] ELSE heap[o]]
<1>1. /\ t # Main /\ images # {} /\ Main \in allthreads
      /\ DOMAIN heap' = DOMAIN heap \cup {<<i, t>> : i \in images}
  BY ThreadInitManaged
<1>2. heap' = all
  BY DEF ThreadInit
<1>3. Least(allthreads) \in allthreads
  BY <1>1, LeastThread
<1>4. ASSUME NEW i \in images PROVE MadeBlank(made(i), i, t)
  <2>1. made(i) = datagen(heap, datamap, datamap[i][Least(allthreads)], "thread", i, t, firstimage)
    BY DEF Template
  <2> HIDE DEF made
  <2> DEFINE u == Least(allthreads)
             g == made(i)
  <2>2. u \in allthreads /\ g = datagen(heap, datamap, datamap[i][u], "thread", i, t, firstimage)
    BY <1>3, <2>1
  <2> HIDE DEF u, g
  <2>3. MadeBlank(g, i, t)
    BY <1>1, <2>2, MadeContents
  <2> QED  BY <2>3 DEF g
<1> HIDE DEF made
<1>5. \A o \in DOMAIN heap' : heap'[o] = IF o[1] \in images THEN made(o[1]).heap[o] ELSE heap[o]
  BY <1>2
<1>6. ASSUME NEW i \in images PROVE Blank(heap'[<<i, t>>], t)
  <2>1. <<i, t>> \in DOMAIN heap' /\ <<i, t>>[1] = i
    BY <1>1
  <2>2. heap'[<<i, t>>] = made(i).heap[<<i, t>>]
    BY <1>5, <2>1
  <2> QED  BY <1>4, <2>2 DEF MadeBlank
<1>7. ASSUME NEW o \in DOMAIN heap, ~ \E i \in images : o = <<i, t>> PROVE SameContents(heap'[o], heap[o])
  <2>1. o \in DOMAIN heap'
    BY <1>1
  <2>2. CASE o[1] \in images
    <3>1. PICK i \in images : i = o[1]
      BY <2>2
    <3>2. heap'[o] = made(i).heap[o] /\ o # <<i, t>>
      BY <1>5, <1>7, <2>1, <3>1
    <3> QED  BY <1>4, <3>2 DEF MadeBlank
  <2>3. CASE o[1] \notin images
    BY <1>5, <2>1, <2>3 DEF SameContents
  <2> QED  BY <2>2, <2>3
<1> QED  BY <1>6, <1>7

LEMMA ThreadInitKept ==
    ASSUME DataInv, KeptInv, NEW t \in Threads, ThreadInit(t)
    PROVE  KeptInv'
<1>1. CASE t \in allthreads \/ \E i \in images : Collides(threaddata[i], t)
  <2>1. UNCHANGED <<tool, heap, buffers, log, allthreads, images, firstimage>>
    <3>1. CASE t \in allthreads
      BY <3>1 DEF ThreadInit, Managed
    <3>2. CASE t \notin allthreads
      BY <1>1, <3>2 DEF ThreadInit, Managed
    <3> QED  BY <3>1, <3>2
  <2> QED  BY <2>1, KeptSame
<1>2. CASE t \notin allthreads /\ \A i \in images : ~ Collides(threaddata[i], t)
  <2>1. /\ t # Main /\ images # {} /\ Main \in allthreads
        /\ UNCHANGED <<tool, images, firstimage>> /\ allthreads' = allthreads \cup {t}
        /\ buffers' = [b \in DOMAIN buffers \cup {<<i, t>> : i \in images} |->
                           IF b[2] = t THEN <<>> ELSE buffers[b]]
        /\ DOMAIN heap' = DOMAIN heap \cup {<<i, t>> : i \in images}
    BY <1>2, ThreadInitManaged
  <2>2. log' = log
    BY DEF ThreadInit
  <2>3. /\ \A i \in images : Blank(heap'[<<i, t>>], t)
        /\ \A o \in DOMAIN heap : (~ \E i \in images : o = <<i, t>>) => SameContents(heap'[o], heap[o])
    BY <1>2, ThreadInitContents
  <2>4. \A u, i : Object(u, i)' = Object(u, i)
    BY <2>1 DEF Object
  <2>5. /\ Indices' = Indices /\ \A x : Counting(x)' = Counting(x)
        /\ \A c : Led(c)' = Led(c)
    BY <2>1 DEF Indices, Counting, Led
  <2>6. /\ t # 0 /\ images \subseteq Images /\ Main # 0
        /\ \A i \in Images : <<i, 0>> \in DOMAIN heap
        /\ \A i \in images : \A u \in allthreads : Object(u, i) \in DOMAIN heap
    BY DataAssumption DEF DataInv, HeapOk, Registration
  <2>7. \A u \in allthreads : \A i \in images : \A j \in images : Object(u, i) # <<j, t>>
    BY <1>2, <2>6 DEF Object
  <2>8. \A i, j : <<i, 0>> # <<j, t>>
    BY <2>6
  <2>9. Shapes(heap)'
    <3>1. Shapes(heap)
      BY DEF KeptInv
    <3>2. \A p \in DOMAIN heap' : /\ DOMAIN heap'[p].counters = Indices /\ DOMAIN heap'[p].timers = Indices
                                  /\ DOMAIN heap'[p].stats = AllMemops
                                  /\ Led(heap'[p].counters)
      <4> SUFFICES ASSUME NEW p \in DOMAIN heap'
                   PROVE  /\ DOMAIN heap'[p].counters = Indices /\ DOMAIN heap'[p].timers = Indices
                          /\ DOMAIN heap'[p].stats = AllMemops
                          /\ Led(heap'[p].counters)
        OBVIOUS
      <4>1. CASE \E i \in images : p = <<i, t>>
        BY <2>3, <4>1 DEF Blank
      <4>2. CASE ~ \E i \in images : p = <<i, t>>
        <5>1. p \in DOMAIN heap
          BY <2>1, <4>2
        <5>2. SameContents(heap'[p], heap[p])
          BY <2>3, <4>2, <5>1
        <5> QED  BY <3>1, <5>1, <5>2 DEF Shapes, SameContents
      <4> QED  BY <4>1, <4>2
    <3> QED  BY <2>1, <2>5, <3>2 DEF Shapes
  <2>10. IsFiniteSet(images')
    BY <2>1 DEF KeptInv, Marked
  <2>11. KnownKept
    BY <2>3, <2>6, <2>7 DEF KnownKept, SameContents
  <2>12. NewEmpty
    <3>1. \A u \in allthreads' : \A i \in images' : (u \notin allthreads \/ i \notin images) =>
             u = t /\ i \in images /\ Object(u, i) = <<i, t>>
      BY <2>1 DEF Object
    <3> QED  BY <2>3, <3>1 DEF NewEmpty, Blank
  <2>13. StaticKept
    BY <2>3, <2>6, <2>8 DEF StaticKept, SameContents
  <2>14. ASSUME tool = "simulation" PROVE WaitingKept
    <3>1. \A u \in allthreads : \A i \in images : BufferOf(u, i) \in DOMAIN buffers /\ BufferOf(u, i)[2] # t
      <4>1. \A u \in allthreads : \A i \in images : BufferOf(u, i) \in DOMAIN buffers
        BY <2>14 DEF DataInv, BuffersOk
      <4>2. \A u \in allthreads : \A i \in images : BufferOf(u, i)[2] # t
        BY <1>2, <2>6 DEF BufferOf
      <4> QED  BY <4>1, <4>2
    <3>2. \A b \in DOMAIN buffers' : buffers'[b] = <<>> \/ (b \in DOMAIN buffers /\ buffers'[b] = buffers[b])
      BY <2>1
    <3> QED  BY <2>1, <3>1, <3>2 DEF WaitingKept
  <2>15. images \subseteq images' /\ allthreads \subseteq allthreads'
    BY <2>1
  <2> QED  BY <2>1, <2>2, <2>9, <2>10, <2>11, <2>12, <2>13, <2>14, <2>15, GrowKeeps
<1> QED  BY <1>1, <1>2

-----------------------------------------------------------------------------
\* A log with one event more.
Longer(l, l2, e) ==
    /\ Len(l) \in Nat /\ DOMAIN l = 1 .. Len(l) /\ Len(l2) = Len(l) + 1 /\ DOMAIN l2 = 1 .. Len(l) + 1
    /\ l2[Len(l) + 1] = e /\ \A j \in 1 .. Len(l) : l2[j] = l[j]
Of(e, t, i, x) == e.thread = t /\ e.image = i /\ e.index = x

LEMMA AppendedLonger ==
    ASSUME NEW S, NEW l \in Seq(S), NEW e \in S, NEW l2, l2 = Append(l, e)
    PROVE  Longer(l, l2, e)
<1>1. /\ Len(l) \in Nat /\ DOMAIN l = 1 .. Len(l) /\ l2 \in Seq(S) /\ Len(l2) = Len(l) + 1
      /\ DOMAIN l2 = 1 .. Len(l2)
  OBVIOUS
<1>2. l2[Len(l) + 1] = e /\ \A j \in 1 .. Len(l) : l2[j] = l[j]
  OBVIOUS
<1> QED  BY <1>1, <1>2 DEF Longer

\* What is counted in it.
LEMMA LongerExecutions ==
    ASSUME NEW l, NEW l2, NEW e, Longer(l, l2, e), NEW t, NEW i, NEW x
    PROVE  /\ Of(e, t, i, x) => Executions(l2, t, i, x) = Executions(l, t, i, x) \cup {Len(l) + 1}
           /\ ~ Of(e, t, i, x) => Executions(l2, t, i, x) = Executions(l, t, i, x)
           /\ Len(l) + 1 \notin Executions(l, t, i, x) /\ IsFiniteSet(Executions(l, t, i, x))
<1>1. /\ 1 .. Len(l) + 1 = (1 .. Len(l)) \cup {Len(l) + 1} /\ Len(l) + 1 \notin 1 .. Len(l)
      /\ Executions(l, t, i, x) \subseteq 1 .. Len(l)
  BY DEF Longer, Executions
<1>2. Of(e, t, i, x) => Executions(l2, t, i, x) = Executions(l, t, i, x) \cup {Len(l) + 1}
  BY <1>1 DEF Longer, Executions, Of
<1>3. ~ Of(e, t, i, x) => Executions(l2, t, i, x) = Executions(l, t, i, x)
  BY <1>1 DEF Longer, Executions, Of
<1>4. IsFiniteSet(1 .. Len(l))
  BY FS_Interval DEF Longer
<1>5. IsFiniteSet(Executions(l, t, i, x))
  BY <1>1, <1>4, FS_Subset
<1> QED  BY <1>1, <1>2, <1>3, <1>5

LEMMA LongerDepth ==
    ASSUME NEW l, NEW l2, NEW e, Longer(l, l2, e), NEW t, NEW i, NEW x
    PROVE  /\ \A k \in 0 .. Len(l) : DepthIn(l2, k, t, i, x) = DepthIn(l, k, t, i, x) /\ DepthIn(l, k, t, i, x) \in Int
           /\ DepthIn(l2, Len(l) + 1, t, i, x) =
                  DepthIn(l, Len(l), t, i, x) + (IF ~ Of(e, t, i, x) THEN 0
                                                 ELSE IF e.kind = "enter" THEN 1 ELSE IF e.kind = "exit" THEN -1 ELSE 0)
<1> DEFINE C(m, k, kind) == {j \in 1 .. k : m[j].thread = t /\ m[j].image = i /\ m[j].kind = kind /\ m[j].index = x}
           n == Len(l)
<1>1. n \in Nat /\ 1 .. n + 1 = (1 .. n) \cup {n + 1} /\ n + 1 \notin 1 .. n
      /\ l2[n + 1] = e /\ \A j \in 1 .. n : l2[j] = l[j]
  BY DEF Longer
<1> HIDE DEF n
<1>2. \A k \in 0 .. n : \A kind : C(l2, k, kind) = C(l, k, kind)
  BY <1>1
<1>3. \A kind : /\ Of(e, t, i, x) /\ e.kind = kind => C(l2, n + 1, kind) = C(l, n, kind) \cup {n + 1}
                /\ ~ (Of(e, t, i, x) /\ e.kind = kind) => C(l2, n + 1, kind) = C(l, n, kind)
                /\ n + 1 \notin C(l, n, kind)
  BY <1>1 DEF Of
<1>4. \A k \in 0 .. n : \A kind : IsFiniteSet(C(l, k, kind)) /\ Cardinality(C(l, k, kind)) \in Nat
  <2> SUFFICES ASSUME NEW k \in 0 .. n, NEW kind PROVE IsFiniteSet(C(l, k, kind)) /\ Cardinality(C(l, k, kind)) \in Nat
    OBVIOUS
  <2>1. IsFiniteSet(1 .. k) /\ C(l, k, kind) \subseteq 1 .. k
    BY <1>1, FS_Interval
  <2> HIDE DEF C
  <2>2. IsFiniteSet(C(l, k, kind))
    BY <2>1, FS_Subset
  <2> QED  BY <2>2, FS_CardinalityType
<1>5. \A m, k, kind : CountIn(m, k, t, i, kind, x) = Cardinality(C(m, k, kind))
  BY DEF CountIn
<1> HIDE DEF C
<1>6. \A kind : CountIn(l2, n + 1, t, i, kind, x) =
                   CountIn(l, n, t, i, kind, x) + (IF Of(e, t, i, x) /\ e.kind = kind THEN 1 ELSE 0)
  <2> SUFFICES ASSUME NEW kind
               PROVE  Cardinality(C(l2, n + 1, kind)) =
                         Cardinality(C(l, n, kind)) + (IF Of(e, t, i, x) /\ e.kind = kind THEN 1 ELSE 0)
    BY <1>5
  <2>1. IsFiniteSet(C(l, n, kind)) /\ Cardinality(C(l, n, kind)) \in Nat
    BY <1>1, <1>4
  <2> QED  BY <1>3, <2>1, FS_AddElement
<1>7. \A k \in 0 .. n : \A kind : CountIn(l2, k, t, i, kind, x) = CountIn(l, k, t, i, kind, x)
                                  /\ CountIn(l, k, t, i, kind, x) \in Nat
  BY <1>2, <1>4, <1>5
<1>8. \A k \in 0 .. n : DepthIn(l2, k, t, i, x) = DepthIn(l, k, t, i, x) /\ DepthIn(l, k, t, i, x) \in Int
  BY <1>7 DEF DepthIn
<1>9. DepthIn(l2, n + 1, t, i, x) =
          DepthIn(l, n, t, i, x) + (IF ~ Of(e, t, i, x) THEN 0
                                    ELSE IF e.kind = "enter" THEN 1 ELSE IF e.kind = "exit" THEN -1 ELSE 0)
  <2>1. CountIn(l, n, t, i, "enter", x) \in Nat /\ CountIn(l, n, t, i, "exit", x) \in Nat
    BY <1>1, <1>7
  <2> QED  BY <1>6, <2>1 DEF DepthIn
<1> QED  BY <1>8, <1>9 DEF n

\* The depths of one timer, as a function of the number of events.
Deep(l, t, i, x) == [k \in 0 .. Len(l) |-> DepthIn(l, k, t, i, x)]
ExitsOf(d, n) == {k \in 1 .. n : d[k] = 0 /\ d[k - 1] = 1}
OverOf(d, n) == {k \in 1 .. n : d[k] > 0 /\ \E e \in ExitsOf(d, n) : k < e}
TimerOf(d, n, r) ==
    /\ r.accum = Cardinality(OverOf(d, n))
    /\ r.depth = IF tool = "function" THEN d[n] ELSE 0
    /\ d[n] \in Nat /\ (tool = "loop" => d[n] \in {0, 1})
    /\ IF d[n] = 0
       THEN \A k \in 1 .. n : d[k] > 0 => k \in OverOf(d, n)
       ELSE /\ r.last \in 1 .. n /\ \A k \in r.last .. n : d[k] > 0
            /\ \A k \in 1 .. r.last - 1 : d[k] > 0 => k \in OverOf(d, n)

LEMMA DeepIs ==
    ASSUME NEW l, Len(l) \in Nat, DOMAIN l = 1 .. Len(l), NEW t, NEW i, NEW x, NEW d, d = Deep(l, t, i, x)
    PROVE  /\ Exits(l, t, i, x) = ExitsOf(d, Len(l)) /\ Over(l, t, i, x) = OverOf(d, Len(l))
           /\ \A r : TimerRight(l, r, t, i, x) <=> TimerOf(d, Len(l), r)
<1>1. \A k \in 0 .. Len(l) : d[k] = DepthIn(l, k, t, i, x)
  BY DEF Deep
<1>2. \A k \in 1 .. Len(l) : k \in 0 .. Len(l) /\ k - 1 \in 0 .. Len(l)
  OBVIOUS
<1>3. Exits(l, t, i, x) = ExitsOf(d, Len(l))
  BY <1>1, <1>2 DEF Exits, ExitsOf
<1>4. Over(l, t, i, x) = OverOf(d, Len(l))
  BY <1>1, <1>2, <1>3 DEF Over, OverOf
<1>5. \A r : TimerRight(l, r, t, i, x) <=> TimerOf(d, Len(l), r)
  <2> DEFINE n == Len(l)
  <2>1. n \in Nat /\ n \in 0 .. n /\ d[n] = DepthIn(l, n, t, i, x)
        /\ \A k \in 1 .. n : d[k] = DepthIn(l, k, t, i, x)
    BY <1>1, <1>2
  <2> HIDE DEF n
  <2> TAKE r
  <2>2. r.last \in 1 .. n => \A k \in r.last .. n : d[k] = DepthIn(l, k, t, i, x)
    BY <2>1
  <2>3. r.last \in 1 .. n => \A k \in 1 .. r.last - 1 : d[k] = DepthIn(l, k, t, i, x)
    BY <2>1
  <2>4. Over(l, t, i, x) = OverOf(d, n)
    BY <1>4 DEF n
  <2>5. TimerRight(l, r, t, i, x) <=>
            /\ r.accum = Cardinality(OverOf(d, n))
            /\ r.depth = IF tool = "function" THEN DepthIn(l, n, t, i, x) ELSE 0
            /\ DepthIn(l, n, t, i, x) \in Nat /\ (tool = "loop" => DepthIn(l, n, t, i, x) \in {0, 1})
            /\ IF DepthIn(l, n, t, i, x) = 0
               THEN \A k \in 1 .. n : DepthIn(l, k, t, i, x) > 0 => k \in OverOf(d, n)
               ELSE /\ r.last \in 1 .. n /\ \A k \in r.last .. n : DepthIn(l, k, t, i, x) > 0
                    /\ \A k \in 1 .. r.last - 1 : DepthIn(l, k, t, i, x) > 0 => k \in OverOf(d, n)
    BY <2>4 DEF TimerRight, n
  <2>6. TimerRight(l, r, t, i, x) <=> TimerOf(d, n, r)
    BY <2>1, <2>2, <2>3, <2>5 DEF TimerOf
  <2> QED  BY <2>6 DEF n
<1> QED  BY <1>3, <1>4, <1>5

\* One event more: the activations that are over.
LEMMA OverGrows ==
    ASSUME NEW n \in Nat, NEW d, NEW f, \A k \in 0 .. n : f[k] = d[k] /\ d[k] \in Int, f[n + 1] \in Int
    PROVE  /\ OverOf(d, n) \subseteq 1 .. n /\ IsFiniteSet(OverOf(d, n))
           /\ ~ (f[n + 1] = 0 /\ d[n] = 1) => OverOf(f, n + 1) = OverOf(d, n)
           /\ f[n + 1] = 0 /\ d[n] = 1 => OverOf(f, n + 1) = {k \in 1 .. n : d[k] > 0}
<1>1. 1 .. n + 1 = (1 .. n) \cup {n + 1} /\ n + 1 \notin 1 .. n /\ (n + 1) - 1 = n
  OBVIOUS
<1>2. \A k \in 1 .. n : k \in 0 .. n /\ k - 1 \in 0 .. n /\ n \in 0 .. n /\ k < n + 1
  OBVIOUS
<1>3. OverOf(d, n) \subseteq 1 .. n /\ IsFiniteSet(OverOf(d, n))
  <2>1. OverOf(d, n) \subseteq 1 .. n /\ IsFiniteSet(1 .. n)
    BY FS_Interval DEF OverOf
  <2> QED  BY <2>1, FS_Subset
<1>4. ASSUME ~ (f[n + 1] = 0 /\ d[n] = 1) PROVE OverOf(f, n + 1) = OverOf(d, n)
  <2>1. f[(n + 1) - 1] = d[n]
    BY <1>1
  <2>2. ExitsOf(f, n + 1) = ExitsOf(d, n)
    BY <1>1, <1>2, <1>4, <2>1 DEF ExitsOf
  <2>3. \A e \in ExitsOf(d, n) : e \in 1 .. n /\ ~ (n + 1 < e)
    BY DEF ExitsOf
  <2> QED  BY <1>1, <1>2, <2>2, <2>3 DEF OverOf
<1>5. ASSUME f[n + 1] = 0, d[n] = 1 PROVE OverOf(f, n + 1) = {k \in 1 .. n : d[k] > 0}
  <2>1. n + 1 \in ExitsOf(f, n + 1)
    <3>1. f[(n + 1) - 1] = d[n] /\ n + 1 \in 1 .. n + 1
      BY <1>1
    <3> QED  BY <1>5, <3>1 DEF ExitsOf
  <2>2. ~ (f[n + 1] > 0)
    BY <1>5
  <2>3. \A k \in 1 .. n : f[k] > 0 <=> d[k] > 0
    BY <1>2
  <2>4. \A k \in 1 .. n : \E e \in ExitsOf(f, n + 1) : k < e
    BY <1>2, <2>1
  <2> QED  BY <1>1, <2>2, <2>3, <2>4 DEF OverOf
<1> QED  BY <1>3, <1>4, <1>5

\* Nothing that concerns the timer.
LEMMA TimerStays ==
    ASSUME NEW n \in Nat, NEW d, NEW f, \A k \in 0 .. n : f[k] = d[k] /\ d[k] \in Int, f[n + 1] = d[n],
           NEW r, TimerOf(d, n, r)
    PROVE  TimerOf(f, n + 1, r)
<1>1. d[n] \in Int /\ f[n + 1] \in Int /\ d[n] \in Nat
  BY DEF TimerOf
<1>2. OverOf(f, n + 1) = OverOf(d, n)
  BY <1>1, OverGrows
<1>3. \A k \in 1 .. n + 1 : (k \in 1 .. n /\ f[k] = d[k]) \/ (k = n + 1 /\ f[k] = d[n])
  OBVIOUS
<1>4. CASE d[n] = 0
  <2>1. \A k \in 1 .. n + 1 : f[k] > 0 => k \in OverOf(d, n)
    BY <1>3, <1>4 DEF TimerOf
  <2> QED  BY <1>2, <1>4, <2>1 DEF TimerOf
<1>5. CASE d[n] # 0
  <2>1. r.last \in 1 .. n /\ \A k \in r.last .. n : d[k] > 0
    BY <1>5 DEF TimerOf
  <2>2. r.last \in 1 .. n + 1 /\ \A k \in r.last .. n + 1 : f[k] > 0
    <3>1. \A k \in r.last .. n + 1 : k \in 1 .. n + 1 /\ (k \in r.last .. n \/ k = n + 1)
      BY <2>1
    <3> QED  BY <1>1, <1>3, <1>5, <2>1, <3>1
  <2>3. \A k \in 1 .. r.last - 1 : k \in 1 .. n + 1 /\ k # n + 1 /\ f[k] = d[k]
    BY <2>1
  <2>4. \A k \in 1 .. r.last - 1 : f[k] > 0 => k \in OverOf(d, n)
    BY <1>5, <2>3 DEF TimerOf
  <2> QED  BY <1>1, <1>2, <1>5, <2>2, <2>4 DEF TimerOf
<1> QED  BY <1>4, <1>5

\* function_entry, loop_entry.
LEMMA TimerEnters ==
    ASSUME tool \in {"function", "loop"},
           NEW n \in Nat, NEW d, NEW f, \A k \in 0 .. n : f[k] = d[k] /\ d[k] \in Int, f[n + 1] = d[n] + 1,
           NEW r, TimerOf(d, n, r), tool = "loop" => d[n] = 0,
           NEW q, q.accum = r.accum,
           q.last = (IF tool = "function" /\ r.depth # 0 THEN r.last ELSE n + 1),
           q.depth = (IF tool = "function" THEN r.depth + 1 ELSE r.depth)
    PROVE  TimerOf(f, n + 1, q)
<1>1. d[n] \in Nat /\ f[n + 1] \in Int /\ f[n + 1] # 0 /\ f[n + 1] > 0
  BY DEF TimerOf
<1>2. OverOf(f, n + 1) = OverOf(d, n)
  BY <1>1, OverGrows
<1>3. q.accum = Cardinality(OverOf(f, n + 1)) /\ q.depth = (IF tool = "function" THEN f[n + 1] ELSE 0)
      /\ (tool = "loop" => f[n + 1] = 1)
  BY <1>2 DEF TimerOf
<1>4. CASE d[n] = 0
  <2>1. q.last = n + 1
    BY <1>4 DEF TimerOf
  <2>2. \A k \in 1 .. (n + 1) - 1 : k \in 1 .. n /\ f[k] = d[k]
    OBVIOUS
  <2>3. \A k \in 1 .. (n + 1) - 1 : f[k] > 0 => k \in OverOf(d, n)
    BY <1>4, <2>2 DEF TimerOf
  <2>4. \A k \in n + 1 .. n + 1 : f[k] > 0
    <3>1. \A k \in n + 1 .. n + 1 : k = n + 1
      OBVIOUS
    <3> QED  BY <1>1, <3>1
  <2> QED  BY <1>1, <1>2, <1>3, <2>1, <2>3, <2>4 DEF TimerOf
<1>5. CASE d[n] # 0
  <2>1. r.last \in 1 .. n /\ (\A k \in r.last .. n : d[k] > 0) /\ q.last = r.last
    BY <1>5 DEF TimerOf
  <2>2. q.last \in 1 .. n + 1 /\ \A k \in q.last .. n + 1 : f[k] > 0
    <3>1. \A k \in r.last .. n + 1 : (k \in r.last .. n /\ f[k] = d[k]) \/ k = n + 1
      BY <2>1
    <3> QED  BY <1>1, <2>1, <3>1
  <2>3. \A k \in 1 .. r.last - 1 : f[k] = d[k]
    BY <2>1
  <2>4. \A k \in 1 .. q.last - 1 : f[k] > 0 => k \in OverOf(d, n)
    BY <1>5, <2>1, <2>3 DEF TimerOf
  <2> QED  BY <1>1, <1>2, <1>3, <2>2, <2>4 DEF TimerOf
<1> QED  BY <1>4, <1>5

\* function_exit, loop_exit.
LEMMA TimerLeaves ==
    ASSUME tool \in {"function", "loop"},
           NEW n \in Nat, NEW d, NEW f, \A k \in 0 .. n : f[k] = d[k] /\ d[k] \in Int, f[n + 1] = d[n] - 1,
           d[n] > 0, NEW r, TimerOf(d, n, r),
           NEW q, IF tool = "function" /\ r.depth # 1
                  THEN q.accum = r.accum /\ q.last = r.last /\ q.depth = r.depth - 1
                  ELSE q.accum = r.accum + (n + 1) - r.last /\ q.depth = 0
    PROVE  TimerOf(f, n + 1, q)
<1>1. d[n] \in Nat /\ f[n + 1] \in Nat /\ d[n] # 0 /\ (f[n + 1] = 0 <=> d[n] = 1)
  BY DEF TimerOf
<1>2. r.last \in 1 .. n /\ (\A k \in r.last .. n : d[k] > 0)
      /\ (\A k \in 1 .. r.last - 1 : d[k] > 0 => k \in OverOf(d, n))
      /\ r.accum = Cardinality(OverOf(d, n))
  BY <1>1 DEF TimerOf
<1>3. IsFiniteSet(OverOf(d, n)) /\ OverOf(d, n) \subseteq 1 .. n
  BY <1>1, OverGrows
<1>4. CASE d[n] = 1
  <2>1. OverOf(f, n + 1) = {k \in 1 .. n : d[k] > 0}
    BY <1>1, <1>4, OverGrows
  <2>2. \A k \in OverOf(d, n) : d[k] > 0
    BY DEF OverOf
  <2>3. OverOf(f, n + 1) = OverOf(d, n) \cup (r.last .. n)
    <3>1. \A k \in 1 .. n : k \in r.last .. n \/ k \in 1 .. r.last - 1
      BY <1>2
    <3>2. r.last .. n \subseteq 1 .. n
      BY <1>2
    <3> QED  BY <1>2, <1>3, <2>1, <2>2, <3>1, <3>2
  <2>4. OverOf(d, n) \cap (r.last .. n) = {}
    <3> SUFFICES ASSUME NEW k \in r.last .. n, k \in OverOf(d, n) PROVE FALSE
      OBVIOUS
    <3>1. PICK e \in 1 .. n : k < e /\ d[e] = 0
      BY DEF OverOf, ExitsOf
    <3>2. e \in r.last .. n
      BY <1>2, <3>1
    <3>3. d[e] > 0
      BY <1>2, <3>2
    <3> QED  BY <3>1, <3>3
  <2>5. IsFiniteSet(r.last .. n) /\ Cardinality(r.last .. n) = n - r.last + 1
    <3>1. PICK b : b = r.last
      OBVIOUS
    <3>2. b \in Int /\ ~ (b > n) /\ n \in Int
      BY <1>2, <3>1
    <3>3. IsFiniteSet(b .. n) /\ Cardinality(b .. n) = n - b + 1
      BY <3>2, FS_Interval
    <3> QED  BY <3>1, <3>3
  <2>6. Cardinality(OverOf(f, n + 1)) = Cardinality(OverOf(d, n)) + (n - r.last + 1)
    <3>1. PICK a : a = Cardinality(OverOf(d, n))
      OBVIOUS
    <3>2. a \in Nat
      BY <1>3, <3>1, FS_CardinalityType
    <3>3. Cardinality(OverOf(f, n + 1)) = a + Cardinality(r.last .. n) - Cardinality({})
      <4>1. PICK A, B : A = OverOf(d, n) /\ B = r.last .. n
        OBVIOUS
      <4>2. Cardinality(A \cup B) = Cardinality(A) + Cardinality(B) - Cardinality(A \cap B)
        BY <1>3, <2>5, <4>1, FS_Union
      <4> QED  BY <2>3, <2>4, <3>1, <4>1, <4>2
    <3>4. Cardinality({}) = 0
      BY FS_EmptySet
    <3> QED  BY <1>2, <2>5, <3>1, <3>2, <3>3, <3>4
  <2>7. q.accum = r.accum + (n + 1) - r.last /\ q.depth = 0
    BY <1>4 DEF TimerOf
  <2>8. q.accum = Cardinality(OverOf(f, n + 1))
    <3>1. PICK a : a = Cardinality(OverOf(d, n))
      OBVIOUS
    <3>2. a \in Nat
      BY <1>3, <3>1, FS_CardinalityType
    <3> QED  BY <1>2, <2>6, <2>7, <3>1, <3>2
  <2>9. \A k \in 1 .. n + 1 : f[k] > 0 => k \in OverOf(f, n + 1)
    <3>1. \A k \in 1 .. n + 1 : (k \in 1 .. n /\ f[k] = d[k]) \/ (k = n + 1 /\ f[k] = 0)
      BY <1>1, <1>4
    <3> QED  BY <2>1, <3>1
  <2> QED  BY <1>1, <1>4, <2>7, <2>8, <2>9 DEF TimerOf
<1>5. CASE d[n] # 1
  <2>1. tool = "function" /\ r.depth = d[n] /\ f[n + 1] # 0 /\ f[n + 1] > 0
    BY <1>1, <1>5 DEF TimerOf
  <2>2. q.accum = r.accum /\ q.last = r.last /\ q.depth = f[n + 1]
    BY <1>5, <2>1
  <2>3. OverOf(f, n + 1) = OverOf(d, n)
    BY <1>1, <1>5, OverGrows
  <2>4. q.last \in 1 .. n + 1 /\ \A k \in q.last .. n + 1 : f[k] > 0
    <3>1. \A k \in r.last .. n + 1 : (k \in r.last .. n /\ f[k] = d[k]) \/ k = n + 1
      BY <1>2
    <3> QED  BY <1>2, <2>1, <2>2, <3>1
  <2>5. \A k \in 1 .. q.last - 1 : f[k] > 0 => k \in OverOf(d, n)
    <3>1. \A k \in 1 .. r.last - 1 : f[k] = d[k]
      BY <1>2
    <3> QED  BY <1>2, <2>2, <3>1
  <2> QED  BY <1>1, <1>2, <2>1, <2>2, <2>3, <2>4, <2>5 DEF TimerOf
<1> QED  BY <1>4, <1>5

\* A step that adds no image and no thread.
LEMMA KeptAfter ==
    ASSUME UNCHANGED <<tool, images, allthreads, firstimage>>, NEW l, NEW h, NEW bf, l = log', h = heap', bf = buffers',
           Shapes(h), LogKnown(l), CountersRight(l, h), Marked(h), TimersRight(l, h),
           tool = "simulation" => EntriesRight(l, bf) /\ Accounted(l, h, bf)
    PROVE  KeptInv'
<1>1. /\ \A t, i : Object(t, i)' = Object(t, i) /\ BufferOf(t, i)' = BufferOf(t, i)
      /\ Indices' = Indices /\ \A x : Counting(x)' = Counting(x)
      /\ \A c : Led(c)' = Led(c)
  BY DEF Object, BufferOf, Indices, Counting, Led
<1>2. Shapes(h)' /\ LogKnown(l)'
  BY <1>1 DEF Shapes, LogKnown
<1>3. CountersRight(l, h)' /\ Marked(h)'
  BY <1>1 DEF CountersRight, Marked
<1>4. TimersRight(l, h)'
  BY <1>1 DEF TimersRight, TimerRight
<1>5. tool = "simulation" => EntriesRight(l, bf)' /\ Accounted(l, h, bf)'
  <2>1. \A q, b, j : EntryRight(l, q, b, j)' = EntryRight(l, q, b, j)
    BY <1>1 DEF EntryRight
  <2>2. EntriesRight(l, bf)' = EntriesRight(l, bf)
    BY <2>1 DEF EntriesRight
  <2>3. Accounted(l, h, bf)' = Accounted(l, h, bf)
    BY <1>1 DEF Accounted
  <2> QED  BY <2>2, <2>3
<1> QED  BY <1>2, <1>3, <1>4, <1>5 DEF KeptInv

\* Functions and loops are entered and left.
LEMMA TimerKept ==
    ASSUME DataInv, KeptInv, NEW t \in Threads, NEW i \in images, NEW x \in Indices, tool \in {"function", "loop"},
           NEW kind, NEW r,
           \/ Enter(t, i, x) /\ kind = "enter" /\ r = IF tool = "function" THEN function_entry(Timer(t, i, x))
                                                      ELSE loop_entry(Timer(t, i, x))
           \/ Leave(t, i, x) /\ kind = "exit" /\ r = IF tool = "function" THEN function_exit(Timer(t, i, x))
                                                     ELSE loop_exit(Timer(t, i, x)),
           NEW l2, l2 = Append(log, Event(t, i, kind, x, 0))
    PROVE  /\ DOMAIN r = {"accum", "last", "depth"} /\ TimerRight(l2, r, t, i, x)
           /\ \A u \in allthreads : \A j \in images : \A y \in Indices : (u # t \/ j # i \/ y # x) =>
                 \A q : TimerRight(log, q, u, j, y) => TimerRight(l2, q, u, j, y)
           /\ Found(t, i) = Object(t, i) /\ t \in allthreads
<1> DEFINE n == Len(log)
           e == Event(t, i, kind, x, 0)
           q == Timer(t, i, x)
<1>1. pc[t] = "run" /\ kind \in {"enter", "exit"}
  BY DEF Enter, Leave, Timed
<1>2. t \in allthreads /\ Found(t, i) = Object(t, i)
  BY <1>1, FoundIs
<1>3. e \in Happening /\ log \in Seq(Happening)
  BY <1>1 DEF Event, Happening, DataInv, Registration
<1>4. Longer(log, l2, e)
  <2> HIDE DEF e
  <2>1. PICK l : l = log
    OBVIOUS
  <2>2. Longer(l, l2, e)
    BY <1>3, <2>1, AppendedLonger DEF e
  <2> QED  BY <2>1, <2>2
<1>5. n \in Nat /\ DOMAIN log = 1 .. n /\ Len(l2) = n + 1 /\ DOMAIN l2 = 1 .. n + 1
  BY <1>4 DEF Longer
<1>6. ASSUME NEW u, NEW j, NEW y, NEW d, NEW f, d = Deep(log, u, j, y), f = Deep(l2, u, j, y)
      PROVE  /\ \A k \in 0 .. n : f[k] = d[k] /\ d[k] \in Int
             /\ d[n] = DepthIn(log, n, u, j, y)
             /\ f[n + 1] = d[n] + (IF ~ Of(e, u, j, y) THEN 0 ELSE IF kind = "enter" THEN 1 ELSE -1)
             /\ \A p : TimerRight(log, p, u, j, y) <=> TimerOf(d, n, p)
             /\ \A p : TimerRight(l2, p, u, j, y) <=> TimerOf(f, n + 1, p)
  <2> HIDE DEF e
  <2>1. PICK l : l = log
    OBVIOUS
  <2>2. /\ \A k \in 0 .. n : DepthIn(l2, k, u, j, y) = DepthIn(l, k, u, j, y) /\ DepthIn(l, k, u, j, y) \in Int
        /\ DepthIn(l2, n + 1, u, j, y) =
               DepthIn(l, n, u, j, y) + (IF ~ Of(e, u, j, y) THEN 0
                                         ELSE IF e.kind = "enter" THEN 1 ELSE IF e.kind = "exit" THEN -1 ELSE 0)
    BY <1>4, <2>1, LongerDepth
  <2>3. e.kind = kind
    BY DEF e, Event
  <2>4. /\ \A k \in 0 .. n : d[k] = DepthIn(l, k, u, j, y)
        /\ \A k \in 0 .. n + 1 : f[k] = DepthIn(l2, k, u, j, y)
    BY <1>5, <1>6, <2>1 DEF Deep
  <2>5. n \in 0 .. n /\ n + 1 \in 0 .. n + 1 /\ 0 .. n \subseteq 0 .. n + 1
    BY <1>5
  <2>6. /\ \A p : TimerRight(log, p, u, j, y) <=> TimerOf(d, n, p)
        /\ \A p : TimerRight(l2, p, u, j, y) <=> TimerOf(f, n + 1, p)
    <3>1. \A p : TimerRight(l, p, u, j, y) <=> TimerOf(d, Len(l), p)
      BY <1>5, <1>6, <2>1, DeepIs
    <3>2. \A p : TimerRight(l2, p, u, j, y) <=> TimerOf(f, Len(l2), p)
      <4>1. Len(l2) \in Nat /\ DOMAIN l2 = 1 .. Len(l2)
        BY <1>5
      <4> QED  BY <1>6, <4>1, DeepIs
    <3> QED  BY <1>5, <2>1, <3>1, <3>2
  <2>7. \A k \in 0 .. n : f[k] = d[k] /\ d[k] \in Int
    BY <2>2, <2>4, <2>5
  <2>8. d[n] = DepthIn(log, n, u, j, y)
    BY <2>1, <2>4, <2>5
  <2>9. f[n + 1] = d[n] + (IF ~ Of(e, u, j, y) THEN 0 ELSE IF kind = "enter" THEN 1 ELSE -1)
    BY <1>1, <2>2, <2>3, <2>4, <2>5
  <2> QED  BY <2>6, <2>7, <2>8, <2>9
<1>7. ASSUME NEW u, NEW j, NEW y, u # t \/ j # i \/ y # x, NEW p, TimerRight(log, p, u, j, y)
      PROVE  TimerRight(l2, p, u, j, y)
  <2>1. ~ Of(e, u, j, y)
    BY <1>7 DEF Event, Of
  <2> HIDE DEF e, n
  <2>2. PICK d, f : d = Deep(log, u, j, y) /\ f = Deep(l2, u, j, y)
    OBVIOUS
  <2>3. /\ \A k \in 0 .. n : f[k] = d[k] /\ d[k] \in Int
        /\ f[n + 1] = d[n] + 0 /\ TimerOf(d, n, p) /\ (TimerOf(f, n + 1, p) => TimerRight(l2, p, u, j, y))
    BY <1>6, <1>7, <2>1, <2>2
  <2>4. f[n + 1] = d[n]
    BY <1>5, <2>3
  <2> QED  BY <1>5, <2>3, <2>4, TimerStays
<1>8. DOMAIN q = {"accum", "last", "depth"} /\ TimerRight(log, q, t, i, x)
  BY <1>2 DEF KeptInv, TimersRight, OneObject, Timer
<1> HIDE DEF q
<1>9. DOMAIN r = {"accum", "last", "depth"}
  BY <1>8 DEF function_entry, loop_entry, function_exit, loop_exit, q
<1>10. TimerRight(l2, r, t, i, x)
  <2>1. PICK d, f : d = Deep(log, t, i, x) /\ f = Deep(l2, t, i, x)
    OBVIOUS
  <2>2. Of(e, t, i, x)
    BY DEF Event, Of
  <2> HIDE DEF e
  <2>3. /\ \A k \in 0 .. n : f[k] = d[k] /\ d[k] \in Int
        /\ d[n] = DepthIn(log, n, t, i, x)
        /\ f[n + 1] = d[n] + (IF kind = "enter" THEN 1 ELSE -1) /\ TimerOf(d, n, q)
        /\ (TimerOf(f, n + 1, r) => TimerRight(l2, r, t, i, x))
    BY <1>6, <1>8, <2>1, <2>2
  <2>4. Depth(n, t, i, x) = DepthIn(log, n, t, i, x)
    BY DEF Depth, DepthIn, Count, CountIn
  <2>5. Now = n + 1 /\ d[n] \in Int
    BY <1>5, <2>3 DEF Now
  <2> HIDE DEF n
  <2>6. CASE kind = "enter"
    <3>1. tool = "loop" => d[n] = 0
      BY <2>3, <2>4, <2>6 DEF Enter, Leave, n
    <3>2. r = IF tool = "function" THEN function_entry(q) ELSE loop_entry(q)
      BY <2>6 DEF q
    <3>3. /\ r.accum = q.accum
          /\ r.last = IF tool = "function" /\ q.depth # 0 THEN q.last ELSE n + 1
          /\ r.depth = IF tool = "function" THEN q.depth + 1 ELSE q.depth
      BY <1>8, <2>5, <3>2 DEF function_entry, loop_entry
    <3>4. f[n + 1] = d[n] + 1
      BY <2>3, <2>6
    <3>5. TimerOf(f, n + 1, r)
      BY <1>5, <2>3, <3>1, <3>3, <3>4, TimerEnters
    <3> QED  BY <2>3, <3>5
  <2>7. CASE kind = "exit"
    <3>1. d[n] > 0
      BY <2>3, <2>4, <2>7 DEF Enter, Leave, n
    <3>2. r = IF tool = "function" THEN function_exit(q) ELSE loop_exit(q)
      BY <2>7 DEF q
    <3>3. tool = "loop" => q.depth = 0
      BY <2>3 DEF TimerOf
    <3>4. IF tool = "function" /\ q.depth # 1
          THEN r.accum = q.accum /\ r.last = q.last /\ r.depth = q.depth - 1
          ELSE r.accum = q.accum + (n + 1) - q.last /\ r.depth = 0
      BY <1>8, <2>5, <3>2, <3>3 DEF function_exit, loop_exit
    <3>5. f[n + 1] = d[n] - 1
      BY <2>3, <2>5, <2>7
    <3>6. TimerOf(f, n + 1, r)
      BY <1>5, <2>3, <3>1, <3>4, <3>5, TimerLeaves
    <3> QED  BY <2>3, <3>6
  <2> QED  BY <1>1, <2>6, <2>7
<1> QED  BY <1>2, <1>7, <1>9, <1>10

LEMMA TimedKept ==
    ASSUME DataInv, KeptInv, NEW t \in Threads, NEW i \in images, NEW x \in Indices, Enter(t, i, x) \/ Leave(t, i, x)
    PROVE  KeptInv'
<1>1. PICK kind, r :
         /\ Timed(t, i, x, kind, r) /\ kind \in {"enter", "exit"}
         /\ \/ Enter(t, i, x) /\ kind = "enter" /\ r = IF tool = "function" THEN function_entry(Timer(t, i, x))
                                                       ELSE loop_entry(Timer(t, i, x))
            \/ Leave(t, i, x) /\ kind = "exit" /\ r = IF tool = "function" THEN function_exit(Timer(t, i, x))
                                                      ELSE loop_exit(Timer(t, i, x))
  <2>1. CASE Enter(t, i, x)
    BY <2>1 DEF Enter
  <2>2. CASE Leave(t, i, x)
    BY <2>2 DEF Leave
  <2> QED  BY <2>1, <2>2
<1>2. tool \in {"function", "loop"} /\ tool \notin OneObject /\ tool # "simulation"
  BY DEF Enter, Leave, OneObject
<1> DEFINE o == Object(t, i)
           e == Event(t, i, kind, x, 0)
<1>3. PICK l2 : l2 = Append(log, e)
  OBVIOUS
<1>4. /\ DOMAIN r = {"accum", "last", "depth"} /\ TimerRight(l2, r, t, i, x)
      /\ \A u \in allthreads : \A j \in images : \A y \in Indices : (u # t \/ j # i \/ y # x) =>
            \A q : TimerRight(log, q, u, j, y) => TimerRight(l2, q, u, j, y)
      /\ Found(t, i) = o /\ t \in allthreads
  BY <1>1, <1>2, <1>3, TimerKept
<1>5. /\ heap' = [heap EXCEPT ![o].timers[x] = r] /\ l2 = log'
      /\ UNCHANGED <<tool, images, allthreads, firstimage, buffers>>
  BY <1>1, <1>3, <1>4 DEF Timed, Managed
<1>6. /\ o = <<i, t>> /\ o \in DOMAIN heap /\ \A p \in DOMAIN heap : DOMAIN heap[p] = Fields
      /\ \A u \in allthreads : \A j \in images : Object(u, j) = <<j, u>> /\ Object(u, j) \in DOMAIN heap
  BY <1>2, <1>4 DEF DataInv, HeapOk, Object
<1>7. /\ Shapes(heap) /\ LogKnown(log) /\ Marked(heap) /\ TimersRight(log, heap)
      /\ log \in Seq(Happening)
  BY DEF KeptInv, DataInv
<1> HIDE DEF o
<1>8. PICK h : h = heap'
  OBVIOUS
<1>9. /\ DOMAIN h = DOMAIN heap /\ \A p \in DOMAIN heap : p # o => h[p] = heap[p]
      /\ h[o].counters = heap[o].counters /\ h[o].stats = heap[o].stats
      /\ h[o].timers = [heap[o].timers EXCEPT ![x] = r]
  <2>1. h = [heap EXCEPT ![o] = [heap[o] EXCEPT !.timers = [heap[o].timers EXCEPT ![x] = r]]]
    BY <1>5, <1>8
  <2> DEFINE v == [heap[o].timers EXCEPT ![x] = r]
  <2> HIDE DEF v
  <2>2. h = [heap EXCEPT ![o] = [heap[o] EXCEPT !.timers = v]]
    BY <2>1 DEF v
  <2>3. /\ DOMAIN h = DOMAIN heap /\ \A p \in DOMAIN heap : p # o => h[p] = heap[p]
        /\ h[o].counters = heap[o].counters /\ h[o].stats = heap[o].stats /\ h[o].timers = v
    BY <1>6, <2>2 DEF Fields
  <2> QED  BY <2>3 DEF v
<1>10. Shapes(h)
  <2> SUFFICES ASSUME NEW p \in DOMAIN heap
               PROVE  /\ DOMAIN h[p].counters = Indices /\ DOMAIN h[p].timers = Indices
                      /\ DOMAIN h[p].stats = AllMemops /\ Led(h[p].counters)
    BY <1>9 DEF Shapes
  <2>1. CASE p = o
    BY <1>7, <1>9, <2>1 DEF Shapes
  <2>2. CASE p # o
    BY <1>7, <1>9, <2>2 DEF Shapes
  <2> QED  BY <2>1, <2>2
<1>11. LogKnown(l2)
  <2>1. e \in Happening /\ e.thread = t /\ e.image = i /\ e.kind = kind
    BY <1>1 DEF Event, Happening, DataInv, Registration
  <2> HIDE DEF e
  <2>2. Longer(log, l2, e)
    <3>1. PICK l : l = log
      OBVIOUS
    <3>2. Longer(l, l2, e)
      BY <1>3, <1>7, <2>1, <3>1, AppendedLonger
    <3> QED  BY <3>1, <3>2
  <2>3. \A k \in DOMAIN l2 : (k \in DOMAIN log /\ l2[k] = log[k]) \/ l2[k] = e
    <3>1. \A n \in Nat : \A k \in 1 .. n + 1 : k \in 1 .. n \/ k = n + 1
      OBVIOUS
    <3> QED  BY <2>2, <3>1 DEF Longer
  <2>4. /\ e.thread \in allthreads /\ e.image \in images /\ e.kind # "run"
    BY <1>1, <1>4, <2>1
  <2> QED  BY <1>2, <1>7, <2>3, <2>4 DEF LogKnown
<1>12. CountersRight(l2, h) /\ Marked(h)
  BY <1>2, <1>7 DEF CountersRight, Marked
<1>13. TimersRight(l2, h)
  <2> SUFFICES ASSUME NEW u \in allthreads, NEW j \in images, NEW y \in Indices
               PROVE  /\ DOMAIN h[Object(u, j)].timers[y] = {"accum", "last", "depth"}
                      /\ TimerRight(l2, h[Object(u, j)].timers[y], u, j, y)
    BY DEF TimersRight
  <2>1. /\ DOMAIN heap[Object(u, j)].timers[y] = {"accum", "last", "depth"}
        /\ TimerRight(log, heap[Object(u, j)].timers[y], u, j, y)
    BY <1>2, <1>7 DEF TimersRight
  <2>2. Object(u, j) = <<j, u>> /\ Object(u, j) \in DOMAIN heap
    BY <1>6
  <2>3. CASE u = t /\ j = i /\ y = x
    <3>1. h[Object(u, j)].timers[y] = r
      <4>1. x \in DOMAIN heap[o].timers /\ Object(u, j) = o
        BY <1>6, <1>7, <2>3 DEF Shapes, o
      <4> QED  BY <1>9, <2>3, <4>1
    <3> QED  BY <1>4, <2>3, <3>1
  <2>4. CASE u # t \/ j # i \/ y # x
    <3>1. h[Object(u, j)].timers[y] = heap[Object(u, j)].timers[y]
      <4>1. CASE Object(u, j) # o
        BY <1>9, <2>2, <4>1
      <4>2. CASE Object(u, j) = o
        <5>1. y # x
          BY <1>6, <2>2, <2>4, <4>2
        <5>2. y \in DOMAIN heap[o].timers
          BY <1>6, <1>7 DEF Shapes
        <5> QED  BY <1>9, <4>2, <5>1, <5>2
      <4> QED  BY <4>1, <4>2
    <3> QED  BY <1>4, <2>1, <2>4, <3>1
  <2> QED  BY <2>3, <2>4
<1>14. PICK bf : bf = buffers'
  OBVIOUS
<1> QED  BY <1>2, <1>5, <1>8, <1>10, <1>11, <1>12, <1>13, <1>14, KeptAfter

-----------------------------------------------------------------------------
\* Ranges.
LEMMA MinIs ==
    ASSUME NEW T, T \subseteq Int, NEW x \in T, \A y \in T : x <= y
    PROVE  Min(T) = x
<1>1. \A z \in T : (\A y \in T : z <= y) => z = x
  OBVIOUS
<1> QED  BY <1>1 DEF Min

LEMMA MaxIs ==
    ASSUME NEW T, T \subseteq Int, NEW x \in T, \A y \in T : x >= y
    PROVE  Max(T) = x
<1>1. \A z \in T : (\A y \in T : z >= y) => z = x
  OBVIOUS
<1> QED  BY <1>1 DEF Max

\* A finite set of numbers has a least and a greatest one.
LEMMA Extremes ==
    ASSUME NEW T, T \subseteq Nat, IsFiniteSet(T), T # {}
    PROVE  /\ Min(T) \in T /\ \A y \in T : Min(T) <= y
           /\ Max(T) \in T /\ \A y \in T : Max(T) >= y
<1>1. PICK x \in T : \A y \in T : x <= y
  BY LeastNumber
<1>2. PICK m \in Nat : \A y \in T : y <= m
  BY FiniteBound
<1>3. PICK z \in T : \A y \in T : y <= z
  BY <1>2, GreatestNumber
<1>4. T \subseteq Int /\ \A y \in T : z >= y
  BY <1>3
<1>5. Min(T) = x /\ Max(T) = z
  BY <1>1, <1>4, MinIs, MaxIs
<1> QED  BY <1>1, <1>4, <1>5

\* What the addresses of finitely many executions are.
LEMMA AddressesFinite ==
    ASSUME NEW l, NEW S, IsFiniteSet(S)
    PROVE  IsFiniteSet({l[k].addr : k \in S})
<1> DEFINE T == {l[k].addr : k \in S}
           f == [k \in S |-> l[k].addr]
<1>1. f \in Surjection(S, T)
  BY DEF Surjection
<1> QED  BY <1>1, FS_Surjection

Below(l, S, m) == \A j \in S : l[j].addr \in Nat /\ l[j].addr + m <= Top

\* One more execution is what Update makes of the range (RangeStats::Update).
LEMMA RangeAdds ==
    ASSUME NEW l, NEW S, IsFiniteSet(S), NEW k, k \notin S, NEW S2, S2 = S \cup {k}, NEW m \in Nat, Below(l, S2, m)
    PROVE  RangeIn(l, S2, m) = Update(RangeIn(l, S, m), l[k].addr + m, 1)
<1> DEFINE a == l[k].addr
           T == {l[j].addr : j \in S}
<1>1. a \in Nat /\ a + m \in Nat /\ a + m <= 99 /\ Top = 99
  BY DEF Top, Below
<1>2. {l[j].addr : j \in S2} = T \cup {a} /\ S2 # {}
  OBVIOUS
<1>3. Cardinality(S2) = Cardinality(S) + 1 /\ Cardinality(S) \in Nat
  BY FS_AddElement, FS_CardinalityType
<1>4. RangeIn(l, S2, m) = [min |-> Min(T \cup {a}) + m, max |-> Max(T \cup {a}) + m, count |-> Cardinality(S) + 1]
  BY <1>2, <1>3 DEF RangeIn
<1>5. T \subseteq Nat /\ IsFiniteSet(T) /\ (S = {} <=> T = {})
  BY AddressesFinite DEF Below
<1> HIDE DEF a, T
<1>6. CASE S = {}
  <2>1. T \cup {a} = {a} /\ {a} \subseteq Int /\ a \in {a} /\ \A y \in {a} : a <= y /\ a >= y
    <3>1. T = {}
      BY <1>5, <1>6
    <3>2. a \in Int /\ a <= a /\ a >= a
      BY <1>1
    <3> QED  BY <3>1, <3>2
  <2>2. Min(T \cup {a}) = a /\ Max(T \cup {a}) = a
    BY <2>1, MinIs, MaxIs
  <2>3. RangeIn(l, S, m) = [min |-> 99, max |-> 0, count |-> 0]
    BY <1>1, <1>6 DEF RangeIn, NoRange
  <2>4. Cardinality(S) = 0
    BY <1>6, FS_EmptySet
  <2>5. Update([min |-> 99, max |-> 0, count |-> 0], a + m, 1) = [min |-> a + m, max |-> a + m, count |-> 1]
    BY <1>1 DEF Update
  <2> QED  BY <1>1, <1>4, <2>2, <2>3, <2>4, <2>5 DEF a
<1>7. CASE S # {}
  <2>1. PICK lo, hi : lo = Min(T) /\ hi = Max(T)
    OBVIOUS
  <2>2. /\ lo \in T /\ hi \in T /\ \A y \in T : lo <= y /\ hi >= y
        /\ lo \in Nat /\ hi \in Nat
    BY <1>5, <1>7, <2>1, Extremes
  <2>3. PICK n : n = Cardinality(S)
    OBVIOUS
  <2>4. n \in Nat
    BY <1>3, <2>3
  <2>5. RangeIn(l, S, m) = [min |-> lo + m, max |-> hi + m, count |-> n]
    BY <1>7, <2>1, <2>3 DEF RangeIn, T
  <2>6. Min(T \cup {a}) = IF a < lo THEN a ELSE lo
    <3> DEFINE U == T \cup {a}
               x == IF a < lo THEN a ELSE lo
    <3>1. U \subseteq Int /\ x \in U /\ \A y \in U : x <= y
      BY <1>1, <1>5, <2>2
    <3> HIDE DEF U, x
    <3>2. Min(U) = x
      BY <3>1, MinIs
    <3> QED  BY <3>2 DEF U, x
  <2>7. Max(T \cup {a}) = IF a > hi THEN a ELSE hi
    <3> DEFINE U == T \cup {a}
               x == IF a > hi THEN a ELSE hi
    <3>1. U \subseteq Int /\ x \in U /\ \A y \in U : x >= y
      BY <1>1, <1>5, <2>2
    <3> HIDE DEF U, x
    <3>2. Max(U) = x
      BY <3>1, MaxIs
    <3> QED  BY <3>2 DEF U, x
  <2>8. Update([min |-> lo + m, max |-> hi + m, count |-> n], a + m, 1) =
            [min |-> (IF a < lo THEN a ELSE lo) + m, max |-> (IF a > hi THEN a ELSE hi) + m, count |-> n + 1]
    <3>1. (a + m < lo + m <=> a < lo) /\ (a + m > hi + m <=> a > hi)
      BY <1>1, <2>2
    <3> QED  BY <3>1 DEF Update
  <2> QED  BY <1>4, <2>3, <2>5, <2>6, <2>7, <2>8 DEF a
<1> QED  BY <1>6, <1>7

\* Ranges are of what the log says of their executions.
LEMMA RangeSame ==
    ASSUME NEW l, NEW l2, NEW S, NEW m, \A k \in S : l2[k].addr = l[k].addr
    PROVE  RangeIn(l2, S, m) = RangeIn(l, S, m)
<1>1. {l2[k].addr : k \in S} = {l[k].addr : k \in S}
  OBVIOUS
<1> QED  BY <1>1 DEF RangeIn

\* A memory instruction is of one block.
LEMMA BlockIs ==
    /\ \A b \in DOMAIN Memops : \A m \in Memops[b] : BlockOf(m) = b /\ m \in AllMemops /\ m \in Nat
    /\ \A m \in AllMemops : BlockOf(m) \in DOMAIN Memops /\ m \in Memops[BlockOf(m)]
<1>1. ASSUME NEW b \in DOMAIN Memops, NEW m \in Memops[b] PROVE BlockOf(m) = b
  <2>1. \A c \in DOMAIN Memops : m \in Memops[c] => c = b
    BY NumberingAssumption
  <2> QED  BY <2>1 DEF BlockOf
<1>2. \A b \in DOMAIN Memops : \A m \in Memops[b] : m \in AllMemops /\ m \in Nat
  BY MemopAssumption DEF AllMemops
<1>3. ASSUME NEW m \in AllMemops PROVE BlockOf(m) \in DOMAIN Memops /\ m \in Memops[BlockOf(m)]
  <2>1. \E b \in DOMAIN Memops : m \in Memops[b]
    BY DEF AllMemops
  <2> QED  BY <2>1 DEF BlockOf
<1> QED  BY <1>1, <1>2, <1>3

\* A block's memory instructions are numbered one after the other.
LEMMA BlockNumbers ==
    ASSUME NEW x \in DOMAIN Memops
    PROVE  \E low \in Nat : /\ Least(Memops[x]) = low /\ Min(Memops[x]) = low
                            /\ Memops[x] = low .. low + Cardinality(Memops[x]) - 1
                            /\ Cardinality(Memops[x]) \in Nat \ {0}
                            /\ Max(Memops[x]) = low + Cardinality(Memops[x]) - 1
<1> DEFINE n == Cardinality(Memops[x])
           M == Memops[x]
<1>1. PICK low \in M : M = low .. low + n - 1
  BY NumberingAssumption
<1>2. n \in Nat \ {0} /\ M \subseteq Nat
  BY MemopAssumption, DataAssumption
<1> HIDE DEF n, M
<1>3. low \in Nat /\ \A y \in M : low <= y
  BY <1>1, <1>2
<1>4. low + n - 1 \in M /\ \A y \in M : low + n - 1 >= y
  BY <1>1, <1>2, <1>3
<1>5. M \subseteq Int
  BY <1>2
<1>6. Min(M) = low /\ Max(M) = low + n - 1
  BY <1>3, <1>4, <1>5, MinIs, MaxIs
<1> QED  BY <1>1, <1>2, <1>3, <1>6 DEF Least, n, M

\* A buffer is of one thread.
LEMMA BufferThread ==
    ASSUME DataInv, NEW t \in allthreads, NEW u \in allthreads, NEW i \in images, NEW j \in images,
           BufferOf(t, i) = BufferOf(u, j)
    PROVE  u = t /\ (t # Main => j = i)
<1>1. t # 0 /\ u # 0
  BY DataAssumption DEF DataInv, Registration
<1> QED  BY <1>1 DEF BufferOf

\* An object is of one thread and one image.
LEMMA ObjectOf ==
    ASSUME DataInv, NEW t \in allthreads, NEW u \in allthreads, NEW i \in images, NEW j \in images,
           Object(t, i) = Object(u, j)
    PROVE  u = t /\ j = i
<1>1. t # 0 /\ u # 0
  BY DataAssumption DEF DataInv, Registration
<1> QED  BY <1>1 DEF Object

-----------------------------------------------------------------------------
\* A buffer is processed: every entry is charged to its instruction.

\* Nothing but what has been seen of the accesses changes.
OnlyStats(h1, h2) ==
    /\ DOMAIN h2 = DOMAIN h1
    /\ \A o \in DOMAIN h1 : /\ DOMAIN h2[o] = DOMAIN h1[o] /\ DOMAIN h2[o].stats = DOMAIN h1[o].stats
                            /\ h2[o].counters = h1[o].counters /\ h2[o].timers = h1[o].timers
                            /\ h2[o].master = h1[o].master /\ h2[o].thread = h1[o].thread

\* The first j entries of buffer b have been charged.
PendingAfter(q, j, i, m) == {q[h].at : h \in {g \in j + 1 .. Len(q) : q[g].image = i /\ q[g].memop = m}}
Left(bf, b, j, t, i, m) == IF BufferOf(t, i) = b THEN PendingAfter(bf[b], j, i, m) ELSE Pending(bf[BufferOf(t, i)], i, m)
AccountedAfter(l, hp, bf, b, j) ==
    \A t \in allthreads : \A i \in images : \A m \in AllMemops :
       hp[Object(t, i)].stats[m] = RangeIn(l, Executions(l, t, i, BlockOf(m)) \ Left(bf, b, j, t, i, m), m)

ChargeAt(h, o, e) == [h EXCEPT ![o].stats[e.memop] = Update(@, e.addr, 1)]

\* An entry that is charged is one more execution.
LEMMA ChargeStep ==
    ASSUME DataInv, tool = "simulation", NEW l, l \in Seq(Happening), LogKnown(l),
           NEW t \in allthreads, NEW i \in images, NEW b, b = BufferOf(t, i),
           NEW bf, b \in DOMAIN bf, NEW q, q = bf[b], EntriesRight(l, bf), NEW n \in Nat, Len(q) = n,
           NEW j \in 0 .. n - 1, NEW h, HeapOk(h), \A o \in DOMAIN h : DOMAIN h[o].stats = AllMemops,
           AccountedAfter(l, h, bf, b, j), q[j + 1].image \in images,
           NEW h2, h2 = ChargeAt(h, Object(t, q[j + 1].image), q[j + 1])
    PROVE  OnlyStats(h, h2) /\ AccountedAfter(l, h2, bf, b, j + 1)
<1>12. PICK e : e = q[j + 1]
  OBVIOUS
<1>13. PICK k : k = e.at
  OBVIOUS
<1> DEFINE o == Object(t, e.image)
           v == Update(h[o].stats[e.memop], e.addr, 1)
<1>14. Len(l) \in Nat /\ DOMAIN l = 1 .. Len(l) /\ \A y \in DOMAIN l : l[y] \in Happening
  OBVIOUS
<1>15. e.image \in images
  BY <1>12
<1>16. IsFiniteSet(1 .. Len(l))
  <2>1. PICK c : c = Len(l)
    OBVIOUS
  <2>2. c \in Int /\ 1 \in Int
    BY <1>14, <2>1
  <2>3. IsFiniteSet(1 .. c)
    BY <2>2, FS_Interval
  <2> QED  BY <2>1, <2>3
<1>1. j + 1 \in 1 .. n /\ j \in Nat
  OBVIOUS
<1>2. EntryRight(l, q, b, j + 1)
  BY <1>1 DEF EntriesRight
<1>3. /\ k \in DOMAIN l /\ e.image = l[k].image /\ e.memop \in Memops[l[k].index]
      /\ e.addr = l[k].addr + e.memop /\ b = BufferOf(l[k].thread, e.image)
      /\ \A g \in 1 .. n : q[g].at = k /\ q[g].memop = e.memop => g = j + 1
  BY <1>2, <1>12, <1>13, Zenon DEF EntryRight
<1>4. l[k].thread = t
  <2>1. PICK u : u = l[k].thread
    OBVIOUS
  <2>2. u \in allthreads /\ BufferOf(t, i) = BufferOf(u, e.image)
    BY <1>3, <2>1 DEF LogKnown
  <2>3. u = t
    BY <1>15, <2>2, BufferThread
  <2> QED  BY <2>1, <2>3
<1>5. /\ l[k] \in Happening /\ l[k].index \in DOMAIN Memops /\ l[k].addr \in Addresses /\ l[k].addr \in Nat
  <2>1. l[k] \in Happening
    BY <1>3, <1>14
  <2>2. l[k].index \in Indices /\ Indices \subseteq DOMAIN Memops /\ Addresses \subseteq Nat
    BY <2>1, MemopAssumption DEF Happening, Indices
  <2>3. l[k].addr \in Addresses
    BY <1>3 DEF LogKnown, OneObject
  <2> QED  BY <2>1, <2>2, <2>3
<1>6. BlockOf(e.memop) = l[k].index /\ e.memop \in AllMemops /\ e.memop \in Nat
  BY <1>3, <1>5, BlockIs
<1>7. o \in DOMAIN h /\ DOMAIN h[o] = Fields /\ DOMAIN h[o].stats = AllMemops
  BY <1>15 DEF HeapOk
<1>8. h2 = [h EXCEPT ![o] = [h[o] EXCEPT !.stats = [h[o].stats EXCEPT ![e.memop] = v]]]
  BY <1>12 DEF ChargeAt
<1> HIDE DEF v, o
<1>9. /\ DOMAIN h2 = DOMAIN h /\ \A p \in DOMAIN h : p # o => h2[p] = h[p]
      /\ DOMAIN h2[o] = Fields /\ h2[o].stats = [h[o].stats EXCEPT ![e.memop] = v]
      /\ h2[o].counters = h[o].counters /\ h2[o].timers = h[o].timers
      /\ h2[o].master = h[o].master /\ h2[o].thread = h[o].thread
  <2> DEFINE s == [h[o].stats EXCEPT ![e.memop] = v]
  <2>1. h2 = [h EXCEPT ![o] = [h[o] EXCEPT !.stats = s]]
    BY <1>8
  <2> HIDE DEF s
  <2> QED  BY <1>7, <2>1 DEF Fields, s
<1>10. OnlyStats(h, h2)
  BY <1>7, <1>9 DEF OnlyStats
<1>11. ASSUME NEW u \in allthreads, NEW i2 \in images, NEW m \in AllMemops
       PROVE  h2[Object(u, i2)].stats[m] =
                 RangeIn(l, Executions(l, u, i2, BlockOf(m)) \ Left(bf, b, j + 1, u, i2, m), m)
  <2>1. Object(u, i2) \in DOMAIN h
    BY DEF HeapOk
  <2>2. h[Object(u, i2)].stats[m] = RangeIn(l, Executions(l, u, i2, BlockOf(m)) \ Left(bf, b, j, u, i2, m), m)
    BY DEF AccountedAfter
  <2>3. j + 1 .. n = {j + 1} \cup ((j + 1) + 1 .. n) /\ (j + 1) + 1 .. n \subseteq 1 .. n
        /\ j + 1 \notin (j + 1) + 1 .. n
    BY <1>1
  <2>4. CASE u = t /\ i2 = e.image /\ m = e.memop
    <3> DEFINE S == Executions(l, u, i2, BlockOf(m)) \ Left(bf, b, j, u, i2, m)
               S2 == Executions(l, u, i2, BlockOf(m)) \ Left(bf, b, j + 1, u, i2, m)
    <3>1. BufferOf(u, i2) = b
      BY <1>3, <1>4, <2>4
    <3>2. Left(bf, b, j, u, i2, m) = Left(bf, b, j + 1, u, i2, m) \cup {k}
      BY <1>12, <1>13, <2>3, <2>4, <3>1 DEF Left, PendingAfter
    <3>3. k \notin Left(bf, b, j + 1, u, i2, m)
      <4> SUFFICES ASSUME NEW g \in (j + 1) + 1 .. n, q[g].memop = m, q[g].at = k PROVE FALSE
        BY <3>1 DEF Left, PendingAfter
      <4> QED  BY <1>3, <2>3, <2>4
    <3>4. k \in Executions(l, u, i2, BlockOf(m))
      BY <1>3, <1>4, <1>6, <2>4 DEF Executions
    <3>5. S2 = S \cup {k} /\ k \notin S
      BY <3>2, <3>3, <3>4
    <3>6. IsFiniteSet(S)
      <4>1. S \subseteq 1 .. Len(l)
        BY <1>14 DEF Executions
      <4> QED  BY <4>1, <1>16, FS_Subset
    <3>7. \A y \in S \cup {k} : l[y].addr \in Nat /\ l[y].addr + m <= Top
      <4> SUFFICES ASSUME NEW y \in S \cup {k} PROVE l[y].addr \in Addresses
        BY <1>5, <1>6, <2>4, BlockIs, TopAssumption, MemopAssumption
      <4> QED  BY <1>3 DEF LogKnown, OneObject, Executions
    <3>8. h2[Object(u, i2)].stats[m] = v /\ h[o].stats[m] = RangeIn(l, S, m)
      BY <1>7, <1>9, <2>2, <2>4 DEF o
    <3>9. v = Update(RangeIn(l, S, m), l[k].addr + m, 1)
      BY <1>3, <2>4, <3>8 DEF v
    <3> HIDE DEF S, S2
    <3>10. RangeIn(l, S2, m) = Update(RangeIn(l, S, m), l[k].addr + m, 1)
      <4>1. m \in Nat /\ k \notin S /\ S2 = S \cup {k} /\ Below(l, S2, m)
        BY <1>6, <2>4, <3>5, <3>7 DEF Below
      <4>2. PICK T, T2 : T = S /\ T2 = S2
        OBVIOUS
      <4>3. IsFiniteSet(T) /\ k \notin T /\ T2 = T \cup {k} /\ Below(l, T2, m)
        BY <3>6, <4>1, <4>2
      <4>4. RangeIn(l, T2, m) = Update(RangeIn(l, T, m), l[k].addr + m, 1)
        BY <4>1, <4>3, RangeAdds
      <4> QED  BY <4>2, <4>4
    <3> QED  BY <3>5, <3>8, <3>9, <3>10 DEF S2
  <2>5. CASE ~ (u = t /\ i2 = e.image /\ m = e.memop)
    <3>1. h2[Object(u, i2)].stats[m] = h[Object(u, i2)].stats[m]
      <4>1. CASE Object(u, i2) # o
        BY <1>9, <2>1, <4>1
      <4>2. CASE Object(u, i2) = o
        <5>1. u = t /\ i2 = e.image
          BY <1>15, <4>2, ObjectOf DEF o
        <5>2. m # e.memop
          BY <2>5, <5>1
        <5> QED  BY <1>7, <1>9, <4>2, <5>2
      <4> QED  BY <4>1, <4>2
    <3>2. Left(bf, b, j + 1, u, i2, m) = Left(bf, b, j, u, i2, m)
      <4>1. CASE BufferOf(u, i2) # b
        BY <4>1 DEF Left
      <4>2. CASE BufferOf(u, i2) = b
        <5>1. u = t
          BY <4>2, BufferThread
        <5>2. ~ (q[j + 1].image = i2 /\ q[j + 1].memop = m)
          BY <1>12, <2>5, <5>1
        <5> QED  BY <2>3, <4>2, <5>2 DEF Left, PendingAfter
      <4> QED  BY <4>1, <4>2
    <3> QED  BY <2>2, <3>1, <3>2
  <2> QED  BY <2>4, <2>5
<1> QED  BY <1>10, <1>11 DEF AccountedAfter

\* A whole buffer.
LEMMA ChargeKept ==
    ASSUME DataInv, tool = "simulation", NEW l, l \in Seq(Happening), LogKnown(l),
           NEW t \in allthreads, NEW i \in images, NEW b, b = BufferOf(t, i),
           NEW bf, b \in DOMAIN bf, NEW q, q = bf[b], EntriesRight(l, bf), NEW n \in Nat, Len(q) = n,
           \A j \in 1 .. n : q[j].image \in images,
           NEW hp, HeapOk(hp), \A o \in DOMAIN hp : DOMAIN hp[o].stats = AllMemops,
           Accounted(l, hp, bf),
           NEW r, r.heap = hp, r.buffers = bf,
           NEW row, \A j \in 1 .. n : row[j] = Object(t, q[j].image) /\ hp[row[j]].buffer = b,
           NEW h2, h2 = Charge(r, row, n)
    PROVE  OnlyStats(hp, h2) /\ AccountedAfter(l, h2, bf, b, n)
<1>1. PICK done : /\ h2 = done[n]
                  /\ \A j \in 0 .. n : done[j] = IF j = 0 THEN hp ELSE ChargeOne(r, row, done[j - 1], j)
  <2>1. PICK d : /\ Charge(r, row, n) = d[n]
                 /\ \A j \in 0 .. n : d[j] = IF j = 0 THEN r.heap ELSE ChargeOne(r, row, d[j - 1], j)
    BY ChargeRuns
  <2> QED  BY <2>1
<1> DEFINE Good(h, j) == OnlyStats(hp, h) /\ HeapOk(h) /\ AccountedAfter(l, h, bf, b, j)
           K == {j \in 0 .. n : Good(done[j], j)}
<1>2. Good(hp, 0)
  <2>1. OnlyStats(hp, hp)
    BY DEF OnlyStats
  <2>2. ASSUME NEW u \in allthreads, NEW i2 \in images, NEW m \in AllMemops
        PROVE  Left(bf, b, 0, u, i2, m) = Pending(bf[BufferOf(u, i2)], i2, m)
    <3>1. CASE BufferOf(u, i2) = b
      <4>1. 0 + 1 .. Len(q) = 1 .. Len(q)
        OBVIOUS
      <4> QED  BY <3>1, <4>1 DEF Left, PendingAfter, Pending
    <3>2. CASE BufferOf(u, i2) # b
      BY <3>2 DEF Left
    <3> QED  BY <3>1, <3>2
  <2>3. AccountedAfter(l, hp, bf, b, 0)
    BY <2>2 DEF AccountedAfter, Accounted
  <2> QED  BY <2>1, <2>3
<1>3. ASSUME NEW j \in 0 .. n - 1, NEW h, Good(h, j), NEW g, g = ChargeOne(r, row, h, j + 1)
      PROVE  Good(g, j + 1)
  <2>1. j + 1 \in 1 .. n
    OBVIOUS
  <2>2. PICK e : e = q[j + 1]
    OBVIOUS
  <2>3. row[j + 1] = Object(t, e.image) /\ e.image \in images /\ r.heap[row[j + 1]].buffer = b
    BY <2>1, <2>2
  <2>4. r.buffers[r.heap[row[j + 1]].buffer][j + 1] = e
    BY <2>2, <2>3
  <2>5. g = [h EXCEPT ![Object(t, e.image)].stats[e.memop] = Update(@, e.addr, 1)]
    BY <1>3, <2>3, <2>4 DEF ChargeOne
  <2>6. HeapOk(h) /\ AccountedAfter(l, h, bf, b, j) /\ OnlyStats(hp, h)
    BY <1>3
  <2>7. \A o \in DOMAIN h : DOMAIN h[o].stats = AllMemops
    BY <2>6 DEF OnlyStats
  <2>8. OnlyStats(h, g) /\ AccountedAfter(l, g, bf, b, j + 1)
    <3>1. q[j + 1].image \in images
          /\ g = ChargeAt(h, Object(t, q[j + 1].image), q[j + 1])
      BY <2>2, <2>3, <2>5 DEF ChargeAt
    <3>2. HeapOk(h) /\ AccountedAfter(l, h, bf, b, j)
      BY <2>6
    <3> HIDE DEF Good
    <3> QED  BY <2>7, <3>1, <3>2, ChargeStep
  <2>9. HeapOk(g)
    <3>1. SameObjects(h, g)
      <4> DEFINE o == Object(t, e.image)
                 v == [h[o].stats EXCEPT ![e.memop] = Update(@, e.addr, 1)]
      <4>1. g = [h EXCEPT ![o] = [h[o] EXCEPT !.stats = v]]
        BY <2>5
      <4> HIDE DEF o, v
      <4>2. \A p \in DOMAIN h : DOMAIN h[p] = Fields
        BY <2>6 DEF HeapOk
      <4> QED  BY <4>1, <4>2 DEF SameObjects, Fields
    <3> QED  BY <2>6, <3>1, StillOk
  <2>10. OnlyStats(hp, g)
    BY <2>6, <2>8 DEF OnlyStats
  <2> QED  BY <2>8, <2>9, <2>10
<1> HIDE DEF Good
<1>4. 0 \in K
  <2>1. 0 \in 0 .. n /\ done[0] = hp
    BY <1>1
  <2> QED  BY <1>2, <2>1
<1>5. ASSUME NEW j \in 0 .. n - 1, j \in K PROVE j + 1 \in K
  <2>1. j + 1 \in 0 .. n /\ j + 1 # 0 /\ (j + 1) - 1 = j
    OBVIOUS
  <2>2. done[j + 1] = ChargeOne(r, row, done[j], j + 1)
    BY <1>1, <2>1
  <2>3. Good(done[j], j)
    BY <1>5
  <2>4. Good(done[j + 1], j + 1)
    BY <1>3, <2>2, <2>3
  <2> QED  BY <2>1, <2>4
<1>6. n \in K
  <2> HIDE DEF K
  <2>1. 0 .. n \subseteq K
    BY <1>4, <1>5, UpTo
  <2> QED  BY <2>1
<1> QED  BY <1>1, <1>6 DEF Good

\* What process_thread_buffer has done, the ranges still are those of the
\* executions that no longer wait.
LEMMA ProcessKept ==
    ASSUME DataInv, tool = "simulation", NEW l, l \in Seq(Happening), LogKnown(l),
           NEW t \in allthreads, NEW i \in images, pc[t] # "fastdata",
           NEW s, MachineOk(s), \A o \in DOMAIN s.heap : DOMAIN s.heap[o].stats = AllMemops,
           EntriesRight(l, s.buffers), Accounted(l, s.heap, s.buffers),
           NEW s2, s2 = process_thread_buffer(s, i, t)
    PROVE  /\ OnlyStats(s.heap, s2.heap)
           /\ EntriesRight(l, s2.buffers) /\ Accounted(l, s2.heap, s2.buffers)
<1> DEFINE b == BufferOf(t, i)
<1>1. PICK bf, hp, bf2, h2 : bf = s.buffers /\ hp = s.heap /\ bf2 = s2.buffers /\ h2 = s2.heap
  OBVIOUS
<1>2. bf2 = [bf EXCEPT ![b] = <<>>] /\ ChargedFrom(s, s2, i, t)
  BY <1>1, ProcessKeeps
<1>3. HeapOk(hp) /\ BuffersOk(hp, bf) /\ \A o \in DOMAIN hp : DOMAIN hp[o].stats = AllMemops
  BY <1>1 DEF MachineOk
<1>4. EntriesRight(l, bf) /\ Accounted(l, hp, bf)
  BY <1>1
<1>5. PICK q : q = bf[b]
  OBVIOUS
<1>6. PICK n : n = Len(q)
  OBVIOUS
<1>7. b \in DOMAIN bf /\ n \in Nat /\ \A j \in 1 .. n : q[j].image \in images
  BY <1>3, <1>5, <1>6 DEF BuffersOk
<1>8. PICK r, row : /\ r.heap = hp /\ r.buffers = bf /\ h2 = Charge(r, row, n)
                    /\ \A j \in 1 .. n : row[j] = Object(t, q[j].image) /\ hp[row[j]].buffer = b
  BY <1>1, <1>2, <1>5, <1>6 DEF ChargedFrom
<1> HIDE DEF b
<1>9. OnlyStats(hp, h2) /\ AccountedAfter(l, h2, bf, b, n)
  <2>1. b = BufferOf(t, i) /\ Len(q) = n
    BY <1>6 DEF b
  <2> QED  BY <1>3, <1>4, <1>5, <1>7, <1>8, <2>1, ChargeKept
<1>10. EntriesRight(l, bf2)
  <2>1. bf2[b] = <<>> /\ DOMAIN bf2 = DOMAIN bf /\ \A d \in DOMAIN bf : d # b => bf2[d] = bf[d]
    BY <1>2, <1>7 DEF b
  <2>2. 1 .. Len(<<>>) = {}
    OBVIOUS
  <2> SUFFICES ASSUME NEW d \in DOMAIN bf2, NEW j \in 1 .. Len(bf2[d]) PROVE EntryRight(l, bf2[d], d, j)
    BY DEF EntriesRight
  <2>3. d # b
    BY <2>1, <2>2
  <2> QED  BY <1>4, <2>1, <2>3 DEF EntriesRight
<1>11. Accounted(l, h2, bf2)
  <2>1. bf2[b] = <<>> /\ DOMAIN bf2 = DOMAIN bf /\ \A d \in DOMAIN bf : d # b => bf2[d] = bf[d]
    BY <1>2, <1>7 DEF b
  <2>2. ASSUME NEW u \in allthreads, NEW i2 \in images, NEW m \in AllMemops
        PROVE  Left(bf, b, n, u, i2, m) = Pending(bf2[BufferOf(u, i2)], i2, m)
    <3>1. CASE BufferOf(u, i2) = b
      <4>1. Left(bf, b, n, u, i2, m) = {}
        <5>1. n + 1 .. Len(q) = {}
          BY <1>6, <1>7
        <5> QED  BY <1>5, <3>1, <5>1 DEF Left, PendingAfter
      <4>2. Pending(bf2[BufferOf(u, i2)], i2, m) = {}
        <5>1. 1 .. Len(<<>>) = {}
          OBVIOUS
        <5> QED  BY <2>1, <3>1, <5>1 DEF Pending
      <4> QED  BY <4>1, <4>2
    <3>2. CASE BufferOf(u, i2) # b
      <4>1. BufferOf(u, i2) \in DOMAIN bf
        BY <1>3 DEF BuffersOk
      <4> QED  BY <2>1, <3>2, <4>1 DEF Left
    <3> QED  BY <3>1, <3>2
  <2> QED  BY <1>9, <2>2 DEF AccountedAfter, Accounted
<1> QED  BY <1>1, <1>9, <1>10, <1>11

-----------------------------------------------------------------------------
\* A block or loop head runs: one more event of a known thread and image.
LEMMA RunKnown ==
    ASSUME DataInv, tool \in OneObject, NEW l, LogKnown(l), NEW l2, NEW e, Longer(l, l2, e),
           e.thread \in allthreads, e.image \in images, e.kind = "run", Counting(e.index), e.addr \in Addresses
    PROVE  LogKnown(l2)
<1> SUFFICES ASSUME NEW k \in DOMAIN l2
             PROVE  /\ l2[k].thread \in allthreads /\ l2[k].image \in images
                    /\ l2[k].kind = "run" <=> tool \in OneObject
                    /\ tool \in OneObject => Counting(l2[k].index) /\ l2[k].addr \in Addresses
  BY DEF LogKnown
<1>1. CASE k = Len(l) + 1
  BY <1>1 DEF Longer
<1>2. CASE k # Len(l) + 1
  <2>1. k \in DOMAIN l /\ l2[k] = l[k]
    BY <1>2 DEF Longer
  <2> QED  BY <2>1 DEF LogKnown
<1> QED  BY <1>1, <1>2

\* It is counted.
LEMMA RunCounted ==
    ASSUME DataInv, tool \in OneObject, NEW l, NEW l2, NEW e, Longer(l, l2, e),
           NEW t \in allthreads, NEW i \in images, NEW x \in Indices, Counting(x), Of(e, t, i, x),
           NEW g, HeapOk(g), Shapes(g), CountersRight(l, g), Marked(g),
           NEW c, c = [g[Object(t, i)].counters EXCEPT ![x] = @ + 1],
           NEW h, h = [g EXCEPT ![Object(t, i)] = [@ EXCEPT !.counters = c]]
    PROVE  /\ Shapes(h) /\ CountersRight(l2, h) /\ Marked(h)
           /\ DOMAIN h = DOMAIN g /\ \A p \in DOMAIN g : h[p].stats = g[p].stats
<1> DEFINE o == Object(t, i)
<1>1. o \in DOMAIN g /\ DOMAIN g[o] = Fields /\ DOMAIN g[o].counters = Indices
  BY DEF HeapOk, Shapes
<1>2. DOMAIN c = Indices /\ c[x] = g[o].counters[x] + 1 /\ \A y \in Indices : y # x => c[y] = g[o].counters[y]
  BY <1>1
<1>3. o[1] = i /\ images \subseteq Images
  BY DEF Object, DataInv, Registration
<1>4. h = [g EXCEPT ![o] = [g[o] EXCEPT !.counters = c]]
  OBVIOUS
<1> HIDE DEF o
<1>5. /\ DOMAIN h = DOMAIN g /\ \A p \in DOMAIN g : p # o => h[p] = g[p]
      /\ h[o].counters = c /\ h[o].stats = g[o].stats /\ h[o].timers = g[o].timers
      /\ h[o].master = g[o].master /\ h[o].thread = g[o].thread
  BY <1>1, <1>4 DEF Fields
<1>6. Shapes(h)
  <2>1. Led(c)
    <3>1. Led(g[o].counters)
      BY <1>1 DEF Shapes
    <3> QED  BY <1>2, <3>1 DEF Led
  <2>2. ASSUME NEW p \in DOMAIN h
        PROVE  /\ DOMAIN h[p].counters = Indices /\ DOMAIN h[p].timers = Indices
               /\ DOMAIN h[p].stats = AllMemops /\ Led(h[p].counters)
    BY <1>1, <1>2, <1>5, <2>1 DEF Shapes
  <2> QED  BY <2>2 DEF Shapes
<1>7. CountersRight(l2, h)
  <2>1. ASSUME NEW j \in Images \ images, NEW y \in Indices, Counting(y) PROVE h[<<j, 0>>].counters[y] = 0
    <3>1. <<j, 0>> # o /\ <<j, 0>> \in DOMAIN g
      BY <1>3 DEF HeapOk
    <3>2. g[<<j, 0>>].counters[y] = 0
      BY <2>1 DEF CountersRight
    <3> QED  BY <1>5, <3>1, <3>2
  <2>2. ASSUME NEW u \in allthreads, NEW j \in images, NEW y \in Indices, Counting(y)
        PROVE  h[Object(u, j)].counters[y] = Cardinality(Executions(l2, u, j, y))
    <3>1. g[Object(u, j)].counters[y] = Cardinality(Executions(l, u, j, y)) /\ Object(u, j) \in DOMAIN g
      BY <2>2 DEF CountersRight, HeapOk
    <3>2. CASE u = t /\ j = i /\ y = x
      <4>1. PICK S, S2 : S = Executions(l, u, j, y) /\ S2 = Executions(l2, u, j, y)
        OBVIOUS
      <4>2. S2 = S \cup {Len(l) + 1} /\ Len(l) + 1 \notin S /\ IsFiniteSet(S)
        BY <3>2, <4>1, LongerExecutions
      <4>3. Cardinality(S2) = Cardinality(S) + 1
        BY <4>2, FS_AddElement
      <4> QED  BY <1>2, <1>5, <3>1, <3>2, <4>1, <4>3 DEF o
    <3>3. CASE ~ (u = t /\ j = i /\ y = x)
      <4>1. Executions(l2, u, j, y) = Executions(l, u, j, y)
        <5>1. ~ Of(e, u, j, y)
          BY <3>3 DEF Of
        <5> QED  BY <5>1, LongerExecutions
      <4>2. h[Object(u, j)].counters[y] = g[Object(u, j)].counters[y]
        <5>1. CASE Object(u, j) # o
          BY <1>5, <3>1, <5>1
        <5>2. CASE Object(u, j) = o
          <6>1. u = t /\ j = i
            BY <5>2, ObjectOf DEF o
          <6> QED  BY <1>2, <1>5, <3>3, <5>2, <6>1
        <5> QED  BY <5>1, <5>2
      <4> QED  BY <3>1, <4>1, <4>2
    <3> QED  BY <3>2, <3>3
  <2> QED  BY <2>1, <2>2 DEF CountersRight
<1>8. Marked(h)
  <2>1. \A p \in DOMAIN g : h[p].master = g[p].master /\ h[p].thread = g[p].thread
    BY <1>5
  <2>2. /\ \A j \in Images : <<j, 0>> \in DOMAIN g
        /\ \A u \in allthreads : \A j \in images : Object(u, j) \in DOMAIN g
    BY DEF HeapOk
  <2> QED  BY <2>1, <2>2 DEF Marked
<1>9. \A p \in DOMAIN g : h[p].stats = g[p].stats
  BY <1>5
<1> QED  BY <1>5, <1>6, <1>7, <1>8, <1>9

\* What makes an entry v, of what happened as w, right.
Once(q, v, j) == \A h \in 1 .. Len(q) : q[h].at = v /\ q[h].memop = q[j].memop => h = j
AllOf(q, v, M) == \A m \in M : \E h \in 1 .. Len(q) : q[h].at = v /\ q[h].memop = m
LEMMA EntryIs ==
    ASSUME NEW l, NEW q, NEW b, NEW j, NEW v, v = q[j].at, v \in DOMAIN l, NEW w, w = l[v],
           q[j].image = w.image, q[j].memop \in Memops[w.index], q[j].addr = w.addr + q[j].memop,
           b = BufferOf(w.thread, q[j].image), Once(q, v, j), AllOf(q, v, Memops[w.index])
    PROVE  EntryRight(l, q, b, j)
<1>1. l[q[j].at] = w
  OBVIOUS
<1> QED  BY <1>1 DEF EntryRight, Once, AllOf

\* Entries q2 are entries q, a in number, with those of a block after them, of
\* the execution at k.
Extended(q2, q, a, n, i, low, addr, k) ==
    /\ Len(q2) = a + n /\ \A j \in 1 .. a : q2[j] = q[j]
    /\ \A j \in 1 .. n : q2[a + j] = [image |-> i, memop |-> low + j - 1, addr |-> addr + (low + j - 1), at |-> k]
Numbered(x, low, n) == Memops[x] = low .. low + n - 1
Replaced(bf2, bf, b, q2) ==
    DOMAIN bf2 = DOMAIN bf /\ bf2[b] = q2 /\ \A d \in DOMAIN bf : d # b => bf2[d] = bf[d]
MoreWait(q2, q, i, x, k) ==
    \A i2, m : /\ i2 = i /\ m \in Memops[x] => Pending(q2, i2, m) = Pending(q, i2, m) \cup {k}
               /\ ~ (i2 = i /\ m \in Memops[x]) => Pending(q2, i2, m) = Pending(q, i2, m)

\* Its entries are put into the buffer.
LEMMA FilledEntries ==
    ASSUME DataInv, tool = "simulation", NEW l, NEW l2, NEW e, Longer(l, l2, e),
           NEW t \in allthreads, NEW i \in images, NEW x \in DOMAIN Memops, NEW addr, Of(e, t, i, x), e.addr = addr,
           NEW b, b = BufferOf(t, i), NEW bf, b \in DOMAIN bf, EntriesRight(l, bf), NEW q, q = bf[b],
           NEW a \in Nat, a = Len(q), NEW low \in Nat, NEW n \in Nat, Numbered(x, low, n),
           NEW k, k = Len(l) + 1, NEW q2, Extended(q2, q, a, n, i, low, addr, k),
           NEW bf2, Replaced(bf2, bf, b, q2)
    PROVE  /\ EntriesRight(l2, bf2)
           /\ MoreWait(q2, q, i, x, k)
<1>1. k = Len(l) + 1 /\ Len(q2) = a + n
  BY DEF Extended
<1>9. /\ Memops[x] = low .. low + n - 1
      /\ DOMAIN bf2 = DOMAIN bf /\ bf2[b] = q2 /\ \A d \in DOMAIN bf : d # b => bf2[d] = bf[d]
  BY DEF Numbered, Replaced
<1> USE <1>1, <1>9
<1>2. /\ DOMAIN l = 1 .. k - 1 /\ DOMAIN l2 = 1 .. k /\ l2[k] = e /\ \A y \in DOMAIN l : l2[y] = l[y] /\ y # k /\ y \in DOMAIN l2
      /\ k \in DOMAIN l2 /\ k \in Nat
  BY <1>1 DEF Longer
<1>3. ASSUME NEW j \in a + 1 .. a + n
      PROVE  /\ q2[j].image = i /\ q2[j].memop = low + (j - a) - 1 /\ q2[j].addr = addr + q2[j].memop /\ q2[j].at = k
             /\ q2[j].memop \in Memops[x]
  <2>1. PICK g \in 1 .. n : j = a + g /\ g = j - a
    <3>1. j - a \in 1 .. n /\ j = a + (j - a)
      OBVIOUS
    <3> QED  BY <3>1
  <2>2. q2[j] = [image |-> i, memop |-> low + g - 1, addr |-> addr + (low + g - 1), at |-> k]
    BY <1>1, <2>1 DEF Extended
  <2>3. low + g - 1 \in low .. low + n - 1
    OBVIOUS
  <2> QED  BY <2>1, <2>2, <2>3
<1>4. /\ \A j \in 1 .. a + n : j \in 1 .. a \/ j \in a + 1 .. a + n
      /\ 1 .. a \subseteq 1 .. a + n /\ a + 1 .. a + n \subseteq 1 .. a + n
  OBVIOUS
<1>5. \A j \in 1 .. a : EntryRight(l, q, b, j) /\ q2[j] = q[j] /\ q[j].at # k
  <2>1. \A j \in 1 .. a : EntryRight(l, q, b, j)
    BY DEF EntriesRight
  <2> QED  BY <1>2, <2>1 DEF EntryRight, Extended
<1>6. ASSUME NEW d \in DOMAIN bf2, NEW j \in 1 .. Len(bf2[d]) PROVE EntryRight(l2, bf2[d], d, j)
  <2>1. CASE d # b
    <3>1. PICK p : p = bf[d]
      OBVIOUS
    <3>2. EntryRight(l, p, d, j) /\ bf2[d] = p
      BY <2>1, <3>1 DEF EntriesRight
    <3>3. p[j].at \in DOMAIN l /\ l2[p[j].at] = l[p[j].at] /\ p[j].at \in DOMAIN l2
      BY <1>2, <3>2 DEF EntryRight
    <3> QED  BY <3>2, <3>3 DEF EntryRight
  <2>2. CASE d = b /\ j \in 1 .. a
    <3>1. EntryRight(l, q, b, j) /\ q2[j] = q[j]
      BY <1>5, <2>2
    <3>2. q[j].at \in DOMAIN l /\ l2[q[j].at] = l[q[j].at] /\ q[j].at \in DOMAIN l2 /\ q[j].at # k
      BY <1>2, <3>1, Zenon DEF EntryRight
    <3>3. \A g \in 1 .. a + n : q2[g].at = q[j].at /\ q2[g].memop = q[j].memop => g = j
      <4> SUFFICES ASSUME NEW g \in 1 .. a + n, q2[g].at = q[j].at, q2[g].memop = q[j].memop PROVE g = j
        OBVIOUS
      <4>1. g \in 1 .. a /\ q2[g] = q[g]
        BY <1>3, <1>4, <1>5, <3>2
      <4> QED  BY <3>1, <4>1, Zenon DEF EntryRight
    <3>4. \A m \in Memops[l[q[j].at].index] : \E g \in 1 .. a + n : q2[g].at = q[j].at /\ q2[g].memop = m
      <4> SUFFICES ASSUME NEW m \in Memops[l[q[j].at].index]
                   PROVE  \E g \in 1 .. a + n : q2[g].at = q[j].at /\ q2[g].memop = m
        OBVIOUS
      <4>1. PICK g \in 1 .. a : q[g].at = q[j].at /\ q[g].memop = m
        BY <3>1, Zenon DEF EntryRight
      <4>2. g \in 1 .. a + n /\ q2[g] = q[g]
        BY <1>4, <1>5, <4>1
      <4> QED  BY <4>1, <4>2
    <3>5. PICK v, w : v = q2[j].at /\ w = l2[v]
      OBVIOUS
    <3>6. v = q[j].at /\ w = l[v] /\ v \in DOMAIN l2
      BY <3>1, <3>2, <3>5
    <3>7. q2[j].image = w.image /\ q2[j].memop \in Memops[w.index] /\ q2[j].addr = w.addr + q2[j].memop
          /\ b = BufferOf(w.thread, q2[j].image)
      BY <3>1, <3>6, Zenon DEF EntryRight
    <3>8. EntryRight(l2, q2, b, j)
      <4>1. Once(q2, v, j)
        BY <3>1, <3>3, <3>6 DEF Once
      <4>2. AllOf(q2, v, Memops[w.index])
        BY <3>1, <3>4, <3>6 DEF AllOf
      <4> QED  BY <3>5, <3>6, <3>7, <4>1, <4>2, EntryIs, Zenon
    <3> QED  BY <2>2, <3>8
  <2>3. CASE d = b /\ j \in a + 1 .. a + n
    <3>1. q2[j].at = k /\ q2[j].image = i /\ q2[j].memop \in Memops[x] /\ q2[j].addr = addr + q2[j].memop
      BY <1>3, <2>3
    <3>2. l2[k].thread = t /\ l2[k].image = i /\ l2[k].index = x /\ l2[k].addr = addr
      BY <1>2 DEF Of
    <3>3. \A g \in 1 .. a + n : q2[g].at = k /\ q2[g].memop = q2[j].memop => g = j
      <4> SUFFICES ASSUME NEW g \in 1 .. a + n, q2[g].at = k, q2[g].memop = q2[j].memop PROVE g = j
        OBVIOUS
      <4>1. g \in a + 1 .. a + n
        BY <1>4, <1>5
      <4>2. low + (g - a) - 1 = low + (j - a) - 1
        BY <1>3, <2>3, <4>1
      <4> QED  BY <2>3, <4>1, <4>2
    <3>4. \A m \in Memops[x] : \E g \in 1 .. a + n : q2[g].at = k /\ q2[g].memop = m
      <4> SUFFICES ASSUME NEW m \in low .. low + n - 1 PROVE \E g \in 1 .. a + n : q2[g].at = k /\ q2[g].memop = m
        OBVIOUS
      <4>1. PICK g : g = a + (m - low + 1)
        OBVIOUS
      <4>2. g \in a + 1 .. a + n /\ low + (g - a) - 1 = m
        BY <4>1
      <4>3. q2[g].at = k /\ q2[g].memop = m
        BY <1>3, <4>2
      <4> QED  BY <1>4, <4>2, <4>3
    <3>5. EntryRight(l2, q2, b, j)
      <4>1. PICK w : w = l2[k]
        OBVIOUS
      <4>2. q2[j].image = w.image /\ q2[j].memop \in Memops[w.index] /\ q2[j].addr = w.addr + q2[j].memop
            /\ b = BufferOf(w.thread, q2[j].image) /\ w.index = x
        BY <3>1, <3>2, <4>1
      <4>3. Once(q2, k, j)
        BY <3>3 DEF Once
      <4>4. AllOf(q2, k, Memops[w.index])
        BY <3>4, <4>2 DEF AllOf
      <4> QED  BY <1>2, <3>1, <4>1, <4>2, <4>3, <4>4, EntryIs
    <3> QED  BY <2>3, <3>5
  <2> QED  BY <1>4, <2>1, <2>2, <2>3
<1>7. ASSUME NEW i2, NEW m
      PROVE  Pending(q2, i2, m) = Pending(q, i2, m) \cup (IF i2 = i /\ m \in Memops[x] THEN {k} ELSE {})
  <2>1. ASSUME NEW y \in Pending(q2, i2, m)
        PROVE  y \in Pending(q, i2, m) \/ (i2 = i /\ m \in Memops[x] /\ y = k)
    <3>1. PICK j \in 1 .. a + n : q2[j].image = i2 /\ q2[j].memop = m /\ y = q2[j].at
      BY <2>1 DEF Pending
    <3>2. CASE j \in 1 .. a
      BY <1>5, <3>1, <3>2 DEF Pending
    <3>3. CASE j \in a + 1 .. a + n
      BY <1>3, <3>1, <3>3
    <3> QED  BY <1>4, <3>2, <3>3
  <2>2. ASSUME NEW y \in Pending(q, i2, m) PROVE y \in Pending(q2, i2, m)
    <3>1. PICK j \in 1 .. a : q[j].image = i2 /\ q[j].memop = m /\ y = q[j].at
      BY <2>2 DEF Pending
    <3> QED  BY <1>4, <1>5, <3>1 DEF Pending
  <2>3. ASSUME i2 = i, m \in Memops[x] PROVE k \in Pending(q2, i2, m)
    <3>1. PICK g : g = a + (m - low + 1)
      OBVIOUS
    <3>2. g \in a + 1 .. a + n /\ low + (g - a) - 1 = m
      <4>1. m \in low .. low + n - 1
        BY <2>3
      <4> QED  BY <3>1, <4>1
    <3>3. q2[g].image = i2 /\ q2[g].memop = m /\ q2[g].at = k /\ g \in 1 .. a + n
      BY <1>3, <1>4, <2>3, <3>2
    <3> QED  BY <3>3 DEF Pending
  <2> QED  BY <2>1, <2>2, <2>3
<1>8. MoreWait(q2, q, i, x, k)
  <2> SUFFICES ASSUME NEW i2, NEW m
               PROVE  /\ i2 = i /\ m \in Memops[x] => Pending(q2, i2, m) = Pending(q, i2, m) \cup {k}
                      /\ ~ (i2 = i /\ m \in Memops[x]) => Pending(q2, i2, m) = Pending(q, i2, m)
    BY DEF MoreWait
  <2>1. PICK P, P2 : P = Pending(q, i2, m) /\ P2 = Pending(q2, i2, m)
    OBVIOUS
  <2>2. P2 = P \cup (IF i2 = i /\ m \in Memops[x] THEN {k} ELSE {})
    BY <1>7, <2>1
  <2> QED  BY <2>1, <2>2
<1> QED  BY <1>1, <1>6, <1>8 DEF EntriesRight

\* What waits has not been seen, and nothing else has become visible.
LEMMA AccountedRun ==
    ASSUME DataInv, tool = "simulation", NEW l, NEW l2, NEW e, Longer(l, l2, e),
           NEW t \in allthreads, NEW i \in images, NEW x \in DOMAIN Memops, Of(e, t, i, x),
           NEW b, b = BufferOf(t, i), NEW bf, NEW bf2, NEW k, k = Len(l) + 1, \A d \in DOMAIN bf : d # b => bf2[d] = bf[d],
           \A u \in allthreads : \A j \in images : BufferOf(u, j) \in DOMAIN bf,
           NEW q, NEW q2, q = bf[b], q2 = bf2[b], MoreWait(q2, q, i, x, k),
           NEW g, NEW h, \A u \in allthreads : \A j \in images : h[Object(u, j)].stats = g[Object(u, j)].stats,
           Accounted(l, g, bf)
    PROVE  Accounted(l2, h, bf2)
<1> SUFFICES ASSUME NEW u \in allthreads, NEW j \in images, NEW m \in AllMemops
             PROVE  h[Object(u, j)].stats[m] =
                       RangeIn(l2, Executions(l2, u, j, BlockOf(m)) \ Pending(bf2[BufferOf(u, j)], j, m), m)
  BY DEF Accounted
<1>1. PICK E, P, E2, P2 : /\ E = Executions(l, u, j, BlockOf(m)) /\ P = Pending(bf[BufferOf(u, j)], j, m)
                          /\ E2 = Executions(l2, u, j, BlockOf(m)) /\ P2 = Pending(bf2[BufferOf(u, j)], j, m)
  OBVIOUS
<1>2. PICK S, S2 : S = E \ P /\ S2 = E2 \ P2
  OBVIOUS
<1>3. k = Len(l) + 1
  OBVIOUS
<1>4. h[Object(u, j)].stats[m] = RangeIn(l, S, m)
  BY <1>1, <1>2 DEF Accounted
<1>5. k \notin E /\ E \subseteq 1 .. Len(l)
  BY <1>1, <1>3, LongerExecutions DEF Executions, Longer
<1>6. S2 = S
  <2>1. CASE u = t /\ j = i /\ BlockOf(m) = x
    <3>1. E2 = E \cup {k}
      BY <1>1, <1>3, <2>1, LongerExecutions
    <3>2. m \in Memops[x]
      BY <2>1, BlockIs
    <3>3. P2 = P \cup {k}
      BY <1>1, <1>3, <2>1, <3>2 DEF MoreWait
    <3> QED  BY <1>2, <1>5, <3>1, <3>3
  <2>2. CASE ~ (u = t /\ j = i /\ BlockOf(m) = x)
    <3>1. E2 = E
      <4>1. ~ Of(e, u, j, BlockOf(m))
        BY <2>2 DEF Of
      <4> QED  BY <1>1, <4>1, LongerExecutions
    <3>2. P2 = P
      <4>1. CASE BufferOf(u, j) # b
        BY <1>1, <4>1
      <4>2. CASE BufferOf(u, j) = b
        <5>1. u = t
          BY <4>2, BufferThread
        <5>2. ~ (j = i /\ m \in Memops[x])
          BY <2>2, <5>1, BlockIs
        <5>3. Pending(q2, j, m) = Pending(q, j, m)
          BY <5>2 DEF MoreWait
        <5> QED  BY <1>1, <4>2, <5>3
      <4> QED  BY <4>1, <4>2
    <3> QED  BY <1>2, <3>1, <3>2
  <2> QED  BY <2>1, <2>2
<1>7. \A y \in S : l2[y].addr = l[y].addr
  BY <1>2, <1>5 DEF Longer
<1>8. RangeIn(l2, S, m) = RangeIn(l, S, m)
  BY <1>7, RangeSame
<1> QED  BY <1>1, <1>2, <1>4, <1>6, <1>8

\* Processing changes neither counters nor timers.
LEMMA StatsKept ==
    ASSUME DataInv, NEW l, NEW g, NEW h, HeapOk(g), OnlyStats(g, h), Shapes(g), CountersRight(l, g), Marked(g)
    PROVE  Shapes(h) /\ CountersRight(l, h) /\ Marked(h)
<1>1. /\ \A j \in Images : <<j, 0>> \in DOMAIN g
      /\ \A u \in allthreads : \A j \in images : Object(u, j) \in DOMAIN g
  BY DEF HeapOk
<1>2. Shapes(h)
  BY DEF Shapes, OnlyStats
<1>3. CountersRight(l, h)
  BY <1>1 DEF CountersRight, OnlyStats
<1>4. Marked(h)
  BY <1>1 DEF Marked, OnlyStats
<1> QED  BY <1>2, <1>3, <1>4

\* What a machine of the cache simulation has kept between two buffers.
MachineKept(l, s) ==
    /\ MachineOk(s) /\ Shapes(s.heap) /\ CountersRight(l, s.heap) /\ Marked(s.heap)
    /\ EntriesRight(l, s.buffers) /\ Accounted(l, s.heap, s.buffers)

LEMMA MachineStartsKept ==
    ASSUME DataInv, KeptInv, tool = "simulation", failed = "no", NEW l, l = log
    PROVE  MachineKept(l, Machine) /\ l \in Seq(Happening) /\ LogKnown(l)
<1>1. MachineOk(Machine) /\ Machine.heap = heap /\ Machine.buffers = buffers
  BY MachineStarts DEF Machine
<1> QED  BY <1>1 DEF KeptInv, DataInv, MachineKept

LEMMA MachineGoesOn ==
    ASSUME DataInv, tool = "simulation", NEW l, l \in Seq(Happening), LogKnown(l),
           NEW t \in allthreads, NEW i \in images, pc[t] # "fastdata",
           NEW p, MachineKept(l, p), NEW s, s = process_thread_buffer(p, i, t)
    PROVE  MachineKept(l, s)
<1>1. /\ MachineOk(p) /\ Shapes(p.heap) /\ CountersRight(l, p.heap) /\ Marked(p.heap)
      /\ EntriesRight(l, p.buffers) /\ Accounted(l, p.heap, p.buffers)
  BY DEF MachineKept
<1>2. MachineOk(s)
  BY <1>1, ProcessKeeps
<1>3. \A o \in DOMAIN p.heap : DOMAIN p.heap[o].stats = AllMemops
  BY <1>1 DEF Shapes
<1>4. OnlyStats(p.heap, s.heap) /\ EntriesRight(l, s.buffers) /\ Accounted(l, s.heap, s.buffers)
  BY <1>1, <1>3, ProcessKept
<1>5. HeapOk(p.heap)
  BY <1>1 DEF MachineOk
<1>6. PICK g, h : g = p.heap /\ h = s.heap
  OBVIOUS
<1>7. Shapes(h) /\ CountersRight(l, h) /\ Marked(h)
  BY <1>1, <1>4, <1>5, <1>6, StatsKept
<1> QED  BY <1>2, <1>4, <1>6, <1>7 DEF MachineKept

LEMMA RunKept ==
    ASSUME DataInv, KeptInv, NEW t \in Threads, NEW i \in images, NEW x \in Indices, NEW addr \in Addresses,
           Run(t, i, x, addr)
    PROVE  KeptInv'
<1> DEFINE o == Found(t, i)
           room == Len(buffers[heap[o].buffer]) + Cardinality(Memops[x]) <= Capacity
           s == IF tool = "simulation" /\ ~room THEN process_thread_buffer(Machine, i, t) ELSE Machine
           new == Filled(o, x, addr, Len(log) + 1)
           event == Event(t, i, "run", x, addr)
<1>1. /\ failed = "no" /\ pc[t] = "run" /\ tool \in {"counter", "simulation"} /\ Counting(x)
      /\ heap' = [s.heap EXCEPT ![o].counters[x] = @ + 1]
      /\ buffers' = IF tool = "simulation" THEN [s.buffers EXCEPT ![s.heap[o].buffer] = @ \o new] ELSE s.buffers
      /\ log' = Append(log, event)
      /\ UNCHANGED <<tool, images, allthreads, firstimage>>
  BY Zenon DEF Run, Managed, Counting
<1>2. t \in allthreads /\ o = Object(t, i) /\ tool \in OneObject
  BY <1>1, FoundIs, Zenon DEF OneObject
<1>3. PICK l, l2, e, h, bf2 : l = log /\ l2 = log' /\ e = event /\ h = heap' /\ bf2 = buffers'
  OBVIOUS
<1>4. /\ Of(e, t, i, x) /\ e.addr = addr /\ e.kind = "run" /\ e.thread = t /\ e.image = i /\ e.index = x
      /\ e \in Happening /\ l \in Seq(Happening)
  BY <1>3, MemopAssumption DEF Event, Of, Happening, DataInv, Registration
<1>5. Longer(l, l2, e)
  BY <1>1, <1>3, <1>4, AppendedLonger, Zenon
<1>6. LogKnown(l) /\ Shapes(heap) /\ CountersRight(l, heap) /\ Marked(heap)
  BY <1>3 DEF KeptInv
<1>7. LogKnown(l2)
  BY <1>1, <1>2, <1>4, <1>5, <1>6, RunKnown, Zenon
<1>8. /\ HeapOk(s.heap) /\ Shapes(s.heap) /\ CountersRight(l, s.heap) /\ Marked(s.heap)
      /\ tool = "simulation" => /\ MachineOk(s) /\ EntriesRight(l, s.buffers) /\ Accounted(l, s.heap, s.buffers)
                                /\ s = Machine \/ s = process_thread_buffer(Machine, i, t)
  <2>1. CASE tool = "simulation"
    <3>1. s = Machine \/ s = process_thread_buffer(Machine, i, t)
      OBVIOUS
    <3>2. PICK p : p = Machine
      OBVIOUS
    <3> HIDE DEF s
    <3>3. MachineKept(l, p) /\ l \in Seq(Happening) /\ LogKnown(l)
      BY <1>1, <1>3, <2>1, <3>2, MachineStartsKept
    <3>4. MachineKept(l, s)
      <4>1. CASE s = Machine
        BY <3>2, <3>3, <4>1
      <4>2. CASE s = process_thread_buffer(Machine, i, t)
        <5>1. s = process_thread_buffer(p, i, t) /\ pc[t] # "fastdata"
          BY <1>1, <3>2, <4>2
        <5> QED  BY <1>2, <2>1, <3>3, <5>1, MachineGoesOn
      <4> QED  BY <3>1, <4>1, <4>2
    <3> QED  BY <2>1, <3>1, <3>4 DEF MachineKept, MachineOk
  <2>2. CASE tool # "simulation"
    <3>1. s.heap = heap
      BY <2>2 DEF Machine
    <3> HIDE DEF s
    <3> QED  BY <1>6, <2>2, <3>1 DEF DataInv
  <2> QED  BY <2>1, <2>2
<1>9. (tool = "simulation" /\ room) => s = Machine
  OBVIOUS
<1> HIDE DEF s, room, event, new
<1>10. PICK g, bf : g = s.heap /\ bf = s.buffers
  OBVIOUS
<1>11. PICK c : c = [g[Object(t, i)].counters EXCEPT ![x] = @ + 1]
  OBVIOUS
<1>12. h = [g EXCEPT ![Object(t, i)] = [@ EXCEPT !.counters = c]]
  BY <1>1, <1>2, <1>3, <1>10, <1>11
<1>13. /\ Shapes(h) /\ CountersRight(l2, h) /\ Marked(h)
       /\ DOMAIN h = DOMAIN g /\ \A p \in DOMAIN g : h[p].stats = g[p].stats
  BY <1>1, <1>2, <1>4, <1>5, <1>8, <1>10, <1>11, <1>12, RunCounted
<1>14. TimersRight(l2, h)
  BY <1>2 DEF TimersRight
<1>15. ASSUME tool = "simulation" PROVE EntriesRight(l2, bf2) /\ Accounted(l2, h, bf2)
  <2>1. BuffersOk(g, bf) /\ HeapOk(g) /\ EntriesRight(l, bf) /\ Accounted(l, g, bf)
    BY <1>8, <1>10, <1>15 DEF MachineOk
  <2>2. PICK b : b = BufferOf(t, i)
    OBVIOUS
  <2>3. /\ b \in DOMAIN bf /\ g[Object(t, i)].buffer = b /\ bf[b] \in Seq(Entry)
        /\ \A u \in allthreads : \A j \in images : BufferOf(u, j) \in DOMAIN bf
    BY <1>2, <2>1, <2>2 DEF BuffersOk
  <2>4. x \in DOMAIN Memops
    BY <1>15, MemopAssumption DEF Indices
  <2>5. PICK low \in Nat : /\ Least(Memops[x]) = low /\ Memops[x] = low .. low + Cardinality(Memops[x]) - 1
                           /\ Cardinality(Memops[x]) \in Nat
    BY <2>4, BlockNumbers
  <2>6. PICK n \in Nat : n = Cardinality(Memops[x])
    BY <2>5
  <2>7. PICK k : k = Len(l) + 1
    OBVIOUS
  <2>8. k \in Nat /\ o \in Images \X Nat /\ o[1] = i
    BY <1>2, <1>5, <2>7, ObjectIs DEF Longer, DataInv, Registration
  <2>9. /\ new \in Seq(Entry) /\ Len(new) = n
        /\ \A j \in 1 .. n : new[j] = [image |-> i, memop |-> low + j - 1, addr |-> addr + (low + j - 1), at |-> k]
    <3>1. PICK oo : oo = o
      OBVIOUS
    <3>2. new = Filled(oo, x, addr, k)
      BY <1>3, <2>7, <3>1 DEF new
    <3>3. oo \in Images \X Nat /\ oo[1] = i
      BY <2>8, <3>1
    <3> HIDE DEF o
    <3>4. /\ Filled(oo, x, addr, k) \in Seq(Entry) /\ Len(Filled(oo, x, addr, k)) = Cardinality(Memops[x])
          /\ \A j \in 1 .. Cardinality(Memops[x]) : Filled(oo, x, addr, k)[j] = Fill(oo, Least(Memops[x]) + j - 1, addr, k)
      BY <2>4, <2>8, <3>3, FilledIs
    <3> QED  BY <2>5, <2>6, <3>2, <3>3, <3>4 DEF Fill
  <2>10. bf2 = [bf EXCEPT ![b] = bf[b] \o new]
    BY <1>1, <1>2, <1>3, <1>10, <1>15, <2>3
  <2>11. PICK q, w : q = bf[b] /\ w = new
    OBVIOUS
  <2>12. PICK q2 : q2 = q \o w
    OBVIOUS
  <2>13. PICK a \in Nat : a = Len(q)
    BY <2>3, <2>11
  <2>14. Len(q2) = a + n /\ (\A j \in 1 .. a : q2[j] = q[j]) /\ \A j \in 1 .. n : q2[a + j] = w[j]
    <3>1. q \in Seq(Entry) /\ w \in Seq(Entry) /\ Len(w) = n
      BY <2>3, <2>9, <2>11
    <3>2. Len(q \o w) = Len(q) + Len(w)
          /\ \A j \in 1 .. Len(q) + Len(w) : (q \o w)[j] = IF j <= Len(q) THEN q[j] ELSE w[j - Len(q)]
      BY <3>1
    <3>3. \A j \in 1 .. a : j \in 1 .. a + n /\ j <= a
      OBVIOUS
    <3>4. \A j \in 1 .. n : a + j \in 1 .. a + n /\ ~ (a + j <= a) /\ (a + j) - a = j
      OBVIOUS
    <3> QED  BY <2>12, <2>13, <3>1, <3>2, <3>3, <3>4
  <2>15. Extended(q2, q, a, n, i, low, addr, k)
    BY <2>7, <2>9, <2>11, <2>14 DEF Extended
  <2>16. DOMAIN bf2 = DOMAIN bf /\ bf2[b] = q2 /\ \A d \in DOMAIN bf : d # b => bf2[d] = bf[d]
    BY <2>3, <2>10, <2>11, <2>12
  <2>17. Memops[x] = low .. low + n - 1
    BY <2>5, <2>6
  <2>18. /\ EntriesRight(l2, bf2)
         /\ MoreWait(q2, q, i, x, k)
    <3>1. Numbered(x, low, n) /\ Replaced(bf2, bf, b, q2)
      BY <2>16, <2>17 DEF Numbered, Replaced
    <3>2. b \in DOMAIN bf /\ EntriesRight(l, bf) /\ q = bf[b]
      BY <2>1, <2>3, <2>11
    <3>3. Of(e, t, i, x) /\ e.addr = addr
      BY <1>4
    <3> HIDE DEF o
    <3> QED  BY <1>2, <1>5, <1>15, <2>2, <2>4, <2>7, <2>13, <2>15, <3>1, <3>2, <3>3, FilledEntries
  <2>19. Accounted(l2, h, bf2)
    <3>1. \A u \in allthreads : \A j \in images : h[Object(u, j)].stats = g[Object(u, j)].stats
      BY <1>13, <2>1 DEF HeapOk
    <3>2. MoreWait(q2, q, i, x, k) /\ q = bf[b] /\ q2 = bf2[b] /\ k = Len(l) + 1
      BY <2>7, <2>11, <2>16, <2>18
    <3>3. \A d \in DOMAIN bf : d # b => bf2[d] = bf[d]
      BY <2>16
    <3> HIDE DEF o
    <3> QED  BY <1>2, <1>4, <1>5, <1>15, <2>1, <2>2, <2>3, <2>4, <3>1, <3>2, <3>3, AccountedRun
  <2> QED  BY <2>18, <2>19
<1> QED  BY <1>1, <1>3, <1>7, <1>13, <1>14, <1>15, KeptAfter, Zenon

\* At exit the buffers of the executable's threads are processed.
LEMMA FlushedKept ==
    ASSUME DataInv, KeptInv, tool = "simulation", failed = "no", Executable \in images,
           \A t \in allthreads : pc[t] # "fastdata", NEW l, l = log
    PROVE  MachineKept(l, Flushed[Max(allthreads)])
<1> DEFINE top == Max(allthreads)
<1>1. top \in Nat
  BY FlushedRuns
<1>2. \A n \in 0 .. top : Flushed[n] = IF n = 0 THEN Machine
                                       ELSE IF n \in allthreads THEN process_thread_buffer(Flushed[n - 1], Executable, n)
                                       ELSE Flushed[n - 1]
  BY FlushedRuns
<1> HIDE DEF top
<1>3. MachineKept(l, Machine) /\ l \in Seq(Happening) /\ LogKnown(l)
  BY MachineStartsKept
<1> DEFINE K == {n \in 0 .. top : MachineKept(l, Flushed[n])}
<1>4. 0 \in K
  <2>1. Flushed[0] = Machine /\ 0 \in 0 .. top
    BY <1>1, <1>2
  <2> QED  BY <1>3, <2>1
<1>5. ASSUME NEW k \in 0 .. top - 1, k \in K PROVE k + 1 \in K
  <2>1. k + 1 \in 0 .. top /\ k + 1 # 0 /\ (k + 1) - 1 = k
    BY <1>1
  <2>2. Flushed[k + 1] = IF k + 1 \in allthreads THEN process_thread_buffer(Flushed[k], Executable, k + 1)
                         ELSE Flushed[k]
    BY <1>2, <2>1
  <2>3. PICK p, s, u : p = Flushed[k] /\ s = Flushed[k + 1] /\ u = k + 1
    OBVIOUS
  <2>4. MachineKept(l, p)
    BY <1>5, <2>3
  <2>5. CASE u \in allthreads
    <3>1. s = process_thread_buffer(p, Executable, u) /\ pc[u] # "fastdata"
      BY <2>2, <2>3, <2>5
    <3>2. MachineKept(l, s)
      BY <1>3, <2>4, <2>5, <3>1, MachineGoesOn
    <3> QED  BY <2>1, <2>3, <3>2
  <2>6. CASE u \notin allthreads
    <3>1. s = p
      BY <2>2, <2>3, <2>6
    <3> QED  BY <2>1, <2>3, <2>4, <3>1
  <2> QED  BY <2>5, <2>6
<1>6. top \in K
  <2> HIDE DEF K
  <2>1. 0 .. top \subseteq K
    BY <1>1, <1>4, <1>5, UpTo
  <2> QED  BY <1>1, <2>1
<1> QED  BY <1>6 DEF top

LEMMA ExitKept ==
    ASSUME DataInv, KeptInv, Exit
    PROVE  KeptInv'
<1> DEFINE s == IF tool = "simulation" THEN Flushed[Max(allthreads)] ELSE Machine
<1>1. /\ failed = "no" /\ Executable \in images
      /\ \A t \in Threads \ {Main} : pc[t] \in {"none", "done"}
      /\ heap' = s.heap /\ buffers' = s.buffers
      /\ UNCHANGED <<tool, log, images, allthreads, firstimage>>
  BY DEF Exit, Managed
<1>2. \A t \in allthreads : pc[t] # "fastdata"
  BY <1>1 DEF DataInv, Registration
<1>3. CASE tool = "simulation"
  <2>1. PICK l, h, bf : l = log /\ h = heap' /\ bf = buffers'
    OBVIOUS
  <2>2. MachineKept(l, s)
    BY <1>1, <1>2, <1>3, <2>1, FlushedKept
  <2> HIDE DEF s
  <2>3. Shapes(h) /\ CountersRight(l, h) /\ Marked(h) /\ EntriesRight(l, bf) /\ Accounted(l, h, bf)
    BY <1>1, <2>1, <2>2 DEF MachineKept
  <2>4. LogKnown(l) /\ l = log'
    BY <1>1, <2>1 DEF KeptInv
  <2>5. TimersRight(l, h)
    BY <1>3 DEF TimersRight, OneObject
  <2> QED  BY <1>1, <2>1, <2>3, <2>4, <2>5, KeptAfter
<1>4. CASE tool # "simulation"
  <2>1. UNCHANGED <<tool, heap, buffers, log, allthreads, images, firstimage>>
    BY <1>1, <1>4 DEF Machine
  <2> QED  BY <2>1, KeptSame
<1> QED  BY <1>3, <1>4

\* Every step keeps what has been kept.
LEMMA KeptStep == DataInv /\ KeptInv /\ [Next]_vars => KeptInv'
<1> SUFFICES ASSUME DataInv, KeptInv, [Next]_vars PROVE KeptInv'
  OBVIOUS
<1>1. ASSUME NEW i \in Images, LoadImage(i) PROVE KeptInv'
  BY <1>1, LoadImageKept
<1>2. ASSUME NEW t \in Threads, Create(t) \/ Finish(t) \/ FastAddThread(t) PROVE KeptInv'
  <2>1. UNCHANGED <<tool, heap, buffers, log, allthreads, images, firstimage>>
    BY <1>2 DEF Create, Finish, FastAddThread, Managed
  <2> QED  BY <2>1, KeptSame
<1>3. ASSUME NEW t \in Threads, ThreadInit(t) PROVE KeptInv'
  BY <1>3, ThreadInitKept
<1>4. ASSUME NEW t \in Threads, NEW i \in images, NEW x \in Indices, NEW addr \in Addresses, Run(t, i, x, addr)
      PROVE KeptInv'
  BY <1>4, RunKept
<1>5. ASSUME NEW t \in Threads, NEW i \in images, NEW x \in Indices, Enter(t, i, x) \/ Leave(t, i, x)
      PROVE KeptInv'
  BY <1>5, TimedKept
<1>6. CASE Exit
  BY <1>6, ExitKept
<1>7. CASE UNCHANGED vars
  <2>1. UNCHANGED <<tool, heap, buffers, log, allthreads, images, firstimage>>
    BY <1>7 DEF vars
  <2> QED  BY <2>1, KeptSame
<1>8. \/ \E i \in Images : LoadImage(i)
      \/ \E t \in Threads : Create(t) \/ ThreadInit(t) \/ FastAddThread(t) \/ Finish(t)
      \/ \E t \in Threads, i \in images :
            \/ \E x \in Indices, addr \in Addresses : Run(t, i, x, addr)
            \/ \E x \in Indices : Enter(t, i, x) \/ Leave(t, i, x)
      \/ Exit
      \/ UNCHANGED vars
  BY DEF Next, Stopped
<1> QED  BY <1>1, <1>2, <1>3, <1>4, <1>5, <1>6, <1>7, <1>8

LEMMA KeptInvariance == Spec => [](DataInv /\ KeptInv)
<1>1. Init => DataInv /\ KeptInv
  BY InitData, InitKept
<1>2. (DataInv /\ KeptInv) /\ [Next]_vars => (DataInv /\ KeptInv)'
  BY StepKeeps, KeptStep
<1> QED  BY <1>1, <1>2, PTL DEF Spec

\* An access that left no entry anywhere has been seen: when one of a block's
\* memory instructions waits, they all do, in the buffer of the thread and image.
LEMMA ChargedIs ==
    ASSUME DataInv, KeptInv, tool = "simulation", NEW t \in allthreads, NEW i \in images, NEW m \in AllMemops
    PROVE  Charged(t, i, BlockOf(m)) = Executions(log, t, i, BlockOf(m)) \ Pending(buffers[BufferOf(t, i)], i, m)
<1>1. EntriesRight(log, buffers) /\ BuffersOk(heap, buffers)
  BY DEF KeptInv, DataInv
<1>2. PICK x : x = BlockOf(m)
  OBVIOUS
<1>3. m \in Memops[x]
  BY <1>2, BlockIs
<1>4. BufferOf(t, i) \in DOMAIN buffers /\ \A b \in DOMAIN buffers : DOMAIN buffers[b] = 1 .. Len(buffers[b])
  BY <1>1 DEF BuffersOk
<1>5. ASSUME NEW k \in Executions(log, t, i, x) PROVE k \in Waiting <=> k \in Pending(buffers[BufferOf(t, i)], i, m)
  <2>1. k \in DOMAIN log /\ log[k].thread = t /\ log[k].image = i /\ log[k].index = x
    BY DEF Executions
  <2>2. ASSUME k \in Pending(buffers[BufferOf(t, i)], i, m) PROVE k \in Waiting
    BY <1>4, <2>1, <2>2 DEF Waiting, Pending
  <2>3. ASSUME k \in Waiting PROVE k \in Pending(buffers[BufferOf(t, i)], i, m)
    <3>1. PICK b \in DOMAIN buffers : \E j \in 1 .. Len(buffers[b]) : buffers[b][j].at = k
      BY <1>4, <2>3 DEF Waiting
    <3>2. PICK q : q = buffers[b]
      OBVIOUS
    <3>3. PICK j \in 1 .. Len(q) : q[j].at = k
      BY <3>1, <3>2
    <3>4. \A h \in 1 .. Len(q) : EntryRight(log, q, b, h)
      BY <1>1, <3>2 DEF EntriesRight
    <3>5. EntryRight(log, q, b, j)
      BY <3>3, <3>4
    <3>6. b = BufferOf(t, i) /\ \E h \in 1 .. Len(q) : q[h].at = k /\ q[h].memop = m
      BY <1>3, <2>1, <3>3, <3>5 DEF EntryRight
    <3>7. PICK h \in 1 .. Len(q) : q[h].at = k /\ q[h].memop = m
      BY <3>6
    <3>8. q[h].image = i
      BY <2>1, <3>4, <3>7 DEF EntryRight
    <3> QED  BY <3>2, <3>6, <3>7, <3>8 DEF Pending
  <2> QED  BY <2>2, <2>3
<1>6. Charged(t, i, x) = Executions(log, t, i, x) \ Waiting
  BY DEF Charged, Executions
<1> QED  BY <1>2, <1>5, <1>6

\* However threads come and buffers are processed, every execution is in the
\* counter of its thread and image and nowhere else, and every access has been
\* seen by its instruction, or waits in its buffer (NothingLost; datagen
\* functions, process_thread_buffer, Refresh, ProcessBuffer).
THEOREM NothingIsLost == Spec => []NothingLost
<1>1. DataInv /\ KeptInv => NothingLost
  <2> SUFFICES ASSUME DataInv, KeptInv, NEW t \in allthreads, NEW i \in images
               PROVE  /\ \A x \in Indices : Counting(x) => heap[Own(t, i)].counters[x] = Count(Len(log), t, i, "run", x)
                      /\ tool = "simulation" =>
                            \A m \in AllMemops : heap[Own(t, i)].stats[m] = RangeOf(Charged(t, i, BlockOf(m)), m)
    BY DEF NothingLost, Counting
  <2>1. Own(t, i) = Object(t, i) /\ DOMAIN log = 1 .. Len(log)
    BY DEF DataInv, Registration, Own
  <2>2. ASSUME NEW x \in Indices, Counting(x)
        PROVE  heap[Object(t, i)].counters[x] = Count(Len(log), t, i, "run", x)
    <3> DEFINE R == {j \in 1 .. Len(log) : log[j].thread = t /\ log[j].image = i /\ log[j].kind = "run" /\ log[j].index = x}
    <3>1. Count(Len(log), t, i, "run", x) = Cardinality(R)
      BY DEF Count
    <3>2. LogKnown(log)
      BY DEF KeptInv
    <3>3. CASE tool \in OneObject
      <4>1. R = Executions(log, t, i, x)
        BY <2>1, <3>2, <3>3 DEF LogKnown, Executions
      <4> QED  BY <2>2, <3>1, <3>3, <4>1 DEF KeptInv, CountersRight
    <3>4. CASE tool \notin OneObject
      <4>1. R = {}
        BY <2>1, <3>2, <3>4 DEF LogKnown
      <4>2. heap[Object(t, i)].counters[x] = 0
        BY <2>2, <3>4 DEF KeptInv, Shapes, Led, DataInv, HeapOk
      <4> QED  BY <3>1, <4>1, <4>2, FS_EmptySet
    <3> QED  BY <3>3, <3>4
  <2>3. ASSUME tool = "simulation", NEW m \in AllMemops
        PROVE  heap[Object(t, i)].stats[m] = RangeOf(Charged(t, i, BlockOf(m)), m)
    <3>1. heap[Object(t, i)].stats[m] =
              RangeIn(log, Executions(log, t, i, BlockOf(m)) \ Pending(buffers[BufferOf(t, i)], i, m), m)
      BY <2>3 DEF KeptInv, Accounted
    <3>2. \A S : RangeOf(S, m) = RangeIn(log, S, m)
      BY DEF RangeOf, RangeIn
    <3> QED  BY <2>3, <3>1, <3>2, ChargedIs
  <2> QED  BY <2>1, <2>2, <2>3
<1> QED  BY <1>1, KeptInvariance, PTL

-----------------------------------------------------------------------------
(* Finite sums (SumFunctionOnSet).                                         *)

\* Induction over the subsets of a finite set.
LEMMA SubsetInduction ==
    ASSUME NEW S, IsFiniteSet(S), NEW P, {} \in P,
           \A T \in SUBSET S : \A x \in S \ T : T \in P => T \cup {x} \in P
    PROVE  S \in P
<1> DEFINE n == Cardinality(S)
           K == {k \in 0 .. n : \A T \in SUBSET S : Cardinality(T) = k => T \in P}
<1>1. n \in Nat
  BY FS_CardinalityType
<1>2. \A T \in SUBSET S : IsFiniteSet(T)
  BY FS_Subset
<1>3. 0 \in K
  <2>1. \A T \in SUBSET S : Cardinality(T) = 0 => T = {}
    BY <1>2, FS_EmptySet
  <2> QED  BY <1>1, <2>1
<1>4. ASSUME NEW k \in 0 .. n - 1, k \in K PROVE k + 1 \in K
  <2>1. ASSUME NEW T \in SUBSET S, Cardinality(T) = k + 1 PROVE T \in P
    <3>1. IsFiniteSet(T) /\ k + 1 # 0
      BY <1>1, <1>2
    <3>2. PICK x \in T : TRUE
      BY <2>1, <3>1, FS_EmptySet
    <3>3. Cardinality(T \ {x}) = k
      <4>1. Cardinality(T \ {x}) = Cardinality(T) - 1
        BY <3>1, FS_RemoveElement
      <4> QED  BY <2>1, <4>1
    <3>4. T \ {x} \in P
      BY <1>4, <3>3
    <3>5. (T \ {x}) \cup {x} = T /\ x \in S \ (T \ {x}) /\ T \ {x} \in SUBSET S
      BY <3>2
    <3> QED  BY <3>4, <3>5
  <2> QED  BY <1>1, <2>1
<1>5. 0 .. n \subseteq K
  <2> HIDE DEF K, n
  <2> QED  BY <1>1, <1>3, <1>4, UpTo
<1> QED  BY <1>1, <1>5

\* The partial sums of a function.
First(s) == CHOOSE x \in s : TRUE
Partial(f, it, S) == it = [s \in SUBSET S |-> IF s = {} THEN 0 ELSE f[First(s)] + it[s \ {First(s)}]]

LEMMA SumIs ==
    ASSUME NEW f, NEW S
    PROVE  \E it : SumFunctionOnSet(f, S) = it[S] /\ it = CHOOSE g : Partial(f, g, S)
BY DEF SumFunctionOnSet, FoldFunctionOnSet, MapThenFoldSet, Partial, First

\* There are partial sums for every subset of a finite set.
LEMMA PartialExists ==
    ASSUME NEW f, NEW S, IsFiniteSet(S)
    PROVE  \E it : Partial(f, it, S)
<1> DEFINE Rule(it, s) == IF s = {} THEN 0 ELSE f[First(s)] + it[s \ {First(s)}]
           n == Cardinality(S)
           Small(k) == {s \in SUBSET S : Cardinality(s) <= k}
           K == {k \in 0 .. n : \E it : \A s \in Small(k) : it[s] = Rule(it, s)}
<1>1. \A s : s # {} => First(s) \in s
  BY DEF First
<1>2. n \in Nat /\ \A s \in SUBSET S : IsFiniteSet(s) /\ Cardinality(s) \in 0 .. n
  <2>1. \A s \in SUBSET S : IsFiniteSet(s) /\ Cardinality(s) <= Cardinality(S)
    BY FS_Subset
  <2>2. n \in Nat /\ \A s \in SUBSET S : Cardinality(s) \in Nat
    BY <2>1, FS_CardinalityType
  <2> QED  BY <2>1, <2>2
<1>3. \A s \in SUBSET S : s # {} => /\ s \ {First(s)} \in SUBSET S
                                    /\ Cardinality(s \ {First(s)}) = Cardinality(s) - 1
  BY <1>1, <1>2, FS_RemoveElement
<1>4. 0 \in K
  <2> DEFINE it == [s \in SUBSET S |-> 0]
  <2>1. \A s \in Small(0) : s = {}
    BY <1>2, FS_EmptySet
  <2>2. \A s \in Small(0) : it[s] = Rule(it, s)
    BY <2>1
  <2> HIDE DEF it, Rule, Small
  <2> QED  BY <1>2, <2>2
<1>5. ASSUME NEW k \in 0 .. n - 1, k \in K PROVE k + 1 \in K
  <2>1. PICK it : \A s \in Small(k) : it[s] = Rule(it, s)
    BY <1>5
  <2> DEFINE up == [s \in SUBSET S |-> IF Cardinality(s) <= k THEN it[s] ELSE Rule(it, s)]
  <2>2. ASSUME NEW s \in Small(k + 1) PROVE up[s] = Rule(up, s)
    <3>1. up[s] = Rule(it, s)
      BY <2>1
    <3>2. s # {} => s \ {First(s)} \in SUBSET S /\ Cardinality(s \ {First(s)}) <= k
      <4>1. s \in SUBSET S /\ Cardinality(s) <= k + 1 /\ Cardinality(s) \in Nat
        BY <1>2
      <4> QED  BY <1>3, <4>1
    <3>3. s # {} => up[s \ {First(s)}] = it[s \ {First(s)}]
      BY <3>2
    <3> QED  BY <3>1, <3>3
  <2>3. k + 1 \in 0 .. n
    BY <1>2
  <2> HIDE DEF up, Rule, Small
  <2> QED  BY <2>2, <2>3
<1>6. n \in K
  <2> HIDE DEF K, n
  <2>1. 0 .. n \subseteq K
    BY <1>2, <1>4, <1>5, UpTo
  <2> QED  BY <1>2, <2>1
<1>7. PICK it : \A s \in SUBSET S : it[s] = Rule(it, s)
  <2>1. \A s \in SUBSET S : s \in Small(n)
    BY <1>2
  <2>2. \E it : \A s \in Small(n) : it[s] = Rule(it, s)
    BY <1>6
  <2> HIDE DEF Small, Rule
  <2> QED  BY <2>1, <2>2
<1> DEFINE all == [s \in SUBSET S |-> it[s]]
<1>8. \A s \in SUBSET S : all[s] = Rule(all, s)
  BY <1>3, <1>7
<1>9. all = [s \in SUBSET S |-> all[s]]
  OBVIOUS
<1>10. all = [s \in SUBSET S |-> Rule(all, s)]
  <2> HIDE DEF all, Rule
  <2> QED  BY <1>8, <1>9
<1> QED  BY <1>10 DEF Partial

\* The partial sums over two sets agree on what is in both.
LEMMA PartialAgree ==
    ASSUME NEW f, NEW S, IsFiniteSet(S), NEW T \in SUBSET S, NEW i1, Partial(f, i1, S), NEW i2, Partial(f, i2, T)
    PROVE  i1[T] = i2[T]
<1> DEFINE n == Cardinality(T)
           K == {k \in 0 .. n : \A s \in SUBSET T : Cardinality(s) = k => i1[s] = i2[s]}
<1>1. \A s : s # {} => First(s) \in s
  BY DEF First
<1>2. IsFiniteSet(T) /\ n \in Nat /\ \A s \in SUBSET T : IsFiniteSet(s)
  BY FS_Subset, FS_CardinalityType
<1>3. \A s \in SUBSET T : s # {} => /\ s \ {First(s)} \in SUBSET T
                                    /\ Cardinality(s \ {First(s)}) = Cardinality(s) - 1
  BY <1>1, <1>2, FS_RemoveElement
<1>4. \A s \in SUBSET T : /\ i1[s] = IF s = {} THEN 0 ELSE f[First(s)] + i1[s \ {First(s)}]
                          /\ i2[s] = IF s = {} THEN 0 ELSE f[First(s)] + i2[s \ {First(s)}]
  <2>1. \A s \in SUBSET S : i1[s] = IF s = {} THEN 0 ELSE f[First(s)] + i1[s \ {First(s)}]
    BY DEF Partial
  <2>2. \A s \in SUBSET T : i2[s] = IF s = {} THEN 0 ELSE f[First(s)] + i2[s \ {First(s)}]
    BY DEF Partial
  <2>3. \A s \in SUBSET T : s \in SUBSET S
    OBVIOUS
  <2> QED  BY <2>1, <2>2, <2>3
<1>5. 0 \in K
  <2>1. \A s \in SUBSET T : Cardinality(s) = 0 => s = {}
    BY <1>2, FS_EmptySet
  <2> QED  BY <1>2, <1>4, <2>1
<1>6. ASSUME NEW k \in 0 .. n - 1, k \in K PROVE k + 1 \in K
  <2>1. ASSUME NEW s \in SUBSET T, Cardinality(s) = k + 1 PROVE i1[s] = i2[s]
    <3>1. s # {}
      BY <1>2, <2>1, FS_EmptySet
    <3>2. Cardinality(s \ {First(s)}) = k /\ s \ {First(s)} \in SUBSET T
      BY <1>2, <1>3, <2>1, <3>1
    <3>3. i1[s \ {First(s)}] = i2[s \ {First(s)}]
      BY <1>6, <3>2
    <3> QED  BY <1>4, <3>1, <3>3
  <2> QED  BY <1>2, <2>1
<1>7. n \in K
  <2> HIDE DEF K, n
  <2>1. 0 .. n \subseteq K
    BY <1>2, <1>5, <1>6, UpTo
  <2> QED  BY <1>2, <2>1
<1> QED  BY <1>7

\* A sum is nothing, or the value of one member and the sum of the others.
LEMMA SumEmpty ==
    ASSUME NEW f
    PROVE  SumFunctionOnSet(f, {}) = 0
<1>1. PICK it : SumFunctionOnSet(f, {}) = it[{}] /\ it = CHOOSE g : Partial(f, g, {})
  BY SumIs
<1>2. Partial(f, it, {})
  BY <1>1, PartialExists, FS_EmptySet
<1> QED  BY <1>1, <1>2 DEF Partial

LEMMA SumFirst ==
    ASSUME NEW f, NEW S, IsFiniteSet(S), S # {}
    PROVE  \E x \in S : SumFunctionOnSet(f, S) = f[x] + SumFunctionOnSet(f, S \ {x})
<1> DEFINE x == First(S)
           T == S \ {x}
<1>1. x \in S /\ T \in SUBSET S /\ IsFiniteSet(T)
  BY FS_Subset DEF First
<1>2. PICK i1 : SumFunctionOnSet(f, S) = i1[S] /\ i1 = CHOOSE g : Partial(f, g, S)
  BY SumIs
<1>3. Partial(f, i1, S)
  BY <1>2, PartialExists
<1> HIDE DEF T
<1>4. PICK i2 : SumFunctionOnSet(f, T) = i2[T] /\ i2 = CHOOSE g : Partial(f, g, T)
  BY SumIs
<1>5. Partial(f, i2, T)
  BY <1>1, <1>4, PartialExists
<1>6. i1[T] = i2[T]
  BY <1>1, <1>3, <1>5, PartialAgree
<1>7. i1[S] = f[x] + i1[T]
  <2>1. S \in SUBSET S
    OBVIOUS
  <2> QED  BY <1>3, <2>1 DEF Partial, T
<1> QED  BY <1>1, <1>2, <1>4, <1>6, <1>7 DEF T

\* A sum of numbers is a number.
LEMMA SumNumber ==
    ASSUME NEW S, IsFiniteSet(S), NEW f, \A x \in S : f[x] \in Int
    PROVE  SumFunctionOnSet(f, S) \in Int
<1> DEFINE Sum(T) == SumFunctionOnSet(f, T)
           n == Cardinality(S)
           K == {k \in 0 .. n : \A T \in SUBSET S : Cardinality(T) = k => Sum(T) \in Int}
<1>1. n \in Nat /\ \A T \in SUBSET S : IsFiniteSet(T)
  BY FS_Subset, FS_CardinalityType
<1>2. Sum({}) = 0
  BY SumEmpty
<1>3. \A T \in SUBSET S : T # {} => \E x \in T : Sum(T) = f[x] + Sum(T \ {x})
  BY <1>1, SumFirst
<1> HIDE DEF Sum
<1>4. \A T \in SUBSET S : \A x \in T : Cardinality(T \ {x}) = Cardinality(T) - 1 /\ T \ {x} \in SUBSET S
  BY <1>1, FS_RemoveElement
<1>5. 0 \in K
  <2>1. \A T \in SUBSET S : Cardinality(T) = 0 => T = {}
    BY <1>1, FS_EmptySet
  <2> QED  BY <1>1, <1>2, <2>1
<1>6. ASSUME NEW k \in 0 .. n - 1, k \in K PROVE k + 1 \in K
  <2>1. ASSUME NEW T \in SUBSET S, Cardinality(T) = k + 1 PROVE Sum(T) \in Int
    <3>1. T # {}
      BY <1>1, <2>1, FS_EmptySet
    <3>2. PICK y \in T : Sum(T) = f[y] + Sum(T \ {y})
      BY <1>3, <3>1
    <3>3. Cardinality(T \ {y}) = Cardinality(T) - 1 /\ T \ {y} \in SUBSET S
      BY <1>4
    <3>4. Cardinality(T \ {y}) = k
      BY <2>1, <3>3
    <3>5. Sum(T \ {y}) \in Int
      BY <1>6, <3>3, <3>4
    <3> QED  BY <3>2, <3>5
  <2> QED  BY <1>1, <2>1
<1>7. n \in K
  <2> HIDE DEF K, n
  <2>1. 0 .. n \subseteq K
    BY <1>1, <1>5, <1>6, UpTo
  <2> QED  BY <1>1, <2>1
<1> QED  BY <1>7 DEF Sum

\* Any member may be taken out of a sum.
LEMMA SumOut ==
    ASSUME NEW S, IsFiniteSet(S), NEW f, \A x \in S : f[x] \in Int
    PROVE  \A x \in S : SumFunctionOnSet(f, S) = f[x] + SumFunctionOnSet(f, S \ {x})
<1> DEFINE Sum(T) == SumFunctionOnSet(f, T)
           Right(T) == \A x \in T : Sum(T) = f[x] + Sum(T \ {x})
           n == Cardinality(S)
           K == {k \in 0 .. n : \A T \in SUBSET S : Cardinality(T) = k => Right(T)}
<1>1. n \in Nat /\ \A T \in SUBSET S : IsFiniteSet(T)
  BY FS_Subset, FS_CardinalityType
<1>2. \A T \in SUBSET S : Sum(T) \in Int
  BY <1>1, SumNumber
<1>3. \A T \in SUBSET S : T # {} => \E x \in T : Sum(T) = f[x] + Sum(T \ {x})
  BY <1>1, SumFirst
<1> HIDE DEF Sum
<1>4. \A T \in SUBSET S : \A x \in T : Cardinality(T \ {x}) = Cardinality(T) - 1 /\ T \ {x} \in SUBSET S
  BY <1>1, FS_RemoveElement
<1>5. 0 \in K
  <2>1. \A T \in SUBSET S : Cardinality(T) = 0 => T = {}
    BY <1>1, FS_EmptySet
  <2> QED  BY <1>1, <2>1
<1>6. ASSUME NEW k \in 0 .. n - 1, k \in K PROVE k + 1 \in K
  <2>1. ASSUME NEW T \in SUBSET S, Cardinality(T) = k + 1 PROVE Right(T)
    <3>1. T # {}
      BY <1>1, <2>1, FS_EmptySet
    <3>2. PICK y \in T : Sum(T) = f[y] + Sum(T \ {y})
      BY <1>3, <3>1
    <3>3. ASSUME NEW x \in T PROVE Cardinality(T \ {x}) = k /\ T \ {x} \in SUBSET S
      <4>1. Cardinality(T \ {x}) = Cardinality(T) - 1 /\ T \ {x} \in SUBSET S
        BY <1>4
      <4> QED  BY <2>1, <4>1
    <3>4. \A x \in T : Right(T \ {x})
      <4> HIDE DEF Right
      <4> QED  BY <1>6, <3>3
    <3>5. ASSUME NEW x \in T, x # y PROVE Sum(T) = f[x] + Sum(T \ {x})
      <4> DEFINE U == (T \ {y}) \ {x}
      <4>1. (T \ {x}) \ {y} = U /\ x \in T \ {y} /\ y \in T \ {x} /\ U \in SUBSET S
        BY <3>5
      <4>2. PICK z : z = Sum(U)
        OBVIOUS
      <4>3. Sum(T \ {y}) = f[x] + z
        BY <3>4, <4>1, <4>2
      <4>4. Sum(T \ {x}) = f[y] + z
        BY <3>4, <4>1, <4>2
      <4>5. z \in Int /\ f[x] \in Int /\ f[y] \in Int
        BY <1>2, <4>1, <4>2
      <4>6. f[y] + (f[x] + z) = f[x] + (f[y] + z)
        BY <4>5
      <4> QED  BY <3>2, <4>3, <4>4, <4>6
    <3> QED  BY <3>2, <3>5
  <2> QED  BY <1>1, <2>1
<1>7. n \in K
  <2> HIDE DEF K, n
  <2>1. 0 .. n \subseteq K
    BY <1>1, <1>5, <1>6, UpTo
  <2> QED  BY <1>1, <2>1
<1> QED  BY <1>7 DEF Sum

\* One member more.
LEMMA SumIn ==
    ASSUME NEW S, IsFiniteSet(S), NEW x, x \notin S, NEW T, T = S \cup {x}, NEW f, \A y \in T : f[y] \in Int
    PROVE  SumFunctionOnSet(f, T) = f[x] + SumFunctionOnSet(f, S)
<1>1. IsFiniteSet(T)
  BY FS_AddElement
<1>2. T \ {x} = S /\ x \in T
  OBVIOUS
<1>3. SumFunctionOnSet(f, T) = f[x] + SumFunctionOnSet(f, T \ {x})
  BY <1>1, <1>2, SumOut
<1> QED  BY <1>2, <1>3

\* Sums are of what is added.
LEMMA SumSame ==
    ASSUME NEW S, IsFiniteSet(S), NEW f, NEW g, \A x \in S : f[x] \in Int /\ g[x] = f[x]
    PROVE  SumFunctionOnSet(g, S) = SumFunctionOnSet(f, S)
<1> DEFINE P == {T \in SUBSET S : SumFunctionOnSet(g, T) = SumFunctionOnSet(f, T)}
<1>1. {} \in P
  BY SumEmpty
<1>2. ASSUME NEW T \in SUBSET S, NEW x \in S \ T, T \in P PROVE T \cup {x} \in P
  <2>1. PICK U : U = T \cup {x}
    OBVIOUS
  <2>2. IsFiniteSet(T) /\ x \notin T /\ U \in SUBSET S /\ \A y \in U : f[y] \in Int /\ g[y] \in Int
    BY <2>1, FS_Subset
  <2>3. SumFunctionOnSet(f, U) = f[x] + SumFunctionOnSet(f, T)
    BY <2>1, <2>2, SumIn
  <2>4. SumFunctionOnSet(g, U) = g[x] + SumFunctionOnSet(g, T)
    BY <2>1, <2>2, SumIn
  <2> QED  BY <1>2, <2>1, <2>2, <2>3, <2>4
<1>3. S \in P
  <2> HIDE DEF P
  <2> QED  BY <1>1, <1>2, SubsetInduction
<1> QED  BY <1>3

\* Of sums of natural numbers.
LEMMA SumNatural ==
    ASSUME NEW S, IsFiniteSet(S), NEW f, \A x \in S : f[x] \in Nat
    PROVE  SumFunctionOnSet(f, S) \in Nat /\ \A x \in S : f[x] <= SumFunctionOnSet(f, S)
<1> DEFINE P == {T \in SUBSET S : SumFunctionOnSet(f, T) \in Nat}
<1>1. {} \in P
  BY SumEmpty
<1>2. ASSUME NEW T \in SUBSET S, NEW x \in S \ T, T \in P PROVE T \cup {x} \in P
  <2>1. PICK U : U = T \cup {x}
    OBVIOUS
  <2>2. IsFiniteSet(T) /\ x \notin T /\ U \in SUBSET S /\ \A y \in U : f[y] \in Int
    BY <2>1, FS_Subset
  <2>3. SumFunctionOnSet(f, U) = f[x] + SumFunctionOnSet(f, T)
    BY <2>1, <2>2, SumIn
  <2>4. f[x] \in Nat /\ SumFunctionOnSet(f, T) \in Nat
    BY <1>2
  <2> QED  BY <2>1, <2>2, <2>3, <2>4
<1>3. \A T \in SUBSET S : IsFiniteSet(T) /\ SumFunctionOnSet(f, T) \in Nat
  <2>1. ASSUME NEW U \in SUBSET S PROVE IsFiniteSet(U) /\ U \in P
    <3>1. IsFiniteSet(U)
      BY FS_Subset
    <3>2. {} \in P /\ \A T \in SUBSET U : \A x \in U \ T : T \in P => T \cup {x} \in P
      BY <1>1, <1>2
    <3> HIDE DEF P
    <3> QED  BY <3>1, <3>2, SubsetInduction
  <2> QED  BY <2>1
<1>4. ASSUME NEW x \in S PROVE f[x] <= SumFunctionOnSet(f, S)
  <2>1. SumFunctionOnSet(f, S) = f[x] + SumFunctionOnSet(f, S \ {x})
    BY SumOut
  <2>2. PICK z : z = SumFunctionOnSet(f, S \ {x})
    OBVIOUS
  <2>3. z \in Nat /\ f[x] \in Nat
    BY <1>3, <2>2
  <2> QED  BY <2>1, <2>2, <2>3
<1> QED  BY <1>3, <1>4

\* The same number, added up.
LEMMA SumConstant ==
    ASSUME NEW S, IsFiniteSet(S), NEW c \in Nat, NEW f, \A x \in S : f[x] = c
    PROVE  SumFunctionOnSet(f, S) = Cardinality(S) * c
<1> DEFINE P == {T \in SUBSET S : SumFunctionOnSet(f, T) = Cardinality(T) * c}
<1>1. {} \in P
  BY SumEmpty, FS_EmptySet
<1>2. ASSUME NEW T \in SUBSET S, NEW x \in S \ T, T \in P PROVE T \cup {x} \in P
  <2>1. PICK U : U = T \cup {x}
    OBVIOUS
  <2>2. IsFiniteSet(T) /\ x \notin T /\ U \in SUBSET S /\ \A y \in U : f[y] \in Int
    BY <2>1, FS_Subset
  <2>3. SumFunctionOnSet(f, U) = f[x] + SumFunctionOnSet(f, T)
    BY <2>1, <2>2, SumIn
  <2>4. Cardinality(U) = Cardinality(T) + 1 /\ Cardinality(T) \in Nat
    BY <2>1, <2>2, FS_AddElement, FS_CardinalityType
  <2>5. PICK n \in Nat : n = Cardinality(T)
    BY <2>4
  <2>6. (n + 1) * c = c + n * c
    OBVIOUS
  <2>7. SumFunctionOnSet(f, U) = Cardinality(U) * c
    BY <1>2, <2>3, <2>4, <2>5, <2>6
  <2> QED  BY <2>1, <2>2, <2>7
<1>3. S \in P
  <2> HIDE DEF P
  <2> QED  BY <1>1, <1>2, SubsetInduction
<1> QED  BY <1>3

\* A sum by parts.
PartOf(L, cell, p) == {k \in L : cell[k] = p}
LEMMA SumByParts ==
    ASSUME NEW L, IsFiniteSet(L), NEW G, IsFiniteSet(G), NEW cell, \A k \in L : cell[k] \in G,
           NEW h, \A k \in L : h[k] \in Int,
           NEW f, \A p \in G : f[p] = SumFunctionOnSet(h, PartOf(L, cell, p))
    PROVE  SumFunctionOnSet(f, G) = SumFunctionOnSet(h, L)
<1> DEFINE Parts(T) == [p \in G |-> SumFunctionOnSet(h, PartOf(T, cell, p))]
           P == {T \in SUBSET L : SumFunctionOnSet(Parts(T), G) = SumFunctionOnSet(h, T)}
<1>1. \A T \in SUBSET L : \A p \in G : Parts(T)[p] = SumFunctionOnSet(h, PartOf(T, cell, p)) /\ Parts(T)[p] \in Int
  <2> SUFFICES ASSUME NEW T \in SUBSET L, NEW p \in G PROVE SumFunctionOnSet(h, PartOf(T, cell, p)) \in Int
    OBVIOUS
  <2>1. PICK U : U = PartOf(T, cell, p)
    OBVIOUS
  <2>2. U \subseteq L
    BY <2>1 DEF PartOf
  <2>3. IsFiniteSet(U) /\ \A k \in U : h[k] \in Int
    BY <2>2, FS_Subset
  <2>4. SumFunctionOnSet(h, U) \in Int
    BY <2>3, SumNumber
  <2> QED  BY <2>1, <2>4
<1> HIDE DEF Parts
<1>2. {} \in P
  <2>1. PICK g : g = Parts({})
    OBVIOUS
  <2>2. \A p \in G : g[p] = 0
    <3>1. \A p \in G : PartOf({}, cell, p) = {}
      BY DEF PartOf
    <3> QED  BY <1>1, <2>1, <3>1, SumEmpty
  <2>3. SumFunctionOnSet(g, G) = Cardinality(G) * 0 /\ Cardinality(G) \in Nat
    BY <2>2, SumConstant, FS_CardinalityType
  <2>4. SumFunctionOnSet(g, G) = 0
    BY <2>3
  <2> QED  BY <2>1, <2>4, SumEmpty
<1>3. ASSUME NEW T \in SUBSET L, NEW x \in L \ T, T \in P PROVE T \cup {x} \in P
  <2>1. PICK U : U = T \cup {x}
    OBVIOUS
  <2>2. PICK g, g2, q : g = Parts(T) /\ g2 = Parts(U) /\ q = cell[x]
    OBVIOUS
  <2>3. IsFiniteSet(T) /\ x \notin T /\ U \in SUBSET L /\ q \in G
    BY <2>1, <2>2, FS_Subset
  <2>4. /\ \A p \in G : g[p] = SumFunctionOnSet(h, PartOf(T, cell, p)) /\ g[p] \in Int
        /\ \A p \in G : g2[p] = SumFunctionOnSet(h, PartOf(U, cell, p)) /\ g2[p] \in Int
    BY <1>1, <2>2, <2>3
  <2>5. g2[q] = h[x] + g[q]
    <3>1. PICK A, B : A = PartOf(T, cell, q) /\ B = PartOf(U, cell, q)
      OBVIOUS
    <3>2. A \subseteq T /\ B = A \cup {x} /\ x \notin A /\ B \subseteq L
      BY <2>1, <2>2, <2>3, <3>1 DEF PartOf
    <3>3. IsFiniteSet(A) /\ \A y \in B : h[y] \in Int
      BY <2>3, <3>2, FS_Subset
    <3>4. SumFunctionOnSet(h, B) = h[x] + SumFunctionOnSet(h, A)
      BY <3>2, <3>3, SumIn
    <3> QED  BY <2>3, <2>4, <3>1, <3>4
  <2>6. \A p \in G : p # q => g2[p] = g[p]
    <3> SUFFICES ASSUME NEW p \in G, p # q PROVE g2[p] = g[p]
      OBVIOUS
    <3>1. PartOf(U, cell, p) = PartOf(T, cell, p)
      BY <2>1, <2>2 DEF PartOf
    <3> QED  BY <2>4, <3>1
  <2>7. PICK R : R = G \ {q}
    OBVIOUS
  <2>8. IsFiniteSet(R) /\ \A p \in R : g[p] \in Int /\ g2[p] = g[p]
    BY <2>4, <2>6, <2>7, FS_Subset
  <2>9. SumFunctionOnSet(g2, R) = SumFunctionOnSet(g, R) /\ SumFunctionOnSet(g, R) \in Int
    BY <2>8, SumSame, SumNumber
  <2>10. SumFunctionOnSet(g2, G) = g2[q] + SumFunctionOnSet(g2, R) /\ SumFunctionOnSet(g, G) = g[q] + SumFunctionOnSet(g, R)
    <3>1. q \notin R /\ G = R \cup {q}
      BY <2>3, <2>7
    <3>2. (\A y \in G : g[y] \in Int) /\ \A y \in G : g2[y] \in Int
      BY <2>4
    <3> QED  BY <2>8, <3>1, <3>2, SumIn
  <2>11. SumFunctionOnSet(h, U) = h[x] + SumFunctionOnSet(h, T)
    <3>1. \A y \in U : h[y] \in Int
      BY <2>3
    <3> QED  BY <2>1, <2>3, <3>1, SumIn
  <2>12. SumFunctionOnSet(g, G) = SumFunctionOnSet(h, T)
    BY <1>3, <2>2
  <2>13. PICK a, b, c : a = h[x] /\ b = g[q] /\ c = SumFunctionOnSet(g, R)
    OBVIOUS
  <2>14. a \in Int /\ b \in Int /\ c \in Int
    BY <2>3, <2>4, <2>9, <2>13
  <2>15. (a + b) + c = a + (b + c)
    BY <2>14
  <2>16. SumFunctionOnSet(g2, G) = SumFunctionOnSet(h, U)
    BY <2>5, <2>9, <2>10, <2>11, <2>12, <2>13, <2>15
  <2> QED  BY <2>1, <2>2, <2>3, <2>16
<1>4. L \in P
  <2> HIDE DEF P
  <2> QED  BY <1>2, <1>3, SubsetInduction
<1>5. \A p \in G : Parts(L)[p] \in Int /\ f[p] = Parts(L)[p]
  <2>1. L \in SUBSET L
    OBVIOUS
  <2> QED  BY <1>1, <2>1
<1>6. PICK g : g = Parts(L)
  OBVIOUS
<1>7. SumFunctionOnSet(f, G) = SumFunctionOnSet(g, G)
  BY <1>5, <1>6, SumSame
<1> QED  BY <1>4, <1>6, <1>7

\* A sum of values that only depend on the part.
LEMMA SumByCells ==
    ASSUME NEW L, IsFiniteSet(L), NEW G, IsFiniteSet(G), NEW cell, \A k \in L : cell[k] \in G,
           NEW v, \A p \in G : v[p] \in Nat, NEW h, \A k \in L : h[k] = v[cell[k]],
           NEW f, \A p \in G : f[p] = Cardinality(PartOf(L, cell, p)) * v[p]
    PROVE  SumFunctionOnSet(f, G) = SumFunctionOnSet(h, L)
<1>1. ASSUME NEW p \in G PROVE f[p] = SumFunctionOnSet(h, PartOf(L, cell, p))
  <2>1. PICK U, c : U = PartOf(L, cell, p) /\ c = v[p]
    OBVIOUS
  <2>2. U \subseteq L /\ c \in Nat /\ \A k \in U : h[k] = c
    BY <2>1 DEF PartOf
  <2>3. IsFiniteSet(U)
    BY <2>2, FS_Subset
  <2>4. SumFunctionOnSet(h, U) = Cardinality(U) * c
    BY <2>2, <2>3, SumConstant
  <2> QED  BY <2>1, <2>4
<1>2. \A k \in L : h[k] \in Int
  OBVIOUS
<1> QED  BY <1>1, <1>2, SumByParts

-----------------------------------------------------------------------------
(* What is printed.                                                        *)

\* The line of an image, in a file of the simulation.
ImageLines == {Line(i, 0, 0, <<IF i = Executable THEN 1 ELSE 0>>) : i \in images}
\* The report, of the state that it is printed in.
Printed ==
    CASE tool = "counter" -> {CounterHeading} \cup CounterImages \cup CounterLines
      [] tool = "simulation" -> {SimulationHeading(heap)} \cup ImageLines \cup SimulationLines(heap)
      [] OTHER -> TimerLines
AsPrinted == report # {} => report = Printed

\* An object the main thread uses says whether its image is the executable.
LEMMA ImageTypeIs ==
    ASSUME DataInv, KeptInv, tool \in OneObject, NEW i \in images
    PROVE  ImageType(Own(Main, i)) = IF i = Executable THEN 1 ELSE 0
<1>1. Own(Main, i) = <<i, 0>> /\ i \in Images
  BY DEF DataInv, Registration, Own, Object
<1>2. heap[<<i, 0>>].master <=> i = Executable
  BY <1>1 DEF KeptInv, Marked
<1> QED  BY <1>1, <1>2 DEF ImageType

LEMMA PrintedStays ==
    ASSUME UNCHANGED <<tool, heap, Managed>>
    PROVE  Printed' = Printed
<1>1. UNCHANGED <<tool, heap, datamap, allthreads, threadseq, images>>
  BY DEF Managed
<1>2. CounterHeading' = CounterHeading
  BY <1>1 DEF CounterHeading, Heading, Line, Tally
<1>3. CounterImages' = CounterImages
  BY <1>1 DEF CounterImages, ImageType, Own, Line, Tally
<1>4. CounterLines' = CounterLines
  BY <1>1 DEF CounterLines, CounterLinesOf, Indices, Index, Own, Line, Everyone
<1>5. SimulationHeading(heap)' = SimulationHeading(heap)
  BY <1>1 DEF SimulationHeading, Heading, Line, TotalMemop, Sampled, Objects, Own, Indices, AllMemops
<1>6. ImageLines' = ImageLines
  BY <1>1 DEF ImageLines, Line
<1>7. SimulationLines(heap)' = SimulationLines(heap)
  BY <1>1 DEF SimulationLines, SimulationLinesOf, Own, Line
<1>8. TimerLines' = TimerLines
  BY <1>1 DEF TimerLines, Own, Line, Indices
<1> QED  BY <1>1, <1>2, <1>3, <1>4, <1>5, <1>6, <1>7, <1>8 DEF Printed

LEMMA PrintedAtExit ==
    ASSUME DataInv, KeptInv, Exit
    PROVE  report' = Printed'
<1>1. UNCHANGED <<tool, datamap, allthreads, threadseq, images>>
  BY DEF Exit, Managed
<1>2. CASE tool = "simulation"
  <2>1. report' = {SimulationHeading(heap')} \cup SimulationImages \cup SimulationLines(heap')
    BY <1>2 DEF Exit
  <2>2. SimulationHeading(heap)' = SimulationHeading(heap')
    BY <1>1 DEF SimulationHeading, Heading, Line, TotalMemop, Sampled, Objects, Own, Indices, AllMemops
  <2>3. SimulationLines(heap)' = SimulationLines(heap')
    BY <1>1 DEF SimulationLines, SimulationLinesOf, Own, Line
  <2>4. SimulationImages = ImageLines
    <3>1. \A i \in images : ImageType(Own(Main, i)) = IF i = Executable THEN 1 ELSE 0
      BY <1>2, ImageTypeIs DEF OneObject
    <3> QED  BY <3>1 DEF SimulationImages, ImageLines
  <2>5. ImageLines' = ImageLines
    BY <1>1 DEF ImageLines, Line
  <2> QED  BY <1>1, <1>2, <2>1, <2>2, <2>3, <2>4, <2>5 DEF Printed
<1>3. CASE tool # "simulation"
  <2>1. UNCHANGED <<tool, heap, Managed>>
    BY <1>3 DEF Exit, Machine
  <2>2. report' = Printed
    BY <1>3 DEF Exit, Printed
  <2> QED  BY <2>1, <2>2, PrintedStays
<1> QED  BY <1>2, <1>3

\* Nothing happens after the report.
LEMMA ReportStays ==
    ASSUME DataInv, KeptInv, AsPrinted, [Next]_vars
    PROVE  AsPrinted'
<1>1. ASSUME report = {}, report' = report PROVE AsPrinted'
  BY <1>1 DEF AsPrinted
<1>2. ASSUME NEW i \in Images, LoadImage(i) PROVE AsPrinted'
  BY <1>1, <1>2 DEF LoadImage
<1>3. ASSUME NEW t \in Threads, Create(t) \/ Finish(t) PROVE AsPrinted'
  BY <1>1, <1>3 DEF Create, Finish
<1>4. ASSUME NEW t \in Threads, ThreadInit(t) \/ FastAddThread(t) PROVE AsPrinted'
  BY <1>1, <1>4, Zenon DEF ThreadInit, FastAddThread
<1>5. ASSUME NEW t \in Threads, NEW i \in images, NEW x \in Indices, NEW addr \in Addresses, Run(t, i, x, addr)
      PROVE  AsPrinted'
  BY <1>1, <1>5, Zenon DEF Run
<1>6. ASSUME NEW t \in Threads, NEW i \in images, NEW x \in Indices, Enter(t, i, x) \/ Leave(t, i, x)
      PROVE  AsPrinted'
  BY <1>1, <1>6 DEF Enter, Leave, Timed
<1>7. CASE Exit
  BY <1>7, PrintedAtExit DEF AsPrinted
<1>8. CASE UNCHANGED vars
  <2>1. UNCHANGED <<tool, heap, Managed>> /\ report' = report
    BY <1>8 DEF vars, Managed
  <2> QED  BY <2>1, PrintedStays DEF AsPrinted
<1>9. \/ \E i \in Images : LoadImage(i)
      \/ \E t \in Threads : Create(t) \/ ThreadInit(t) \/ FastAddThread(t) \/ Finish(t)
      \/ \E t \in Threads, i \in images :
            \/ \E x \in Indices, addr \in Addresses : Run(t, i, x, addr)
            \/ \E x \in Indices : Enter(t, i, x) \/ Leave(t, i, x)
      \/ Exit
      \/ UNCHANGED vars
  BY DEF Next, Stopped
<1> QED  BY <1>2, <1>3, <1>4, <1>5, <1>6, <1>7, <1>8, <1>9

-----------------------------------------------------------------------------
\* What the lines are about.
LEMMA KnownData ==
    ASSUME DataInv, KeptInv
    PROVE  /\ \A t \in allthreads, i \in images : Own(t, i) = Object(t, i) /\ Object(t, i) \in DOMAIN heap
           /\ DOMAIN log = 1 .. Len(log) /\ IsFiniteSet(DOMAIN log)
           /\ \A k \in DOMAIN log : /\ log[k].thread \in allthreads /\ log[k].image \in images /\ log[k].index \in Indices
           /\ IsFiniteSet(images) /\ IsFiniteSet(allthreads) /\ IsFiniteSet(Indices)
           /\ \A t \in allthreads : t \in Nat \ {0}
<1>1. log \in Seq(Happening) /\ LogKnown(log) /\ IsFiniteSet(images)
  BY DEF DataInv, KeptInv, Marked
<1>2. DOMAIN log = 1 .. Len(log) /\ Len(log) \in Nat
  BY <1>1
<1>3. IsFiniteSet(DOMAIN log)
  BY <1>2, FS_Interval
<1>4. \A k \in DOMAIN log : log[k] \in Happening
  BY <1>1, <1>2
<1>5. \A k \in DOMAIN log : log[k].thread \in allthreads /\ log[k].image \in images /\ log[k].index \in Indices
  BY <1>1, <1>4 DEF Happening, LogKnown
<1>6. \A t \in allthreads, i \in images : Own(t, i) = Object(t, i) /\ Object(t, i) \in DOMAIN heap
  BY DEF DataInv, Registration, Own, HeapOk
<1>7. IsFiniteSet(allthreads) /\ tool \in Tools /\ \A t \in allthreads : t \in Nat \ {0}
  BY DataAssumption DEF DataInv, Registration
<1>8. IsFiniteSet(Indices)
  BY <1>7, LeaderAssumption DEF Tools, Indices
<1> QED  BY <1>1, <1>2, <1>3, <1>5, <1>6, <1>7, <1>8

\* Timers: the time printed is that of the activations that are over.
LEMMA TimesPrinted ==
    ASSUME DataInv, KeptInv, tool \notin OneObject
    PROVE  TimerLines = Announced \cup Happened
<1>1. ASSUME NEW t \in allthreads, NEW i \in images, NEW x \in Indices
      PROVE  heap[Own(t, i)].timers[x].accum = Inside(t, i, x)
  <2>1. heap[Own(t, i)].timers[x].accum = Cardinality(Over(log, t, i, x))
    BY KnownData DEF KeptInv, TimersRight, TimerRight
  <2>2. \A k : Depth(k, t, i, x) = DepthIn(log, k, t, i, x)
    BY DEF Depth, DepthIn, Count, CountIn
  <2>3. Over(log, t, i, x) = {k \in DOMAIN log : Depth(k, t, i, x) > 0 /\ \E e \in Exits(log, t, i, x) : k < e}
    BY <2>2 DEF Over
  <2>4. Exits(log, t, i, x) = {k \in DOMAIN log : Depth(k, t, i, x) = 0 /\ Depth(k - 1, t, i, x) = 1}
    BY <2>2 DEF Exits
  <2> QED  BY <2>1, <2>3, <2>4 DEF Inside
<1>2. tool # "counter" /\ tool # "simulation"
  BY DEF OneObject
<1>3. \A l : l \in TimerLines <=> \E i \in images : \E x \in Indices : \E t \in allthreads :
                                   l = Line(i, x, threadseq[t], <<heap[Own(t, i)].timers[x].accum>>)
  BY DEF TimerLines
<1>4. \A l : l \in Happened <=> \E i \in images : \E x \in Indices : \E t \in allthreads :
                                   l = Line(i, x, threadseq[t], <<Inside(t, i, x)>>)
  BY <1>2 DEF Happened
<1>5. \A l : l \in TimerLines <=> l \in Happened
  BY <1>1, <1>3, <1>4, Zenon
<1>6. Announced = {}
  BY <1>2 DEF Announced
<1> QED  BY <1>5, <1>6

-----------------------------------------------------------------------------
(* Counters.                                                               *)

LEMMA TallyIs ==
    ASSUME DataInv, KeptInv, tool = "counter", NEW i,
           NEW loops, loops = Cardinality({x \in Indices : Kinds[tool][x].type = "loop"})
    PROVE  /\ Tally(i) = [blocks |-> Cardinality(Indices) - loops, loops |-> loops]
           /\ Cardinality(Indices) - loops \in Nat /\ loops \in Nat
<1>1. PICK N, L : N = Indices /\ L = {x \in N : Kinds[tool][x].type = "loop"} /\ loops = Cardinality(L)
  OBVIOUS
<1>2. IsFiniteSet(N) /\ L \subseteq N
  BY <1>1, KnownData
<1>3. IsFiniteSet(L) /\ Cardinality(L) \in Nat /\ Cardinality(N) \in Nat /\ Cardinality(L) <= Cardinality(N)
  BY <1>2, FS_Subset, FS_CardinalityType
<1>4. Cardinality(N \ L) = Cardinality(N) - Cardinality(N \cap L)
  BY <1>2, <1>3, FS_Difference
<1>5. N \cap L = L
  BY <1>2
<1>6. N = DOMAIN Kinds["counter"] /\ L = {x \in DOMAIN Kinds["counter"] : Kinds["counter"][x].type = "loop"}
  BY <1>1 DEF Indices
<1>7. Tally(i) = [blocks |-> Cardinality(N \ L), loops |-> Cardinality(L)]
  BY <1>6 DEF Tally
<1>8. Cardinality(N \ L) = Cardinality(N) - loops /\ Cardinality(N) - loops \in Nat /\ loops \in Nat
  <2>1. PICK p, d : p = Cardinality(N) /\ d = Cardinality(N \ L)
    OBVIOUS
  <2>2. p \in Nat /\ loops \in Nat /\ loops <= p
    BY <1>1, <1>3, <2>1
  <2>3. d = p - loops
    BY <1>1, <1>4, <1>5, <2>1
  <2> QED  BY <2>1, <2>2, <2>3
<1> QED  BY <1>1, <1>7, <1>8

\* The heading's tuples.
LEMMA FourNumbers ==
    ASSUME NEW n \in Nat, NEW c \in Nat, NEW a \in Nat, NEW b \in Nat
    PROVE  <<n, c>> \o <<a, b>> = <<n, c, a, b>>
<1>1. PICK s, t, u : s = <<n, c>> /\ t = <<a, b>> /\ u = <<n, c, a, b>>
  OBVIOUS
<1>2. s \in Seq(Nat) /\ t \in Seq(Nat) /\ u \in Seq(Nat) /\ Len(s) = 2 /\ Len(t) = 2 /\ Len(u) = 4
  BY <1>1
<1>3. PICK w : w = s \o t
  OBVIOUS
<1>4. /\ w \in Seq(Nat) /\ Len(w) = Len(s) + Len(t)
      /\ \A k \in 1 .. Len(s) + Len(t) : w[k] = IF k <= Len(s) THEN s[k] ELSE t[k - Len(s)]
  BY <1>2, <1>3, ConcatProperties
<1>5. Len(w) = Len(u) /\ \A k \in 1 .. Len(w) : w[k] = u[k]
  BY <1>1, <1>2, <1>4
<1>6. w = u
  BY <1>2, <1>4, <1>5, SeqEqual
<1> QED  BY <1>1, <1>3, <1>6, Zenon

\* The heading and the lines of the images.
LEMMA CountersAnnounced ==
    ASSUME DataInv, KeptInv, tool = "counter"
    PROVE  {CounterHeading} \cup CounterImages = Announced
<1>1. PICK n, loops, blocks : /\ n = Cardinality(images)
                              /\ loops = Cardinality({x \in Indices : Kinds[tool][x].type = "loop"})
                              /\ blocks = Cardinality(Indices) - loops
  OBVIOUS
<1>2. n \in Nat /\ loops \in Nat /\ blocks \in Nat /\ \A i : Tally(i) = [blocks |-> blocks, loops |-> loops]
  BY <1>1, KnownData, TallyIs, FS_CardinalityType
<1>3. SumFunction([i \in images |-> Tally(i).blocks]) = n * blocks
  <2>1. PICK f : f = [i \in images |-> Tally(i).blocks]
    OBVIOUS
  <2>2. DOMAIN f = images /\ \A i \in images : f[i] = blocks
    BY <1>2, <2>1
  <2>3. SumFunctionOnSet(f, images) = Cardinality(images) * blocks
    BY <1>2, <2>2, KnownData, SumConstant
  <2> QED  BY <1>1, <2>1, <2>2, <2>3 DEF SumFunction
<1>4. SumFunction([i \in images |-> Tally(i).loops]) = n * loops
  <2>1. PICK f : f = [i \in images |-> Tally(i).loops]
    OBVIOUS
  <2>2. DOMAIN f = images /\ \A i \in images : f[i] = loops
    BY <1>2, <2>1
  <2>3. SumFunctionOnSet(f, images) = Cardinality(images) * loops
    BY <1>2, <2>2, KnownData, SumConstant
  <2> QED  BY <1>1, <2>1, <2>2, <2>3 DEF SumFunction
<1>5. Heading \o <<n * blocks, n * loops>> = <<n, Cardinality(allthreads), n * blocks, n * loops>>
  <2>1. PICK a, b, c : a = n * blocks /\ b = n * loops /\ c = Cardinality(allthreads)
    OBVIOUS
  <2>2. a \in Nat /\ b \in Nat /\ c \in Nat
    BY <1>2, <2>1, KnownData, FS_CardinalityType
  <2>3. <<n, c>> \o <<a, b>> = <<n, c, a, b>>
    BY <1>2, <2>2, FourNumbers
  <2> QED  BY <1>1, <2>1, <2>3 DEF Heading
<1>6. CounterHeading = Line(0, 0, 0, <<n, Cardinality(allthreads), n * blocks, n * loops>>)
  BY <1>3, <1>4, <1>5 DEF CounterHeading
<1>7. CounterImages = {Line(i, 0, 0, <<IF i = Executable THEN 1 ELSE 0, blocks, loops>>) : i \in images}
  <2>1. \A i \in images : ImageType(Own(Main, i)) = IF i = Executable THEN 1 ELSE 0
    BY ImageTypeIs DEF OneObject
  <2> QED  BY <1>2, <2>1 DEF CounterImages
<1> QED  BY <1>1, <1>6, <1>7 DEF Announced

\* How often a thread ran a block of an image.
LEMMA RanIs ==
    ASSUME DataInv, KeptInv, tool \in OneObject, NEW t \in allthreads, NEW i \in images, NEW x \in Indices
    PROVE  /\ Ran(t, i, x) = Cardinality(Executions(log, t, i, x)) /\ Ran(t, i, x) \in Nat
           /\ Counting(x) => heap[Own(t, i)].counters[x] = Ran(t, i, x)
<1> DEFINE R == {j \in 1 .. Len(log) : log[j].thread = t /\ log[j].image = i /\ log[j].kind = "run" /\ log[j].index = x}
<1>1. Ran(t, i, x) = Cardinality(R)
  BY DEF Ran, Count
<1>2. DOMAIN log = 1 .. Len(log) /\ IsFiniteSet(DOMAIN log) /\ Own(t, i) = Object(t, i) /\ LogKnown(log)
  BY KnownData DEF KeptInv
<1>3. R = Executions(log, t, i, x)
  BY <1>2 DEF LogKnown, Executions
<1>4. R \subseteq DOMAIN log
  BY <1>2
<1> HIDE DEF R
<1>5. Cardinality(R) \in Nat
  BY <1>2, <1>4, FS_Subset, FS_CardinalityType
<1>6. Counting(x) => heap[Object(t, i)].counters[x] = Cardinality(Executions(log, t, i, x))
  BY DEF KeptInv, CountersRight
<1> QED  BY <1>1, <1>2, <1>3, <1>5, <1>6

\* The counter of a block or loop, of every thread.
CounterOf(i, b) == [t \in allthreads |-> heap[Own(t, i)].counters[b]]
LEMMA CounterSum ==
    ASSUME DataInv, KeptInv, tool \in OneObject, NEW i \in images, NEW b \in Indices, Counting(b),
           NEW K, K = {k \in DOMAIN log : log[k].image = i /\ log[k].index = b}
    PROVE  /\ SumFunction(CounterOf(i, b)) = Cardinality(K) /\ Cardinality(K) \in Nat /\ (K = {} <=> Cardinality(K) = 0)
           /\ \A t \in allthreads : /\ CounterOf(i, b)[t] = Ran(t, i, b) /\ Ran(t, i, b) \in Nat
                                    /\ Ran(t, i, b) <= Cardinality(K)
<1>1. PICK f : f = CounterOf(i, b)
  OBVIOUS
<1>2. DOMAIN f = allthreads /\ \A t \in allthreads : f[t] = heap[Own(t, i)].counters[b]
  BY <1>1 DEF CounterOf
<1>3. \A t \in allthreads : f[t] = Ran(t, i, b) /\ Ran(t, i, b) \in Nat /\ f[t] = Cardinality(Executions(log, t, i, b))
  BY <1>2, RanIs
<1>4. K \subseteq DOMAIN log /\ IsFiniteSet(DOMAIN log) /\ IsFiniteSet(allthreads)
  BY KnownData
<1>5. IsFiniteSet(K) /\ Cardinality(K) \in Nat /\ (K = {} <=> Cardinality(K) = 0)
  BY <1>4, FS_Subset, FS_CardinalityType, FS_EmptySet
<1>6. PICK cell : cell = [k \in K |-> log[k].thread]
  OBVIOUS
<1>7. PICK v : v = [t \in allthreads |-> 1]
  OBVIOUS
<1>8. PICK h : h = [k \in K |-> 1]
  OBVIOUS
<1>9. \A k \in K : cell[k] \in allthreads /\ h[k] = v[cell[k]] /\ h[k] = 1
  BY <1>4, <1>6, <1>7, <1>8, KnownData
<1>10. ASSUME NEW t \in allthreads PROVE f[t] = Cardinality(PartOf(K, cell, t)) * v[t]
  <2>1. PartOf(K, cell, t) = Executions(log, t, i, b)
    BY <1>6 DEF PartOf, Executions
  <2> QED  BY <1>3, <1>7, <2>1
<1>11. SumFunctionOnSet(f, allthreads) = SumFunctionOnSet(h, K)
  <2>1. (\A k \in K : cell[k] \in allthreads) /\ (\A k \in K : h[k] = v[cell[k]]) /\ \A p \in allthreads : v[p] \in Nat
    BY <1>7, <1>9
  <2> QED  BY <1>4, <1>5, <1>10, <2>1, SumByCells
<1>12. SumFunctionOnSet(h, K) = Cardinality(K)
  <2>1. \A k \in K : h[k] = 1
    BY <1>9
  <2>2. SumFunctionOnSet(h, K) = Cardinality(K) * 1
    BY <1>5, <2>1, SumConstant
  <2> QED  BY <1>5, <2>2
<1>13. \A t \in allthreads : f[t] \in Nat
  BY <1>3
<1>14. \A t \in allthreads : f[t] <= SumFunctionOnSet(f, allthreads)
  BY <1>4, <1>13, SumNatural
<1>15. SumFunction(f) = SumFunctionOnSet(f, allthreads)
  BY <1>2 DEF SumFunction
<1> QED  BY <1>1, <1>3, <1>5, <1>11, <1>12, <1>14, <1>15

\* The block whose counter an instruction or a block uses.
LeaderOf(x) == IF Kinds[tool][x].type = "instruction" THEN Kinds[tool][x].leader ELSE x
LEMMA LeaderIs ==
    ASSUME DataInv, KeptInv, tool = "counter", NEW i \in images, NEW x \in Indices
    PROVE  Index(Own(Main, i), x) = LeaderOf(x) /\ LeaderOf(x) \in Indices /\ Counting(LeaderOf(x))
<1>1. Main \in allthreads
  BY DEF DataInv, Registration
<1>2. Own(Main, i) \in DOMAIN heap
  BY <1>1, KnownData
<1>3. Led(heap[Own(Main, i)].counters)
  BY <1>2 DEF KeptInv, Shapes
<1>4. Kinds[tool][x].type = "instruction" => heap[Own(Main, i)].counters[x] = Kinds[tool][x].leader
  BY <1>3 DEF Led, Counting
<1>5. Kinds[tool][x].type = "instruction" => /\ Kinds[tool][x].leader \in Indices
                                             /\ Kinds[tool][Kinds[tool][x].leader].type # "instruction"
  BY LeaderAssumption DEF Indices
<1> QED  BY <1>4, <1>5 DEF Index, LeaderOf, Counting

\* The lines.
LEMMA CountersPrinted ==
    ASSUME DataInv, KeptInv, tool = "counter"
    PROVE  CounterLines = Happened
<1> DEFINE K(i, b) == {k \in DOMAIN log : log[k].image = i /\ log[k].index = b}
<1>1. ASSUME NEW l, NEW i \in images, NEW x \in Indices
      PROVE  l \in CounterLinesOf(i, x) <=> l \in TimesRun(i, x)
  <2>1. PICK b : b = LeaderOf(x)
    OBVIOUS
  <2>2. Index(Own(Main, i), x) = b /\ b \in Indices /\ Counting(b)
    BY <2>1, LeaderIs
  <2>3. PICK S : S = K(i, b)
    OBVIOUS
  <2>4. PICK f, n : f = CounterOf(i, b) /\ n = Cardinality(S)
    OBVIOUS
  <2>5. /\ SumFunction(f) = n /\ n \in Nat /\ (S = {} <=> n = 0)
        /\ \A t \in allthreads : f[t] = Ran(t, i, b) /\ Ran(t, i, b) \in Nat /\ Ran(t, i, b) <= n
    BY <2>2, <2>3, <2>4, CounterSum DEF OneObject
  <2>6. l \in CounterLinesOf(i, x) <=>
            \/ n > 0 /\ l = Line(i, x, Everyone, <<n>>)
            \/ \E t \in allthreads : n > 0 /\ f[t] > 0 /\ l = Line(i, x, threadseq[t], <<f[t]>>)
    <3>1. CounterLinesOf(i, x) = {Line(i, x, Everyone, <<n>>) : m \in {1} \cap 1 .. n}
                \cup {Line(i, x, threadseq[t], <<f[t]>>) : t \in {u \in allthreads : n > 0 /\ f[u] > 0}}
      BY <2>2, <2>4, <2>5 DEF CounterLinesOf, CounterOf
    <3>2. n > 0 <=> 1 \in 1 .. n
      BY <2>5
    <3> QED  BY <3>1, <3>2
  <2>7. l \in TimesRun(i, x) <=>
            \/ \E t \in allthreads : Ran(t, i, b) > 0 /\ l = Line(i, x, threadseq[t], <<Ran(t, i, b)>>)
            \/ S # {} /\ l = Line(i, x, Everyone, <<n>>)
    BY <2>1, <2>3, <2>4 DEF TimesRun, LeaderOf
  <2>8. n > 0 <=> S # {}
    BY <2>5
  <2>9. \A t \in allthreads : n > 0 /\ f[t] > 0 <=> Ran(t, i, b) > 0
    BY <2>5
  <2> QED  BY <2>5, <2>6, <2>7, <2>8, <2>9
<1>2. \A i \in images, x \in Indices : CounterLinesOf(i, x) = TimesRun(i, x)
  BY <1>1
<1>3. \A l : l \in CounterLines <=> \E i \in images : \E x \in Indices : l \in CounterLinesOf(i, x)
  BY DEF CounterLines
<1>4. \A l : l \in Happened <=> \E i \in images : \E x \in Indices : l \in TimesRun(i, x)
  BY DEF Happened
<1>5. \A l : l \in CounterLines <=> l \in Happened
  BY <1>2, <1>3, <1>4
<1> QED  BY <1>5

-----------------------------------------------------------------------------
(* What the instructions of a block have seen, put together.               *)

\* The range of a memory instruction after c executions, at addresses from lo
\* to hi, and what those of the instructions u of a block come to.
Seen(lo, hi, c, m) == IF c = 0 THEN NoRange ELSE [min |-> lo + m, max |-> hi + m, count |-> c]
Together(lo, hi, c, u) ==
    IF u = {} THEN NoRange
    ELSE IF c = 0 THEN [min |-> 0, max |-> Top, count |-> 0]
    ELSE [min |-> lo + Min(u), max |-> hi + Max(u), count |-> Cardinality(u) * c]
InSight(lo, hi, c, u) ==
    /\ lo \in Nat /\ hi \in Nat /\ c \in Nat /\ lo <= hi
    /\ IsFiniteSet(u) /\ u \subseteq Nat /\ (c # 0 => \A m \in u : hi + m <= Top)
LEMMA TogetherStep ==
    ASSUME NEW lo, NEW hi, NEW c, NEW u, InSight(lo, hi, c, u),
           NEW x \in u, NEW w, w = u \ {x}, NEW r, r = Seen(lo, hi, c, x)
    PROVE  Together(lo, hi, c, u) = Update(Update(Together(lo, hi, c, w), r.min, 0), r.max, r.count)
<1> lo \in Nat /\ hi \in Nat /\ c \in Nat /\ lo <= hi /\ IsFiniteSet(u) /\ u \subseteq Nat
  BY DEF InSight
<1>1. x \in Nat /\ (c # 0 => hi + x <= 99) /\ Top = 99 /\ NoRange = [min |-> 99, max |-> 0, count |-> 0]
  BY DEF Top, NoRange, InSight
<1>2. CASE c = 0
  <2>1. r = [min |-> 99, max |-> 0, count |-> 0]
    BY <1>1, <1>2 DEF Seen
  <2>2. PICK q : q = Together(lo, hi, c, w)
    OBVIOUS
  <2>3. q = [min |-> 99, max |-> 0, count |-> 0] \/ q = [min |-> 0, max |-> 99, count |-> 0]
    BY <1>1, <1>2, <2>2 DEF Together
  <2>4. PICK q2 : q2 = Update(q, 99, 0)
    OBVIOUS
  <2>5. q2.min \in {0, 99} /\ q2.max = 99 /\ q2.count = 0 /\ q2 = [min |-> q2.min, max |-> q2.max, count |-> q2.count]
    BY <2>3, <2>4 DEF Update
  <2>6. Update(q2, 0, 0) = [min |-> 0, max |-> 99, count |-> 0]
    BY <2>5 DEF Update
  <2>7. Together(lo, hi, c, u) = [min |-> 0, max |-> 99, count |-> 0]
    BY <1>1, <1>2 DEF Together
  <2> QED  BY <2>1, <2>2, <2>4, <2>6, <2>7
<1>3. CASE c # 0
  <2>1. r = [min |-> lo + x, max |-> hi + x, count |-> c]
    BY <1>3 DEF Seen
  <2>2. IsFiniteSet(w) /\ w \subseteq Nat /\ x \notin w /\ u = w \cup {x} /\ u # {}
    BY FS_Subset
  <2>3. Cardinality(w) \in Nat /\ Cardinality(u) = Cardinality(w) + 1
    BY <2>2, FS_AddElement, FS_CardinalityType
  <2>4. PICK n, p, p2 : n = Cardinality(w) /\ p = n * c /\ p2 = (n + 1) * c
    OBVIOUS
  <2>5. n \in Nat /\ p \in Nat /\ p2 = p + c
    BY <2>3, <2>4
  <2>6. PICK a, z : a = Min(u) /\ z = Max(u)
    OBVIOUS
  <2>7. a \in u /\ z \in u /\ \A y \in u : a <= y /\ z >= y
    BY <2>2, <2>6, Extremes
  <2>8. a \in Nat /\ z \in Nat
    BY <2>7
  <2>9. Together(lo, hi, c, u) = [min |-> lo + a, max |-> hi + z, count |-> p + c]
    BY <1>3, <2>2, <2>3, <2>4, <2>5, <2>6 DEF Together
  <2>10. CASE w = {}
    <3>1. a = x /\ z = x
      BY <2>2, <2>7, <2>10
    <3>2. n = 0 /\ p = 0
      <4>1. n = 0 /\ p = n * c
        BY <2>4, <2>10, FS_EmptySet
      <4> QED  BY <4>1
    <3>3. Together(lo, hi, c, w) = [min |-> 99, max |-> 0, count |-> 0]
      BY <1>1, <2>10 DEF Together
    <3>4. Update([min |-> 99, max |-> 0, count |-> 0], lo + x, 0) = [min |-> lo + x, max |-> lo + x, count |-> 0]
      BY <1>1, <1>3 DEF Update
    <3>5. Update([min |-> lo + x, max |-> lo + x, count |-> 0], hi + x, c) = [min |-> lo + x, max |-> hi + x, count |-> c]
      BY <1>1, <1>3 DEF Update
    <3> QED  BY <2>1, <2>5, <2>9, <3>1, <3>2, <3>3, <3>4, <3>5
  <2>11. CASE w # {}
    <3>1. PICK a2, z2 : a2 = Min(w) /\ z2 = Max(w)
      OBVIOUS
    <3>2. a2 \in w /\ z2 \in w /\ \A y \in w : a2 <= y /\ z2 >= y
      BY <2>2, <2>11, <3>1, Extremes
    <3>3. a2 \in Nat /\ z2 \in Nat /\ a2 <= z2
      BY <2>2, <3>2
    <3>4. a = (IF x < a2 THEN x ELSE a2) /\ z = (IF x > z2 THEN x ELSE z2)
      BY <1>1, <2>2, <2>7, <2>8, <3>2, <3>3
    <3>5. Together(lo, hi, c, w) = [min |-> lo + a2, max |-> hi + z2, count |-> p]
      BY <1>3, <2>4, <2>11, <3>1 DEF Together
    <3>6. PICK mid : mid = IF lo + x > hi + z2 THEN lo + x ELSE hi + z2
      OBVIOUS
    <3>7. Update([min |-> lo + a2, max |-> hi + z2, count |-> p], lo + x, 0) = [min |-> lo + a, max |-> mid, count |-> p]
      BY <1>1, <1>3, <2>5, <3>3, <3>4, <3>6 DEF Update
    <3>8. mid \in Nat /\ lo + a <= mid /\ lo + a <= hi + x /\ hi + z = IF hi + x > mid THEN hi + x ELSE mid
      BY <1>1, <1>3, <3>3, <3>4, <3>6
    <3>9. Update([min |-> lo + a, max |-> mid, count |-> p], hi + x, c) = [min |-> lo + a, max |-> hi + z, count |-> p + c]
      BY <1>1, <1>3, <2>5, <2>8, <3>8 DEF Update
    <3> QED  BY <2>1, <2>9, <3>5, <3>7, <3>9
  <2> QED  BY <2>10, <2>11
<1> QED  BY <1>2, <1>3

\* The code's loop over a block's memory instructions.
Folding(s, g, M) ==
    g = [u \in SUBSET M |->
            IF u = {} THEN NoRange
            ELSE Update(Update(g[u \ {First(u)}], s[First(u)].min, 0), s[First(u)].max, s[First(u)].count)]
LEMMA AggregateFolds ==
    ASSUME NEW s, NEW b
    PROVE  \E g : Aggregate(s, b) = g[Memops[b]] /\ g = CHOOSE f : Folding(s, f, Memops[b])
BY DEF Aggregate, FoldSet, MapThenFoldSet, Folding, First

LEMMA AggregateIs ==
    ASSUME NEW lo \in Nat, NEW hi \in Nat, NEW c \in Nat, lo <= hi, NEW b \in DOMAIN Memops,
           c # 0 => \A m \in Memops[b] : hi + m <= Top,
           NEW s, \A m \in Memops[b] : s[m] = Seen(lo, hi, c, m)
    PROVE  Aggregate(s, b) = Together(lo, hi, c, Memops[b])
<1>1. PICK M : M = Memops[b]
  OBVIOUS
<1>2. IsFiniteSet(M) /\ M \subseteq Nat /\ (c # 0 => \A m \in M : hi + m <= Top) /\ \A m \in M : s[m] = Seen(lo, hi, c, m)
  BY <1>1, MemopAssumption
<1>3. \A u \in SUBSET M : IsFiniteSet(u) /\ u \subseteq Nat /\ Cardinality(u) \in Nat
  BY <1>2, FS_Subset, FS_CardinalityType
<1>4. \A u : u # {} => First(u) \in u
  BY DEF First
<1> DEFINE Next1(v, x) == Update(Update(v, s[x].min, 0), s[x].max, s[x].count)
<1>5. ASSUME NEW u \in SUBSET M, u # {}
      PROVE  Together(lo, hi, c, u) = Next1(Together(lo, hi, c, u \ {First(u)}), First(u))
  <2>1. PICK x, w, r : x = First(u) /\ w = u \ {x} /\ r = s[x]
    OBVIOUS
  <2>2. x \in u /\ r = Seen(lo, hi, c, x) /\ InSight(lo, hi, c, u)
    BY <1>2, <1>3, <1>4, <1>5, <2>1 DEF InSight
  <2>3. Together(lo, hi, c, u) = Update(Update(Together(lo, hi, c, w), r.min, 0), r.max, r.count)
    BY <2>1, <2>2, TogetherStep
  <2> QED  BY <2>1, <2>3
<1>6. PICK h : h = [u \in SUBSET M |-> Together(lo, hi, c, u)]
  OBVIOUS
<1>7. Folding(s, h, M)
  <2>1. \A u \in SUBSET M : h[u] = IF u = {} THEN NoRange ELSE Next1(h[u \ {First(u)}], First(u))
    <3> SUFFICES ASSUME NEW u \in SUBSET M
                 PROVE  h[u] = IF u = {} THEN NoRange ELSE Next1(h[u \ {First(u)}], First(u))
      OBVIOUS
    <3>1. CASE u = {}
      BY <1>6, <3>1 DEF Together
    <3>2. CASE u # {}
      <4>1. PICK w : w = u \ {First(u)}
        OBVIOUS
      <4>2. w \in SUBSET M /\ h[w] = Together(lo, hi, c, w) /\ h[u] = Together(lo, hi, c, u)
        BY <1>6, <4>1
      <4> HIDE DEF Next1
      <4> QED  BY <1>5, <3>2, <4>1, <4>2
    <3> QED  BY <3>1, <3>2
  <2>2. PICK k : k = [u \in SUBSET M |-> IF u = {} THEN NoRange ELSE Next1(h[u \ {First(u)}], First(u))]
    OBVIOUS
  <2>3. h = k
    <3> HIDE DEF Next1
    <3> QED  BY <1>6, <2>1, <2>2
  <2> QED  BY <2>2, <2>3 DEF Folding
<1>8. PICK g : Aggregate(s, b) = g[M] /\ g = CHOOSE f : Folding(s, f, M)
  BY <1>1, AggregateFolds, Zenon
<1>9. Folding(s, g, M)
  BY <1>7, <1>8
<1>10. \A u \in SUBSET M : g[u] = IF u = {} THEN NoRange ELSE Next1(g[u \ {First(u)}], First(u))
  <2>1. PICK k : k = [u \in SUBSET M |-> IF u = {} THEN NoRange ELSE Next1(g[u \ {First(u)}], First(u))]
    OBVIOUS
  <2>2. g = k
    BY <1>9, <2>1 DEF Folding
  <2>3. \A u \in SUBSET M : k[u] = IF u = {} THEN NoRange ELSE Next1(g[u \ {First(u)}], First(u))
    BY <2>1
  <2> QED  BY <2>2, <2>3
<1> DEFINE n == Cardinality(M)
           K == {k \in 0 .. n : \A u \in SUBSET M : Cardinality(u) = k => g[u] = Together(lo, hi, c, u)}
<1>11. n \in Nat /\ 0 \in 0 .. n
  BY <1>2, FS_CardinalityType
<1>12. 0 \in K
  <2>1. ASSUME NEW u \in SUBSET M, Cardinality(u) = 0 PROVE g[u] = Together(lo, hi, c, u)
    <3>1. u = {}
      BY <1>3, <2>1, FS_EmptySet
    <3> QED  BY <1>10, <3>1 DEF Together
  <2> QED  BY <1>11, <2>1
<1>13. ASSUME NEW k \in 0 .. n - 1, k \in K PROVE k + 1 \in K
  <2>1. ASSUME NEW u \in SUBSET M, Cardinality(u) = k + 1 PROVE g[u] = Together(lo, hi, c, u)
    <3>1. u # {}
      <4>1. Cardinality({}) = 0 /\ k + 1 # 0
        BY <1>11, FS_EmptySet
      <4> QED  BY <2>1, <4>1
    <3>2. PICK w : w = u \ {First(u)}
      OBVIOUS
    <3>3. w \in SUBSET M /\ Cardinality(w) = Cardinality(u) - 1
      BY <1>3, <1>4, <3>1, <3>2, FS_RemoveElement
    <3>4. Cardinality(w) = k
      BY <1>11, <2>1, <3>3
    <3>5. g[w] = Together(lo, hi, c, w)
      BY <1>13, <3>3, <3>4
    <3> HIDE DEF Next1
    <3> QED  BY <1>5, <1>10, <3>1, <3>2, <3>5
  <2> QED  BY <1>11, <2>1
<1>14. n \in K
  <2> HIDE DEF K, n
  <2>1. 0 .. n \subseteq K
    BY <1>11, <1>12, <1>13, UpTo
  <2> QED  BY <1>11, <2>1
<1>15. M \in SUBSET M
  OBVIOUS
<1> QED  BY <1>1, <1>8, <1>14, <1>15

\* What a memory instruction has seen are the accesses that no longer wait.
LEMMA StatsAre ==
    ASSUME DataInv, KeptInv, tool = "simulation", NEW t \in allthreads, NEW i \in images, NEW b \in DOMAIN Memops
    PROVE  /\ \A m \in Memops[b] : heap[Own(t, i)].stats[m] = RangeIn(log, Charged(t, i, b), m)
           /\ Charged(t, i, b) \subseteq DOMAIN log /\ IsFiniteSet(Charged(t, i, b))
           /\ \A k \in Charged(t, i, b) : /\ log[k].addr \in Nat /\ log[k].index = b
                                          /\ \A m \in Memops[b] : log[k].addr + m <= Top
<1>1. Own(t, i) = Object(t, i) /\ IsFiniteSet(DOMAIN log) /\ LogKnown(log)
  BY KnownData DEF KeptInv
<1>2. ASSUME NEW m \in Memops[b] PROVE heap[Own(t, i)].stats[m] = RangeIn(log, Charged(t, i, b), m)
  <2>1. m \in AllMemops /\ BlockOf(m) = b
    BY BlockIs
  <2>2. heap[Object(t, i)].stats[m] =
            RangeIn(log, Executions(log, t, i, BlockOf(m)) \ Pending(buffers[BufferOf(t, i)], i, m), m)
    BY <2>1 DEF KeptInv, Accounted
  <2>3. Charged(t, i, BlockOf(m)) = Executions(log, t, i, BlockOf(m)) \ Pending(buffers[BufferOf(t, i)], i, m)
    BY <2>1, ChargedIs
  <2> QED  BY <1>1, <2>1, <2>2, <2>3
<1>3. Charged(t, i, b) \subseteq DOMAIN log
  BY DEF Charged
<1>4. IsFiniteSet(Charged(t, i, b))
  BY <1>1, <1>3, FS_Subset
<1>5. \A k \in Charged(t, i, b) : log[k].addr \in Addresses /\ log[k].index = b
  BY <1>1, <1>3 DEF LogKnown, OneObject, Charged
<1>6. \A k \in Charged(t, i, b) : log[k].addr \in Nat /\ \A m \in Memops[b] : log[k].addr + m <= Top
  BY <1>5, MemopAssumption, TopAssumption
<1> QED  BY <1>2, <1>3, <1>4, <1>5, <1>6

\* What a line says of the accesses of a block.
LEMMA AggregateRight ==
    ASSUME DataInv, KeptInv, tool = "simulation", NEW t \in allthreads, NEW i \in images, NEW b \in DOMAIN Memops,
           NEW S, S = Charged(t, i, b), NEW r, r = Aggregate(heap[Own(t, i)].stats, b)
    PROVE  /\ r.count = Cardinality(Memops[b]) * Cardinality(S)
           /\ r.count = 0 <=> S = {}
           /\ S # {} => r.min = RangeOf(S, Min(Memops[b])).min /\ r.max = RangeOf(S, Max(Memops[b])).max
<1>1. /\ \A m \in Memops[b] : heap[Own(t, i)].stats[m] = RangeIn(log, S, m)
      /\ IsFiniteSet(S)
      /\ \A k \in S : log[k].addr \in Nat /\ \A m \in Memops[b] : log[k].addr + m <= Top
  BY StatsAre
<1>2. PICK n, c, s : n = Cardinality(Memops[b]) /\ c = Cardinality(S) /\ s = heap[Own(t, i)].stats
  OBVIOUS
<1>3. n \in Nat \ {0} /\ c \in Nat /\ (c = 0 <=> S = {}) /\ Memops[b] # {}
  BY <1>1, <1>2, BlockNumbers, FS_CardinalityType, FS_EmptySet
<1>4. CASE S = {}
  <2>1. \A m \in Memops[b] : s[m] = Seen(0, 0, 0, m)
    BY <1>1, <1>2, <1>4 DEF RangeIn, Seen
  <2>2. Aggregate(s, b) = Together(0, 0, 0, Memops[b])
    BY <2>1, AggregateIs
  <2>3. r = [min |-> 0, max |-> Top, count |-> 0]
    BY <1>2, <1>3, <2>2 DEF Together
  <2>4. n * c = 0
    BY <1>3, <1>4
  <2> QED  BY <1>2, <1>4, <2>3, <2>4
<1>5. CASE S # {}
  <2>1. PICK T : T = {log[k].addr : k \in S}
    OBVIOUS
  <2>2. IsFiniteSet(T) /\ T \subseteq Nat /\ T # {}
    BY <1>1, <1>5, <2>1, AddressesFinite
  <2>3. PICK lo, hi : lo = Min(T) /\ hi = Max(T)
    OBVIOUS
  <2>4. lo \in T /\ hi \in T /\ \A y \in T : lo <= y /\ hi >= y
    BY <2>2, <2>3, Extremes
  <2>5. lo \in Nat /\ hi \in Nat /\ lo <= hi /\ \A m \in Memops[b] : hi + m <= Top
    BY <1>1, <2>1, <2>2, <2>4
  <2>6. \A m : RangeIn(log, S, m) = [min |-> lo + m, max |-> hi + m, count |-> c]
    BY <1>2, <1>5, <2>1, <2>3 DEF RangeIn
  <2>7. \A m \in Memops[b] : s[m] = Seen(lo, hi, c, m)
    BY <1>1, <1>2, <1>3, <1>5, <2>6 DEF Seen
  <2>8. Aggregate(s, b) = Together(lo, hi, c, Memops[b])
    BY <1>3, <2>5, <2>7, AggregateIs
  <2>9. r = [min |-> lo + Min(Memops[b]), max |-> hi + Max(Memops[b]), count |-> n * c]
    BY <1>2, <1>3, <1>5, <2>8 DEF Together
  <2>10. n * c # 0
    BY <1>3, <1>5
  <2>11. \A m : RangeOf(S, m) = RangeIn(log, S, m)
    BY DEF RangeOf, RangeIn
  <2> QED  BY <1>2, <1>5, <2>6, <2>9, <2>10, <2>11
<1> QED  BY <1>4, <1>5

\* The lines.
LEMMA AccessesPrinted ==
    ASSUME DataInv, KeptInv, tool = "simulation"
    PROVE  SimulationLines(heap) = Happened
<1> DEFINE Says(t, i, b) ==
               Line(i, b, threadseq[t], <<Ran(t, i, b), Cardinality(Memops[b]) * Cardinality(Charged(t, i, b)),
                                          RangeOf(Charged(t, i, b), Min(Memops[b])).min,
                                          RangeOf(Charged(t, i, b), Max(Memops[b])).max>>)
           Lines(l, t, i) == \E b \in DOMAIN Memops : Charged(t, i, b) # {} /\ l = Says(t, i, b)
<1>1. ASSUME NEW l, NEW t \in allthreads, NEW i \in images
      PROVE  l \in SimulationLinesOf(heap, i, t) <=> Lines(l, t, i)
  <2>1. PICK s : s = heap[Own(t, i)]
    OBVIOUS
  <2>2. s.thread = t
    BY <2>1, KnownData DEF KeptInv, Marked
  <2>3. ASSUME NEW b \in DOMAIN Memops
        PROVE  /\ Aggregate(s.stats, b).count # 0 <=> Charged(t, i, b) # {}
               /\ Charged(t, i, b) # {} =>
                      Says(t, i, b) = Line(i, b, threadseq[s.thread],
                          <<s.counters[b], Aggregate(s.stats, b).count, Aggregate(s.stats, b).min, Aggregate(s.stats, b).max>>)
    <3>1. PICK S, r : S = Charged(t, i, b) /\ r = Aggregate(heap[Own(t, i)].stats, b)
      OBVIOUS
    <3>2. /\ r.count = Cardinality(Memops[b]) * Cardinality(S)
          /\ r.count = 0 <=> S = {}
          /\ S # {} => r.min = RangeOf(S, Min(Memops[b])).min /\ r.max = RangeOf(S, Max(Memops[b])).max
      BY <3>1, AggregateRight
    <3>3. S # {} => s.counters[b] = Ran(t, i, b)
      <4> SUFFICES ASSUME S # {} PROVE s.counters[b] = Ran(t, i, b)
        OBVIOUS
      <4>1. PICK k \in S : k \in DOMAIN log /\ log[k].index = b
        BY <3>1, StatsAre
      <4>2. b \in Indices
        BY <4>1, KnownData
      <4>3. Counting(b)
        BY <4>2, LeaderAssumption DEF Counting, Indices
      <4> QED  BY <2>1, <4>2, <4>3, RanIs DEF OneObject
    <3> QED  BY <2>1, <2>2, <3>1, <3>2, <3>3
  <2> HIDE DEF Says
  <2>4. l \in SimulationLinesOf(heap, i, t) <=>
            \E b \in DOMAIN Memops :
               /\ Aggregate(s.stats, b).count # 0
               /\ l = Line(i, b, threadseq[s.thread],
                          <<s.counters[b], Aggregate(s.stats, b).count, Aggregate(s.stats, b).min, Aggregate(s.stats, b).max>>)
    BY <2>1 DEF SimulationLinesOf
  <2> QED  BY <2>3, <2>4
<1>2. \A l : l \in SimulationLines(heap) <=> \E i \in images : \E t \in allthreads : l \in SimulationLinesOf(heap, i, t)
  BY DEF SimulationLines
<1>3. \A l : l \in Happened <=> \E i \in images : \E t \in allthreads : Lines(l, t, i)
  <2> DEFINE Triples == {k \in images \X (DOMAIN Memops) \X allthreads : Charged(k[3], k[1], k[2]) # {}}
  <2>1. \A l : l \in Happened <=> \E k \in Triples : l = Says(k[3], k[1], k[2])
    BY DEF Happened
  <2>2. ASSUME NEW t \in allthreads, NEW i \in images, NEW b \in DOMAIN Memops, Charged(t, i, b) # {}
        PROVE  \E k \in Triples : k[1] = i /\ k[2] = b /\ k[3] = t
    <3>1. PICK k : k = <<i, b, t>>
      OBVIOUS
    <3>2. k[1] = i /\ k[2] = b /\ k[3] = t
      BY <3>1
    <3>3. k \in {j \in images \X (DOMAIN Memops) \X allthreads : TRUE}
      BY <3>1
    <3> QED  BY <2>2, <3>2, <3>3
  <2>3. \A k \in Triples : k[1] \in images /\ k[2] \in DOMAIN Memops /\ k[3] \in allthreads /\ Charged(k[3], k[1], k[2]) # {}
    OBVIOUS
  <2> HIDE DEF Says, Triples
  <2> QED  BY <2>1, <2>2, <2>3
<1> HIDE DEF Lines
<1>4. \A l : l \in SimulationLines(heap) <=> l \in Happened
  BY <1>1, <1>2, <1>3
<1> QED  BY <1>4

\* The heading: sums over all objects are sums over all executions.
LEMMA ObjectsFinite ==
    ASSUME DataInv, KeptInv
    PROVE  IsFiniteSet(Objects)
<1>1. PICK P : P = allthreads \X images
  OBVIOUS
<1>2. IsFiniteSet(P)
  BY <1>1, KnownData, FS_Product
<1>3. PICK f : f = [p \in P |-> Own(p[1], p[2])]
  OBVIOUS
<1>4. \A o : o \in Objects <=> \E t \in allthreads : \E i \in images : o = Own(t, i)
  BY DEF Objects
<1>5. \A p \in P : p[1] \in allthreads /\ p[2] \in images
  BY <1>1
<1>6. f \in [P -> Objects]
  BY <1>3, <1>4, <1>5
<1>7. ASSUME NEW o \in Objects PROVE \E p \in P : f[p] = o
  <2>1. PICK t \in allthreads, i \in images : o = Own(t, i)
    BY <1>4
  <2>2. PICK p : p = <<t, i>>
    OBVIOUS
  <2>3. p \in P /\ p[1] = t /\ p[2] = i
    BY <1>1, <2>2
  <2> QED  BY <1>3, <2>1, <2>3
<1>8. f \in Surjection(P, Objects)
  BY <1>6, <1>7 DEF Surjection
<1> QED  BY <1>2, <1>8, FS_Surjection

OfOne(L, t, i) == {k \in L : log[k].thread = t /\ log[k].image = i}
LEMMA SumOverObjects ==
    ASSUME DataInv, KeptInv, NEW L, L \subseteq DOMAIN log, NEW h, \A k \in L : h[k] \in Int,
           NEW f, DOMAIN f = Objects,
           \A t \in allthreads, i \in images : f[Own(t, i)] = SumFunctionOnSet(h, OfOne(L, t, i))
    PROVE  SumFunction(f) = SumFunctionOnSet(h, L)
<1>1. IsFiniteSet(L) /\ \A k \in L : log[k].thread \in allthreads /\ log[k].image \in images
  <2>1. IsFiniteSet(DOMAIN log)
    BY KnownData
  <2> QED  BY <2>1, KnownData, FS_Subset
<1>2. PICK cell : cell = [k \in L |-> Own(log[k].thread, log[k].image)]
  OBVIOUS
<1>3. PICK G : G = Objects
  OBVIOUS
<1>4. IsFiniteSet(G)
  BY <1>3, ObjectsFinite
<1>5. \A o : o \in G <=> \E t \in allthreads : \E i \in images : o = Own(t, i)
  BY <1>3 DEF Objects
<1>6. \A k \in L : cell[k] \in G
  BY <1>1, <1>2, <1>5
<1>7. ASSUME NEW p \in G PROVE f[p] = SumFunctionOnSet(h, PartOf(L, cell, p))
  <2>1. PICK t \in allthreads, i \in images : p = Own(t, i)
    BY <1>5
  <2>2. ASSUME NEW k \in L PROVE cell[k] = p <=> log[k].thread = t /\ log[k].image = i
    <3>1. PICK u, j : u = log[k].thread /\ j = log[k].image
      OBVIOUS
    <3>2. u \in allthreads /\ j \in images /\ cell[k] = Own(u, j)
      BY <1>1, <1>2, <3>1
    <3>3. Own(u, j) = Object(u, j) /\ Own(t, i) = Object(t, i)
      BY <3>2, KnownData
    <3>4. Object(t, i) = Object(u, j) => u = t /\ j = i
      BY <3>2, ObjectOf
    <3> QED  BY <2>1, <3>1, <3>2, <3>3, <3>4
  <2>3. PartOf(L, cell, p) = OfOne(L, t, i)
    BY <2>2 DEF PartOf, OfOne
  <2> QED  BY <2>1, <2>3
<1>8. SumFunctionOnSet(f, G) = SumFunctionOnSet(h, L)
  BY <1>1, <1>4, <1>6, <1>7, SumByParts
<1> QED  BY <1>3, <1>8 DEF SumFunction

\* Sums over the blocks, for one thread and image.
LEMMA SumOverBlocks ==
    ASSUME DataInv, KeptInv, tool = "simulation", NEW t \in allthreads, NEW i \in images,
           NEW L, L \subseteq DOMAIN log, NEW U, U = OfOne(L, t, i),
           NEW B, IsFiniteSet(B), Indices \subseteq B, B \subseteq DOMAIN Memops,
           NEW h, \A k \in L : h[k] = Cardinality(Memops[log[k].index]),
           NEW f, \A b \in B : f[b] = Cardinality({k \in U : log[k].index = b}) * Cardinality(Memops[b])
    PROVE  SumFunctionOnSet(f, B) = SumFunctionOnSet(h, U)
<1>1. U \subseteq L /\ IsFiniteSet(DOMAIN log) /\ \A k \in L : log[k].index \in B
  BY KnownData DEF OfOne
<1>2. IsFiniteSet(U)
  BY <1>1, FS_Subset
<1>3. PICK cell : cell = [k \in U |-> log[k].index]
  OBVIOUS
<1>4. PICK v : v = [b \in B |-> Cardinality(Memops[b])]
  OBVIOUS
<1>5. \A b \in B : v[b] \in Nat
  BY <1>4, BlockNumbers
<1>6. (\A k \in U : cell[k] \in B) /\ \A k \in U : h[k] = v[cell[k]]
  BY <1>1, <1>3, <1>4
<1>7. ASSUME NEW b \in B PROVE f[b] = Cardinality(PartOf(U, cell, b)) * v[b]
  <2>1. PartOf(U, cell, b) = {k \in U : log[k].index = b}
    BY <1>3 DEF PartOf
  <2> QED  BY <1>4, <2>1
<1> QED  BY <1>2, <1>5, <1>6, <1>7, SumByCells

\* The accesses that were made.
LEMMA TotalIs ==
    ASSUME DataInv, KeptInv, tool = "simulation",
           NEW h, h = [k \in DOMAIN log |-> Cardinality(Memops[log[k].index])]
    PROVE  TotalMemop(heap) = SumFunctionOnSet(h, DOMAIN log)
<1>1. Indices \subseteq DOMAIN Memops /\ IsFiniteSet(Indices)
  BY KnownData, MemopAssumption DEF Indices
<1>2. \A b \in Indices : Counting(b)
  BY LeaderAssumption DEF Counting, Indices
<1>3. PICK L : L = DOMAIN log
  OBVIOUS
<1>4. (\A k \in L : h[k] = Cardinality(Memops[log[k].index])) /\ \A k \in L : h[k] \in Int
  <2>1. \A k \in L : log[k].index \in DOMAIN Memops
    BY <1>1, <1>3, KnownData
  <2> QED  BY <1>3, <2>1, BlockNumbers
<1>5. PICK f : f = [o \in Objects |-> SumFunction([b \in Indices |-> heap[o].counters[b] * Cardinality(Memops[b])])]
  OBVIOUS
<1>6. ASSUME NEW t \in allthreads, NEW i \in images PROVE f[Own(t, i)] = SumFunctionOnSet(h, OfOne(L, t, i))
  <2>1. PICK o : o = Own(t, i)
    OBVIOUS
  <2>2. PICK g : g = [b \in Indices |-> heap[o].counters[b] * Cardinality(Memops[b])]
    OBVIOUS
  <2>3. o \in Objects /\ f[o] = SumFunctionOnSet(g, Indices)
    BY <1>5, <2>1, <2>2 DEF SumFunction, Objects
  <2>4. PICK U : U = OfOne(L, t, i)
    OBVIOUS
  <2>5. ASSUME NEW b \in Indices PROVE g[b] = Cardinality({k \in U : log[k].index = b}) * Cardinality(Memops[b])
    <3>1. {k \in U : log[k].index = b} = Executions(log, t, i, b)
      BY <1>3, <2>4 DEF OfOne, Executions
    <3>2. heap[o].counters[b] = Cardinality(Executions(log, t, i, b))
      BY <1>2, <2>1, RanIs DEF OneObject
    <3> QED  BY <2>2, <3>1, <3>2
  <2>6. SumFunctionOnSet(g, Indices) = SumFunctionOnSet(h, U)
    BY <1>1, <1>3, <1>4, <2>4, <2>5, SumOverBlocks
  <2> QED  BY <2>1, <2>3, <2>4, <2>6
<1>7. DOMAIN f = Objects
  BY <1>5
<1>8. SumFunction(f) = SumFunctionOnSet(h, L)
  BY <1>3, <1>4, <1>6, <1>7, SumOverObjects
<1> QED  BY <1>3, <1>5, <1>8 DEF TotalMemop

LEMMA MemopsFinite ==
    /\ IsFiniteSet(AllMemops)
    /\ \A b \in DOMAIN Memops : IsFiniteSet(Memops[b]) /\ Cardinality(Memops[b]) \in Nat /\ Memops[b] \subseteq AllMemops
<1>1. PICK P : P = {Memops[b] : b \in DOMAIN Memops}
  OBVIOUS
<1>2. \A T \in P : IsFiniteSet(T)
  BY <1>1, MemopAssumption
<1>3. PICK f : f = [b \in DOMAIN Memops |-> Memops[b]]
  OBVIOUS
<1>4. f \in Surjection(DOMAIN Memops, P)
  BY <1>1, <1>3 DEF Surjection
<1>5. IsFiniteSet(P)
  BY <1>4, NumberingAssumption, FS_Surjection
<1>6. IsFiniteSet(UNION P)
  BY <1>2, <1>5, FS_UNION
<1>7. UNION P = AllMemops
  BY <1>1 DEF AllMemops
<1>8. \A b \in DOMAIN Memops : IsFiniteSet(Memops[b]) /\ Cardinality(Memops[b]) \in Nat /\ Memops[b] \subseteq AllMemops
  BY MemopAssumption DEF AllMemops
<1> QED  BY <1>6, <1>7, <1>8

\* The accesses that were processed.
LEMMA SampledIs ==
    ASSUME DataInv, KeptInv, tool = "simulation",
           NEW h, h = [k \in DOMAIN log |-> Cardinality(Memops[log[k].index])]
    PROVE  Sampled(heap) = SumFunctionOnSet(h, DOMAIN log \ Waiting)
<1>1. Indices \subseteq DOMAIN Memops /\ IsFiniteSet(DOMAIN Memops)
  BY MemopAssumption, NumberingAssumption DEF Indices
<1>2. PICK L, B : L = DOMAIN log \ Waiting /\ B = DOMAIN Memops
  OBVIOUS
<1>3. L \subseteq DOMAIN log /\ (\A k \in L : h[k] = Cardinality(Memops[log[k].index])) /\ \A k \in L : h[k] \in Int
  <2>1. \A k \in L : log[k].index \in DOMAIN Memops
    BY <1>1, <1>2, KnownData
  <2> QED  BY <1>2, <2>1, MemopsFinite
<1>4. PICK f : f = [o \in Objects |-> SumFunction([m \in AllMemops |-> heap[o].stats[m].count])]
  OBVIOUS
<1>5. ASSUME NEW t \in allthreads, NEW i \in images PROVE f[Own(t, i)] = SumFunctionOnSet(h, OfOne(L, t, i))
  <2>1. PICK o : o = Own(t, i)
    OBVIOUS
  <2>2. PICK g : g = [m \in AllMemops |-> heap[o].stats[m].count]
    OBVIOUS
  <2>3. o \in Objects /\ f[o] = SumFunctionOnSet(g, AllMemops)
    BY <1>4, <2>1, <2>2 DEF SumFunction, Objects
  <2>4. PICK U : U = OfOne(L, t, i)
    OBVIOUS
  <2>5. PICK cell : cell = [m \in AllMemops |-> BlockOf(m)]
    OBVIOUS
  <2>6. PICK e : e = [b \in B |-> Cardinality(Charged(t, i, b)) * Cardinality(Memops[b])]
    OBVIOUS
  <2>7. \A b \in B : Cardinality(Charged(t, i, b)) \in Nat /\ {k \in U : log[k].index = b} = Charged(t, i, b)
    <3> SUFFICES ASSUME NEW b \in B
                 PROVE  Cardinality(Charged(t, i, b)) \in Nat /\ {k \in U : log[k].index = b} = Charged(t, i, b)
      OBVIOUS
    <3>1. IsFiniteSet(Charged(t, i, b))
      BY <1>2, StatsAre
    <3>2. {k \in U : log[k].index = b} = Charged(t, i, b)
      BY <1>2, <2>4 DEF OfOne, Charged
    <3> QED  BY <3>1, <3>2, FS_CardinalityType
  <2>8. ASSUME NEW b \in B, NEW m \in Memops[b]
        PROVE  m \in AllMemops /\ cell[m] = b /\ g[m] = Cardinality(Charged(t, i, b))
    <3>1. m \in AllMemops /\ BlockOf(m) = b
      BY <1>2, BlockIs
    <3>2. heap[o].stats[m] = RangeIn(log, Charged(t, i, b), m)
      BY <1>2, <2>1, StatsAre
    <3>3. heap[o].stats[m].count = Cardinality(Charged(t, i, b))
      <4>1. PICK S : S = Charged(t, i, b)
        OBVIOUS
      <4>2. S = {} => Cardinality(S) = 0
        BY FS_EmptySet
      <4>3. RangeIn(log, S, m).count = IF S = {} THEN 0 ELSE Cardinality(S)
        BY DEF RangeIn, NoRange
      <4> QED  BY <3>2, <4>1, <4>2, <4>3
    <3> QED  BY <2>2, <2>5, <3>1, <3>3
  <2>9. \A m \in AllMemops : cell[m] \in B /\ g[m] \in Int
    <3> SUFFICES ASSUME NEW m \in AllMemops PROVE cell[m] \in B /\ g[m] \in Int
      OBVIOUS
    <3>1. PICK b \in B : m \in Memops[b]
      BY <1>2, BlockIs
    <3> QED  BY <2>7, <2>8, <3>1
  <2>10. ASSUME NEW b \in B PROVE e[b] = SumFunctionOnSet(g, PartOf(AllMemops, cell, b))
    <3>1. PICK M, c, n : M = Memops[b] /\ c = Cardinality(Charged(t, i, b)) /\ n = Cardinality(M)
      OBVIOUS
    <3>2. IsFiniteSet(M) /\ n \in Nat /\ c \in Nat /\ \A m \in M : g[m] = c
      BY <1>2, <2>7, <2>8, <3>1, MemopsFinite
    <3>3. SumFunctionOnSet(g, M) = Cardinality(M) * c
      BY <3>2, SumConstant
    <3>4. PartOf(AllMemops, cell, b) = M
      <4>1. ASSUME NEW m \in PartOf(AllMemops, cell, b) PROVE m \in M
        BY <2>5, <3>1, <4>1, BlockIs DEF PartOf
      <4>2. ASSUME NEW m \in M PROVE m \in PartOf(AllMemops, cell, b)
        BY <2>8, <3>1, <4>2 DEF PartOf
      <4> QED  BY <4>1, <4>2
    <3>5. e[b] = c * n
      BY <2>6, <3>1
    <3>6. c * n = n * c
      BY <3>2
    <3> QED  BY <3>1, <3>3, <3>4, <3>5, <3>6
  <2>11. SumFunctionOnSet(e, B) = SumFunctionOnSet(g, AllMemops)
    <3>1. IsFiniteSet(AllMemops) /\ IsFiniteSet(B) /\ (\A m \in AllMemops : cell[m] \in B) /\ \A m \in AllMemops : g[m] \in Int
      BY <1>1, <1>2, <2>9, MemopsFinite
    <3> QED  BY <2>10, <3>1, SumByParts
  <2>12. \A b \in B : e[b] = Cardinality({k \in U : log[k].index = b}) * Cardinality(Memops[b])
    BY <2>6, <2>7
  <2>13. SumFunctionOnSet(e, B) = SumFunctionOnSet(h, U)
    <3>1. IsFiniteSet(B) /\ Indices \subseteq B /\ B \subseteq DOMAIN Memops
      BY <1>1, <1>2
    <3> QED  BY <1>3, <2>4, <2>12, <3>1, SumOverBlocks
  <2> QED  BY <2>1, <2>3, <2>4, <2>11, <2>13
<1>6. DOMAIN f = Objects
  BY <1>4
<1>7. SumFunction(f) = SumFunctionOnSet(h, L)
  BY <1>3, <1>5, <1>6, SumOverObjects
<1> QED  BY <1>2, <1>4, <1>7 DEF Sampled

LEMMA SimulationAnnounced ==
    ASSUME DataInv, KeptInv, tool = "simulation"
    PROVE  {SimulationHeading(heap)} \cup ImageLines = Announced
<1>1. PICK h : h = [k \in DOMAIN log |-> Cardinality(Memops[log[k].index])]
  OBVIOUS
<1>2. PICK L : L = DOMAIN log \ Waiting
  OBVIOUS
<1>3. PICK n, c, a, b : /\ n = Cardinality(images) /\ c = Cardinality(allthreads)
                        /\ a = SumFunctionOnSet(h, DOMAIN log) /\ b = SumFunctionOnSet(h, L)
  OBVIOUS
<1>4. n \in Nat /\ c \in Nat
  BY <1>3, KnownData, FS_CardinalityType
<1>5. a \in Nat /\ b \in Nat
  <2>1. \A k \in DOMAIN log : log[k].index \in DOMAIN Memops
    BY KnownData, MemopAssumption DEF Indices
  <2>2. \A k \in DOMAIN log : h[k] \in Nat
    BY <1>1, <2>1, MemopsFinite
  <2>3. IsFiniteSet(DOMAIN log)
    BY KnownData
  <2>4. L \subseteq DOMAIN log
    BY <1>2
  <2>5. IsFiniteSet(L) /\ \A k \in L : h[k] \in Nat
    BY <2>2, <2>3, <2>4, FS_Subset
  <2> QED  BY <1>3, <2>2, <2>3, <2>5, SumNatural
<1>6. TotalMemop(heap) = a /\ Sampled(heap) = b
  BY <1>1, <1>2, <1>3, TotalIs, SampledIs
<1>7. <<n, c>> \o <<a, b>> = <<n, c, a, b>>
  BY <1>4, <1>5, FourNumbers
<1>8. SimulationHeading(heap) = Line(0, 0, 0, <<n, c, a, b>>)
  BY <1>3, <1>6, <1>7 DEF SimulationHeading, Heading
<1>9. SumFunction(h) = a
  BY <1>1, <1>3 DEF SumFunction
<1>10. Announced = {Line(0, 0, 0, <<n, c, SumFunction(h), SumFunctionOnSet(h, L)>>)} \cup ImageLines
  BY <1>1, <1>2, <1>3 DEF Announced, ImageLines
<1> QED  BY <1>3, <1>8, <1>9, <1>10

-----------------------------------------------------------------------------
\* What is printed is what happened: of every image and thread the times a
\* block ran, the accesses that were processed with their least and greatest
\* address, and the time spent in a function or loop; the sums are sums over
\* all threads and images (ReportIsRight; tool_image_fini of the four tools).
THEOREM ReportsWhatHappened == Spec => []ReportIsRight
<1>1. DataInv /\ KeptInv /\ AsPrinted => ReportIsRight
  <2> SUFFICES ASSUME DataInv, KeptInv PROVE Printed = Announced \cup Happened
    BY DEF AsPrinted, ReportIsRight
  <2>1. CASE tool = "counter"
    <3>1. {CounterHeading} \cup CounterImages = Announced /\ CounterLines = Happened
      BY <2>1, CountersAnnounced, CountersPrinted
    <3> QED  BY <2>1, <3>1 DEF Printed
  <2>2. CASE tool = "simulation"
    <3>1. {SimulationHeading(heap)} \cup ImageLines = Announced /\ SimulationLines(heap) = Happened
      BY <2>2, SimulationAnnounced, AccessesPrinted
    <3> QED  BY <2>2, <3>1 DEF Printed
  <2>3. CASE tool \notin OneObject
    <3>1. TimerLines = Announced \cup Happened
      BY <2>3, TimesPrinted
    <3> QED  BY <2>3, <3>1 DEF Printed, OneObject
  <2> QED  BY <2>1, <2>2, <2>3 DEF OneObject
<1>2. Init => AsPrinted
  BY DEF Init, AsPrinted
<1>3. DataInv /\ KeptInv /\ AsPrinted /\ [Next]_vars => AsPrinted'
  BY ReportStays
<1> QED  BY <1>1, <1>2, <1>3, KeptInvariance, PTL DEF Spec
=============================================================================
