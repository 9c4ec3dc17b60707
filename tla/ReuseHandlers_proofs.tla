------------------------ MODULE ReuseHandlers_proofs ------------------------
(***************************************************************************)
(* Theorems about the reuse handlers of a thread for any stream of         *)
(* addresses and any window: the distance found in the window is the       *)
(* distance as defined, for the reuse distance first and then for the      *)
(* spatial locality, whose window is another one.                          *)
(***************************************************************************)
EXTENDS ReuseHandlers, FiniteSetTheorems, SequenceTheorems, NumberLemmas

Now == Len(history)

\* the accesses since addresses were skipped, and those to one address
Live == {k \in 1 .. Now : \A j \in k .. Now : ~history[j].skip}
LiveOf(a) == {k \in Live : history[k].addr = a}
LastUse(a) == CHOOSE k \in LiveOf(a) : \A j \in LiveOf(a) : j <= k
IsLastUse(a, k) == k \in LiveOf(a) /\ \A j \in LiveOf(a) : j <= k

Records == [addr : Addresses \cup {0}, id : Ids \cup {0}, skip : BOOLEAN]
WindowEntries == [seq : Nat, address : Addresses]

WindowType ==
    /\ capacity \in Nat /\ sequence \in Nat
    /\ window \in Seq(WindowEntries)
    /\ history \in Seq(Records)
    /\ current = Len(window)
    /\ capacity # Infinity => Len(window) <= capacity

\* the window is sorted, and the map says where an address is in it
Sorted ==
    /\ \A i, j \in 1 .. Len(window) : i < j => window[i].seq < window[j].seq
    /\ \A i \in 1 .. Len(window) : window[i].seq < sequence
MapsWindow ==
    /\ DOMAIN mwindow = {window[i].address : i \in 1 .. Len(window)}
    /\ \A i \in 1 .. Len(window) : mwindow[window[i].address] = window[i].seq
\* the window is in the order of the last uses
InOrderOfUse ==
    /\ \A i \in 1 .. Len(window) : IsLastUse(window[i].address, LastUse(window[i].address))
    /\ \A i, j \in 1 .. Len(window) :
           i < j => LastUse(window[i].address) < LastUse(window[j].address)
\* what has left the window was used before all that is in it
LeftForLater ==
    \A k \in Live : history[k].addr \notin DOMAIN mwindow =>
        /\ Full
        /\ \A i \in 1 .. Len(window) : k < LastUse(window[i].address)

WindowInv == WindowType /\ Sorted /\ MapsWindow /\ InOrderOfUse /\ LeftForLater

-----------------------------------------------------------------------------
\* A sequence without its k-th element (tree234's delpos234).
LEMMA RemoveAtProperties ==
    ASSUME NEW S, NEW s \in Seq(S), NEW k \in 1 .. Len(s)
    PROVE  /\ RemoveAt(s, k) \in Seq(S)
           /\ Len(RemoveAt(s, k)) = Len(s) - 1
           /\ \A m \in 1 .. Len(s) - 1 :
                  RemoveAt(s, k)[m] = IF m < k THEN s[m] ELSE s[m + 1]
<1> DEFINE front == SubSeq(s, 1, k - 1)
           back == SubSeq(s, k + 1, Len(s))
<1>0. Len(s) \in Nat /\ k \in Nat /\ k <= Len(s) /\ k >= 1
  OBVIOUS
<1>1. front \in Seq(S) /\ Len(front) = k - 1 /\ \A m \in 1 .. k - 1 : front[m] = s[m]
  OBVIOUS
<1>2. back \in Seq(S) /\ Len(back) = Len(s) - k /\ \A m \in 1 .. Len(s) - k : back[m] = s[m + k]
  OBVIOUS
<1> HIDE DEF front, back
<1>3. front \o back \in Seq(S) /\ Len(front \o back) = Len(s) - 1
      /\ \A m \in 1 .. Len(s) - 1 : (front \o back)[m] = IF m < k THEN front[m] ELSE back[m - (k - 1)]
  <2>1. Len(front) + Len(back) = Len(s) - 1
    BY <1>0, <1>1, <1>2
  <2>2. /\ front \o back \in Seq(S)
        /\ Len(front \o back) = Len(front) + Len(back)
        /\ \A m \in 1 .. Len(front) + Len(back) :
               (front \o back)[m] = IF m <= Len(front) THEN front[m] ELSE back[m - Len(front)]
    BY <1>1, <1>2, ConcatProperties, Zenon
  <2>3. \A m \in 1 .. Len(s) - 1 :
            (front \o back)[m] = IF m <= k - 1 THEN front[m] ELSE back[m - (k - 1)]
    BY <1>1, <2>1, <2>2, Zenon
  <2>4. \A m \in 1 .. Len(s) - 1 : m <= k - 1 <=> m < k
    BY <1>0
  <2> QED  BY <2>1, <2>2, <2>3, <2>4, Zenon
<1>4. \A m \in 1 .. Len(s) - 1 : (front \o back)[m] = IF m < k THEN s[m] ELSE s[m + 1]
  <2> SUFFICES ASSUME NEW m \in 1 .. Len(s) - 1
               PROVE  (front \o back)[m] = IF m < k THEN s[m] ELSE s[m + 1]
    OBVIOUS
  <2>1. CASE m < k
    BY <1>0, <1>1, <1>3, <2>1
  <2>2. CASE ~(m < k)
    <3>1. m - (k - 1) \in 1 .. Len(s) - k /\ (m - (k - 1)) + k = m + 1
      BY <1>0, <2>2
    <3> QED  BY <1>2, <1>3, <2>2, <3>1
  <2> QED  BY <2>1, <2>2
<1>5. RemoveAt(s, k) = front \o back
  BY DEF RemoveAt, front, back
<1> QED  BY <1>3, <1>4, <1>5

-----------------------------------------------------------------------------
(* The stream. *)

\* What was recorded stays as it is.
LEMMA HistoryStep ==
    ASSUME history \in Seq(Records), NEW r \in Records, history' = Append(history, r)
    PROVE  /\ history' \in Seq(Records) /\ Now \in Nat /\ Now' = Now + 1
           /\ \A n \in 1 .. Now : history'[n] = history[n]
           /\ history'[Now + 1] = r
BY AppendProperties DEF Now

\* An access is live, and the last one of its address.
LEMMA LiveAfterAccess ==
    ASSUME history \in Seq(Records), NEW r \in Records, history' = Append(history, r), ~r.skip
    PROVE  /\ Live' = Live \cup {Now + 1}
           /\ \A k \in Live : history'[k] = history[k] /\ k \in 1 .. Now
           /\ LiveOf(r.addr)' = LiveOf(r.addr) \cup {Now + 1}
           /\ \A a : a # r.addr => LiveOf(a)' = LiveOf(a)
<1>1. /\ Now \in Nat /\ Now' = Now + 1 /\ history'[Now + 1] = r
      /\ \A n \in 1 .. Now : history'[n] = history[n]
  BY HistoryStep
<1>2. Live' = Live \cup {Now + 1}
  <2>1. ASSUME NEW k \in 1 .. Now
        PROVE  (\A j \in k .. Now' : ~history'[j].skip) <=> (\A j \in k .. Now : ~history[j].skip)
    <3>1. k .. Now' = (k .. Now) \cup {Now + 1} /\ k .. Now \subseteq 1 .. Now
      BY <1>1
    <3> QED  BY <1>1, <3>1
  <2>2. \A j \in (Now + 1) .. Now' : ~history'[j].skip
    <3>1. \A j \in (Now + 1) .. Now' : j = Now + 1
      BY <1>1
    <3> QED  BY <1>1, <3>1
  <2>3. 1 .. Now' = (1 .. Now) \cup {Now + 1}
    BY <1>1
  <2>4. Live' = {k \in 1 .. Now' : \A j \in k .. Now' : ~history'[j].skip}
    BY DEF Live
  <2> HIDE DEF Now
  <2> QED  BY <2>1, <2>2, <2>3, <2>4 DEF Live
<1>3. \A k \in Live : k \in 1 .. Now /\ history'[k] = history[k]
  BY <1>1 DEF Live
<1>4. \A a : LiveOf(a)' = {k \in Live' : history'[k].addr = a}
  BY DEF LiveOf
<1>5. LiveOf(r.addr)' = LiveOf(r.addr) \cup {Now + 1}
  BY <1>1, <1>2, <1>3, <1>4 DEF LiveOf
<1>6. \A a : a # r.addr => LiveOf(a)' = LiveOf(a)
  BY <1>1, <1>2, <1>3, <1>4 DEF LiveOf
<1> QED  BY <1>2, <1>3, <1>5, <1>6

\* There is at most one last use.
LEMMA UseIs ==
    ASSUME NEW a, NEW k, IsLastUse(a, k) PROVE LastUse(a) = k
<1>1. LiveOf(a) \subseteq Int
  BY DEF LiveOf, Live
<1>2. \A m \in LiveOf(a) : (\A j \in LiveOf(a) : j <= m) => m = k
  BY <1>1 DEF IsLastUse
<1> QED  BY <1>2 DEF LastUse, IsLastUse

\* The last uses after an access.
LEMMA UseAfterAccess ==
    ASSUME history \in Seq(Records), NEW r \in Records, history' = Append(history, r), ~r.skip
    PROVE  /\ IsLastUse(r.addr, Now)' /\ LastUse(r.addr)' = Now + 1
           /\ \A a, k : a # r.addr /\ IsLastUse(a, k) =>
                  IsLastUse(a, k)' /\ LastUse(a)' = k /\ LastUse(a) = k /\ k <= Now
<1>1. LiveOf(r.addr)' = LiveOf(r.addr) \cup {Now + 1} /\ Now \in Nat
      /\ \A a : a # r.addr => LiveOf(a)' = LiveOf(a)
  BY LiveAfterAccess, HistoryStep
<1>2. \A a : LiveOf(a) \subseteq 1 .. Now
  BY DEF LiveOf, Live
<1>3. \A j \in LiveOf(r.addr)' : j <= Now + 1
  BY <1>1, <1>2
<1>4. IsLastUse(r.addr, Now)'
  <2>1. Now + 1 \in LiveOf(r.addr)' /\ Now' = Now + 1
    BY <1>1, HistoryStep
  <2> QED  BY <1>3, <2>1 DEF IsLastUse
<1>5. LastUse(r.addr)' = Now + 1
  <2>1. \A m \in LiveOf(r.addr)' : (\A j \in LiveOf(r.addr)' : j <= m) => m = Now + 1
    <3>1. \A m \in LiveOf(r.addr)' : m \in Nat /\ m <= Now + 1
      BY <1>1, <1>2
    <3>2. Now + 1 \in LiveOf(r.addr)'
      BY <1>1
    <3> SUFFICES ASSUME NEW m \in LiveOf(r.addr)', \A j \in LiveOf(r.addr)' : j <= m
                 PROVE  m = Now + 1
      OBVIOUS
    <3>3. Now + 1 <= m /\ m \in Nat /\ m <= Now + 1
      BY <3>1, <3>2
    <3> QED  BY <1>1, <3>3
  <2>2. Now + 1 \in LiveOf(r.addr)'
    BY <1>1
  <2>3. LastUse(r.addr)' = CHOOSE k \in LiveOf(r.addr)' : \A j \in LiveOf(r.addr)' : j <= k
    BY DEF LastUse
  <2> QED  BY <1>3, <2>1, <2>2, <2>3
<1>6. ASSUME NEW a, NEW k, a # r.addr, IsLastUse(a, k)
      PROVE  IsLastUse(a, k)' /\ LastUse(a)' = k /\ LastUse(a) = k /\ k <= Now
  <2>1. LiveOf(a)' = LiveOf(a)
    BY <1>1, <1>6
  <2>2. LastUse(a) = k
    BY <1>6, UseIs
  <2>3. LastUse(a)' = LastUse(a)
    BY <2>1 DEF LastUse
  <2>4. IsLastUse(a, k)'
    BY <1>6, <2>1 DEF IsLastUse
  <2>5. k <= Now
    BY <1>1, <1>2, <1>6 DEF IsLastUse
  <2> QED  BY <2>2, <2>3, <2>4, <2>5
<1> QED  BY <1>4, <1>5, <1>6

-----------------------------------------------------------------------------
(* The window. *)

LEMMA EntryType ==
    ASSUME WindowInv
    PROVE  /\ Len(window) \in Nat /\ current = Len(window) /\ capacity \in Nat /\ sequence \in Nat
           /\ \A i \in 1 .. Len(window) :
                  window[i].seq \in Nat /\ window[i].address \in Addresses
<1>1. Len(window) \in Nat /\ \A i \in 1 .. Len(window) : window[i] \in WindowEntries
  BY ElementOfSeq DEF WindowInv, WindowType
<1>2. \A e \in WindowEntries : e.seq \in Nat /\ e.address \in Addresses
  BY DEF WindowEntries
<1> QED  BY <1>1, <1>2 DEF WindowInv, WindowType

\* No address is in the window twice.
LEMMA AddressOnce ==
    ASSUME WindowInv, NEW i \in 1 .. Len(window), NEW j \in 1 .. Len(window),
           window[i].address = window[j].address
    PROVE  i = j
<1>1. window[i].seq = window[j].seq
  BY DEF WindowInv, MapsWindow
<1>2. ~(i < j) /\ ~(j < i)
  BY <1>1, EntryType DEF WindowInv, Sorted
<1> QED  BY <1>2

\* The tree finds an entry by its sequence number (find234 with reusecmp).
LEMMA RankIs ==
    ASSUME WindowInv, NEW i \in 1 .. Len(window) PROVE Rank(window[i].seq) = i - 1
<1>1. Len(window) \in Nat /\ \A n \in 1 .. Len(window) : window[n].seq \in Nat
  BY EntryType
<1>2. \A n \in 1 .. Len(window) : window[n].seq < window[i].seq <=> n < i
  <2> SUFFICES ASSUME NEW n \in 1 .. Len(window)
               PROVE  window[n].seq < window[i].seq <=> n < i
    OBVIOUS
  <2>1. n < i => window[n].seq < window[i].seq
    BY DEF WindowInv, Sorted
  <2>2. i < n => window[i].seq < window[n].seq
    BY DEF WindowInv, Sorted
  <2>3. n < i \/ n = i \/ i < n
    OBVIOUS
  <2> QED  BY <1>1, <2>1, <2>2, <2>3
<1>3. {n \in 1 .. Len(window) : window[n].seq < window[i].seq} = 1 .. (i - 1)
  BY <1>1, <1>2
<1>4. Cardinality(1 .. (i - 1)) = i - 1
  BY FS_Interval
<1> QED  BY <1>3, <1>4 DEF Rank

\* The window after an access holds some of its entries in their order, which
\* are those at o[1], o[2] and so on, and then the access.
LEMMA WindowMoves ==
    ASSUME WindowInv, NEW addr \in Addresses, NEW id \in Ids, NEW n \in Nat,
           NEW o \in [1 .. n -> 1 .. Len(window)],
           \A i, j \in 1 .. n : i < j => o[i] < o[j],
           \A i \in 1 .. n : window[o[i]].address # addr,
           history' = Append(history, [addr |-> addr, id |-> id, skip |-> FALSE]),
           window' \in Seq(WindowEntries), Len(window') = n + 1, current' = n + 1,
           \A i \in 1 .. n : window'[i] = window[o[i]],
           window'[n + 1] = [seq |-> sequence, address |-> addr],
           sequence' = sequence + 1, capacity' = capacity,
           mwindow' = [a \in {window[o[i]].address : i \in 1 .. n} \cup {addr} |->
                          IF a = addr THEN sequence ELSE mwindow[a]],
           capacity # Infinity => n + 1 <= capacity,
           \A k \in Live : history[k].addr \notin DOMAIN mwindow' =>
               Full' /\ \A i \in 1 .. n : k < LastUse(window[o[i]].address)
    PROVE  WindowInv'
<1> DEFINE r == [addr |-> addr, id |-> id, skip |-> FALSE]
<1>0. r \in Records /\ ~r.skip /\ r.addr = addr /\ history \in Seq(Records) /\ history' = Append(history, r)
  BY DEF Records, WindowInv, WindowType
<1> HIDE DEF r
<1>1. 1 .. n + 1 = (1 .. n) \cup {n + 1} /\ \A i \in 1 .. n : o[i] \in 1 .. Len(window)
  OBVIOUS
<1>2. Len(window) \in Nat /\ sequence \in Nat
      /\ \A i \in 1 .. Len(window) : window[i].seq \in Nat /\ window[i].seq < sequence
  BY EntryType DEF WindowInv, Sorted
<1>3. WindowType'
  BY <1>0, <1>2, HistoryStep DEF WindowType, WindowInv
<1>4. \A i \in 1 .. n : window'[i].seq = window[o[i]].seq /\ window'[i].seq < sequence
  BY <1>1, <1>2
<1>5. Sorted'
  <2>1. ASSUME NEW i \in 1 .. n + 1, NEW j \in 1 .. n + 1, i < j
        PROVE  window'[i].seq < window'[j].seq
    <3>1. CASE j = n + 1
      BY <1>1, <1>4, <2>1, <3>1
    <3>2. CASE j # n + 1
      <4>1. i \in 1 .. n /\ j \in 1 .. n /\ o[i] < o[j]
        BY <1>1, <2>1, <3>2
      <4> QED  BY <1>1, <1>4, <4>1 DEF WindowInv, Sorted
    <3> QED  BY <3>1, <3>2
  <2>2. ASSUME NEW i \in 1 .. n + 1 PROVE window'[i].seq < sequence'
    <3>1. CASE i = n + 1
      BY <1>2, <3>1
    <3>2. CASE i # n + 1
      <4>1. i \in 1 .. n /\ o[i] \in 1 .. Len(window)
        BY <1>1, <3>2
      <4>2. window'[i].seq \in Nat /\ window'[i].seq < sequence
        BY <1>2, <1>4, <4>1
      <4> QED  BY <1>2, <4>2
    <3> QED  BY <3>1, <3>2
  <2> QED  BY <2>1, <2>2 DEF Sorted
<1>6. MapsWindow'
  <2>1. \A i \in 1 .. n : window'[i].address = window[o[i]].address
    OBVIOUS
  <2>2. DOMAIN mwindow' = {window'[i].address : i \in 1 .. n + 1}
    <3>1. {window'[i].address : i \in 1 .. n + 1}
            = {window'[i].address : i \in 1 .. n} \cup {window'[n + 1].address}
      BY <1>1
    <3>2. {window'[i].address : i \in 1 .. n} = {window[o[i]].address : i \in 1 .. n}
      <4> DEFINE new == {window'[i].address : i \in 1 .. n}
                 old == {window[o[i]].address : i \in 1 .. n}
      <4>1. ASSUME NEW a \in new PROVE a \in old
        BY <2>1
      <4>2. ASSUME NEW a \in old PROVE a \in new
        BY <2>1
      <4> HIDE DEF new, old
      <4>3. new = old
        BY <4>1, <4>2
      <4> QED  BY <4>3 DEF new, old
    <3>3. window'[n + 1].address = addr
      OBVIOUS
    <3>4. DOMAIN mwindow' = {window[o[i]].address : i \in 1 .. n} \cup {addr}
      OBVIOUS
    <3> QED  BY <3>1, <3>2, <3>3, <3>4, Zenon
  <2>3. ASSUME NEW i \in 1 .. n + 1 PROVE mwindow'[window'[i].address] = window'[i].seq
    <3>1. CASE i = n + 1
      BY <3>1
    <3>2. CASE i # n + 1
      <4>1. i \in 1 .. n /\ o[i] \in 1 .. Len(window)
        BY <1>1, <3>2
      <4>2. mwindow[window[o[i]].address] = window[o[i]].seq
        BY <4>1 DEF WindowInv, MapsWindow
      <4> QED  BY <1>4, <2>1, <4>1, <4>2
    <3> QED  BY <3>1, <3>2
  <2> QED  BY <2>2, <2>3 DEF MapsWindow
<1>7. PICK q : q = [i \in 1 .. n |-> window[o[i]].address]
  OBVIOUS
<1>8. PICK p : p = [i \in 1 .. n |-> LastUse(window[o[i]].address)]
  OBVIOUS
<1>9. \A i \in 1 .. n : /\ window'[i].address = q[i] /\ q[i] # addr
                        /\ IsLastUse(q[i], p[i])
                        /\ \A j \in 1 .. n : i < j => p[i] < p[j]
  BY <1>1, <1>7, <1>8 DEF WindowInv, InOrderOfUse
<1>10. /\ Now \in Nat /\ Now' = Now + 1
       /\ IsLastUse(addr, Now)' /\ LastUse(addr)' = Now + 1
       /\ \A i \in 1 .. n : IsLastUse(q[i], p[i])' /\ LastUse(q[i])' = p[i] /\ p[i] <= Now
                            /\ p[i] \in Nat
  <2>1. \A i \in 1 .. n : p[i] \in Nat
    BY <1>9 DEF IsLastUse, LiveOf, Live
  <2> QED  BY <1>0, <1>9, <2>1, HistoryStep, UseAfterAccess
<1>11. InOrderOfUse'
  <2>1. ASSUME NEW i \in 1 .. n + 1
        PROVE  IsLastUse(window[i].address, LastUse(window[i].address))'
    <3>1. CASE i = n + 1
      BY <1>10, <3>1
    <3>2. CASE i # n + 1
      BY <1>1, <1>9, <1>10, <3>2
    <3> QED  BY <3>1, <3>2
  <2>2. ASSUME NEW i \in 1 .. n + 1, NEW j \in 1 .. n + 1, i < j
        PROVE  LastUse(window[i].address)' < LastUse(window[j].address)'
    <3>1. i \in 1 .. n
      BY <2>2
    <3>4. window'[i].address = q[i]
      BY <1>9, <3>1
    <3>5. LastUse(window[i].address)' = p[i] /\ p[i] <= Now /\ p[i] \in Nat
      BY <1>10, <3>1, <3>4
    <3>2. CASE j = n + 1
      <4>1. window'[j].address = addr
        BY <3>2
      <4>2. LastUse(window[j].address)' = Now + 1
        BY <1>10, <4>1
      <4> QED  BY <1>10, <3>5, <4>2
    <3>3. CASE j # n + 1
      <4>1. j \in 1 .. n
        BY <1>1, <3>3
      <4>2. window'[j].address = q[j] /\ p[i] < p[j]
        BY <1>9, <2>2, <3>1, <4>1
      <4>3. LastUse(window[j].address)' = p[j]
        BY <1>10, <4>1, <4>2
      <4> QED  BY <3>5, <4>2, <4>3
    <3> QED  BY <3>2, <3>3
  <2> QED  BY <2>1, <2>2 DEF InOrderOfUse
<1>12. LeftForLater'
  <2> SUFFICES ASSUME NEW k \in Live', history'[k].addr \notin DOMAIN mwindow'
               PROVE  /\ Full'
                      /\ \A i \in 1 .. n + 1 : k < LastUse(window[i].address)'
    BY DEF LeftForLater
  <2>1. k \in Live /\ history'[k] = history[k]
    <3>1. history'[Now + 1].addr = addr
      BY <1>0, HistoryStep
    <3>2. k # Now + 1
      BY <3>1
    <3> QED  BY <1>0, <3>2, LiveAfterAccess
  <2>2. Full' /\ \A i \in 1 .. n : k < p[i]
    BY <1>8, <2>1
  <2>3. k < Now + 1
    BY <1>10, <2>1 DEF Live
  <2>4. ASSUME NEW i \in 1 .. n + 1 PROVE k < LastUse(window[i].address)'
    <3>1. CASE i = n + 1
      <4>1. window'[i].address = addr
        BY <3>1
      <4> QED  BY <1>10, <2>3, <4>1
    <3>2. CASE i # n + 1
      <4>1. i \in 1 .. n /\ window'[i].address = q[i]
        BY <1>1, <1>9, <3>2
      <4>2. LastUse(window[i].address)' = p[i]
        BY <1>10, <4>1
      <4> QED  BY <2>2, <4>1, <4>2
    <3> QED  BY <3>1, <3>2
  <2> QED  BY <2>2, <2>4
<1> QED  BY <1>3, <1>5, <1>6, <1>11, <1>12 DEF WindowInv

Access(addr, id) == [addr |-> addr, id |-> id, skip |-> FALSE]

\* What an access removes from the window, if anything.
LEMMA Removed ==
    ASSUME WindowInv, NEW addr \in Addresses,
           addr \in DOMAIN mwindow \/ Full,
           NEW k, k = (IF addr \in DOMAIN mwindow THEN Rank(mwindow[addr]) ELSE 0) + 1
    PROVE  /\ k \in 1 .. Len(window)
           /\ addr \in DOMAIN mwindow => window[k].address = addr
           /\ addr \notin DOMAIN mwindow => k = 1
<1>1. CASE addr \in DOMAIN mwindow
  <2>1. PICK i \in 1 .. Len(window) : addr = window[i].address
    BY <1>1 DEF WindowInv, MapsWindow
  <2>2. mwindow[addr] = window[i].seq
    BY <2>1 DEF WindowInv, MapsWindow
  <2>3. Rank(mwindow[addr]) = i - 1
    BY <2>2, RankIs
  <2>4. k = i
    BY <1>1, <2>3
  <2> QED  BY <1>1, <2>1, <2>4
<1>2. CASE addr \notin DOMAIN mwindow
  <2>1. Full /\ k = 1
    BY <1>2
  <2>2. Len(window) \in Nat /\ Len(window) >= 1
    BY <2>1, EntryType DEF Full, Infinity
  <2> QED  BY <1>2, <2>1, <2>2
<1> QED  BY <1>1, <1>2

\* ReuseDistance::Process keeps the window as it should be.
LEMMA ProcessWindow ==
    ASSUME WindowInv, NEW addr \in Addresses, NEW id \in Ids, Process(addr, id),
           history' = Append(history, Access(addr, id))
    PROVE  WindowInv'
<1> DEFINE entry == [seq |-> sequence, address |-> addr]
           found == addr \in DOMAIN mwindow
           k == (IF found THEN Rank(mwindow[addr]) ELSE 0) + 1
<1>1. window \in Seq(WindowEntries) /\ Len(window) \in Nat /\ entry \in WindowEntries
      /\ current = Len(window) /\ sequence \in Nat /\ capacity \in Nat
  BY EntryType DEF WindowInv, WindowType, WindowEntries
<1>2. sequence' = sequence + 1 /\ capacity' = capacity
  BY DEF Process
<1>3. history' = Append(history, [addr |-> addr, id |-> id, skip |-> FALSE])
  BY DEF Access
<1>4. \A i \in 1 .. Len(window) : LastUse(window[i].address) \in LiveOf(window[i].address)
  BY DEF WindowInv, InOrderOfUse, IsLastUse
<1>5. CASE found \/ Full
  <2>1. /\ k \in 1 .. Len(window)
        /\ found => window[k].address = addr
        /\ ~found => k = 1
    BY <1>5, Removed
  <2>2. /\ window' = Append(RemoveAt(window, k), entry)
        /\ Remember(addr, window[k].address)
        /\ current' = current
    <3> HIDE DEF entry
    <3>1. (IF found THEN Rank(mwindow[addr]) ELSE 0) + 1 = k
      OBVIOUS
    <3> HIDE DEF k
    <3> QED  BY <1>5, <3>1 DEF Process, entry
  <2> HIDE DEF k
  <2> DEFINE n == Len(window) - 1
             o == [i \in 1 .. n |-> IF i < k THEN i ELSE i + 1]
  <2>3. n \in Nat /\ n + 1 = Len(window)
    BY <1>1, <2>1
  <2>4. o \in [1 .. n -> 1 .. Len(window)]
    BY <1>1, <2>1
  <2>5. (\A i, j \in 1 .. n : i < j => o[i] < o[j]) /\ (\A i \in 1 .. n : o[i] # k)
    BY <1>1, <2>1
  <2>6. \A i \in 1 .. Len(window) : i # k => \E j \in 1 .. n : o[j] = i
    <3> SUFFICES ASSUME NEW i \in 1 .. Len(window), i # k PROVE \E j \in 1 .. n : o[j] = i
      OBVIOUS
    <3>1. CASE i < k
      <4>1. i \in 1 .. n
        BY <1>1, <2>1, <2>3, <3>1
      <4>2. o[i] = i
        BY <3>1, <4>1
      <4> HIDE DEF o
      <4> QED  BY <4>1, <4>2
    <3>2. CASE i > k
      <4>1. i - 1 \in 1 .. n /\ o[i - 1] = i
        BY <1>1, <2>1, <3>2
      <4> QED  BY <4>1
    <3> QED  BY <2>1, <3>1, <3>2
  <2> DEFINE rest == RemoveAt(window, k)
  <2>7. /\ rest \in Seq(WindowEntries) /\ Len(rest) = n
        /\ \A i \in 1 .. n : rest[i] = window[o[i]]
    BY <1>1, <2>1, RemoveAtProperties
  <2> HIDE DEF n, o, rest, entry
  <2>8. /\ window' \in Seq(WindowEntries) /\ Len(window') = n + 1
        /\ \A i \in 1 .. n : window'[i] = window[o[i]]
        /\ window'[n + 1] = entry
    BY <1>1, <2>2, <2>7, AppendProperties DEF rest
  <2>9. \A i \in 1 .. n : window[o[i]].address # addr
    <3> SUFFICES ASSUME NEW i \in 1 .. n, window[o[i]].address = addr PROVE FALSE
      OBVIOUS
    <3>1. o[i] \in 1 .. Len(window) /\ o[i] # k
      BY <2>4, <2>5
    <3>2. found
      BY <3>1 DEF WindowInv, MapsWindow
    <3> QED  BY <2>1, <3>1, <3>2, AddressOnce
  <2>10. DOMAIN mwindow \ {window[k].address} = {window[o[i]].address : i \in 1 .. n} \ {addr}
    <3> DEFINE left == DOMAIN mwindow \ {window[k].address}
               kept == {window[o[i]].address : i \in 1 .. n} \ {addr}
    <3>1. ASSUME NEW a \in left PROVE a \in kept
      <4>1. PICK i \in 1 .. Len(window) : a = window[i].address
        BY DEF WindowInv, MapsWindow
      <4>2. i # k
        BY <4>1
      <4>3. PICK j \in 1 .. n : o[j] = i
        BY <2>6, <4>2
      <4> QED  BY <2>9, <4>1, <4>3
    <3>2. ASSUME NEW a \in kept PROVE a \in left
      <4>1. PICK j \in 1 .. n : a = window[o[j]].address
        OBVIOUS
      <4>2. o[j] \in 1 .. Len(window) /\ o[j] # k
        BY <2>4, <2>5
      <4>3. a \in DOMAIN mwindow
        BY <4>1, <4>2 DEF WindowInv, MapsWindow
      <4>4. a # window[k].address
        BY <2>1, <4>1, <4>2, AddressOnce
      <4> QED  BY <4>3, <4>4
    <3> HIDE DEF left, kept
    <3>3. left = kept
      BY <3>1, <3>2
    <3> QED  BY <3>3 DEF left, kept
  <2>11. mwindow' = [a \in {window[o[i]].address : i \in 1 .. n} \cup {addr} |->
                        IF a = addr THEN sequence ELSE mwindow[a]]
    <3> DEFINE kept == {window[o[i]].address : i \in 1 .. n}
    <3> HIDE DEF kept
    <3>1. (DOMAIN mwindow \ {window[k].address}) \cup {addr} = kept \cup {addr}
      BY <2>10 DEF kept
    <3> QED  BY <2>2, <3>1 DEF Remember, kept
  <2>12. capacity # Infinity => n + 1 <= capacity
    BY <2>3 DEF WindowInv, WindowType
  <2>13. ASSUME NEW u \in Live, history[u].addr \notin DOMAIN mwindow'
         PROVE  Full' /\ \A i \in 1 .. n : u < LastUse(window[o[i]].address)
    <3>1. history[u].addr # addr
      BY <2>11, <2>13
    <3>2. CASE history[u].addr \notin DOMAIN mwindow
      <4>1. Full /\ \A i \in 1 .. Len(window) : u < LastUse(window[i].address)
        BY <3>2 DEF WindowInv, LeftForLater
      <4> QED  BY <1>2, <2>2, <2>4, <4>1 DEF Full
    <3>3. CASE history[u].addr \in DOMAIN mwindow
      <4>1. history[u].addr = window[k].address
        <5>1. history[u].addr \notin {window[o[i]].address : i \in 1 .. n}
          BY <2>11, <2>13
        <5> QED  BY <2>10, <3>1, <3>3, <5>1
      <4>2. ~found /\ k = 1 /\ Full
        BY <1>5, <2>1, <3>1, <4>1
      <4>3. u <= LastUse(window[1].address) /\ 1 \in 1 .. Len(window)
        BY <2>1, <4>1, <4>2 DEF WindowInv, InOrderOfUse, IsLastUse, LiveOf
      <4>4. ASSUME NEW i \in 1 .. n PROVE u < LastUse(window[o[i]].address)
        <5>1. o[i] \in 1 .. Len(window) /\ 1 < o[i]
          BY <2>4, <2>5, <4>2
        <5>2. LastUse(window[1].address) < LastUse(window[o[i]].address)
          BY <4>3, <5>1 DEF WindowInv, InOrderOfUse
        <5>3. u \in Int /\ LastUse(window[1].address) \in Int
              /\ LastUse(window[o[i]].address) \in Int
          BY <1>4, <4>3, <5>1 DEF LiveOf, Live
        <5> QED  BY <4>3, <5>2, <5>3
      <4> QED  BY <1>2, <2>2, <4>2, <4>4 DEF Full
    <3> QED  BY <3>2, <3>3
  <2>14. current' = n + 1
    BY <1>1, <2>2, <2>3
  <2> QED  BY <1>2, <1>3, <2>3, <2>4, <2>5, <2>8, <2>9, <2>11, <2>12, <2>13, <2>14, WindowMoves
           DEF entry
<1>6. CASE ~found /\ ~Full
  <2>1. /\ window' = Append(window, entry)
        /\ Remember(addr, addr)
        /\ current' = current + 1
    BY <1>6 DEF Process
  <2> DEFINE n == Len(window)
             o == [i \in 1 .. n |-> i]
  <2>2. /\ window' \in Seq(WindowEntries) /\ Len(window') = n + 1
        /\ \A i \in 1 .. n : window'[i] = window[o[i]]
        /\ window'[n + 1] = entry
    <3> HIDE DEF entry
    <3> QED  BY <1>1, <2>1, AppendProperties
  <2>3. \A i \in 1 .. n : window[o[i]].address # addr
    BY <1>6 DEF WindowInv, MapsWindow
  <2>4. mwindow' = [a \in {window[o[i]].address : i \in 1 .. n} \cup {addr} |->
                       IF a = addr THEN sequence ELSE mwindow[a]]
    <3>1. DOMAIN mwindow = {window[o[i]].address : i \in 1 .. n}
      BY DEF WindowInv, MapsWindow
    <3>2. (DOMAIN mwindow \ {addr}) \cup {addr} = {window[o[i]].address : i \in 1 .. n} \cup {addr}
      BY <3>1
    <3> HIDE DEF n, o
    <3> QED  BY <2>1, <3>2 DEF Remember
  <2>5. ASSUME NEW u \in Live PROVE history[u].addr \in DOMAIN mwindow'
    <3>1. history[u].addr \in DOMAIN mwindow
      BY <1>6 DEF WindowInv, LeftForLater
    <3> QED  BY <2>1, <3>1 DEF Remember
  <2>6. capacity # Infinity => n + 1 <= capacity
    BY <1>1, <1>6 DEF Full
  <2>7. o \in [1 .. n -> 1 .. Len(window)] /\ (\A i, j \in 1 .. n : i < j => o[i] < o[j])
        /\ n \in Nat /\ current' = n + 1
    BY <1>1, <2>1
  <2> HIDE DEF n, o
  <2> QED  BY <1>2, <1>3, <2>2, <2>3, <2>4, <2>5, <2>6, <2>7, WindowMoves
<1> QED  BY <1>5, <1>6

\* Skipped addresses leave nothing behind (ReuseDistance::SkipAddresses).
LEMMA SkipWindow ==
    ASSUME WindowInv, NEW amount \in Amounts, SkipAddresses(amount),
           history' = Append(history, [addr |-> 0, id |-> 0, skip |-> TRUE])
    PROVE  WindowInv'
<1> DEFINE r == [addr |-> 0, id |-> 0, skip |-> TRUE]
<1>1. r \in Records /\ r.skip /\ history \in Seq(Records)
  BY DEF Records, WindowInv, WindowType
<1>2. /\ history' \in Seq(Records) /\ Now \in Nat /\ Now' = Now + 1
      /\ history'[Now + 1].skip
  <2> HIDE DEF r
  <2>1. history' = Append(history, r)
    BY DEF r
  <2> QED  BY <1>1, <2>1, HistoryStep
<1>3. Live' = {}
  <2> SUFFICES ASSUME NEW k \in Live' PROVE FALSE
    OBVIOUS
  <2>1. k \in 1 .. Now' /\ \A j \in k .. Now' : ~history'[j].skip
    BY DEF Live
  <2>2. Now + 1 \in k .. Now'
    BY <1>2, <2>1
  <2> QED  BY <1>2, <2>1, <2>2
<1>4. window' = <<>> /\ mwindow' = <<>> /\ current' = 0 /\ capacity' \in Nat /\ sequence' \in Nat
  BY EntryType, SequenceAssumption DEF SkipAddresses
<1>5. Len(window)' = 0 /\ window' \in Seq(WindowEntries) /\ DOMAIN mwindow' = {}
  BY <1>4
<1>6. WindowType'
  BY <1>2, <1>4, <1>5 DEF WindowType
<1>7. Sorted' /\ MapsWindow' /\ InOrderOfUse' /\ LeftForLater'
  BY <1>3, <1>5 DEF Sorted, MapsWindow, InOrderOfUse, LeftForLater
<1> QED  BY <1>6, <1>7 DEF WindowInv

-----------------------------------------------------------------------------
(* The distance. *)

\* the distinct addresses since the k-th record
Since(k) == {history[j].addr : j \in k .. Now}

LEMMA SinceFinite ==
    ASSUME NEW k \in Nat, history \in Seq(Records)
    PROVE  IsFiniteSet(Since(k)) /\ Cardinality(Since(k)) \in Nat
<1> DEFINE f == [j \in k .. Now |-> history[j].addr]
<1>1. Now \in Nat
  BY DEF Now
<1>2. f \in Surjection(k .. Now, Since(k))
  BY DEF Surjection, Since
<1>3. IsFiniteSet(k .. Now)
  BY <1>1, FS_Interval
<1> HIDE DEF f
<1>4. IsFiniteSet(Since(k))
  BY <1>2, <1>3, FS_Surjection
<1> QED  BY <1>4, FS_CardinalityType

\* The last entries of the window are as many addresses.
LEMMA WindowCard ==
    ASSUME WindowInv, NEW i \in 1 .. Len(window) + 1
    PROVE  LET A == {window[m].address : m \in i .. Len(window)}
           IN  IsFiniteSet(A) /\ Cardinality(A) = Len(window) - (i - 1)
<1> DEFINE A == {window[m].address : m \in i .. Len(window)}
           f == [m \in i .. Len(window) |-> window[m].address]
<1>1. Len(window) \in Nat /\ i .. Len(window) \subseteq 1 .. Len(window)
  BY EntryType
<1>2. f \in [i .. Len(window) -> A]
  OBVIOUS
<1>3. \A x, y \in i .. Len(window) : f[x] = f[y] => x = y
  BY <1>1, AddressOnce
<1>4. \A a \in A : \E x \in i .. Len(window) : f[x] = a
  OBVIOUS
<1> HIDE DEF f, A
<1>5. f \in Bijection(i .. Len(window), A)
  BY <1>2, <1>3, <1>4 DEF Bijection, Injection, Surjection, IsInjective
<1>6. IsFiniteSet(i .. Len(window)) /\ Cardinality(i .. Len(window)) = Len(window) - (i - 1)
  <2>1. i \in Int /\ i <= Len(window) + 1
    BY <1>1
  <2>2. IsFiniteSet(i .. Len(window))
        /\ Cardinality(i .. Len(window)) = IF i > Len(window) THEN 0 ELSE Len(window) - i + 1
    <3>1. \A a, b \in Int : IsFiniteSet(a .. b)
                            /\ Cardinality(a .. b) = IF a > b THEN 0 ELSE b - a + 1
      BY FS_Interval
    <3>2. Len(window) \in Int
      BY <1>1
    <3> QED  BY <2>1, <3>1, <3>2, Zenon
  <2>3. CASE i > Len(window)
    <3>1. i = Len(window) + 1
      BY <1>1, <2>1, <2>3
    <3> QED  BY <1>1, <2>2, <2>3, <3>1
  <2>4. CASE ~(i > Len(window))
    BY <1>1, <2>1, <2>2, <2>4
  <2> QED  BY <2>3, <2>4
<1>7. IsFiniteSet(A) /\ Cardinality(A) = Cardinality(i .. Len(window))
  <2>1. ExistsBijection(i .. Len(window), A)
    BY <1>5 DEF ExistsBijection
  <2> QED  BY <1>6, <2>1, FS_Bijection
<1> QED  BY <1>6, <1>7 DEF A

\* The addresses since the last use of one in the window are the entries from
\* there on.
LEMMA SinceFound ==
    ASSUME WindowInv, NEW i \in 1 .. Len(window)
    PROVE  Cardinality(Since(LastUse(window[i].address))) = Len(window) - (i - 1)
<1> DEFINE use(m) == LastUse(window[m].address)
           A == {window[m].address : m \in i .. Len(window)}
<1>0. Now \in Nat /\ Len(window) \in Nat
  BY EntryType DEF Now, WindowInv, WindowType
<1>1. \A m \in 1 .. Len(window) :
          /\ use(m) \in Live /\ history[use(m)].addr = window[m].address
          /\ \A j \in Live : history[j].addr = window[m].address => j <= use(m)
          /\ \A l \in 1 .. Len(window) : m < l => use(m) < use(l)
  BY DEF WindowInv, InOrderOfUse, IsLastUse, LiveOf
<1>2. Live \subseteq 1 .. Now
  BY DEF Live
<1> HIDE DEF use
<1>3. ASSUME NEW m \in i .. Len(window) PROVE window[m].address \in Since(use(i))
  <2>1. m \in 1 .. Len(window) /\ (m = i \/ i < m)
    BY <1>0
  <2>2. use(m) \in 1 .. Now /\ use(i) \in 1 .. Now /\ use(i) <= use(m)
    <3>1. use(m) \in 1 .. Now /\ use(i) \in 1 .. Now
      BY <1>1, <1>2, <2>1
    <3>2. m = i \/ use(i) < use(m)
      BY <1>1, <2>1
    <3> QED  BY <1>0, <3>1, <3>2
  <2>3. use(m) \in use(i) .. Now
    BY <1>0, <2>2
  <2> QED  BY <1>1, <2>1, <2>3 DEF Since
<1>4. ASSUME NEW j \in use(i) .. Now PROVE history[j].addr \in A
  <2>1. use(i) \in 1 .. Now /\ use(i) \in Live
    BY <1>1, <1>2
  <2>2. j \in Live
    BY <1>0, <2>1 DEF Live
  <2>3. history[j].addr \in DOMAIN mwindow
    <3> SUFFICES ASSUME history[j].addr \notin DOMAIN mwindow PROVE FALSE
      OBVIOUS
    <3>1. j < use(i)
      BY <2>2 DEF WindowInv, LeftForLater, use
    <3> QED  BY <1>0, <2>1, <3>1
  <2>4. PICK m \in 1 .. Len(window) : history[j].addr = window[m].address
    BY <2>3 DEF WindowInv, MapsWindow
  <2>5. j <= use(m) /\ use(m) \in 1 .. Now
    BY <1>1, <1>2, <2>2, <2>4
  <2>6. ~(m < i)
    <3>1. m < i => use(m) < use(i)
      BY <1>1, <2>4
    <3> QED  BY <1>0, <2>1, <2>5, <3>1
  <2> QED  BY <1>0, <2>4, <2>6
<1>5. Since(use(i)) = A
  <2>1. \A a \in A : a \in Since(use(i))
    BY <1>3
  <2>2. \A a \in Since(use(i)) : a \in A
    BY <1>4 DEF Since
  <2> HIDE DEF A
  <2> QED  BY <2>1, <2>2
<1>6. Cardinality(A) = Len(window) - (i - 1)
  <2>1. i \in 1 .. Len(window) + 1
    BY <1>0
  <2> QED  BY <2>1, WindowCard
<1> QED  BY <1>5, <1>6 DEF use

\* Since an address that has left the window was used, there were more
\* addresses than the window holds.
LEMMA SinceGone ==
    ASSUME WindowInv, NEW k \in Live, history[k].addr \notin DOMAIN mwindow
    PROVE  capacity # Infinity /\ Cardinality(Since(k)) > capacity
<1> DEFINE A == {window[m].address : m \in 1 .. Len(window)}
<1>0. Now \in Nat /\ Len(window) \in Nat /\ k \in 1 .. Now /\ capacity \in Nat /\ history \in Seq(Records)
      /\ current = Len(window)
  BY EntryType DEF Now, WindowInv, WindowType, Live
<1>1. capacity # Infinity /\ Len(window) >= capacity
      /\ \A m \in 1 .. Len(window) : k < LastUse(window[m].address)
  BY <1>0 DEF WindowInv, LeftForLater, Full
<1>2. IsFiniteSet(A) /\ Cardinality(A) = Len(window)
  <2>1. 1 \in 1 .. Len(window) + 1 /\ Len(window) - (1 - 1) = Len(window)
    BY <1>0
  <2> QED  BY <2>1, WindowCard
<1>3. history[k].addr \notin A
  BY DEF WindowInv, MapsWindow
<1>4. ASSUME NEW m \in 1 .. Len(window) PROVE window[m].address \in Since(k)
  <2>1. LastUse(window[m].address) \in LiveOf(window[m].address)
    BY DEF WindowInv, InOrderOfUse, IsLastUse
  <2>2. LastUse(window[m].address) \in k .. Now
        /\ history[LastUse(window[m].address)].addr = window[m].address
    BY <1>0, <1>1, <2>1 DEF LiveOf, Live
  <2> QED  BY <2>2 DEF Since
<1>5. history[k].addr \in Since(k)
  BY <1>0 DEF Since
<1> HIDE DEF A
<1>6. IsFiniteSet(A \cup {history[k].addr})
      /\ Cardinality(A \cup {history[k].addr}) = Len(window) + 1
  BY <1>2, <1>3, FS_AddElement
<1>7. A \cup {history[k].addr} \subseteq Since(k)
  BY <1>4, <1>5 DEF A
<1>8. Len(window) + 1 <= Cardinality(Since(k)) /\ Cardinality(Since(k)) \in Nat
  BY <1>0, <1>6, <1>7, SinceFinite, FS_Subset
<1> QED  BY <1>0, <1>1, <1>8

\* the distance of an access that the window tells
Told(addr) == IF addr \in DOMAIN mwindow THEN Distance(Rank(mwindow[addr])) ELSE Infinity

LEMMA ToldBounds ==
    ASSUME WindowInv, NEW addr \in DOMAIN mwindow
    PROVE  /\ Told(addr) \in 1 .. Len(window)
           /\ capacity # Infinity => Told(addr) <= capacity
           /\ \E i \in 1 .. Len(window) :
                  window[i].address = addr /\ Told(addr) = Len(window) - (i - 1)
<1>1. PICK i \in 1 .. Len(window) : window[i].address = addr
  BY DEF WindowInv, MapsWindow
<1>2. mwindow[addr] = window[i].seq
  BY <1>1 DEF WindowInv, MapsWindow
<1>3. Rank(window[i].seq) = i - 1 /\ current = Len(window) /\ Len(window) \in Nat /\ capacity \in Nat
  BY RankIs, EntryType
<1>4. Told(addr) = Len(window) - (i - 1)
  BY <1>2, <1>3 DEF Told, Distance
<1>5. Told(addr) \in 1 .. Len(window)
  BY <1>3, <1>4
<1>6. capacity # Infinity => Len(window) <= capacity
  BY DEF WindowInv, WindowType
<1>7. capacity # Infinity => Told(addr) <= capacity
  BY <1>3, <1>5, <1>6
<1> QED  BY <1>1, <1>4, <1>5, <1>7

\* An address that was never used, or too many addresses ago, is not told.
LEMMA ToldIsSince ==
    ASSUME WindowInv, NEW addr, LiveOf(addr) # {}
    PROVE  \E last \in LiveOf(addr) :
             /\ \A j \in LiveOf(addr) : j <= last
             /\ Told(addr) = IF capacity # Infinity /\ Cardinality(Since(last)) > capacity
                             THEN Infinity ELSE Cardinality(Since(last))
<1>1. Now \in Nat /\ LiveOf(addr) \subseteq 1 .. Now /\ capacity \in Nat /\ Len(window) \in Nat
  BY EntryType DEF Now, LiveOf, Live, WindowInv, WindowType
<1>2. PICK last \in LiveOf(addr) : \A j \in LiveOf(addr) : j <= last
  <2>1. LiveOf(addr) \subseteq Nat /\ \A x \in LiveOf(addr) : x <= Now
    BY <1>1
  <2> QED  BY <1>1, <2>1, GreatestNumber
<1>3. LastUse(addr) = last /\ last \in Live /\ history[last].addr = addr
  BY <1>2, UseIs DEF IsLastUse, LiveOf
<1>4. CASE addr \in DOMAIN mwindow
  <2>1. PICK i \in 1 .. Len(window) :
          window[i].address = addr /\ Told(addr) = Len(window) - (i - 1)
    BY <1>4, ToldBounds
  <2>2. Told(addr) = Cardinality(Since(last))
    BY <1>3, <2>1, SinceFound
  <2>3. Told(addr) \in Nat /\ (capacity # Infinity => Told(addr) <= capacity)
    BY <1>1, <1>4, ToldBounds
  <2>4. ~(capacity # Infinity /\ Cardinality(Since(last)) > capacity)
    BY <1>1, <2>2, <2>3
  <2> QED  BY <1>2, <2>2, <2>4
<1>5. CASE addr \notin DOMAIN mwindow
  <2>1. capacity # Infinity /\ Cardinality(Since(last)) > capacity
    BY <1>3, <1>5, SinceGone
  <2> QED  BY <1>2, <1>5, <2>1 DEF Told
<1> QED  BY <1>4, <1>5

\* What the window tells of the next access is its distance as defined.
LEMMA DistanceIs ==
    ASSUME WindowInv, NEW addr \in Addresses, NEW id \in Ids, NEW n, n = Now + 1,
           history' = Append(history, Access(addr, id)), capacity' = capacity
    PROVE  DistanceOf(n)' = Told(addr)
<1> DEFINE r == Access(addr, id)
<1>1. r \in Records /\ ~r.skip /\ r.addr = addr /\ history \in Seq(Records)
  BY DEF Access, Records, WindowInv, WindowType
<1> HIDE DEF r
<1>2. /\ Now \in Nat /\ history'[n] = r
      /\ \A k \in 1 .. Now : history'[k] = history[k]
  BY <1>1, HistoryStep DEF r
<1>3. 1 .. n - 1 = 1 .. Now /\ \A k \in 1 .. Now : k .. n = (k .. Now) \cup {n}
  BY <1>2
<1>4. \A k \in 1 .. Now : /\ k \in k .. Now /\ k .. Now \subseteq 1 .. Now
                          /\ k .. n - 1 = k .. Now
  BY <1>2
<1>5. Earlier(n)' = LiveOf(addr)
  <2>1. Earlier(n)' = {k \in 1 .. n - 1 : /\ ~history'[k].skip /\ history'[k].addr = history'[n].addr
                                          /\ \A j \in k .. n : ~history'[j].skip}
    BY DEF Earlier
  <2>2. ASSUME NEW k \in 1 .. Now
        PROVE  (/\ ~history'[k].skip /\ history'[k].addr = history'[n].addr
                /\ \A j \in k .. n : ~history'[j].skip)
               <=> (history[k].addr = addr /\ \A j \in k .. Now : ~history[j].skip)
    <3>1. \A j \in k .. Now : history'[j] = history[j]
      BY <1>2, <1>4
    <3>2. (\A j \in k .. n : ~history'[j].skip) <=> (\A j \in k .. Now : ~history[j].skip)
      BY <1>1, <1>2, <1>3, <3>1
    <3> QED  BY <1>1, <1>2, <1>4, <3>1, <3>2
  <2>3. LiveOf(addr) = {k \in 1 .. Now : history[k].addr = addr /\ \A j \in k .. Now : ~history[j].skip}
    BY DEF LiveOf, Live
  <2> QED  BY <1>3, <2>1, <2>2, <2>3
<1>6. CASE LiveOf(addr) = {}
  <2>1. addr \notin DOMAIN mwindow
    <3> SUFFICES ASSUME addr \in DOMAIN mwindow PROVE FALSE
      OBVIOUS
    <3>1. PICK i \in 1 .. Len(window) : window[i].address = addr
      BY DEF WindowInv, MapsWindow
    <3> QED  BY <1>6, <3>1 DEF WindowInv, InOrderOfUse, IsLastUse
  <2> QED  BY <1>5, <1>6, <2>1 DEF DistanceOf, Told
<1>7. CASE LiveOf(addr) # {}
  <2>1. PICK last \in LiveOf(addr) :
          /\ \A j \in LiveOf(addr) : j <= last
          /\ Told(addr) = IF capacity # Infinity /\ Cardinality(Since(last)) > capacity
                          THEN Infinity ELSE Cardinality(Since(last))
    BY <1>7, ToldIsSince
  <2>2. last \in 1 .. Now /\ LiveOf(addr) \subseteq Nat
    BY DEF LiveOf, Live
  <2>3. (CHOOSE k \in LiveOf(addr) : \A j \in LiveOf(addr) : j <= k) = last
    BY <2>1, UseIs DEF LastUse, IsLastUse
  <2>4. {history'[j].addr : j \in last .. n - 1} = Since(last)
    <3>1. \A j \in last .. Now : history'[j].addr = history[j].addr
      BY <1>2, <1>4, <2>2
    <3>2. last .. n - 1 = last .. Now
      BY <1>4, <2>2
    <3> DEFINE new == {history'[j].addr : j \in last .. Now}
               old == {history[j].addr : j \in last .. Now}
    <3>3. ASSUME NEW a \in new PROVE a \in old
      BY <3>1
    <3>4. ASSUME NEW a \in old PROVE a \in new
      BY <3>1
    <3> HIDE DEF new, old
    <3>5. new = old
      BY <3>3, <3>4
    <3> QED  BY <3>2, <3>5 DEF new, old, Since
  <2>5. DistanceOf(n)' =
          IF Earlier(n)' = {} THEN Infinity
          ELSE LET l == CHOOSE k \in Earlier(n)' : \A j \in Earlier(n)' : j <= k
                   d == Cardinality({history'[j].addr : j \in l .. n - 1})
               IN IF capacity' # Infinity /\ d > capacity' THEN Infinity ELSE d
    BY DEF DistanceOf
  <2>6. (CHOOSE k \in Earlier(n)' : \A j \in Earlier(n)' : j <= k) = last
    BY <1>5, <2>3
  <2>7. Earlier(n)' # {}
    BY <1>5, <1>7
  <2> DEFINE d == Cardinality({history'[j].addr : j \in last .. n - 1})
  <2>8. DistanceOf(n)' = IF capacity' # Infinity /\ d > capacity' THEN Infinity ELSE d
    BY <2>5, <2>6, <2>7, Zenon
  <2>9. d = Cardinality(Since(last))
    BY <2>4, Zenon
  <2> HIDE DEF d
  <2>10. capacity' = capacity
    OBVIOUS
  <2>11. DistanceOf(n)' = IF capacity # Infinity /\ Cardinality(Since(last)) > capacity
                         THEN Infinity ELSE Cardinality(Since(last))
    BY <2>8, <2>9, <2>10, Zenon
  <2> QED  BY <2>1, <2>11, Zenon
<1> QED  BY <1>6, <1>7

\* The distance of an access does not change any more.
LEMMA OldDistances ==
    ASSUME history \in Seq(Records), NEW r \in Records, history' = Append(history, r),
           capacity' = capacity, NEW n \in 1 .. Now
    PROVE  DistanceOf(n)' = DistanceOf(n)
<1>1. Now \in Nat /\ \A k \in 1 .. Now : history'[k] = history[k]
  BY HistoryStep
<1>2. Earlier(n)' = Earlier(n)
  <2>1. Earlier(n)' = {k \in 1 .. n - 1 : /\ ~history'[k].skip /\ history'[k].addr = history'[n].addr
                                          /\ \A j \in k .. n : ~history'[j].skip}
    BY DEF Earlier
  <2>2. \A k \in 1 .. n - 1 : /\ history'[k] = history[k] /\ history'[n] = history[n]
                              /\ \A j \in k .. n : history'[j] = history[j]
    <3>1. \A k \in 1 .. n - 1 : k \in 1 .. Now /\ n \in 1 .. Now /\ k .. n \subseteq 1 .. Now
      BY <1>1
    <3> QED  BY <1>1, <3>1
  <2> QED  BY <2>1, <2>2 DEF Earlier
<1>3. CASE Earlier(n) = {}
  BY <1>2, <1>3 DEF DistanceOf
<1>4. CASE Earlier(n) # {}
  <2> DEFINE last == CHOOSE k \in Earlier(n) : \A j \in Earlier(n) : j <= k
             new == {history'[j].addr : j \in last .. n - 1}
             old == {history[j].addr : j \in last .. n - 1}
  <2>1. Earlier(n) \subseteq 1 .. n - 1 /\ n \in Nat
    BY <1>1 DEF Earlier
  <2>2. \E k \in Earlier(n) : \A j \in Earlier(n) : j <= k
    <3>1. Earlier(n) \subseteq Nat /\ \A x \in Earlier(n) : x <= n
      BY <2>1
    <3> QED  BY <1>4, <2>1, <3>1, GreatestNumber
  <2>3. last \in 1 .. n - 1
    BY <2>1, <2>2
  <2> HIDE DEF last
  <2>4. \A j \in last .. n - 1 : history'[j].addr = history[j].addr
    <3>1. \A j \in last .. n - 1 : j \in 1 .. Now
      BY <1>1, <2>3
    <3> QED  BY <1>1, <3>1
  <2>5. ASSUME NEW a \in new PROVE a \in old
    BY <2>4
  <2>6. ASSUME NEW a \in old PROVE a \in new
    BY <2>4
  <2> HIDE DEF new, old
  <2>7. new = old
    BY <2>5, <2>6
  <2>8. DistanceOf(n) = IF capacity # Infinity /\ Cardinality(old) > capacity
                        THEN Infinity ELSE Cardinality(old)
    BY <1>4 DEF DistanceOf, last, old
  <2>9. DistanceOf(n)' = IF capacity' # Infinity /\ Cardinality(new) > capacity'
                         THEN Infinity ELSE Cardinality(new)
    <3>1. DistanceOf(n)' =
            IF Earlier(n)' = {} THEN Infinity
            ELSE LET l == CHOOSE k \in Earlier(n)' : \A j \in Earlier(n)' : j <= k
                     d == Cardinality({history'[j].addr : j \in l .. n - 1})
                 IN IF capacity' # Infinity /\ d > capacity' THEN Infinity ELSE d
      BY DEF DistanceOf
    <3> QED  BY <1>2, <1>4, <3>1 DEF last, new
  <2> QED  BY <2>7, <2>8, <2>9
<1> QED  BY <1>3, <1>4

-----------------------------------------------------------------------------
(* The bins. *)

\* What a round of ShaveBitsPwr2 yields, from its value and its logarithm.
Halve(i, s) ==
    LET p == 2 ^ (Steps - i)
    IN IF s[1] >= 2 ^ p THEN <<s[1] \div 2 ^ p, s[2] + p>> ELSE s

\* The loop of ShaveBitsPwr2 has a result after every round.
LEMMA LogRounds ==
    ASSUME NEW val
    PROVE  \E f : /\ Log2(val) = f[Steps][2]
                  /\ \A i \in 0 .. Steps : f[i] = IF i = 0 THEN <<val, 0>> ELSE Halve(i, f[i - 1])
<1> DEFINE Loop(f, n) == f = [i \in 0 .. n |-> IF i = 0 THEN <<val, 0>> ELSE Halve(i, f[i - 1])]
           T == {n \in 0 .. Steps : \E f : Loop(f, n)}
<1>0. Steps \in Nat
  BY WidthAssumption
<1>1. 0 \in T
  <2>1. Loop([i \in 0 .. 0 |-> <<val, 0>>], 0)
    OBVIOUS
  <2> HIDE DEF Loop
  <2> QED  BY <1>0, <2>1
<1>2. ASSUME NEW k \in 0 .. Steps - 1, k \in T PROVE k + 1 \in T
  <2>1. PICK f : Loop(f, k)
    BY <1>2
  <2>2. k \in Nat /\ k + 1 \in 0 .. Steps /\ 0 .. k + 1 = (0 .. k) \cup {k + 1}
        /\ \A m \in 0 .. k : m # k + 1 /\ (m # 0 => m - 1 \in 0 .. k)
    BY <1>0
  <2> DEFINE g == [m \in 0 .. k + 1 |-> IF m = k + 1 THEN Halve(k + 1, f[k]) ELSE f[m]]
  <2>3. ASSUME NEW m \in 0 .. k + 1
        PROVE  g[m] = IF m = 0 THEN <<val, 0>> ELSE Halve(m, g[m - 1])
    <3>1. CASE m = k + 1
      <4>1. m # 0 /\ m - 1 = k /\ k \in 0 .. k + 1 /\ k # k + 1
        BY <2>2, <3>1
      <4>2. g[m] = Halve(k + 1, f[k]) /\ g[k] = f[k]
        BY <3>1, <4>1
      <4> QED  BY <3>1, <4>1, <4>2
    <3>2. CASE m \in 0 .. k
      <4>1. g[m] = f[m] /\ (m # 0 => g[m - 1] = f[m - 1])
        BY <2>2, <3>2
      <4>2. f[m] = IF m = 0 THEN <<val, 0>> ELSE Halve(m, f[m - 1])
        BY <2>1, <3>2
      <4> QED  BY <4>1, <4>2
    <3> QED  BY <2>2, <3>1, <3>2
  <2>4. g = [m \in 0 .. k + 1 |-> g[m]]
    OBVIOUS
  <2> HIDE DEF g
  <2>5. Loop(g, k + 1)
    BY <2>3, <2>4
  <2> HIDE DEF Loop
  <2> QED  BY <2>2, <2>5
<1>3. Steps \in T
  <2> HIDE DEF T
  <2>1. 0 .. Steps \subseteq T
    BY <1>0, <1>1, <1>2, UpTo
  <2> QED  BY <1>0, <2>1
<1>4. \E f : Loop(f, Steps)
  BY <1>3
<1> DEFINE step == CHOOSE f : Loop(f, Steps)
<1>5. Log2(val) = step[Steps][2]
  BY DEF Log2, Halve
<1>6. Loop(step, Steps)
  <2> HIDE DEF Loop
  <2> QED  BY <1>4
<1> HIDE DEF step
<1> QED  BY <1>5, <1>6

\* After a round half of the bits are left, and with the logarithm they tell
\* the value but for the bits that were dropped.
Halved(val, i, s) ==
    /\ s = <<s[1], s[2]>> /\ s[1] \in Nat \ {0} /\ s[2] \in Nat
    /\ s[1] < 2 ^ (2 ^ (Steps - i))
    /\ s[1] * 2 ^ s[2] <= val
    /\ val < (s[1] + 1) * 2 ^ s[2]

LEMMA RoundHalves ==
    ASSUME PowersDouble, NEW val \in Nat, NEW i \in 1 .. Steps, NEW s, Halved(val, i - 1, s)
    PROVE  Halved(val, i, Halve(i, s))
<1> DEFINE p == 2 ^ (Steps - i)
           w == 2 ^ p
           g == 2 ^ s[2]
           v == s[1]
           d == v \div w
           h == 2 ^ (s[2] + p)
<1>1. Steps - i \in Nat /\ Steps - (i - 1) = (Steps - i) + 1
  BY WidthAssumption
<1>2. 2 ^ (Steps - (i - 1)) = p + p /\ p \in Nat \ {0}
  BY <1>1, PowerType DEF PowersDouble
<1>3. w \in Nat \ {0} /\ 2 ^ (p + p) = w * w
  BY <1>2, PowerType, PowerSum
<1>4. v \in Nat \ {0} /\ s[2] \in Nat /\ s = <<v, s[2]>> /\ v < w * w
      /\ v * g <= val /\ val < (v + 1) * g
  BY <1>2, <1>3 DEF Halved
<1>5. g \in Nat \ {0} /\ h = g * w
  BY <1>2, <1>4, PowerType, PowerSum
<1>6. CASE v < w
  <2>1. Halve(i, s) = s
    <3>1. ~(v >= w)
      BY <1>3, <1>4, <1>6
    <3> QED  BY <3>1 DEF Halve
  <2> QED  BY <1>4, <1>6, <2>1 DEF Halved
<1>7. CASE v >= w
  <2>1. Halve(i, s) = <<d, s[2] + p>>
    BY <1>7 DEF Halve
  <2> HIDE DEF v, w, g, h
  <2>2. d \in Nat /\ d * w <= v /\ v < (d + 1) * w
    BY <1>3, <1>4
  <2> HIDE DEF d
  <2>3. d # 0
    BY <1>3, <1>4, <1>7, <2>2
  <2>4. d < w
    <3> SUFFICES ASSUME d >= w PROVE FALSE
      BY <1>3, <2>2
    <3>1. d * w >= w * w
      BY <1>3, <2>2
    <3> QED  BY <1>3, <1>4, <2>2, <3>1
  <2>5. d * h <= val
    <3>1. (d * w) * g <= v * g
      <4> DEFINE x == d * w
      <4>1. x \in Nat /\ x <= v
        BY <1>3, <2>2
      <4> HIDE DEF x
      <4>2. x * g <= v * g
        BY <1>4, <1>5, <4>1
      <4> QED  BY <4>2 DEF x
    <3>2. d * (g * w) = (d * w) * g
      BY <1>3, <1>5, <2>2
    <3> QED  BY <1>3, <1>4, <1>5, <2>2, <3>1, <3>2
  <2>6. val < (d + 1) * h
    <3>1. (v + 1) * g <= ((d + 1) * w) * g
      <4> DEFINE x == (d + 1) * w
      <4>1. x \in Nat /\ v + 1 <= x
        BY <1>3, <1>4, <2>2
      <4> HIDE DEF x
      <4>2. (v + 1) * g <= x * g
        BY <1>4, <1>5, <4>1
      <4> QED  BY <4>2 DEF x
    <3>2. (d + 1) * (g * w) = ((d + 1) * w) * g
      BY <1>3, <1>5, <2>2
    <3> QED  BY <1>3, <1>4, <1>5, <2>2, <3>1, <3>2
  <2>7. s[2] + p \in Nat
    BY <1>2, <1>4
  <2> DEFINE e == s[2] + p
  <2>8. Halve(i, s)[1] = d /\ Halve(i, s)[2] = e /\ Halve(i, s) = <<d, e>> /\ h = 2 ^ e
    BY <2>1 DEF h
  <2>9. d < 2 ^ (2 ^ (Steps - i))
    BY <2>4 DEF w
  <2> HIDE DEF e
  <2> QED  BY <2>2, <2>3, <2>5, <2>6, <2>7, <2>8, <2>9 DEF Halved, e
<1> QED  BY <1>3, <1>4, <1>6, <1>7

\* Log2 is the logarithm, rounded down.
LEMMA LogIsRight ==
    ASSUME PowersDouble, NEW val \in Nat \ {0}, val < Word
    PROVE  Log2(val) \in Nat /\ 2 ^ Log2(val) <= val /\ val < 2 ^ (Log2(val) + 1)
<1>1. PICK f : /\ Log2(val) = f[Steps][2]
               /\ \A i \in 0 .. Steps : f[i] = IF i = 0 THEN <<val, 0>> ELSE Halve(i, f[i - 1])
  BY LogRounds
<1> DEFINE T == {i \in 0 .. Steps : Halved(val, i, f[i])}
<1>2. Steps \in Nat \ {0}
  BY WidthAssumption
<1>3. 0 \in T
  <2>1. f[0] = <<val, 0>> /\ Steps - 0 = Steps /\ 0 \in 0 .. Steps
    BY <1>1, <1>2
  <2> DEFINE s == <<val, 0>>
  <2>2. s[1] = val /\ s[2] = 0 /\ s = <<s[1], s[2]>>
    OBVIOUS
  <2> HIDE DEF s
  <2>3. 2 ^ s[2] = 1 /\ s[1] < 2 ^ (2 ^ (Steps - 0))
    BY <2>1, <2>2 DEF PowersDouble, Word
  <2>4. s[1] * 2 ^ s[2] <= val /\ val < (s[1] + 1) * 2 ^ s[2]
    BY <2>2, <2>3
  <2>5. Halved(val, 0, s)
    BY <2>2, <2>3, <2>4 DEF Halved
  <2> QED  BY <2>1, <2>5 DEF s
<1>4. ASSUME NEW k \in 0 .. Steps - 1, k \in T PROVE k + 1 \in T
  <2>1. k + 1 \in 1 .. Steps /\ k + 1 \in 0 .. Steps /\ (k + 1) - 1 = k /\ k + 1 # 0
    BY <1>2
  <2>2. f[k + 1] = Halve(k + 1, f[k])
    BY <1>1, <2>1
  <2>3. Halved(val, (k + 1) - 1, f[k])
    BY <1>4, <2>1
  <2>4. Halved(val, k + 1, Halve(k + 1, f[k]))
    BY <2>1, <2>3, RoundHalves
  <2> QED  BY <2>1, <2>2, <2>4
<1>5. Halved(val, Steps, f[Steps])
  <2> HIDE DEF T
  <2>1. 0 .. Steps \subseteq T
    BY <1>2, <1>3, <1>4, UpTo
  <2> QED  BY <1>2, <2>1 DEF T
<1> DEFINE v == f[Steps][1]
           r == f[Steps][2]
<1>6. v \in Nat \ {0} /\ r \in Nat /\ v < 2 /\ v * 2 ^ r <= val /\ val < (v + 1) * 2 ^ r
  <2>1. Steps - Steps = 0 /\ 2 ^ 0 = 1 /\ 2 ^ 1 = 2
    <3>1. 2 ^ (0 + 1) = 2 * 2 ^ 0 /\ 0 + 1 = 1 /\ 2 ^ 0 = 1
      BY DEF PowersDouble
    <3> QED  BY <1>2, <3>1
  <2> QED  BY <1>5, <2>1 DEF Halved
<1> HIDE DEF v, r
<1>7. 2 ^ r \in Nat /\ 2 ^ (r + 1) = 2 * 2 ^ r /\ v = 1
  BY <1>6, PowerType DEF PowersDouble
<1>8. 2 ^ r <= val /\ val < 2 ^ (r + 1)
  BY <1>6, <1>7
<1> QED  BY <1>1, <1>6, <1>8 DEF r

\* A distance that an int can count is in its bin (ReuseStats::GetBin, uint64
\* ShaveBitsPwr2): nothing is shifted out of an int.
LEMMA BinIsRight ==
    ASSUME PowersDouble, NEW d \in 1 .. 2 ^ (IntBits - 2), NEW b \in Nat
    PROVE  GetBin(d, b, Infinity, Infinity) = {BinOf(d, b)}
<1>1. IntBits \in Nat /\ IntBits >= 3 /\ IntBits <= 2 ^ Steps /\ Steps \in Nat
      /\ 2 ^ Steps \in Nat /\ IntBits - 2 \in Nat /\ 2 ^ (IntBits - 2) \in Nat /\ d \in Nat \ {0}
  BY WidthAssumption, PowerType
<1>2. CASE b = Infinity \/ d <= b
  BY <1>1, <1>2 DEF GetBin, BinOf, Infinity
<1>3. CASE ~(b = Infinity \/ d <= b)
  <2> DEFINE r == Log2(d - 1)
             n == 2 ^ (r + 1)
  <2>1. d - 1 \in Nat \ {0} /\ d >= 2
    BY <1>1, <1>3 DEF Infinity
  <2>2. d - 1 < Word
    <3>1. 2 ^ (IntBits - 2) <= 2 ^ (2 ^ Steps)
      BY <1>1, PowerOrder
    <3> QED  BY <1>1, <2>1, <3>1, PowerType DEF Word
  <2>3. r \in Nat /\ 2 ^ r <= d - 1 /\ d - 1 < n
    BY <2>1, <2>2, LogIsRight
  <2> HIDE DEF r
  <2>4. n = 2 * 2 ^ r /\ 2 ^ r \in Nat /\ n \in Nat
    BY <2>3, PowerType DEF PowersDouble
  <2>5. r + 1 < IntBits - 1
    <3> SUFFICES ASSUME IntBits - 2 <= r PROVE FALSE
      BY <1>1, <2>3
    <3>1. 2 ^ (IntBits - 2) <= 2 ^ r
      BY <1>1, <2>3, PowerOrder
    <3> QED  BY <1>1, <2>3, <2>4, <3>1
  <2>6. GetBin(d, b, Infinity, Infinity) = {n}
    <3>1. ShaveBitsPwr2(d) = {n}
      BY <2>5 DEF ShaveBitsPwr2, r
    <3> QED  BY <1>1, <1>3, <3>1 DEF GetBin, Infinity
  <2>7. n \in d .. 2 * d /\ IsPowerOf2(n)
    <3>1. r + 1 \in 0 .. 2 ^ Steps - 1
      BY <1>1, <2>3, <2>5
    <3>2. IsPowerOf2(n)
      BY <3>1 DEF IsPowerOf2
    <3> QED  BY <1>1, <2>1, <2>3, <2>4, <3>2
  <2>8. \A k \in d .. n - 1 : ~IsPowerOf2(k)
    <3> SUFFICES ASSUME NEW k \in d .. n - 1, NEW e \in 0 .. 2 ^ Steps - 1, k = 2 ^ e PROVE FALSE
      BY DEF IsPowerOf2
    <3>1. e \in Nat /\ k \in Nat /\ d <= k /\ k < n
      BY <1>1, <2>4
    <3>2. CASE e <= r
      <4>1. 2 ^ e <= 2 ^ r
        BY <2>3, <3>1, <3>2, PowerOrder
      <4> QED  BY <1>1, <2>3, <2>4, <3>1, <4>1
    <3>3. CASE e >= r + 1
      <4>1. n <= 2 ^ e
        BY <2>3, <3>1, <3>3, PowerOrder
      <4> QED  BY <2>4, <3>1, <4>1
    <3> QED  BY <2>3, <3>1, <3>2, <3>3
  <2> HIDE DEF n
  <2> DEFINE Least(m) == m \in d .. 2 * d /\ IsPowerOf2(m) /\ \A k \in d .. m - 1 : ~IsPowerOf2(k)
  <2>9. \A m : Least(m) => m = n
    <3> SUFFICES ASSUME NEW m \in d .. 2 * d, IsPowerOf2(m), \A k \in d .. m - 1 : ~IsPowerOf2(k)
                 PROVE  m = n
      OBVIOUS
    <3>1. m \in Nat /\ n \in d .. 2 * d
      BY <1>1, <2>7
    <3>2. ~(m < n)
      BY <1>1, <2>4, <2>8, <3>1
    <3>3. ~(n < m)
      BY <1>1, <2>4, <2>7, <3>1
    <3> QED  BY <2>4, <3>1, <3>2, <3>3
  <2>10. BinOf(d, b) = n
    <3>1. BinOf(d, b) = CHOOSE m \in d .. 2 * d : IsPowerOf2(m) /\ \A k \in d .. m - 1 : ~IsPowerOf2(k)
      BY <1>3 DEF BinOf
    <3> QED  BY <2>7, <2>8, <2>9, <3>1
  <2> QED  BY <2>6, <2>10
<1> QED  BY <1>2, <1>3

-----------------------------------------------------------------------------
(* The counters. *)

\* the accesses of an id whose distance belongs into a bin
Charged(id, bin) ==
    {n \in 1 .. Len(history) : /\ ~history[n].skip /\ history[n].id = id
                               /\ BinOf(DistanceOf(n), BinIndividual) = bin}

\* Every distance the window can tell is counted in its bin: no boundary is
\* out of an int's range (ReuseStats::GetBin, uint64 ShaveBitsPwr2).
BinsAreRight ==
    \A d \in 1 .. MaxSequence :
       (\E w \in Windows : w = Infinity \/ d <= w)
          => GetBin(d, BinIndividual, Infinity, Infinity) = {BinOf(d, BinIndividual)}

CountInv ==
    /\ WindowInv
    /\ capacity \in Windows
    /\ Len(window) < sequence
    /\ distcounts \in [Ids -> [AllBins -> Nat]]
    /\ CountsDistances

\* The new record is charged where its distance belongs, the others stay.
LEMMA ChargedStep ==
    ASSUME history \in Seq(Records), NEW r \in Records, history' = Append(history, r),
           capacity' = capacity, NEW n, n = Now + 1, NEW id, NEW bin
    PROVE  /\ IsFiniteSet(Charged(id, bin)) /\ n \notin Charged(id, bin)
           /\ Cardinality(Charged(id, bin)) \in Nat
           /\ Charged(id, bin)' =
                Charged(id, bin) \cup
                  IF ~r.skip /\ r.id = id /\ BinOf(DistanceOf(n)', BinIndividual) = bin
                  THEN {n} ELSE {}
<1>1. /\ Now \in Nat /\ Now' = n /\ history'[n] = r
      /\ \A k \in 1 .. Now : history'[k] = history[k]
  BY HistoryStep
<1>2. Charged(id, bin) \subseteq 1 .. Now
  BY DEF Charged, Now
<1>3. IsFiniteSet(1 .. Now) /\ n \notin 1 .. Now /\ 1 .. n = (1 .. Now) \cup {n}
  <2>1. IsFiniteSet(1 .. Now)
    BY <1>1, FS_Interval
  <2>2. n \notin 1 .. Now /\ 1 .. n = (1 .. Now) \cup {n}
    BY <1>1
  <2> QED  BY <2>1, <2>2
<1>4. IsFiniteSet(Charged(id, bin)) /\ Cardinality(Charged(id, bin)) \in Nat
  BY <1>2, <1>3, FS_Subset, FS_CardinalityType
<1> DEFINE Fits(k) == /\ ~history'[k].skip /\ history'[k].id = id
                      /\ BinOf(DistanceOf(k)', BinIndividual) = bin
<1>5. Charged(id, bin)' = {k \in 1 .. Now' : Fits(k)}
  BY DEF Charged, Now
<1>6. \A k \in 1 .. Now : Fits(k) <=> k \in Charged(id, bin)
  <2> SUFFICES ASSUME NEW k \in 1 .. Now PROVE Fits(k) <=> k \in Charged(id, bin)
    OBVIOUS
  <2>1. DistanceOf(k)' = DistanceOf(k)
    BY OldDistances
  <2>2. history'[k] = history[k]
    BY <1>1
  <2> QED  BY <2>1, <2>2 DEF Charged, Now
<1>7. Fits(n) <=> ~r.skip /\ r.id = id /\ BinOf(DistanceOf(n)', BinIndividual) = bin
  BY <1>1
<1> HIDE DEF Fits
<1>8. Charged(id, bin)' = Charged(id, bin) \cup IF Fits(n) THEN {n} ELSE {}
  BY <1>1, <1>2, <1>3, <1>5, <1>6
<1> QED  BY <1>2, <1>3, <1>4, <1>7, <1>8

\* An access is counted in the bin of what the window tells
\* (ReuseStats::Update).
LEMMA ProcessCounts ==
    ASSUME BinsAreRight, CountInv, NEW addr \in Addresses, NEW id \in Ids, Process(addr, id),
           history' = Append(history, Access(addr, id))
    PROVE  CountInv'
<1>1. WindowInv'
  BY ProcessWindow DEF CountInv
<1>2. capacity' = capacity /\ sequence' = sequence + 1 /\ sequence < MaxSequence
      /\ current' \in {current, current + 1}
  BY DEF Process
<1>3. Len(window') < sequence'
  <2>1. Len(window') = current'
    BY <1>1 DEF WindowInv, WindowType
  <2>2. Len(window) = current /\ Len(window) \in Nat /\ sequence \in Nat /\ Len(window) < sequence
    BY EntryType DEF CountInv
  <2> QED  BY <1>2, <2>1, <2>2
<1> DEFINE right == BinOf(Told(addr), BinIndividual)
<1>4. GetBin(Told(addr), BinIndividual, capacity, Infinity) = {right}
      /\ Told(addr) \in 0 .. MaxSequence
  <2>0. BinIndividual \in Nat /\ MaxSequence \in Nat
    BY WindowAssumption, SequenceAssumption
  <2>1. CASE addr \in DOMAIN mwindow
    <3>1. /\ Told(addr) \in 1 .. Len(window) /\ Len(window) \in Nat /\ capacity \in Nat
          /\ capacity # Infinity => Told(addr) <= capacity
      BY <2>1, ToldBounds, EntryType DEF CountInv
    <3>2. Told(addr) \in 1 .. MaxSequence
      <4>1. sequence \in Nat /\ Len(window) < sequence
        BY EntryType DEF CountInv
      <4> QED  BY <1>2, <2>0, <3>1, <4>1
    <3>3. GetBin(Told(addr), BinIndividual, capacity, Infinity)
            = GetBin(Told(addr), BinIndividual, Infinity, Infinity)
      BY <3>1 DEF GetBin, Infinity
    <3>4. \E w \in Windows : w = Infinity \/ Told(addr) <= w
      BY <3>1 DEF CountInv
    <3> QED  BY <3>2, <3>3, <3>4 DEF BinsAreRight
  <2>2. CASE addr \notin DOMAIN mwindow
    <3>1. Told(addr) = 0
      BY <2>2 DEF Told, Infinity
    <3> QED  BY <2>0, <3>1 DEF GetBin, BinOf, Infinity
  <2> QED  BY <2>1, <2>2
<1>5. distcounts' = [distcounts EXCEPT ![id][right] = @ + 1]
  <2>1. Update(id, Told(addr))
    BY DEF Process, Told
  <2> QED  BY <1>4, <2>1 DEF Update
<1>6. right \in AllBins
  <2> DEFINE told == Told(addr)
  <2>1. right \in GetBin(told, BinIndividual, capacity, Infinity) /\ told \in 0 .. MaxSequence
        /\ capacity \in Windows
    BY <1>4 DEF CountInv
  <2> HIDE DEF told, right
  <2> QED  BY <2>1 DEF AllBins
<1>7. distcounts' \in [Ids -> [AllBins -> Nat]]
      /\ \A i \in Ids, b \in AllBins :
            distcounts'[i][b] = IF i = id /\ b = right THEN distcounts[i][b] + 1 ELSE distcounts[i][b]
  <2> HIDE DEF right
  <2> QED  BY <1>5, <1>6 DEF CountInv
<1>8. CountsDistances'
  <2> DEFINE r == Access(addr, id)
  <2>1. r \in Records /\ ~r.skip /\ r.id = id /\ history \in Seq(Records)
    BY DEF Access, Records, CountInv, WindowInv, WindowType
  <2>2. PICK n : n = Now + 1
    OBVIOUS
  <2>3. DistanceOf(n)' = Told(addr)
    BY <1>2, <2>2, DistanceIs DEF CountInv
  <2> HIDE DEF r
  <2>4. ASSUME NEW i \in Ids, NEW b \in AllBins
        PROVE  distcounts'[i][b] = Cardinality(Charged(i, b)')
    <3>1. /\ IsFiniteSet(Charged(i, b)) /\ n \notin Charged(i, b)
          /\ Cardinality(Charged(i, b)) \in Nat
          /\ Charged(i, b)' = Charged(i, b) \cup
                IF ~r.skip /\ r.id = i /\ BinOf(DistanceOf(n)', BinIndividual) = b
                THEN {n} ELSE {}
      BY <1>2, <2>1, <2>2, ChargedStep DEF r
    <3>2. distcounts[i][b] = Cardinality(Charged(i, b))
      BY DEF CountInv, CountsDistances, Charged
    <3>3. CASE i = id /\ b = right
      <4>1. Charged(i, b)' = Charged(i, b) \cup {n}
        BY <2>1, <2>3, <3>1, <3>3
      <4>2. Cardinality(Charged(i, b) \cup {n}) = Cardinality(Charged(i, b)) + 1
        BY <3>1, FS_AddElement
      <4> QED  BY <1>7, <3>2, <3>3, <4>1, <4>2
    <3>4. CASE ~(i = id /\ b = right)
      <4>1. Charged(i, b)' = Charged(i, b)
        BY <2>1, <2>3, <3>1, <3>4
      <4> QED  BY <1>7, <3>2, <3>4, <4>1
    <3> QED  BY <3>3, <3>4
  <2> QED  BY <2>4 DEF CountsDistances, Charged
<1> QED  BY <1>1, <1>2, <1>3, <1>7, <1>8 DEF CountInv

\* Skipped addresses are not counted.
LEMMA SkipCounts ==
    ASSUME CountInv, NEW amount \in Amounts, SkipAddresses(amount),
           history' = Append(history, [addr |-> 0, id |-> 0, skip |-> TRUE])
    PROVE  CountInv'
<1>1. WindowInv'
  BY SkipWindow DEF CountInv
<1>2. capacity' = capacity /\ distcounts' = distcounts /\ Len(window') < sequence'
  <2>1. sequence \in Nat /\ Len(window) < sequence /\ Len(window) \in Nat /\ amount \in Nat
    BY EntryType, SequenceAssumption DEF CountInv
  <2>2. window' = <<>> /\ sequence' = sequence + amount /\ capacity' = capacity
        /\ distcounts' = distcounts
    BY DEF SkipAddresses
  <2> QED  BY <2>1, <2>2
<1> DEFINE r == [addr |-> 0, id |-> 0, skip |-> TRUE]
<1>3. r \in Records /\ r.skip /\ history \in Seq(Records)
  BY DEF Records, CountInv, WindowInv, WindowType
<1>4. PICK n : n = Now + 1
  OBVIOUS
<1> HIDE DEF r
<1>5. ASSUME NEW i \in Ids, NEW b \in AllBins PROVE Charged(i, b)' = Charged(i, b)
  <2>1. history' = Append(history, r)
    BY DEF r
  <2>2. Charged(i, b)' = Charged(i, b) \cup
          IF ~r.skip /\ r.id = i /\ BinOf(DistanceOf(n)', BinIndividual) = b THEN {n} ELSE {}
    BY <1>2, <1>3, <1>4, <2>1, ChargedStep
  <2> QED  BY <1>3, <2>2
<1>6. \A i \in Ids, b \in AllBins : distcounts[i][b] = Cardinality(Charged(i, b))
  BY DEF CountInv, CountsDistances, Charged
<1>7. \A i \in Ids, b \in AllBins : distcounts'[i][b] = Cardinality(Charged(i, b)')
  BY <1>2, <1>5, <1>6
<1>8. CountsDistances'
  BY <1>7 DEF CountsDistances, Charged
<1> QED  BY <1>1, <1>2, <1>8 DEF CountInv

LEMMA InitCounts == Init => CountInv
<1> SUFFICES ASSUME Init PROVE CountInv
  OBVIOUS
<1>1. capacity \in Windows /\ capacity \in Nat /\ window = <<>> /\ mwindow = <<>> /\ current = 0
      /\ sequence = 1 /\ distcounts = [id \in Ids |-> [n \in AllBins |-> 0]] /\ history = <<>>
  BY WindowAssumption DEF Init, ReuseInit
<1>2. Len(window) = 0 /\ Now = 0 /\ DOMAIN mwindow = {}
  BY <1>1 DEF Now
<1>3. WindowType
  BY <1>1, <1>2 DEF WindowType
<1>4. Sorted /\ MapsWindow /\ InOrderOfUse /\ LeftForLater
  BY <1>2 DEF Sorted, MapsWindow, InOrderOfUse, LeftForLater, Live
<1>5. CountsDistances
  <2>1. \A i, b : Charged(i, b) = {}
    BY <1>2 DEF Charged, Now
  <2>2. Cardinality({}) = 0
    BY FS_EmptySet
  <2>3. \A i \in Ids, b \in AllBins : distcounts[i][b] = Cardinality(Charged(i, b))
    BY <1>1, <2>1, <2>2
  <2> QED  BY <2>3 DEF CountsDistances, Charged
<1> QED  BY <1>1, <1>2, <1>3, <1>4, <1>5 DEF CountInv, WindowInv

\* The window of any size tells the distance as defined (find234 in a tree
\* sorted by sequence numbers, ReuseDistance::Process): whatever the stream and
\* however much of it is skipped, every id has been charged, for each of its
\* accesses, the bin of the number of distinct addresses since the last access
\* to the same address.
THEOREM DistancesCounted == BinsAreRight => (Spec => []CountsDistances)
<1> SUFFICES ASSUME BinsAreRight PROVE Spec => []CountsDistances
  OBVIOUS
<1>1. ASSUME CountInv, [Next]_vars PROVE CountInv'
  <2>1. ASSUME NEW addr \in Addresses, NEW id \in Ids, ProcessEntry(addr, id)
        PROVE  CountInv'
    BY <1>1, <2>1, ProcessCounts DEF ProcessEntry, Access
  <2>2. ASSUME NEW numElements \in Amounts, PassOver(numElements)
        PROVE  CountInv'
    BY <1>1, <2>2, SkipCounts DEF PassOver
  <2>3. CASE UNCHANGED vars
    <3>1. /\ capacity' = capacity /\ window' = window /\ mwindow' = mwindow /\ current' = current
          /\ sequence' = sequence /\ distcounts' = distcounts /\ history' = history
      BY <2>3 DEF vars, reuseVars
    <3>2. Live' = Live
      BY <3>1 DEF Live, Now
    <3>3. \A a : LiveOf(a)' = LiveOf(a)
      BY <3>1, <3>2 DEF LiveOf
    <3>4. \A a : LastUse(a)' = LastUse(a)
      BY <3>3 DEF LastUse
    <3>5. \A a, k : IsLastUse(a, k)' <=> IsLastUse(a, k)
      BY <3>3 DEF IsLastUse
    <3>6. WindowType' /\ Sorted' /\ MapsWindow'
      BY <1>1, <3>1 DEF CountInv, WindowInv, WindowType, Sorted, MapsWindow
    <3>7. InOrderOfUse'
      BY <1>1, <3>1, <3>3, <3>4 DEF CountInv, WindowInv, InOrderOfUse, IsLastUse
    <3>8. LeftForLater'
      BY <1>1, <3>1, <3>2, <3>4 DEF CountInv, WindowInv, LeftForLater, Full
    <3>9. \A n : DistanceOf(n)' = DistanceOf(n)
      <4>1. \A n : Earlier(n)' = Earlier(n)
        BY <3>1 DEF Earlier
      <4> QED  BY <3>1, <4>1 DEF DistanceOf
    <3>10. CountsDistances'
      BY <1>1, <3>1, <3>9 DEF CountInv, CountsDistances
    <3> QED  BY <1>1, <3>1, <3>6, <3>7, <3>8, <3>10 DEF CountInv, WindowInv
  <2> QED  BY <1>1, <2>1, <2>2, <2>3 DEF Next
<1>2. CountInv => CountsDistances
  BY DEF CountInv
<1> QED  BY InitCounts, <1>1, <1>2, PTL DEF Spec

-----------------------------------------------------------------------------
(* Spatial locality: the window of the last accesses, kept as a sequence    *)
(* and as a map from addresses to the number of their occurrences.          *)

\* the accesses that are in the window
Kept == Now - Len(swindow) + 1 .. Now

\* aw maps the addresses of the accesses K of the stream h to how many there are
Tallies(aw, h, K) ==
    /\ DOMAIN aw = {h[k].addr : k \in K}
    /\ \A a \in DOMAIN aw : aw[a] = Cardinality({k \in K : h[k].addr = a})

SpatialType ==
    /\ swindow \in Seq(Addresses) /\ Len(swindow) <= SpatialWindow
    /\ history \in Seq(Records)
\* the window is the end of what is live, all of it while it is not full
KeepsLatest ==
    /\ \A i \in 1 .. Len(swindow) : swindow[i] = history[Now - Len(swindow) + i].addr
    /\ Kept \subseteq Live
    /\ ~SpatialFull => Live \subseteq Kept

SpatialWindowInv == SpatialType /\ KeepsLatest /\ Tallies(awindow, history, Kept)

-----------------------------------------------------------------------------
\* An address that leaves the window.
LEMMA TallyWithout ==
    ASSUME NEW h, NEW K, IsFiniteSet(K), NEW aw, Tallies(aw, h, K),
           NEW k \in K, NEW a, a = h[k].addr
    PROVE  Tallies(WithoutOne(aw, a), h, K \ {k})
<1> DEFINE Of(x) == {j \in K : h[j].addr = x}
           Rest(x) == {j \in K \ {k} : h[j].addr = x}
<1>1. /\ DOMAIN aw = {h[j].addr : j \in K} /\ a \in DOMAIN aw
      /\ \A x \in DOMAIN aw : aw[x] = Cardinality(Of(x))
  BY DEF Tallies
<1>2. \A x : IsFiniteSet(Of(x)) /\ Cardinality(Of(x)) \in Nat
  <2>1. \A x : Of(x) \subseteq K
    OBVIOUS
  <2> QED  BY <2>1, FS_Subset, FS_CardinalityType
<1>3. \A x : x # a => Rest(x) = Of(x)
  OBVIOUS
<1>4. Rest(a) = Of(a) \ {k} /\ k \in Of(a)
  OBVIOUS
<1>5. Cardinality(Rest(a)) = Cardinality(Of(a)) - 1 /\ IsFiniteSet(Rest(a))
  BY <1>2, <1>4, FS_RemoveElement, FS_Subset
<1>6. aw[a] = Cardinality(Of(a))
  BY <1>1
<1> DEFINE Left == {h[j].addr : j \in K \ {k}}
<1>7. \A x : x \in Left <=> Rest(x) # {}
  OBVIOUS
<1>8. \A x : x # a => (x \in Left <=> x \in DOMAIN aw)
  BY <1>1, <1>3, <1>7
<1> HIDE DEF Of, Rest, Left
<1>9. CASE aw[a] > 1
  <2>1. WithoutOne(aw, a) = [aw EXCEPT ![a] = @ - 1]
    BY <1>9 DEF WithoutOne
  <2>2. Rest(a) # {}
    BY <1>2, <1>5, <1>6, <1>9, FS_EmptySet
  <2>3. DOMAIN WithoutOne(aw, a) = Left
    <3>1. a \in Left
      BY <1>7, <2>2
    <3> QED  BY <1>1, <1>8, <2>1, <3>1
  <2>4. \A x \in DOMAIN aw : WithoutOne(aw, a)[x] = Cardinality(Rest(x))
    BY <1>1, <1>3, <1>5, <1>6, <2>1
  <2> QED  BY <1>1, <2>1, <2>3, <2>4 DEF Tallies, Left, Rest
<1>10. CASE ~(aw[a] > 1)
  <2>1. WithoutOne(aw, a) = [x \in DOMAIN aw \ {a} |-> aw[x]]
    BY <1>10 DEF WithoutOne
  <2>2. Rest(a) = {}
    <3>1. Cardinality(Of(a)) # 0
      BY <1>2, <1>4, FS_EmptySet
    <3>2. Cardinality(Rest(a)) = 0
      BY <1>2, <1>5, <1>6, <1>10, <3>1
    <3> QED  BY <1>5, <3>2, FS_EmptySet
  <2>3. DOMAIN WithoutOne(aw, a) = Left
    <3>1. a \notin Left
      BY <1>7, <2>2
    <3> QED  BY <1>1, <1>8, <2>1, <3>1
  <2>4. \A x \in DOMAIN WithoutOne(aw, a) : WithoutOne(aw, a)[x] = Cardinality(Rest(x))
    BY <1>1, <1>3, <2>1
  <2> QED  BY <2>3, <2>4 DEF Tallies, Left, Rest
<1> QED  BY <1>9, <1>10

\* An address that comes into the window.
LEMMA TallyWith ==
    ASSUME NEW h, NEW K, IsFiniteSet(K), NEW aw, Tallies(aw, h, K),
           NEW k, k \notin K, NEW a, a = h[k].addr
    PROVE  Tallies(WithOne(aw, a), h, K \cup {k})
<1> DEFINE Of(x) == {j \in K : h[j].addr = x}
           More(x) == {j \in K \cup {k} : h[j].addr = x}
<1>1. /\ DOMAIN aw = {h[j].addr : j \in K}
      /\ \A x \in DOMAIN aw : aw[x] = Cardinality(Of(x))
  BY DEF Tallies
<1>2. \A x : IsFiniteSet(Of(x)) /\ Cardinality(Of(x)) \in Nat
  <2>1. \A x : Of(x) \subseteq K
    OBVIOUS
  <2> QED  BY <2>1, FS_Subset, FS_CardinalityType
<1>3. \A x : x # a => More(x) = Of(x)
  OBVIOUS
<1>4. More(a) = Of(a) \cup {k} /\ k \notin Of(a)
  OBVIOUS
<1>5. Cardinality(More(a)) = Cardinality(Of(a)) + 1
  <2> HIDE DEF Of, More
  <2>1. IsFiniteSet(Of(a))
    BY <1>2
  <2> QED  BY <1>4, <2>1, FS_AddElement
<1>6. \A x : x \notin DOMAIN aw => Of(x) = {}
  BY <1>1
<1>7. {h[j].addr : j \in K \cup {k}} = DOMAIN aw \cup {a}
  BY <1>1
<1>8. WithOne(aw, a) = [x \in DOMAIN aw \cup {a} |->
                          (IF x \in DOMAIN aw THEN aw[x] ELSE 0) + (IF x = a THEN 1 ELSE 0)]
  BY DEF WithOne
<1> HIDE DEF Of, More
<1>9. \A x : (IF x \in DOMAIN aw THEN aw[x] ELSE 0) = Cardinality(Of(x))
  BY <1>1, <1>6, FS_EmptySet
<1>10. \A x \in DOMAIN aw \cup {a} : WithOne(aw, a)[x] = Cardinality(More(x))
  <2> SUFFICES ASSUME NEW x \in DOMAIN aw \cup {a}
               PROVE  WithOne(aw, a)[x] = Cardinality(More(x))
    OBVIOUS
  <2>1. WithOne(aw, a)[x] = Cardinality(Of(x)) + (IF x = a THEN 1 ELSE 0)
    BY <1>8, <1>9
  <2> QED  BY <1>2, <1>3, <1>5, <2>1
<1> QED  BY <1>7, <1>8, <1>10 DEF Tallies, More

\* The loop of SpatialLocality::SkipAddresses has a result after every round.
LEMMA FlushedIs ==
    ASSUME swindow \in Seq(Addresses)
    PROVE  \A n \in 0 .. Len(swindow) :
               Flushed[n] = IF n = 0 THEN awindow ELSE WithoutOne(Flushed[n - 1], swindow[n])
<1> DEFINE L == Len(swindow)
           Loop(f, n) == f = [m \in 0 .. n |-> IF m = 0 THEN awindow
                                               ELSE WithoutOne(f[m - 1], swindow[m])]
           T == {n \in 0 .. L : \E f : Loop(f, n)}
<1>0. L \in Nat
  OBVIOUS
<1> HIDE DEF L
<1>1. 0 \in T
  <2>1. Loop([m \in 0 .. 0 |-> awindow], 0)
    OBVIOUS
  <2> HIDE DEF Loop
  <2> QED  BY <1>0, <2>1
<1>2. ASSUME NEW k \in 0 .. L - 1, k \in T PROVE k + 1 \in T
  <2>1. PICK f : Loop(f, k)
    BY <1>2
  <2>2. k \in Nat /\ k + 1 \in 0 .. L /\ 0 .. k + 1 = (0 .. k) \cup {k + 1}
        /\ \A m \in 0 .. k : m # k + 1 /\ (m # 0 => m - 1 \in 0 .. k)
    BY <1>0
  <2> DEFINE g == [m \in 0 .. k + 1 |-> IF m = k + 1 THEN WithoutOne(f[k], swindow[k + 1])
                                        ELSE f[m]]
  <2>3. ASSUME NEW m \in 0 .. k + 1
        PROVE  g[m] = IF m = 0 THEN awindow ELSE WithoutOne(g[m - 1], swindow[m])
    <3>1. CASE m = k + 1
      <4>1. m # 0 /\ m - 1 = k /\ k \in 0 .. k + 1 /\ k # k + 1
        BY <2>2, <3>1
      <4>2. g[m] = WithoutOne(f[k], swindow[k + 1]) /\ g[k] = f[k]
        BY <3>1, <4>1
      <4> QED  BY <3>1, <4>1, <4>2
    <3>2. CASE m \in 0 .. k
      <4>1. g[m] = f[m] /\ (m # 0 => g[m - 1] = f[m - 1])
        BY <2>2, <3>2
      <4>2. f[m] = IF m = 0 THEN awindow ELSE WithoutOne(f[m - 1], swindow[m])
        BY <2>1, <3>2
      <4> QED  BY <4>1, <4>2
    <3> QED  BY <2>2, <3>1, <3>2
  <2>4. g = [m \in 0 .. k + 1 |-> g[m]]
    OBVIOUS
  <2> HIDE DEF g
  <2>5. Loop(g, k + 1)
    BY <2>3, <2>4
  <2> HIDE DEF Loop
  <2> QED  BY <2>2, <2>5
<1>3. L \in T
  <2> HIDE DEF T
  <2>1. 0 .. L \subseteq T
    BY <1>0, <1>1, <1>2, UpTo
  <2> QED  BY <1>0, <2>1
<1>4. \E f : Loop(f, L)
  BY <1>3
<1>5. Flushed = CHOOSE f : Loop(f, L)
  BY DEF Flushed, L
<1>6. Loop(Flushed, L)
  <2> HIDE DEF Loop
  <2> QED  BY <1>4, <1>5
<1> QED  BY <1>6 DEF L

\* The window after a flush is empty (the assertions at the end of
\* SpatialLocality::SkipAddresses).
LEMMA FlushedEmpty ==
    ASSUME SpatialWindowInv
    PROVE  DOMAIN Flushed[Len(swindow)] = {}
<1> DEFINE L == Len(swindow)
           Left(n) == Now - L + (n + 1) .. Now
           T == {n \in 0 .. L : Tallies(Flushed[n], history, Left(n))}
<1>0. L \in Nat /\ Now \in Nat
  BY DEF SpatialWindowInv, SpatialType, Now
<1>1. \A n \in 0 .. L :
          Flushed[n] = IF n = 0 THEN awindow ELSE WithoutOne(Flushed[n - 1], swindow[n])
  BY FlushedIs DEF SpatialWindowInv, SpatialType
<1>2. \A i \in 1 .. L : swindow[i] = history[Now - L + i].addr
  BY DEF SpatialWindowInv, KeepsLatest
<1> HIDE DEF L
<1>3. 0 \in T
  <2>1. Left(0) = Kept /\ 0 \in 0 .. L
    BY <1>0 DEF Kept, L
  <2>2. Flushed[0] = awindow
    BY <1>1, <2>1
  <2> HIDE DEF Left
  <2> QED  BY <2>1, <2>2 DEF SpatialWindowInv
<1>4. ASSUME NEW n \in 0 .. L - 1, n \in T PROVE n + 1 \in T
  <2> DEFINE k == Now - L + (n + 1)
  <2>1. n + 1 \in 1 .. L /\ n + 1 \in 0 .. L /\ n + 1 # 0 /\ (n + 1) - 1 = n
    BY <1>0
  <2>2. IsFiniteSet(Left(n)) /\ k \in Left(n) /\ Left(n + 1) = Left(n) \ {k}
    <3>1. k \in Int /\ Now \in Int
      BY <1>0
    <3>2. IsFiniteSet(k .. Now)
      BY <3>1, FS_Interval, Zenon
    <3>3. k <= Now /\ Left(n + 1) = (k .. Now) \ {k}
      BY <1>0, <2>1
    <3> QED  BY <3>1, <3>2, <3>3
  <2>3. swindow[n + 1] = history[k].addr
    BY <1>2, <2>1
  <2>4. Flushed[n + 1] = WithoutOne(Flushed[n], swindow[n + 1])
    BY <1>1, <2>1
  <2> HIDE DEF Left, k
  <2>5. Tallies(Flushed[n], history, Left(n))
    BY <1>4
  <2>6. Tallies(WithoutOne(Flushed[n], swindow[n + 1]), history, Left(n) \ {k})
    BY <2>2, <2>3, <2>5, TallyWithout
  <2> QED  BY <2>1, <2>2, <2>4, <2>6
<1>5. Tallies(Flushed[L], history, Left(L))
  <2>1. 0 .. L \subseteq T
    <3> HIDE DEF T
    <3> QED  BY <1>0, <1>3, <1>4, UpTo
  <2> QED  BY <1>0, <2>1
<1>6. Left(L) = {}
  BY <1>0
<1> HIDE DEF Left
<1> QED  BY <1>5, <1>6 DEF Tallies, L

\* Addresses that are passed over leave nothing in the window.
LEMMA SkipSpatial ==
    ASSUME SpatialWindowInv, SpatialSkipAddresses,
           history' = Append(history, [addr |-> 0, id |-> 0, skip |-> TRUE])
    PROVE  SpatialWindowInv'
<1> DEFINE r == [addr |-> 0, id |-> 0, skip |-> TRUE]
<1>1. r \in Records /\ r.skip /\ history \in Seq(Records)
  BY DEF Records, SpatialWindowInv, SpatialType
<1>2. history' = Append(history, r)
  OBVIOUS
<1> HIDE DEF r
<1>3. /\ history' \in Seq(Records) /\ Now \in Nat /\ Now' = Now + 1
      /\ history'[Now + 1] = r
  BY <1>1, <1>2, HistoryStep
<1>4. swindow' = <<>> /\ Len(swindow') = 0 /\ DOMAIN awindow' = {}
  BY FlushedEmpty DEF SpatialSkipAddresses
<1>5. Live' = {}
  <2>1. \A k \in 1 .. Now' : Now + 1 \in k .. Now'
    BY <1>3
  <2> QED  BY <1>1, <1>3, <2>1 DEF Live
<1>6. Kept' = {}
  BY <1>3, <1>4 DEF Kept
<1>7. SpatialWindow \in Nat \ {0}
  BY SizeAssumption
<1>8. SpatialType' /\ KeepsLatest'
  BY <1>3, <1>4, <1>5, <1>6, <1>7 DEF SpatialType, KeepsLatest
<1>9. Tallies(awindow', history', Kept')
  BY <1>4, <1>6 DEF Tallies
<1> QED  BY <1>8, <1>9 DEF SpatialWindowInv

\* An access comes into the window and, if this is full, the oldest leaves it.
LEMMA ProcessSpatial ==
    ASSUME SpatialWindowInv, NEW addr \in Addresses, NEW id \in Ids, SpatialProcess(addr, id),
           history' = Append(history, Access(addr, id))
    PROVE  SpatialWindowInv'
<1> DEFINE r == Access(addr, id)
           L == Len(swindow)
           rest == IF SpatialFull THEN Tail(swindow) ELSE swindow
           aw == IF SpatialFull THEN WithoutOne(awindow, Head(swindow)) ELSE awindow
           first == IF SpatialFull THEN Now - L + 2 ELSE Now - L + 1
<1>1. r \in Records /\ ~r.skip /\ r.addr = addr /\ history \in Seq(Records)
      /\ swindow \in Seq(Addresses) /\ L <= SpatialWindow /\ L \in Nat
      /\ SpatialWindow \in Nat \ {0}
  BY SizeAssumption DEF Access, Records, SpatialWindowInv, SpatialType
<1>2. history' = Append(history, r)
  OBVIOUS
<1> HIDE DEF r
<1>3. /\ history' \in Seq(Records) /\ Now \in Nat /\ Now' = Now + 1
      /\ \A n \in 1 .. Now : history'[n] = history[n]
      /\ history'[Now + 1] = r
  BY <1>1, <1>2, HistoryStep
<1>4. Live' = Live \cup {Now + 1}
  BY <1>1, <1>2, LiveAfterAccess
<1>5. /\ \A i \in 1 .. L : swindow[i] = history[Now - L + i].addr
      /\ Kept = Now - L + 1 .. Now /\ Kept \subseteq Live /\ Live \subseteq 1 .. Now
      /\ ~SpatialFull => Live \subseteq Kept
  BY DEF SpatialWindowInv, KeepsLatest, Kept, Live
<1>6. SpatialFull <=> L = SpatialWindow
  BY <1>1 DEF SpatialFull
<1>7. swindow' = Append(rest, addr) /\ awindow' = WithOne(aw, addr)
  BY DEF SpatialProcess
<1>8. /\ rest \in Seq(Addresses)
      /\ Len(rest) = IF SpatialFull THEN L - 1 ELSE L
      /\ \A i \in 1 .. Len(rest) : rest[i] = swindow[IF SpatialFull THEN i + 1 ELSE i]
  <2>1. CASE SpatialFull
    <3>1. L >= 1
      BY <1>1, <1>6, <2>1
    <3>2. /\ Tail(swindow) \in Seq(Addresses) /\ Len(Tail(swindow)) = L - 1
          /\ \A i \in 1 .. L - 1 : Tail(swindow)[i] = swindow[i + 1]
      BY <1>1, <3>1
    <3> QED  BY <2>1, <3>2
  <2>2. CASE ~SpatialFull
    BY <1>1, <2>2
  <2> QED  BY <2>1, <2>2
<1>9. /\ first \in Int /\ first = Now - Len(rest) + 1 /\ 1 <= first /\ first <= Now + 1
      /\ first .. Now \subseteq Kept
      /\ Len(rest) \in Nat /\ Len(rest) < SpatialWindow
  <2>1. Now - L + 1 >= 1
    <3> SUFFICES ASSUME ~(Now - L + 1 >= 1) PROVE FALSE
      OBVIOUS
    <3>1. Now - L + 1 \in Kept
      BY <1>1, <1>3, <1>5
    <3> QED  BY <1>1, <1>3, <1>5, <3>1
  <2> HIDE DEF rest, L
  <2>2. CASE SpatialFull
    <3>1. first = Now - L + 2 /\ Len(rest) = L - 1 /\ L = SpatialWindow
      BY <1>6, <1>8, <2>2
    <3> HIDE DEF first
    <3>2. /\ first \in Int /\ first = Now - Len(rest) + 1 /\ 1 <= first /\ first <= Now + 1
          /\ Len(rest) \in Nat /\ Len(rest) < SpatialWindow
      BY <1>1, <1>3, <2>1, <3>1
    <3>3. \A k \in first .. Now : k \in Now - L + 1 .. Now
      BY <1>1, <1>3, <3>1
    <3> QED  BY <1>5, <3>2, <3>3
  <2>3. CASE ~SpatialFull
    <3>1. first = Now - L + 1 /\ Len(rest) = L /\ L # SpatialWindow
      BY <1>6, <1>8, <2>3
    <3> HIDE DEF first
    <3> QED  BY <1>1, <1>3, <1>5, <2>1, <3>1
  <2> QED  BY <2>2, <2>3
<1>10. /\ Len(swindow') = Len(rest) + 1 /\ swindow' \in Seq(Addresses)
       /\ \A i \in 1 .. Len(rest) : swindow'[i] = rest[i]
       /\ swindow'[Len(rest) + 1] = addr
  <2> HIDE DEF rest
  <2> QED  BY <1>7, <1>8, AppendProperties
<1>11. Kept' = (first .. Now) \cup {Now + 1} /\ Kept' = first .. Now + 1
  <2> HIDE DEF rest, first
  <2>1. Now' - Len(swindow') + 1 = first
    BY <1>3, <1>9, <1>10
  <2>2. Kept' = first .. Now + 1
    BY <1>3, <2>1 DEF Kept
  <2> QED  BY <1>3, <1>9, <2>2
<1>12. \A i \in 1 .. Len(rest) : rest[i] = history[first - 1 + i].addr
  <2>1. CASE SpatialFull
    <3>1. \A i \in 1 .. Len(rest) : i + 1 \in 1 .. L /\ first - 1 + i = Now - L + (i + 1)
      BY <1>1, <1>3, <1>8, <2>1
    <3> QED  BY <1>5, <1>8, <2>1, <3>1
  <2>2. CASE ~SpatialFull
    <3>1. \A i \in 1 .. Len(rest) : i \in 1 .. L /\ first - 1 + i = Now - L + i
      BY <1>1, <1>3, <1>8, <2>2
    <3> QED  BY <1>5, <1>8, <2>2, <3>1
  <2> QED  BY <2>1, <2>2
<1>13. SpatialType'
  BY <1>1, <1>3, <1>9, <1>10 DEF SpatialType
<1>14. KeepsLatest'
  <2> HIDE DEF rest, first
  <2>1. ASSUME NEW i \in 1 .. Len(swindow')
        PROVE  swindow'[i] = history'[Now' - Len(swindow') + i].addr
    <3>1. Now' - Len(swindow') + i = first - 1 + i
      BY <1>3, <1>9, <1>10
    <3>2. CASE i \in 1 .. Len(rest)
      <4>1. PICK m : m = first - 1 + i
        OBVIOUS
      <4>2. m \in 1 .. Now
        BY <1>3, <1>9, <3>2, <4>1
      <4>3. history'[m] = history[m]
        BY <1>3, <4>2
      <4>4. swindow'[i] = history[m].addr
        BY <1>10, <1>12, <3>2, <4>1
      <4>5. Now' - Len(swindow') + i = m
        BY <3>1, <4>1
      <4> QED  BY <4>3, <4>4, <4>5
    <3>3. CASE i = Len(rest) + 1
      <4>1. first - 1 + i = Now + 1
        BY <1>3, <1>9, <3>3
      <4> QED  BY <1>1, <1>3, <1>10, <3>1, <3>3, <4>1
    <3>4. i \in 1 .. Len(rest) \/ i = Len(rest) + 1
      BY <1>9, <1>10
    <3> QED  BY <3>2, <3>3, <3>4
  <2>2. Kept' \subseteq Live'
    BY <1>4, <1>5, <1>9, <1>11
  <2>3. ASSUME ~SpatialFull' PROVE Live' \subseteq Kept'
    <3>1. ~SpatialFull
      BY <1>1, <1>6, <1>8, <1>10, <2>3 DEF SpatialFull
    <3>2. first .. Now = Kept
      BY <1>1, <1>5, <3>1 DEF first
    <3> QED  BY <1>4, <1>5, <1>11, <3>1, <3>2
  <2> QED  BY <2>1, <2>2, <2>3 DEF KeepsLatest
<1>15. IsFiniteSet(Kept) /\ IsFiniteSet(first .. Now) /\ Now + 1 \notin first .. Now
  <2>1. Now - L + 1 \in Int /\ Now \in Int /\ first \in Int
    BY <1>1, <1>3, <1>9
  <2> HIDE DEF first
  <2>2. IsFiniteSet(Now - L + 1 .. Now) /\ IsFiniteSet(first .. Now)
    BY <2>1, FS_Interval, Zenon
  <2>3. Now + 1 \notin first .. Now
    BY <1>3, <2>1
  <2> QED  BY <1>5, <2>2, <2>3
<1>16. Tallies(aw, history, first .. Now)
  <2>1. CASE SpatialFull
    <3>1. Now - L + 1 \in Kept /\ first .. Now = Kept \ {Now - L + 1}
      BY <1>1, <1>3, <1>5, <1>6, <2>1
    <3>2. Head(swindow) = history[Now - L + 1].addr
      <4>1. 1 \in 1 .. L /\ Head(swindow) = swindow[1]
        BY <1>1, <1>6, <2>1
      <4> QED  BY <1>5, <4>1
    <3>3. Tallies(awindow, history, Kept)
      BY DEF SpatialWindowInv
    <3> HIDE DEF first, L
    <3>4. PICK k : k = Now - L + 1
      OBVIOUS
    <3>5. Tallies(WithoutOne(awindow, Head(swindow)), history, Kept \ {k})
      BY <1>15, <3>1, <3>2, <3>3, <3>4, TallyWithout
    <3> QED  BY <2>1, <3>1, <3>4, <3>5
  <2>2. CASE ~SpatialFull
    BY <1>5, <2>2 DEF SpatialWindowInv
  <2> QED  BY <2>1, <2>2
<1>17. Tallies(aw, history', first .. Now)
  <2> HIDE DEF aw, first
  <2>1. \A k \in first .. Now : history'[k].addr = history[k].addr
    <3>1. \A k \in first .. Now : k \in 1 .. Now
      BY <1>3, <1>9
    <3> QED  BY <1>3, <3>1
  <2>2. {history'[k].addr : k \in first .. Now} = {history[k].addr : k \in first .. Now}
    <3> DEFINE new == {history'[k].addr : k \in first .. Now}
               old == {history[k].addr : k \in first .. Now}
    <3>1. ASSUME NEW a \in new PROVE a \in old
      BY <2>1
    <3>2. ASSUME NEW a \in old PROVE a \in new
      BY <2>1
    <3> HIDE DEF new, old
    <3>3. new = old
      BY <3>1, <3>2
    <3> QED  BY <3>3 DEF new, old
  <2>3. \A a : {k \in first .. Now : history'[k].addr = a} = {k \in first .. Now : history[k].addr = a}
    BY <2>1
  <2> QED  BY <1>16, <2>2, <2>3 DEF Tallies
<1>18. Tallies(WithOne(aw, addr), history', (first .. Now) \cup {Now + 1})
  <2> HIDE DEF aw, first
  <2>1. addr = history'[Now + 1].addr
    BY <1>1, <1>3
  <2> QED  BY <1>15, <1>17, <2>1, TallyWith
<1> QED  BY <1>7, <1>11, <1>13, <1>14, <1>18 DEF SpatialWindowInv

-----------------------------------------------------------------------------
(* The nearest address. *)

\* how far two addresses are from each other
Apart(a, b) == IF a > b THEN a - b ELSE b - a

\* The difference of 64 bits is the distance of two addresses of user space
\* (uint64abs).
LEMMA DifferenceIs ==
    ASSUME NEW a \in Addresses, NEW b \in Addresses
    PROVE  /\ Difference(a, b) = Apart(a, b)
           /\ Apart(a, b) \in Nat /\ Apart(a, b) # Invalid
           /\ Apart(a, b) = 0 <=> a = b
<1> DEFINE h == Word \div 2
<1>1. /\ Word \in Nat /\ Word >= 2 /\ a \in Nat /\ b \in Nat
      /\ h \in Nat /\ a < h /\ b < h /\ h <= Word - h
  BY AddressAssumption
<1>2. Apart(a, b) \in Nat /\ Apart(a, b) < Word - 1 /\ (Apart(a, b) = 0 <=> a = b)
  <2> HIDE DEF h
  <2> QED  BY <1>1 DEF Apart
<1>3. Difference(a, b) = Apart(a, b)
  <2>1. CASE a >= b
    <3>1. (a - b + Word) % Word = a - b
      BY <1>1, <2>1
    <3>2. a - b < Word \div 2
      <4> HIDE DEF h
      <4>1. a - b < h
        BY <1>1, <2>1
      <4> QED  BY <4>1 DEF h
    <3> QED  BY <1>1, <2>1, <3>1, <3>2 DEF Difference, Uint64abs, Apart
  <2>2. CASE a < b
    <3>1. (a - b + Word) % Word = a - b + Word
      BY <1>1, <2>2
    <3>2. ~(a - b + Word < Word \div 2)
      <4> HIDE DEF h
      <4>1. ~(a - b + Word < h)
        BY <1>1, <2>2
      <4> QED  BY <4>1 DEF h
    <3> QED  BY <1>1, <2>2, <3>1, <3>2 DEF Difference, Uint64abs, Apart
  <2> QED  BY <1>1, <2>1, <2>2
<1>4. Invalid = Word - 1
  BY DEF Invalid
<1> QED  BY <1>1, <1>2, <1>3, <1>4

\* Among the addresses looked at is one that is as near as any in the map, and
\* is not addr itself.
LEMMA NeighboursEnough ==
    ASSUME DOMAIN awindow \subseteq Nat, NEW addr \in Nat, NEW b \in DOMAIN awindow, b # addr
    PROVE  \E c \in Neighbours(addr) : c # addr /\ Apart(c, addr) <= Apart(b, addr)
<1> DEFINE Down == Downwards(addr)
           Above(c) == {x \in Down : c < x}
<1>1. Down = {x \in DOMAIN awindow : \A y \in DOMAIN awindow : y > addr => x <= y}
  BY DEF Downwards
<1>2. Neighbours(addr) = {c \in Down : Cardinality(Above(c)) < 3}
  BY DEF Neighbours
<1>3. CASE b > addr
  <2> DEFINE Up == {x \in DOMAIN awindow : x > addr}
  <2>1. PICK c \in Up : \A x \in Up : c <= x
    <3>1. Up \subseteq Nat /\ Up # {}
      BY <1>3
    <3> HIDE DEF Up
    <3> QED  BY <3>1, LeastNumber
  <2>2. c \in Down /\ c \in Nat /\ c > addr /\ c <= b
    BY <1>1, <1>3, <2>1
  <2>3. Above(c) = {}
    BY <1>1, <2>1, <2>2
  <2>4. c \in Neighbours(addr)
    BY <1>2, <2>2, <2>3, FS_EmptySet
  <2>5. Apart(c, addr) <= Apart(b, addr)
    BY <1>3, <2>2 DEF Apart
  <2> QED  BY <2>2, <2>4, <2>5
<1>4. CASE b < addr
  <2> DEFINE Low == {x \in DOMAIN awindow : x < addr}
  <2>1. PICK c \in Low : \A x \in Low : x <= c
    <3>1. Low \subseteq Nat /\ Low # {} /\ \A x \in Low : x <= addr
      BY <1>4
    <3> HIDE DEF Low
    <3> QED  BY <3>1, GreatestNumber
  <2>2. c \in Down /\ c \in Nat /\ c < addr /\ b <= c
    BY <1>1, <1>4, <2>1
  <2>3. \A x \in Above(c) : x = addr \/ x > addr
    BY <1>1, <2>1, <2>2
  <2>4. \A x, y \in Above(c) : x > addr /\ y > addr => x = y
    BY <1>1
  <2>5. \E u : Above(c) \subseteq {addr, u}
    <3>1. CASE \E x \in Above(c) : x > addr
      BY <2>3, <2>4, <3>1
    <3>2. CASE ~ \E x \in Above(c) : x > addr
      BY <2>3, <3>2
    <3> QED  BY <3>1, <3>2
  <2>6. PICK u : Above(c) \subseteq {addr, u}
    BY <2>5
  <2>7. IsFiniteSet({addr, u}) /\ Cardinality({addr, u}) <= 2
    <3>1. IsFiniteSet({addr}) /\ Cardinality({addr}) = 1
      BY FS_Singleton
    <3>2. {addr, u} = {addr} \cup {u}
      OBVIOUS
    <3>3. IsFiniteSet({addr} \cup {u}) /\ Cardinality({addr} \cup {u}) \in {1, 2}
      BY <3>1, FS_AddElement
    <3> QED  BY <3>2, <3>3
  <2>8. Cardinality(Above(c)) < 3
    <3> HIDE DEF Above
    <3>1. /\ IsFiniteSet(Above(c)) /\ Cardinality(Above(c)) <= Cardinality({addr, u})
      BY <2>6, <2>7, FS_Subset
    <3>2. Cardinality(Above(c)) \in Nat /\ Cardinality({addr, u}) \in Nat
      BY <2>7, <3>1, FS_CardinalityType
    <3> QED  BY <2>7, <3>1, <3>2
  <2>9. c \in Neighbours(addr)
    BY <1>2, <2>2, <2>8
  <2>10. Apart(c, addr) <= Apart(b, addr)
    BY <1>4, <2>2 DEF Apart
  <2> QED  BY <2>2, <2>9, <2>10
<1> QED  BY <1>3, <1>4

\* The least distance of addr to an address of A, other than 0.
Nearest(addr, A) ==
    LET diffs == {Apart(addr, b) : b \in A} \ {0}
    IN IF diffs = {} THEN Invalid ELSE CHOOSE d \in diffs : \A e \in diffs : d <= e

\* What is found among the neighbours is the nearest address of the map
\* (SpatialLocality::Process).
LEMMA BestIsNearest ==
    ASSUME DOMAIN awindow \subseteq Addresses, NEW addr \in Addresses
    PROVE  /\ BestDiff(addr) = Nearest(addr, DOMAIN awindow)
           /\ \/ BestDiff(addr) = Invalid
              \/ /\ BestDiff(addr) # Invalid /\ BestDiff(addr) # 0
                 /\ \E a \in Addresses : BestDiff(addr) = Difference(a, addr)
<1> DEFINE near == {Difference(a, addr) : a \in Neighbours(addr)} \ {0}
           all == {Apart(addr, b) : b \in DOMAIN awindow} \ {0}
           Least(D, d) == d \in D /\ \A e \in D : d <= e
<1>1. Addresses \subseteq Nat
  BY AddressAssumption
<1>2. Neighbours(addr) \subseteq DOMAIN awindow
  BY DEF Neighbours, Downwards
<1>3. \A a \in Addresses : /\ Difference(a, addr) = Apart(addr, a)
                           /\ Apart(a, addr) = Apart(addr, a)
                           /\ Apart(addr, a) \in Nat /\ Apart(addr, a) # Invalid
                           /\ Apart(addr, a) = 0 <=> a = addr
  <2> SUFFICES ASSUME NEW a \in Addresses
               PROVE  /\ Difference(a, addr) = Apart(addr, a)
                      /\ Apart(a, addr) = Apart(addr, a)
                      /\ Apart(addr, a) \in Nat /\ Apart(addr, a) # Invalid
                      /\ Apart(addr, a) = 0 <=> a = addr
    OBVIOUS
  <2>1. Apart(a, addr) = Apart(addr, a)
    BY <1>1 DEF Apart
  <2> QED  BY <2>1, DifferenceIs
<1>4. near \subseteq all
  BY <1>2, <1>3
<1>5. \A e \in all : \E d \in near : d <= e
  <2> SUFFICES ASSUME NEW e \in all PROVE \E d \in near : d <= e
    OBVIOUS
  <2>1. PICK b \in DOMAIN awindow : e = Apart(addr, b) /\ e # 0
    OBVIOUS
  <2>2. b \in Addresses /\ b # addr
    BY <1>3, <2>1
  <2>3. PICK c \in Neighbours(addr) : c # addr /\ Apart(c, addr) <= Apart(b, addr)
    BY <1>1, <2>2, NeighboursEnough
  <2>4. c \in Addresses
    BY <1>2
  <2>5. Difference(c, addr) \in near /\ Difference(c, addr) <= e
    BY <1>3, <2>1, <2>2, <2>3, <2>4
  <2> QED  BY <2>5
<1>6. all \subseteq Nat /\ \A d \in near : /\ d # Invalid /\ d # 0
                                           /\ \E a \in Addresses : d = Difference(a, addr)
  BY <1>2, <1>3
<1>7. BestDiff(addr) = IF near = {} THEN Invalid ELSE CHOOSE d \in near : \A e \in near : d <= e
  BY DEF BestDiff
<1>8. Nearest(addr, DOMAIN awindow)
        = IF all = {} THEN Invalid ELSE CHOOSE d \in all : \A e \in all : d <= e
  BY DEF Nearest
<1> HIDE DEF near, all
<1>9. CASE near = {}
  <2>1. all = {}
    BY <1>5, <1>9
  <2> QED  BY <1>7, <1>8, <1>9, <2>1
<1>10. CASE near # {}
  <2>1. PICK d \in near : \A e \in near : d <= e
    <3>1. near \subseteq Nat
      BY <1>4, <1>6
    <3> QED  BY <1>10, <3>1, LeastNumber
  <2>2. d \in all /\ \A e \in all : d <= e
    <3>1. ASSUME NEW e \in all PROVE d <= e
      <4>1. PICK x \in near : x <= e
        BY <1>5
      <4> QED  BY <1>4, <1>6, <2>1, <4>1
    <3> QED  BY <1>4, <2>1, <3>1
  <2>3. (CHOOSE x \in near : \A e \in near : x <= e) = d
    <3>1. \A x \in near : (\A e \in near : x <= e) => x = d
      BY <1>4, <1>6, <2>1
    <3> QED  BY <2>1, <3>1
  <2>4. (CHOOSE x \in all : \A e \in all : x <= e) = d
    <3>1. \A x \in all : (\A e \in all : x <= e) => x = d
      BY <1>6, <2>2
    <3> QED  BY <2>2, <3>1
  <2>5. all # {}
    BY <2>2
  <2> QED  BY <1>6, <1>7, <1>8, <1>10, <2>1, <2>3, <2>4, <2>5
<1> QED  BY <1>9, <1>10

\* The accesses from which the distance of the next one is defined are those
\* in the window.
LEMMA PreviousIsKept ==
    ASSUME SpatialWindowInv, NEW addr \in Addresses, NEW id \in Ids, NEW n, n = Now + 1,
           history' = Append(history, Access(addr, id))
    PROVE  Previous(n)' = DOMAIN awindow
<1> DEFINE r == Access(addr, id)
           L == Len(swindow)
<1>1. r \in Records /\ ~r.skip /\ history \in Seq(Records) /\ history' = Append(history, r)
      /\ L \in Nat /\ L <= SpatialWindow /\ SpatialWindow \in Nat
  BY SizeAssumption DEF Access, Records, SpatialWindowInv, SpatialType
<1> HIDE DEF r
<1>2. /\ Now \in Nat /\ history'[n] = r
      /\ \A k \in 1 .. Now : history'[k] = history[k]
  BY <1>1, HistoryStep
<1>3. /\ DOMAIN awindow = {history[k].addr : k \in Kept}
      /\ Kept \subseteq Live /\ Kept = Now - L + 1 .. Now
      /\ ~SpatialFull => Live \subseteq Kept
  BY DEF SpatialWindowInv, Tallies, KeepsLatest, Kept
<1>4. SpatialFull <=> L = SpatialWindow
  BY <1>1 DEF SpatialFull
<1> DEFINE Near == {j \in 1 .. n - 1 : /\ n - j <= SpatialWindow
                                       /\ \A i \in j .. n : ~history'[i].skip}
<1>5. Near = {j \in Live : n - j <= SpatialWindow}
  <2>1. 1 .. n - 1 = 1 .. Now
    BY <1>2
  <2>2. ASSUME NEW j \in 1 .. Now
        PROVE  (\A i \in j .. n : ~history'[i].skip) <=> (\A i \in j .. Now : ~history[i].skip)
    <3>1. j .. n = (j .. Now) \cup {n} /\ \A i \in j .. Now : i \in 1 .. Now
      BY <1>2
    <3> QED  BY <1>1, <1>2, <3>1
  <2>3. Live = {j \in 1 .. Now : \A i \in j .. Now : ~history[i].skip}
    BY DEF Live
  <2> QED  BY <2>1, <2>2, <2>3
<1> HIDE DEF Near, L
<1>6. Near = Kept
  <2>1. Live \subseteq 1 .. Now
    BY DEF Live
  <2>2. \A k \in 1 .. Now : n - k <= L <=> k \in Now - L + 1 .. Now
    BY <1>1, <1>2
  <2>3. CASE SpatialFull
    BY <1>3, <1>4, <1>5, <2>1, <2>2, <2>3
  <2>4. CASE ~SpatialFull
    <3>1. \A k \in Kept : n - k <= SpatialWindow
      BY <1>1, <1>2, <1>3
    <3> QED  BY <1>3, <1>5, <2>4, <3>1
  <2> QED  BY <2>3, <2>4
<1>7. \A k \in Kept : history'[k].addr = history[k].addr
  BY <1>2, <1>3 DEF Live
<1>8. Previous(n)' = {history'[k].addr : k \in Near}
  BY DEF Previous, Near
<1> DEFINE new == {history'[k].addr : k \in Kept}
           old == {history[k].addr : k \in Kept}
<1>9. ASSUME NEW a \in new PROVE a \in old
  BY <1>7
<1>10. ASSUME NEW a \in old PROVE a \in new
  BY <1>7
<1>11. DOMAIN awindow = old
  BY <1>3
<1>12. Previous(n)' = new
  BY <1>6, <1>8
<1> HIDE DEF new, old
<1> QED  BY <1>9, <1>10, <1>11, <1>12

\* What is found in the window is the distance of the next access as defined.
LEMMA NearestIs ==
    ASSUME SpatialWindowInv, NEW addr \in Addresses, NEW id \in Ids, NEW n, n = Now + 1,
           history' = Append(history, Access(addr, id))
    PROVE  NearestDistance(n)' = BestDiff(addr)
<1>1. DOMAIN awindow \subseteq Addresses
  <2> SUFFICES ASSUME NEW k \in Kept PROVE history[k].addr \in Addresses
    BY DEF SpatialWindowInv, Tallies
  <2>1. /\ Len(swindow) \in Nat /\ Now \in Nat /\ swindow \in Seq(Addresses)
        /\ \A i \in 1 .. Len(swindow) : swindow[i] = history[Now - Len(swindow) + i].addr
    BY DEF SpatialWindowInv, SpatialType, KeepsLatest, Now
  <2>2. PICK i : i = k - (Now - Len(swindow))
    OBVIOUS
  <2>3. i \in 1 .. Len(swindow) /\ Now - Len(swindow) + i = k
    BY <2>1, <2>2 DEF Kept
  <2> QED  BY <2>1, <2>3
<1>2. BestDiff(addr) = Nearest(addr, DOMAIN awindow)
  BY <1>1, BestIsNearest
<1>3. Previous(n)' = DOMAIN awindow
  BY PreviousIsKept
<1>4. history'[n].addr = addr
  <2>1. Access(addr, id) \in Records /\ history \in Seq(Records) /\ Access(addr, id).addr = addr
    BY DEF Access, Records, SpatialWindowInv, SpatialType
  <2> QED  BY <2>1, HistoryStep
<1>5. NearestDistance(n)' = Nearest(history'[n].addr, Previous(n)')
  BY DEF NearestDistance, Nearest, Apart
<1> QED  BY <1>2, <1>3, <1>4, <1>5

\* The distance of an access does not change any more.
LEMMA OldNearest ==
    ASSUME history \in Seq(Records), NEW r \in Records, history' = Append(history, r),
           NEW n \in 1 .. Now
    PROVE  NearestBin(n)' = NearestBin(n)
<1>1. Now \in Nat /\ \A k \in 1 .. Now : history'[k] = history[k]
  BY HistoryStep
<1> DEFINE Near == {j \in 1 .. n - 1 : /\ n - j <= SpatialWindow
                                       /\ \A i \in j .. n : ~history[i].skip}
           new == {history'[k].addr : k \in Near}
           old == {history[k].addr : k \in Near}
<1>2. \A j \in 1 .. n - 1 : /\ history'[j] = history[j]
                            /\ \A i \in j .. n : history'[i] = history[i]
  <2>1. \A j \in 1 .. n - 1 : j \in 1 .. Now /\ \A i \in j .. n : i \in 1 .. Now
    BY <1>1
  <2> QED  BY <1>1, <2>1
<1>3. Previous(n)' = new
  <2>1. Previous(n)' = {history'[k].addr : k \in {j \in 1 .. n - 1 :
                            /\ n - j <= SpatialWindow /\ \A i \in j .. n : ~history'[i].skip}}
    BY DEF Previous
  <2>2. {j \in 1 .. n - 1 : /\ n - j <= SpatialWindow /\ \A i \in j .. n : ~history'[i].skip} = Near
    BY <1>2
  <2> QED  BY <2>1, <2>2
<1>4. Previous(n) = old
  BY DEF Previous
<1>5. ASSUME NEW a \in new PROVE a \in old
  BY <1>2
<1>6. ASSUME NEW a \in old PROVE a \in new
  BY <1>2
<1> HIDE DEF new, old
<1>7. Previous(n)' = Previous(n)
  BY <1>3, <1>4, <1>5, <1>6
<1>8. history'[n] = history[n]
  BY <1>1
<1>9. NearestDistance(n)' = NearestDistance(n)
  BY <1>7, <1>8 DEF NearestDistance
<1> QED  BY <1>9 DEF NearestBin

\* the accesses of an id whose nearest address is at a distance of a bin
SpatiallyCharged(id, bin) ==
    {n \in 1 .. Len(history) : ~history[n].skip /\ history[n].id = id /\ NearestBin(n) = bin}

\* Every distance between addresses that is tracked is counted in its bin: no
\* boundary is out of an int's range (ReuseStats::GetBin, uint64 ShaveBitsPwr2).
SpatialBinsAreRight ==
    \A a, b \in Addresses :
       LET d == Difference(a, b)
       IN (SpatialNMAX = Infinity \/ d <= SpatialNMAX) /\ d # 0
            => GetBin(d, SpatialBin, Infinity, Infinity) = {BinOf(d, SpatialBin)}

SpatialInv ==
    /\ SpatialWindowInv
    /\ spatialcounts \in [Ids -> [SpatialBins -> Nat]]
    /\ NearestIsCounted

\* The new record is charged where its distance belongs, the others stay.
LEMMA SpatiallyChargedStep ==
    ASSUME history \in Seq(Records), NEW r \in Records, history' = Append(history, r),
           NEW n, n = Now + 1, NEW id, NEW bin
    PROVE  /\ IsFiniteSet(SpatiallyCharged(id, bin)) /\ n \notin SpatiallyCharged(id, bin)
           /\ Cardinality(SpatiallyCharged(id, bin)) \in Nat
           /\ SpatiallyCharged(id, bin)' =
                SpatiallyCharged(id, bin) \cup
                  IF ~r.skip /\ r.id = id /\ NearestBin(n)' = bin THEN {n} ELSE {}
<1>1. /\ Now \in Nat /\ Now' = n /\ history'[n] = r
      /\ \A k \in 1 .. Now : history'[k] = history[k]
  BY HistoryStep
<1>2. SpatiallyCharged(id, bin) \subseteq 1 .. Now
  BY DEF SpatiallyCharged, Now
<1>3. IsFiniteSet(1 .. Now) /\ n \notin 1 .. Now /\ 1 .. n = (1 .. Now) \cup {n}
  <2>1. IsFiniteSet(1 .. Now)
    BY <1>1, FS_Interval
  <2>2. n \notin 1 .. Now /\ 1 .. n = (1 .. Now) \cup {n}
    BY <1>1
  <2> QED  BY <2>1, <2>2
<1>4. IsFiniteSet(SpatiallyCharged(id, bin)) /\ Cardinality(SpatiallyCharged(id, bin)) \in Nat
  BY <1>2, <1>3, FS_Subset, FS_CardinalityType
<1> DEFINE Fits(k) == ~history'[k].skip /\ history'[k].id = id /\ NearestBin(k)' = bin
<1>5. SpatiallyCharged(id, bin)' = {k \in 1 .. Now' : Fits(k)}
  BY DEF SpatiallyCharged, Now
<1>6. \A k \in 1 .. Now : Fits(k) <=> k \in SpatiallyCharged(id, bin)
  <2> SUFFICES ASSUME NEW k \in 1 .. Now PROVE Fits(k) <=> k \in SpatiallyCharged(id, bin)
    OBVIOUS
  <2>1. NearestBin(k)' = NearestBin(k)
    BY OldNearest
  <2>2. history'[k] = history[k]
    BY <1>1
  <2> QED  BY <2>1, <2>2 DEF SpatiallyCharged, Now
<1>7. Fits(n) <=> ~r.skip /\ r.id = id /\ NearestBin(n)' = bin
  BY <1>1
<1> HIDE DEF Fits
<1>8. SpatiallyCharged(id, bin)' = SpatiallyCharged(id, bin) \cup IF Fits(n) THEN {n} ELSE {}
  BY <1>1, <1>2, <1>3, <1>5, <1>6
<1> QED  BY <1>2, <1>3, <1>4, <1>7, <1>8

\* An access is counted in the bin of what was found in the window
\* (ReuseStats::Update).
LEMMA ProcessCountsNearest ==
    ASSUME SpatialBinsAreRight, SpatialInv, NEW addr \in Addresses, NEW id \in Ids,
           SpatialProcess(addr, id), history' = Append(history, Access(addr, id))
    PROVE  SpatialInv'
<1>1. SpatialWindowInv'
  BY ProcessSpatial DEF SpatialInv
<1>2. PICK n : n = Now + 1
  OBVIOUS
<1>3. NearestDistance(n)' = BestDiff(addr)
  BY <1>2, NearestIs DEF SpatialInv
<1> DEFINE best == BestDiff(addr)
<1>4. \/ best = Invalid
      \/ /\ best # Invalid /\ best # 0
         /\ \E a \in Addresses : best = Difference(a, addr)
  <2>1. DOMAIN awindow \subseteq Addresses
    <3> SUFFICES ASSUME NEW k \in Kept PROVE history[k].addr \in Addresses
      BY DEF SpatialInv, SpatialWindowInv, Tallies
    <3>1. /\ Len(swindow) \in Nat /\ Now \in Nat /\ swindow \in Seq(Addresses)
          /\ \A i \in 1 .. Len(swindow) : swindow[i] = history[Now - Len(swindow) + i].addr
      BY DEF SpatialInv, SpatialWindowInv, SpatialType, KeepsLatest, Now
    <3>2. PICK i : i = k - (Now - Len(swindow))
      OBVIOUS
    <3>3. i \in 1 .. Len(swindow) /\ Now - Len(swindow) + i = k
      BY <3>1, <3>2 DEF Kept
    <3> QED  BY <3>1, <3>3
  <2> QED  BY <2>1, BestIsNearest
<1> HIDE DEF best
<1> DEFINE right == IF best = Invalid \/ (SpatialNMAX # Infinity /\ best > SpatialNMAX)
                    THEN Invalid ELSE BinOf(best, SpatialBin)
<1>5. NearestBin(n)' = right
  BY <1>3 DEF NearestBin, best
<1>6. GetBin(best, SpatialBin, SpatialNMAX, Invalid) = {right} /\ right \in SpatialBins
  <2>1. CASE best = Invalid
    <3>1. right = Invalid
      BY <2>1
    <3>2. GetBin(best, SpatialBin, SpatialNMAX, Invalid) = {Invalid}
      BY <2>1 DEF GetBin
    <3>3. Invalid \in SpatialBins
      BY DEF SpatialBins
    <3> QED  BY <3>1, <3>2, <3>3
  <2>2. CASE best # Invalid
    <3>1. PICK a \in Addresses : best = Difference(a, addr) /\ best # 0 /\ best \in Nat
      <4>1. \A a \in Addresses : Difference(a, addr) \in Nat
        BY DifferenceIs
      <4> QED  BY <1>4, <2>2, <4>1
    <3>2. GetBin(best, SpatialBin, SpatialNMAX, Invalid) = {right}
      <4>1. CASE SpatialNMAX # Infinity /\ best > SpatialNMAX
        BY <4>1 DEF GetBin
      <4>2. CASE ~(SpatialNMAX # Infinity /\ best > SpatialNMAX)
        <5>1. GetBin(best, SpatialBin, SpatialNMAX, Invalid)
                = GetBin(best, SpatialBin, Infinity, Infinity)
          BY <2>2, <3>1, <4>2 DEF GetBin, Infinity
        <5>2. SpatialNMAX = Infinity \/ best <= SpatialNMAX
          BY <3>1, <4>2, SizeAssumption
        <5>3. GetBin(best, SpatialBin, Infinity, Infinity) = {BinOf(best, SpatialBin)}
          BY <3>1, <5>2 DEF SpatialBinsAreRight
        <5> QED  BY <2>2, <4>2, <5>1, <5>3
      <4> QED  BY <4>1, <4>2
    <3>3. right \in GetBin(Difference(a, addr), SpatialBin, SpatialNMAX, Invalid)
      BY <3>1, <3>2
    <3> HIDE DEF right
    <3> QED  BY <3>2, <3>3 DEF SpatialBins
  <2> QED  BY <2>1, <2>2
<1> HIDE DEF right
<1>7. spatialcounts' = [spatialcounts EXCEPT ![id][right] = @ + 1]
  <2>1. SpatialUpdate(id, best)
    BY DEF SpatialProcess, best
  <2> QED  BY <1>6, <2>1 DEF SpatialUpdate
<1>8. spatialcounts' \in [Ids -> [SpatialBins -> Nat]]
      /\ \A i \in Ids, b \in SpatialBins :
            spatialcounts'[i][b] = IF i = id /\ b = right THEN spatialcounts[i][b] + 1
                                   ELSE spatialcounts[i][b]
  BY <1>6, <1>7 DEF SpatialInv
<1>9. NearestIsCounted'
  <2> DEFINE r == Access(addr, id)
  <2>1. r \in Records /\ ~r.skip /\ r.id = id /\ history \in Seq(Records)
    BY DEF Access, Records, SpatialInv, SpatialWindowInv, SpatialType
  <2>2. history' = Append(history, r)
    OBVIOUS
  <2> HIDE DEF r
  <2>3. ASSUME NEW i \in Ids, NEW b \in SpatialBins
        PROVE  spatialcounts'[i][b] = Cardinality(SpatiallyCharged(i, b)')
    <3>1. /\ IsFiniteSet(SpatiallyCharged(i, b)) /\ n \notin SpatiallyCharged(i, b)
          /\ Cardinality(SpatiallyCharged(i, b)) \in Nat
          /\ SpatiallyCharged(i, b)' = SpatiallyCharged(i, b) \cup
                IF ~r.skip /\ r.id = i /\ NearestBin(n)' = b THEN {n} ELSE {}
      BY <1>2, <2>1, <2>2, SpatiallyChargedStep
    <3>2. spatialcounts[i][b] = Cardinality(SpatiallyCharged(i, b))
      BY DEF SpatialInv, NearestIsCounted, SpatiallyCharged
    <3>3. CASE i = id /\ b = right
      <4>1. SpatiallyCharged(i, b)' = SpatiallyCharged(i, b) \cup {n}
        BY <1>5, <2>1, <3>1, <3>3
      <4>2. Cardinality(SpatiallyCharged(i, b) \cup {n}) = Cardinality(SpatiallyCharged(i, b)) + 1
        BY <3>1, FS_AddElement
      <4> QED  BY <1>8, <3>2, <3>3, <4>1, <4>2
    <3>4. CASE ~(i = id /\ b = right)
      <4>1. SpatiallyCharged(i, b)' = SpatiallyCharged(i, b)
        BY <1>5, <2>1, <3>1, <3>4
      <4> QED  BY <1>8, <3>2, <3>4, <4>1
    <3> QED  BY <3>3, <3>4
  <2> QED  BY <2>3 DEF NearestIsCounted, SpatiallyCharged
<1> QED  BY <1>1, <1>8, <1>9 DEF SpatialInv

\* Skipped addresses are not counted.
LEMMA SkipCountsNearest ==
    ASSUME SpatialInv, SpatialSkipAddresses,
           history' = Append(history, [addr |-> 0, id |-> 0, skip |-> TRUE])
    PROVE  SpatialInv'
<1>1. SpatialWindowInv'
  BY SkipSpatial DEF SpatialInv
<1>2. spatialcounts' = spatialcounts
  BY DEF SpatialSkipAddresses
<1> DEFINE r == [addr |-> 0, id |-> 0, skip |-> TRUE]
<1>3. r \in Records /\ r.skip /\ history \in Seq(Records)
  BY DEF Records, SpatialInv, SpatialWindowInv, SpatialType
<1>4. PICK n : n = Now + 1
  OBVIOUS
<1>5. history' = Append(history, r)
  OBVIOUS
<1> HIDE DEF r
<1>6. ASSUME NEW i \in Ids, NEW b \in SpatialBins
      PROVE  SpatiallyCharged(i, b)' = SpatiallyCharged(i, b)
  <2>1. SpatiallyCharged(i, b)' = SpatiallyCharged(i, b) \cup
          IF ~r.skip /\ r.id = i /\ NearestBin(n)' = b THEN {n} ELSE {}
    BY <1>3, <1>4, <1>5, SpatiallyChargedStep
  <2> QED  BY <1>3, <2>1
<1>7. \A i \in Ids, b \in SpatialBins : spatialcounts[i][b] = Cardinality(SpatiallyCharged(i, b))
  BY DEF SpatialInv, NearestIsCounted, SpatiallyCharged
<1>8. \A i \in Ids, b \in SpatialBins : spatialcounts'[i][b] = Cardinality(SpatiallyCharged(i, b)')
  BY <1>2, <1>6, <1>7
<1>9. NearestIsCounted'
  BY <1>8 DEF NearestIsCounted, SpatiallyCharged
<1> QED  BY <1>1, <1>2, <1>9 DEF SpatialInv

LEMMA InitCountsNearest == Init => SpatialInv
<1> SUFFICES ASSUME Init PROVE SpatialInv
  OBVIOUS
<1>1. swindow = <<>> /\ awindow = <<>> /\ history = <<>>
      /\ spatialcounts = [id \in Ids |-> [n \in SpatialBins |-> 0]]
  BY DEF Init, SpatialInit
<1>2. Len(swindow) = 0 /\ Now = 0 /\ DOMAIN awindow = {} /\ SpatialWindow \in Nat \ {0}
  BY <1>1, SizeAssumption DEF Now
<1>3. Kept = {} /\ Live = {}
  BY <1>2 DEF Kept, Live
<1>4. SpatialType /\ KeepsLatest
  BY <1>1, <1>2, <1>3 DEF SpatialType, KeepsLatest
<1>5. Tallies(awindow, history, Kept)
  BY <1>2, <1>3 DEF Tallies
<1>6. NearestIsCounted
  <2>1. \A i, b : SpatiallyCharged(i, b) = {}
    BY <1>2 DEF SpatiallyCharged, Now
  <2>2. Cardinality({}) = 0
    BY FS_EmptySet
  <2>3. \A i \in Ids, b \in SpatialBins :
            spatialcounts[i][b] = Cardinality(SpatiallyCharged(i, b))
    BY <1>1, <2>1, <2>2
  <2> QED  BY <2>3 DEF NearestIsCounted, SpatiallyCharged
<1> QED  BY <1>1, <1>4, <1>5, <1>6 DEF SpatialInv, SpatialWindowInv

\* Three addresses of the sorted map are enough (upper_bound and the two steps
\* back in SpatialLocality::Process): whatever the stream, the size of the
\* window and however much is skipped, every id has been charged, for each of
\* its accesses, the bin of the distance to the nearest address in the window.
THEOREM NearestCounted == SpatialBinsAreRight => (Spec => []NearestIsCounted)
<1> SUFFICES ASSUME SpatialBinsAreRight PROVE Spec => []NearestIsCounted
  OBVIOUS
<1>1. ASSUME SpatialInv, [Next]_vars PROVE SpatialInv'
  <2>1. ASSUME NEW addr \in Addresses, NEW id \in Ids, ProcessEntry(addr, id)
        PROVE  SpatialInv'
    BY <1>1, <2>1, ProcessCountsNearest DEF ProcessEntry, Access
  <2>2. ASSUME NEW numElements \in Amounts, PassOver(numElements)
        PROVE  SpatialInv'
    BY <1>1, <2>2, SkipCountsNearest DEF PassOver
  <2>3. CASE UNCHANGED vars
    <3>1. /\ swindow' = swindow /\ awindow' = awindow /\ spatialcounts' = spatialcounts
          /\ history' = history
      BY <2>3 DEF vars, spatialVars
    <3>2. Live' = Live /\ Kept' = Kept /\ Now' = Now
      BY <3>1 DEF Live, Kept, Now
    <3>3. SpatialType' /\ KeepsLatest' /\ Tallies(awindow', history', Kept')
      BY <1>1, <3>1, <3>2
         DEF SpatialInv, SpatialWindowInv, SpatialType, KeepsLatest, SpatialFull
    <3>4. \A n : NearestBin(n)' = NearestBin(n)
      <4>1. \A n : Previous(n)' = Previous(n)
        BY <3>1 DEF Previous
      <4>2. \A n : NearestDistance(n)' = NearestDistance(n)
        <5>1. \A n : NearestDistance(n)' = Nearest(history'[n].addr, Previous(n)')
          BY DEF NearestDistance, Nearest, Apart
        <5>2. \A n : NearestDistance(n) = Nearest(history[n].addr, Previous(n))
          BY DEF NearestDistance, Nearest, Apart
        <5> QED  BY <3>1, <4>1, <5>1, <5>2
      <4> QED  BY <4>2 DEF NearestBin
    <3>5. NearestIsCounted'
      BY <1>1, <3>1, <3>4 DEF SpatialInv, NearestIsCounted
    <3> QED  BY <1>1, <3>1, <3>3, <3>5 DEF SpatialInv, SpatialWindowInv
  <2> QED  BY <1>1, <2>1, <2>2, <2>3 DEF Next
<1>2. SpatialInv => NearestIsCounted
  BY DEF SpatialInv
<1> QED  BY InitCountsNearest, <1>1, <1>2, PTL DEF Spec

\* Both, from the sizes alone: as long as the distances that are tracked are no
\* greater than a quarter of what an int counts, no boundary of a bin is shifted
\* out of it (uint64 ShaveBitsPwr2), and the counters say what they should.
Countable == 1 .. 2 ^ (IntBits - 2)
THEOREM BothCounted ==
    PowersDouble /\ (MaxSequence \in Countable \/ Windows \subseteq Countable)
                 /\ SpatialNMAX \in Countable
      => (Spec => [](CountsDistances /\ NearestIsCounted))
<1> SUFFICES ASSUME PowersDouble, MaxSequence \in Countable \/ Windows \subseteq Countable,
                    SpatialNMAX \in Countable
             PROVE  Spec => [](CountsDistances /\ NearestIsCounted)
  OBVIOUS
<1>1. IntBits - 2 \in Nat /\ 2 ^ (IntBits - 2) \in Nat
  BY WidthAssumption, PowerType
<1>2. BinsAreRight
  <2> SUFFICES ASSUME NEW d \in 1 .. MaxSequence, NEW w \in Windows, w = Infinity \/ d <= w
               PROVE  GetBin(d, BinIndividual, Infinity, Infinity) = {BinOf(d, BinIndividual)}
    BY DEF BinsAreRight
  <2>1. d \in 1 .. 2 ^ (IntBits - 2) /\ BinIndividual \in Nat
    BY <1>1, WindowAssumption, SequenceAssumption DEF Countable, Infinity
  <2> QED  BY <2>1, BinIsRight
<1>3. SpatialBinsAreRight
  <2> SUFFICES ASSUME NEW a \in Addresses, NEW b \in Addresses, NEW d, d = Difference(a, b),
                      SpatialNMAX = Infinity \/ d <= SpatialNMAX, d # 0
               PROVE  GetBin(d, SpatialBin, Infinity, Infinity) = {BinOf(d, SpatialBin)}
    BY DEF SpatialBinsAreRight
  <2>1. d \in Nat
    BY DifferenceIs
  <2>2. d \in 1 .. 2 ^ (IntBits - 2) /\ SpatialBin \in Nat
    BY <1>1, <2>1, SizeAssumption DEF Countable, Infinity
  <2> QED  BY <2>2, BinIsRight
<1>4. (Spec => []CountsDistances) /\ (Spec => []NearestIsCounted)
  BY <1>2, <1>3, DistancesCounted, NearestCounted
<1> QED  BY <1>4, PTL

=============================================================================
