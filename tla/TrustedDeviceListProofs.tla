---------------------- MODULE TrustedDeviceListProofs ----------------------
(***************************************************************************)
(* Proofs about the trusted device list (connection_tdl.c) for any number  *)
(* of places, any set of devices, and any use of the operations by the     *)
(* clients that does not hide priority devices (SafeModes).                *)
(***************************************************************************)
EXTENDS TrustedDeviceListProperties, LeastElement, SequenceTheorems

(***************************************************************************)
(* What an index must be like, and what the operations make of it.         *)
(***************************************************************************)
(* The used entries come first. *)
Compact(ord) == \A i, j \in Pos : j < i /\ ord[i] # Unused => ord[j] # Unused

(* No position is used twice. *)
Distinct(ord) == \A i, j \in Pos : ord[i] # Unused /\ ord[i] = ord[j] => i = j

Used(ord) == {ord[i] : i \in Pos} \ {Unused}

Index == [Pos -> Pos \cup {Unused}]

(* update_trusted_device_index for a position that is at idx, or for one   *)
(* that is not in the index and idx the first unused entry.                *)
LEMMA MovedIndex ==
  ASSUME NEW ord \in Index, Compact(ord), Distinct(ord),
         NEW pos \in Pos, NEW idx \in Pos,
         ord[idx] \in {pos, Unused},
         \A j \in Pos : j < idx => ord[j] # Unused,
         \A j \in Pos : j # idx => ord[j] # pos
  PROVE  /\ Moved(ord, pos, idx) \in Index
         /\ Compact(Moved(ord, pos, idx))
         /\ Distinct(Moved(ord, pos, idx))
         /\ Used(Moved(ord, pos, idx)) = Used(ord) \cup {pos}
<1> DEFINE m == Moved(ord, pos, idx)
<1> USE PlacesAssumption, SentinelAssumption
<1>1. /\ m \in Index /\ m[0] = pos
      /\ \A i \in Pos : i # 0 /\ i <= idx => i - 1 \in Pos /\ m[i] = ord[i - 1]
      /\ \A i \in Pos : i > idx => m[i] = ord[i]
  BY DEF Moved, Index, Pos
<1>2. 0 \in Pos /\ Unused \notin Pos
  BY DEF Pos
<1> HIDE DEF m
<1>3. Compact(m)
  <2> SUFFICES ASSUME NEW i \in Pos, NEW j \in Pos, j < i, m[i] # Unused
               PROVE  m[j] # Unused
    BY DEF Compact
  <2>1. CASE j = 0
    BY <2>1, <1>1, <1>2
  <2>2. CASE j # 0 /\ j <= idx
    BY <2>2, <1>1 DEF Pos
  <2>3. CASE j > idx
    BY <2>3, <1>1 DEF Compact, Pos
  <2> QED BY <2>1, <2>2, <2>3 DEF Pos
<1>4. Distinct(m)
  <2> SUFFICES ASSUME NEW i \in Pos, NEW j \in Pos, i < j, m[i] # Unused, m[i] = m[j]
               PROVE  FALSE
    BY DEF Distinct, Pos
  <2>1. CASE i = 0
    BY <2>1, <1>1 DEF Pos
  <2>2. CASE i # 0 /\ j <= idx
    BY <2>2, <1>1 DEF Distinct, Pos
  <2>3. CASE i # 0 /\ i <= idx /\ j > idx
    BY <2>3, <1>1 DEF Distinct, Pos
  <2>4. CASE i > idx
    BY <2>4, <1>1 DEF Distinct, Pos
  <2> QED BY <2>1, <2>2, <2>3, <2>4 DEF Pos
<1>5. Used(m) = Used(ord) \cup {pos}
  <2>1. ASSUME NEW i \in Pos PROVE m[i] \in {ord[j] : j \in Pos} \cup {pos}
    <3>1. CASE i = 0
      BY <3>1, <1>1
    <3>2. CASE i # 0 /\ i <= idx
      BY <3>2, <1>1
    <3>3. CASE i > idx
      BY <3>3, <1>1
    <3> QED BY <3>1, <3>2, <3>3 DEF Pos
  <2>2. ASSUME NEW i \in Pos, ord[i] # Unused PROVE ord[i] \in {m[j] : j \in Pos}
    <3>1. CASE i < idx
      <4>1. i + 1 \in Pos /\ i + 1 # 0 /\ i + 1 <= idx /\ (i + 1) - 1 = i
        BY <3>1 DEF Pos
      <4> QED BY <4>1, <1>1
    <3>2. CASE i = idx
      BY <3>2, <2>2, <1>1, <1>2
    <3>3. CASE i > idx
      BY <3>3, <1>1
    <3> QED BY <3>1, <3>2, <3>3 DEF Pos
  <2> QED BY <2>1, <2>2, <1>1, <1>2 DEF Used
<1> QED BY <1>1, <1>3, <1>4, <1>5 DEF m

(* delete_from_trusted_device_list: a used entry goes, the others stay.    *)
LEMMA RemovedIndex ==
  ASSUME NEW ord \in Index, Compact(ord), Distinct(ord),
         NEW idx \in Pos, ord[idx] # Unused
  PROVE  /\ Removed(ord, idx) \in Index
         /\ Compact(Removed(ord, idx))
         /\ Distinct(Removed(ord, idx))
         /\ Used(Removed(ord, idx)) = Used(ord) \ {ord[idx]}
<1> DEFINE r == Removed(ord, idx)
<1> USE PlacesAssumption, SentinelAssumption
<1>1. /\ r \in Index
      /\ \A i \in Pos : i < idx => r[i] = ord[i]
      /\ \A i \in Pos : i >= idx /\ i < N - 1 => i + 1 \in Pos /\ r[i] = ord[i + 1]
      /\ \A i \in Pos : i >= idx /\ i = N - 1 => r[i] = Unused
  BY DEF Removed, Index, Pos
<1> HIDE DEF r
<1>2. Compact(r)
  BY <1>1 DEF Compact, Pos
<1>3. Distinct(r)
  <2> SUFFICES ASSUME NEW i \in Pos, NEW j \in Pos, i < j, r[i] # Unused, r[i] = r[j]
               PROVE  FALSE
    BY DEF Distinct, Pos
  <2>1. CASE j < idx
    BY <2>1, <1>1 DEF Distinct, Pos
  <2>2. CASE j >= idx /\ i < idx
    BY <2>2, <1>1 DEF Distinct, Pos
  <2>3. CASE i >= idx
    BY <2>3, <1>1 DEF Distinct, Pos
  <2> QED BY <2>1, <2>2, <2>3 DEF Pos
<1>4. Used(r) = Used(ord) \ {ord[idx]}
  <2>1. ASSUME NEW i \in Pos, r[i] # Unused
        PROVE  r[i] \in {ord[j] : j \in Pos} /\ r[i] # ord[idx]
    <3>1. CASE i < idx
      BY <3>1, <2>1, <1>1 DEF Distinct, Pos
    <3>2. CASE i >= idx
      BY <3>2, <2>1, <1>1 DEF Distinct, Pos
    <3> QED BY <3>1, <3>2 DEF Pos
  <2>2. ASSUME NEW i \in Pos, ord[i] # Unused, ord[i] # ord[idx]
        PROVE  ord[i] \in {r[j] : j \in Pos}
    <3>1. CASE i < idx
      BY <3>1, <1>1
    <3>2. CASE i > idx
      <4>1. i - 1 \in Pos /\ i - 1 >= idx /\ i - 1 < N - 1 /\ (i - 1) + 1 = i
        BY <3>2 DEF Pos
      <4> QED BY <4>1, <1>1
    <3> QED BY <3>1, <3>2, <2>2 DEF Pos
  <2> QED BY <2>1, <2>2 DEF Used
<1> QED BY <1>1, <1>2, <1>3, <1>4 DEF r

Records == [Pos -> Record \cup {NoRecord}]

Complete(recs, ord) == \A p \in Used(ord) : recs[p] # NoRecord

(* Priority devices come first, from entry first on. *)
SortedFrom(first, recs, ord) ==
  \A i, j \in Pos : first <= i /\ i < j /\ ord[j] # Unused /\ recs[ord[j]].priority
                      => recs[ord[i]].priority

(* The first entry sinks below the priority devices that follow it: the    *)
(* index keeps its entries, and is sorted if the rest of it was.           *)
LEMMA SunkIndex ==
  ASSUME NEW ord \in Index, Compact(ord), Distinct(ord), ord[0] # Unused,
         NEW recs \in Records, Complete(recs, ord)
  PROVE  /\ Sunk(ord, recs) \in Index
         /\ Compact(Sunk(ord, recs))
         /\ Distinct(Sunk(ord, recs))
         /\ Used(Sunk(ord, recs)) = Used(ord)
         /\ ~ recs[ord[0]].priority /\ SortedFrom(1, recs, ord)
              => SortedFrom(0, recs, Sunk(ord, recs))
<1> USE PlacesAssumption, SentinelAssumption
<1> DEFINE prio(i) == IF recs[ord[i]] = NoRecord THEN i > 1 ELSE recs[ord[i]].priority
           Stops(k) == k = N - 1 \/ ord[k + 1] = Unused \/ ~ prio(k + 1)
           Depth(k) == (\A i \in 1..k : ord[i] # Unused /\ prio(i)) /\ Stops(k)
           depth == CHOOSE k \in Pos : Depth(k)
           u == Sunk(ord, recs)
<1>1. \E k \in Pos : Depth(k)
  <2> DEFINE T == {k \in Pos : Stops(k)}
  <2>1. N - 1 \in T /\ T \subseteq Nat
    BY DEF Pos
  <2>2. PICK k \in T : \A m \in T : k <= m
    <3> HIDE DEF T
    <3> QED BY <2>1, LeastNatural
  <2>3. ASSUME NEW i \in 1..k PROVE ord[i] # Unused /\ prio(i)
    <3>1. i - 1 \in Pos /\ i - 1 < k /\ (i - 1) + 1 = i
      BY <2>2 DEF Pos
    <3>2. i - 1 \notin T
      BY <3>1, <2>2 DEF Pos
    <3> QED BY <3>1, <3>2
  <2> QED BY <2>2, <2>3
<1>2. depth \in Pos /\ Depth(depth)
  <2> HIDE DEF Depth
  <2> QED BY <1>1
<1>3. u = [i \in Pos |-> IF i < depth THEN ord[i + 1] ELSE IF i = depth THEN ord[0] ELSE ord[i]]
  BY DEF Sunk
<1> HIDE DEF depth, u
<1>4. /\ u \in Index /\ u[depth] = ord[0]
      /\ \A i \in Pos : i < depth => i + 1 \in Pos /\ u[i] = ord[i + 1] /\ ord[i + 1] # Unused
      /\ \A i \in Pos : i > depth => u[i] = ord[i]
  <2>1. \A i \in Pos : i < depth => i + 1 \in 1..depth /\ i + 1 \in Pos
    BY <1>2 DEF Pos
  <2> QED BY <2>1, <1>2, <1>3 DEF Index, Pos
<1>5. 0 \in Pos
  BY DEF Pos
<1>6. Compact(u)
  <2> SUFFICES ASSUME NEW i \in Pos, NEW j \in Pos, j < i, u[i] # Unused PROVE u[j] # Unused
    BY DEF Compact
  <2>1. CASE j <= depth
    BY <2>1, <1>2, <1>4 DEF Pos
  <2>2. CASE j > depth
    BY <2>2, <1>2, <1>4 DEF Compact, Pos
  <2> QED BY <2>1, <2>2, <1>2 DEF Pos
<1>7. Distinct(u)
  <2> SUFFICES ASSUME NEW i \in Pos, NEW j \in Pos, i < j, u[i] # Unused, u[i] = u[j] PROVE FALSE
    BY DEF Distinct, Pos
  <2>1. CASE j < depth
    BY <2>1, <1>2, <1>4 DEF Distinct, Pos
  <2>2. CASE j = depth
    BY <2>2, <1>2, <1>4, <1>5 DEF Distinct, Pos
  <2>3. CASE j > depth /\ i < depth
    BY <2>3, <1>2, <1>4 DEF Distinct, Pos
  <2>4. CASE j > depth /\ i = depth
    BY <2>4, <1>2, <1>4, <1>5 DEF Distinct, Pos
  <2>5. CASE i > depth
    BY <2>5, <1>2, <1>4 DEF Distinct, Pos
  <2> QED BY <2>1, <2>2, <2>3, <2>4, <2>5, <1>2 DEF Pos
<1>8. Used(u) = Used(ord)
  <2>1. ASSUME NEW i \in Pos PROVE u[i] \in {ord[j] : j \in Pos}
    BY <1>2, <1>4, <1>5 DEF Pos
  <2>2. ASSUME NEW i \in Pos PROVE ord[i] \in {u[j] : j \in Pos}
    <3>1. CASE i = 0
      BY <3>1, <1>2, <1>4
    <3>2. CASE i # 0 /\ i <= depth
      <4>1. i - 1 \in Pos /\ i - 1 < depth /\ (i - 1) + 1 = i
        BY <3>2, <1>2 DEF Pos
      <4> QED BY <4>1, <1>4
    <3>3. CASE i > depth
      BY <3>3, <1>4
    <3> QED BY <3>1, <3>2, <3>3, <1>2 DEF Pos
  <2> QED BY <2>1, <2>2 DEF Used
<1>9. ASSUME ~ recs[ord[0]].priority, SortedFrom(1, recs, ord)
      PROVE  SortedFrom(0, recs, u)
  <2> SUFFICES ASSUME NEW i \in Pos, NEW j \in Pos, i < j, u[j] # Unused, recs[u[j]].priority
               PROVE  recs[u[i]].priority
    BY DEF SortedFrom
  <2>1. \A k \in Pos : ord[k] # Unused => (prio(k) <=> recs[ord[k]].priority)
    BY DEF Complete, Used
  <2>2. CASE i < depth
    <3>1. i + 1 \in 1..depth /\ i + 1 \in Pos
      BY <2>2, <1>2 DEF Pos
    <3> QED BY <3>1, <2>1, <2>2, <1>2, <1>4
  <2>3. CASE i >= depth
    <3>1. j > depth /\ u[j] = ord[j] /\ recs[ord[j]].priority /\ ord[j] # Unused
      BY <2>3, <1>2, <1>4 DEF Pos
    <3>2. depth # N - 1 /\ depth + 1 \in Pos /\ depth + 1 <= j
      BY <3>1, <1>2 DEF Pos
    <3>3. ord[depth + 1] # Unused
      BY <3>1, <3>2 DEF Compact, Pos
    <3>4. ~ recs[ord[depth + 1]].priority
      BY <3>2, <3>3, <2>1, <1>2
    <3>5. CASE depth + 1 = j
      BY <3>5, <3>1, <3>4
    <3>6. CASE depth + 1 < j
      BY <3>6, <3>1, <3>2, <3>4, <1>2, <1>9 DEF SortedFrom, Pos
    <3> QED BY <3>2, <3>5, <3>6, <1>2 DEF Pos
  <2> QED BY <2>2, <2>3, <1>2 DEF Pos
<1> QED BY <1>4, <1>6, <1>7, <1>8, <1>9 DEF u

(* Moving an entry to the front keeps the order of the others; in front of *)
(* them a priority device is in order.                                     *)
LEMMA MovedSorted ==
  ASSUME NEW ord \in Index, Compact(ord), Distinct(ord),
         NEW pos \in Pos, NEW idx \in Pos,
         \A j \in Pos : j # idx => ord[j] # pos,
         NEW recs \in Records, NEW rec \in Record,
         SortedFrom(0, recs, ord)
  PROVE  LET now == [recs EXCEPT ![pos] = rec]
         IN  /\ SortedFrom(1, now, Moved(ord, pos, idx))
             /\ rec.priority => SortedFrom(0, now, Moved(ord, pos, idx))
<1> USE PlacesAssumption, SentinelAssumption
<1> DEFINE m == Moved(ord, pos, idx)
           now == [recs EXCEPT ![pos] = rec]
<1>1. /\ m[0] = pos
      /\ \A i \in Pos : i # 0 /\ i <= idx => i - 1 \in Pos /\ m[i] = ord[i - 1] /\ m[i] # pos
      /\ \A i \in Pos : i > idx => m[i] = ord[i] /\ m[i] # pos
  BY DEF Moved, Index, Pos
<1>2. now[pos] = rec /\ \A p : p # pos => now[p] = recs[p]
  BY DEF Records
<1> HIDE DEF m, now
<1>3. SortedFrom(1, now, m)
  <2> SUFFICES ASSUME NEW i \in Pos, NEW j \in Pos, 1 <= i, i < j,
                      m[j] # Unused, now[m[j]].priority
               PROVE  now[m[i]].priority
    BY DEF SortedFrom
  <2>1. now[m[i]] = recs[m[i]] /\ now[m[j]] = recs[m[j]]
    BY <1>1, <1>2 DEF Pos
  <2>2. CASE j <= idx
    BY <2>1, <2>2, <1>1 DEF SortedFrom, Pos
  <2>3. CASE i <= idx /\ j > idx
    BY <2>1, <2>3, <1>1 DEF SortedFrom, Pos
  <2>4. CASE i > idx
    BY <2>1, <2>4, <1>1 DEF SortedFrom, Pos
  <2> QED BY <2>2, <2>3, <2>4 DEF Pos
<1>4. ASSUME rec.priority PROVE SortedFrom(0, now, m)
  BY <1>1, <1>2, <1>3, <1>4 DEF SortedFrom, Pos
<1> QED BY <1>3, <1>4 DEF m, now

LEMMA RemovedSorted ==
  ASSUME NEW ord \in Index, NEW idx \in Pos, NEW recs, SortedFrom(0, recs, ord)
  PROVE  SortedFrom(0, recs, Removed(ord, idx))
<1> DEFINE r == Removed(ord, idx)
<1> USE PlacesAssumption
<1>1. /\ \A i \in Pos : i < idx => r[i] = ord[i]
      /\ \A i \in Pos : i >= idx /\ i < N - 1 => i + 1 \in Pos /\ r[i] = ord[i + 1]
      /\ \A i \in Pos : i >= idx /\ i = N - 1 => r[i] = Unused
  BY DEF Removed, Index, Pos
<1> HIDE DEF r
<1>2. SortedFrom(0, recs, r)
  <2> SUFFICES ASSUME NEW i \in Pos, NEW j \in Pos, i < j, r[j] # Unused, recs[r[j]].priority
               PROVE  recs[r[i]].priority
    BY DEF SortedFrom
  <2>1. CASE j < idx
    BY <2>1, <1>1 DEF SortedFrom, Pos
  <2>2. CASE j >= idx /\ i < idx
    BY <2>2, <1>1 DEF SortedFrom, Pos
  <2>3. CASE i >= idx
    BY <2>3, <1>1 DEF SortedFrom, Pos
  <2> QED BY <2>1, <2>2, <2>3 DEF Pos
<1> QED BY <1>2 DEF r

(***************************************************************************)
(* The store, one write on it, and a series of writes that is safe to      *)
(* interrupt at any moment.                                                *)
(***************************************************************************)
Store == [records |-> records, attrs |-> attrs, order |-> order, db |-> db]

Writes ==
  [op : {"record"}, pos : Pos, val : Record \cup {NoRecord}]
    \cup [op : {"attr"}, pos : Pos, val : Device \cup {NoRecord}]
    \cup [op : {"index"}, val : Index]
    \cup [op : {"smAdd"}, dev : Device, val : BOOLEAN]
    \cup [op : {"smRemove"}, dev : Device]
    \cup {Nothing}

After(w, x) ==
  [records |-> IF w.op = "record" THEN [x.records EXCEPT ![w.pos] = w.val] ELSE x.records,
   attrs   |-> IF w.op = "attr" THEN [x.attrs EXCEPT ![w.pos] = w.val] ELSE x.attrs,
   order   |-> IF w.op = "index" THEN w.val ELSE x.order,
   db      |-> CASE w.op = "smAdd" -> [e \in DOMAIN x.db \cup {w.dev} |->
                                         IF e = w.dev THEN w.val ELSE x.db[e]]
                 [] w.op = "smRemove" -> [e \in DOMAIN x.db \ {w.dev} |-> x.db[e]]
                 [] OTHER -> x.db]

OneRecordEach(recs, ord) ==
  \A p, q \in Used(ord) : p # q /\ recs[p] # NoRecord /\ recs[q] # NoRecord
                            => recs[p].dev # recs[q].dev

(* What holds at every moment, between two writes of an operation too. *)
Safe(m, x) ==
  /\ x.records \in Records
  /\ x.attrs \in [Pos -> Device \cup {NoRecord}]
  /\ x.order \in Index
  /\ DOMAIN x.db \subseteq Device /\ x.db \in [DOMAIN x.db -> BOOLEAN]
  /\ Compact(x.order)
  /\ Distinct(x.order)
  /\ OneRecordEach(x.records, x.order)
  /\ "priority" \notin m => \A p \in Pos : x.records[p] # NoRecord => ~ x.records[p].priority

(* What holds when an operation has ended. *)
Registrations(m, x) ==
  \A p \in Used(x.order) :
    /\ x.records[p].dev \in DOMAIN x.db
    /\ {"full", "keys", "debug"} \cap m = {} => x.db[x.records[p].dev] = x.records[p].trusted

OwnAttributes(x) ==
  \A p \in Pos : x.attrs[p] # NoRecord => p \in Used(x.order) /\ x.attrs[p] = x.records[p].dev

Final(m, x) ==
  /\ Complete(x.records, x.order)
  /\ Registrations(m, x)
  /\ {"mru", "keys", "crash"} \cap m = {} => SortedFrom(0, x.records, x.order)
  /\ {"evict", "crash"} \cap m = {} => OwnAttributes(x)

(* The writes s lead from x to y through safe states: h holds the states   *)
(* on the way.                                                             *)
Runs(m, x, s, y) ==
  \E h : /\ h[0] = x /\ h[Len(s)] = y
         /\ \A k \in 0..Len(s) : Safe(m, h[k])
         /\ \A k \in 1..Len(s) : h[k] = After(s[k], h[k - 1])

LEMMA RunsNothing ==
  ASSUME NEW m, NEW x, Safe(m, x)
  PROVE  Runs(m, x, << >>, x)
<1> DEFINE h == [k \in {0} |-> x]
<1>1. Len(<< >>) = 0
  OBVIOUS
<1>2. /\ h[0] = x /\ h[Len(<< >>)] = x /\ \A k \in 0..Len(<< >>) : Safe(m, h[k])
      /\ \A k \in 1..Len(<< >>) : h[k] = After(<< >>[k], h[k - 1])
  BY <1>1
<1> HIDE DEF h
<1> QED BY <1>2 DEF Runs

LEMMA RunsOne ==
  ASSUME NEW m, NEW x, NEW a, Safe(m, x), Safe(m, After(a, x))
  PROVE  Runs(m, x, <<a>>, After(a, x))
<1> DEFINE h == [k \in 0..1 |-> IF k = 0 THEN x ELSE After(a, x)]
<1>1. /\ h[0] = x /\ h[1] = After(a, x) /\ Len(<<a>>) = 1 /\ <<a>>[1] = a
  OBVIOUS
<1> HIDE DEF h
<1>2. /\ \A k \in 0..1 : Safe(m, h[k])
      /\ \A k \in 1..1 : h[k] = After(<<a>>[k], h[k - 1])
  BY <1>1
<1> QED BY <1>1, <1>2 DEF Runs

LEMMA RunsTwo ==
  ASSUME NEW m, NEW x, NEW a, NEW b, NEW y, NEW z, y = After(a, x), z = After(b, y),
         Safe(m, x), Safe(m, y), Safe(m, z)
  PROVE  Runs(m, x, <<a, b>>, z)
<1> DEFINE h == [k \in 0..2 |-> IF k = 0 THEN x ELSE IF k = 1 THEN y ELSE z]
<1>1. /\ h[0] = x /\ h[1] = y /\ h[2] = z
      /\ Len(<<a, b>>) = 2 /\ <<a, b>>[1] = a /\ <<a, b>>[2] = b
  OBVIOUS
<1> HIDE DEF h
<1>2. /\ \A k \in 0..2 : Safe(m, h[k])
      /\ \A k \in 1..2 : h[k] = After(<<a, b>>[k], h[k - 1])
  <2>1. \A k \in 0..2 : k = 0 \/ k = 1 \/ k = 2
    OBVIOUS
  <2>2. h[1] = After(<<a, b>>[1], h[1 - 1]) /\ h[2] = After(<<a, b>>[2], h[2 - 1])
    BY <1>1
  <2> QED BY <2>1, <2>2, <1>1
<1> QED BY <1>1, <1>2 DEF Runs

LEMMA RunsThree ==
  ASSUME NEW m, NEW x, NEW a, NEW b, NEW c, NEW y, NEW z, NEW u,
         y = After(a, x), z = After(b, y), u = After(c, z),
         Safe(m, x), Safe(m, y), Safe(m, z), Safe(m, u)
  PROVE  Runs(m, x, <<a, b, c>>, u)
<1> DEFINE h == [k \in 0..3 |-> IF k = 0 THEN x ELSE IF k = 1 THEN y ELSE IF k = 2 THEN z ELSE u]
<1>1. /\ h[0] = x /\ h[1] = y /\ h[2] = z /\ h[3] = u /\ Len(<<a, b, c>>) = 3
      /\ <<a, b, c>>[1] = a /\ <<a, b, c>>[2] = b /\ <<a, b, c>>[3] = c
  OBVIOUS
<1> HIDE DEF h
<1>2. /\ \A k \in 0..3 : Safe(m, h[k])
      /\ \A k \in 1..3 : h[k] = After(<<a, b, c>>[k], h[k - 1])
  <2>1. \A k \in 0..3 : k = 0 \/ k = 1 \/ k = 2 \/ k = 3
    OBVIOUS
  <2>2. /\ h[1] = After(<<a, b, c>>[1], h[1 - 1]) /\ h[2] = After(<<a, b, c>>[2], h[2 - 1])
        /\ h[3] = After(<<a, b, c>>[3], h[3 - 1])
    BY <1>1
  <2> QED BY <2>1, <2>2, <1>1
<1> QED BY <1>1, <1>2 DEF Runs

LEMMA RunsThen ==
  ASSUME NEW m, NEW x, NEW y, NEW z, NEW W, NEW s \in Seq(W), NEW t \in Seq(W),
         Runs(m, x, s, y), Runs(m, y, t, z)
  PROVE  Runs(m, x, s \o t, z)
<1>1. PICK f : /\ f[0] = x /\ f[Len(s)] = y
               /\ \A k \in 0..Len(s) : Safe(m, f[k])
               /\ \A k \in 1..Len(s) : f[k] = After(s[k], f[k - 1])
  BY DEF Runs
<1>2. PICK g : /\ g[0] = y /\ g[Len(t)] = z
               /\ \A k \in 0..Len(t) : Safe(m, g[k])
               /\ \A k \in 1..Len(t) : g[k] = After(t[k], g[k - 1])
  BY DEF Runs
<1>3. /\ Len(s) \in Nat /\ Len(t) \in Nat /\ Len(s \o t) = Len(s) + Len(t)
      /\ \A k \in 1..(Len(s) + Len(t)) :
           (s \o t)[k] = IF k <= Len(s) THEN s[k] ELSE t[k - Len(s)]
  BY ConcatProperties, LenProperties
<1> DEFINE h == [k \in 0..(Len(s) + Len(t)) |-> IF k <= Len(s) THEN f[k] ELSE g[k - Len(s)]]
<1>4. \A k \in 0..(Len(s) + Len(t)) : /\ k <= Len(s) => h[k] = f[k]
                                      /\ k >= Len(s) => h[k] = g[k - Len(s)]
  <2> SUFFICES ASSUME NEW k \in 0..(Len(s) + Len(t))
               PROVE  (k <= Len(s) => h[k] = f[k]) /\ (k >= Len(s) => h[k] = g[k - Len(s)])
    OBVIOUS
  <2>1. CASE k = Len(s)
    BY <2>1, <1>1, <1>2, <1>3
  <2>2. CASE k # Len(s)
    BY <2>2, <1>3
  <2> QED BY <2>1, <2>2
<1> HIDE DEF h
<1>5. h[0] = x /\ h[Len(s) + Len(t)] = z
  <2>1. /\ 0 \in 0..(Len(s) + Len(t)) /\ 0 <= Len(s)
        /\ Len(s) + Len(t) \in 0..(Len(s) + Len(t)) /\ Len(s) + Len(t) >= Len(s)
        /\ (Len(s) + Len(t)) - Len(s) = Len(t)
    BY <1>3
  <2> QED BY <2>1, <1>1, <1>2, <1>4
<1>6. \A k \in 0..(Len(s) + Len(t)) : Safe(m, h[k])
  BY <1>1, <1>2, <1>3, <1>4
<1>7. ASSUME NEW k \in 1..(Len(s) + Len(t))
      PROVE  h[k] = After((s \o t)[k], h[k - 1])
  <2>1. CASE k <= Len(s)
    <3>1. h[k] = f[k] /\ h[k - 1] = f[k - 1] /\ k \in 1..Len(s)
      BY <2>1, <1>3, <1>4
    <3> QED BY <3>1, <2>1, <1>1, <1>3
  <2>2. CASE k > Len(s)
    <3>1. /\ k - Len(s) \in 1..Len(t) /\ k - 1 \in 0..(Len(s) + Len(t)) /\ k - 1 >= Len(s)
          /\ (k - 1) - Len(s) = (k - Len(s)) - 1
      BY <2>2, <1>3
    <3>2. h[k] = g[k - Len(s)] /\ h[k - 1] = g[(k - Len(s)) - 1]
      BY <3>1, <2>2, <1>3, <1>4
    <3> QED BY <3>1, <3>2, <2>2, <1>2, <1>3
  <2> QED BY <2>1, <2>2, <1>3
<1> QED BY <1>3, <1>5, <1>6, <1>7 DEF Runs

(* One write of a safe series leaves a safe series. *)
LEMMA RunsStep ==
  ASSUME NEW m, NEW x, NEW y, NEW W, NEW s \in Seq(W), s # << >>, Runs(m, x, s, y)
  PROVE  Runs(m, After(Head(s), x), Tail(s), y)
<1>1. PICK f : /\ f[0] = x /\ f[Len(s)] = y
               /\ \A k \in 0..Len(s) : Safe(m, f[k])
               /\ \A k \in 1..Len(s) : f[k] = After(s[k], f[k - 1])
  BY DEF Runs
<1>2. /\ Len(s) \in Nat /\ Len(s) > 0 /\ Head(s) = s[1] /\ Len(Tail(s)) = Len(s) - 1
      /\ \A k \in 1..(Len(s) - 1) : Tail(s)[k] = s[k + 1]
  BY EmptySeq, LenProperties, HeadTailProperties
<1> DEFINE h == [k \in 0..(Len(s) - 1) |-> f[k + 1]]
<1>3. \A k \in 0..(Len(s) - 1) : h[k] = f[k + 1]
  OBVIOUS
<1> HIDE DEF h
<1>4. h[0] = After(Head(s), x) /\ h[Len(s) - 1] = y
  <2>1. f[1] = After(s[1], f[1 - 1]) /\ 1 - 1 = 0
    BY <1>1, <1>2
  <2> QED BY <2>1, <1>1, <1>2, <1>3
<1>5. \A k \in 0..(Len(s) - 1) : Safe(m, h[k])
  BY <1>1, <1>2, <1>3
<1>6. ASSUME NEW k \in 1..(Len(s) - 1) PROVE h[k] = After(Tail(s)[k], h[k - 1])
  <2>1. k + 1 \in 1..Len(s) /\ k - 1 \in 0..(Len(s) - 1) /\ (k - 1) + 1 = (k + 1) - 1
    BY <1>2
  <2>2. h[k] = f[k + 1] /\ h[k - 1] = f[(k + 1) - 1]
    BY <2>1, <1>2, <1>3
  <2> QED BY <2>1, <2>2, <1>1, <1>2
<1> QED BY <1>2, <1>4, <1>5, <1>6 DEF Runs

LEMMA RunsSafe ==
  ASSUME NEW m, NEW x, NEW y, NEW W, NEW s \in Seq(W), Runs(m, x, s, y)
  PROVE  Safe(m, x) /\ (s = << >> => x = y)
<1>1. Len(s) \in Nat /\ 0 \in 0..Len(s) /\ (s = << >> => Len(s) = 0)
  BY LenProperties
<1> QED BY <1>1 DEF Runs

LEMMA RunsEnd ==
  ASSUME NEW m, NEW x, NEW y, NEW W, NEW s \in Seq(W), Runs(m, x, s, y)
  PROVE  Safe(m, y)
<1>1. Len(s) \in Nat /\ Len(s) \in 0..Len(s)
  BY LenProperties
<1> QED BY <1>1 DEF Runs

(***************************************************************************)
(* Reading the list.                                                       *)
(***************************************************************************)
LEMMA SizeOfList ==
  ASSUME order \in Index, Compact(order)
  PROVE  Size \in 0..N /\ \A i \in Pos : i < Size <=> order[i] # Unused
<1> USE PlacesAssumption, SentinelAssumption
<1> DEFINE T == {n \in 0..N : n = N \/ order[n] = Unused}
           IsSize(n) == /\ \A i \in 0..(n - 1) : order[i] # Unused
                        /\ n = N \/ order[n] = Unused
<1>1. N \in T /\ T \subseteq Nat
  OBVIOUS
<1>2. PICK n \in T : \A m \in T : n <= m
  <2> HIDE DEF T
  <2> QED BY <1>1, LeastNatural
<1>3. IsSize(n)
  BY <1>2
<1>4. Size \in 0..N /\ IsSize(Size)
  <2> HIDE DEF IsSize
  <2>1. Size = CHOOSE k \in 0..N : IsSize(k)
    BY DEF Size, IsSize
  <2> QED BY <2>1, <1>2, <1>3
<1> HIDE DEF T
<1> QED BY <1>4 DEF Compact, Pos

(* tdl_find_device on a list whose records can all be read: idx and pos    *)
(* are those of the device, or of the place it will get.                   *)
Listing(d, idx, pos, rec) ==
  /\ idx \in Pos /\ pos \in Pos /\ rec \in Record /\ rec.dev = d
  /\ order[idx] \in {pos, Unused}
  /\ \A j \in Pos : j < idx => order[j] # Unused
  /\ \A j \in Pos : j # idx => order[j] # pos
  /\ \A p \in Used(order) : p # pos => records[p].dev # d
  /\ Found(d) => order[idx] = pos /\ records[pos] = rec
  /\ ~ Found(d) => /\ rec = [dev |-> d, trusted |-> FALSE, priority |-> FALSE]
                   /\ order[idx] = pos => Size = N
  /\ (\E i \in Pos : order[i] # Unused /\ records[order[i]].dev = d) => Found(d)

LEMMA FindDevice ==
  ASSUME order \in Index, Compact(order), Distinct(order),
         records \in Records, Complete(records, order), OneRecordEach(records, order),
         NEW d \in Device
  PROVE  Listing(d, IndexOf(d), PosOf(d), RecordOf(d))
<1> USE PlacesAssumption, SentinelAssumption
<1>1. Size \in 0..N /\ \A i \in Pos : i < Size <=> order[i] # Unused
  BY SizeOfList
<1>2. \A i \in Pos : order[i] # Unused => Readable(i) /\ order[i] \in Used(order) /\ order[i] \in Pos
  BY DEF Complete, Readable, Used, Index
<1>3. \A i : i \in 0..(Size - 1) <=> i \in Pos /\ order[i] # Unused
  BY <1>1 DEF Pos
<1>4. Found(d) <=> \E i \in Pos : order[i] # Unused /\ records[order[i]].dev = d
  BY <1>2, <1>3 DEF Found, IsAt
<1>5. CASE Found(d)
  <2> DEFINE First(i) == IsAt(d, i) /\ \A j \in 0..(i - 1) : ~ IsAt(d, j)
             T == {i \in 0..(Size - 1) : IsAt(d, i)}
  <2>1. T # {} /\ T \subseteq Nat
    BY <1>5, <1>1 DEF Found
  <2>2. PICK i \in T : \A m \in T : i <= m
    <3> HIDE DEF T
    <3> QED BY <2>1, LeastNatural
  <2>3. First(i)
    BY <2>2, <1>1
  <2>4. IndexOf(d) \in 0..(Size - 1) /\ First(IndexOf(d))
    <3> HIDE DEF First
    <3>1. IndexOf(d) = CHOOSE k \in 0..(Size - 1) : First(k)
      BY <1>5 DEF IndexOf, First
    <3> QED BY <3>1, <2>2, <2>3
  <2>5. PosOf(d) = order[IndexOf(d)] /\ RecordOf(d) = records[PosOf(d)]
    BY <1>5 DEF PosOf, RecordOf
  <2>6. /\ IndexOf(d) \in Pos /\ PosOf(d) \in Pos /\ PosOf(d) \in Used(order)
        /\ RecordOf(d) \in Record /\ RecordOf(d).dev = d
    BY <2>4, <2>5, <1>2, <1>3 DEF IsAt, Records, Readable
  <2>7. \A j \in Pos : j # IndexOf(d) => order[j] # PosOf(d)
    BY <2>4, <2>5, <2>6, <1>3 DEF Distinct
  <2>8. \A j \in Pos : j < IndexOf(d) => order[j] # Unused
    BY <2>4, <2>6, <1>3 DEF Compact
  <2>9. \A p \in Used(order) : p # PosOf(d) => records[p].dev # d
    BY <2>5, <2>6 DEF OneRecordEach, Complete
  <2> QED BY <1>5, <2>5, <2>6, <2>7, <2>8, <2>9 DEF Listing
<1>6. CASE ~ Found(d) /\ Size < N
  <2>1. IndexOf(d) = Size /\ Size \in Pos
    BY <1>6, <1>1 DEF IndexOf, Pos
  <2>2. PosOf(d) = FreePos /\ RecordOf(d) = [dev |-> d, trusted |-> FALSE, priority |-> FALSE]
    BY <1>6 DEF PosOf, RecordOf
  <2> DEFINE used == {order[i] : i \in {j \in 0..(Size - 1) : Readable(j)}}
             IsFree(p) == p \notin used /\ \A q \in 0..(p - 1) : q \in used
             T == Pos \ used
  <2>3. used = Used(order)
    BY <1>2, <1>3 DEF Used
  <2>4. T # {}
    <3> SUFFICES ASSUME Pos \subseteq used PROVE FALSE
      OBVIOUS
    <3> DEFINE at == [p \in Pos |-> CHOOSE i \in 0..(Size - 1) : order[i] = p]
    <3>1. ASSUME NEW p \in Pos PROVE at[p] \in 0..(Size - 1) /\ order[at[p]] = p
      <4>1. \E i \in 0..(Size - 1) : order[i] = p
        OBVIOUS
      <4> QED BY <4>1
    <3>2. at \in [Pos -> 0..(Size - 1)]
      BY <3>1
    <3>3. IsFiniteSet(Pos) /\ Cardinality(Pos) = N
      BY FS_Interval DEF Pos
    <3>4. IsFiniteSet(0..(Size - 1)) /\ Cardinality(0..(Size - 1)) = Size
      BY <1>1, FS_Interval
    <3> HIDE DEF at
    <3>5. \E x, y \in Pos : x # y /\ at[x] = at[y]
      BY <3>2, <3>3, <3>4, <1>1, <1>6, FS_PigeonHole
    <3> QED BY <3>1, <3>5
  <2>5. PICK p \in T : \A m \in T : p <= m
    <3>1. T \subseteq Nat
      BY DEF Pos
    <3> HIDE DEF T
    <3> QED BY <2>4, <3>1, LeastNatural
  <2>6. IsFree(p)
    BY <2>5 DEF Pos
  <2>7. FreePos \in Pos /\ FreePos \notin Used(order)
    <3> HIDE DEF IsFree
    <3>1. FreePos = CHOOSE q \in Pos : IsFree(q)
      BY DEF FreePos, IsFree
    <3>2. FreePos \in Pos /\ IsFree(FreePos)
      BY <3>1, <2>5, <2>6
    <3> QED BY <3>2, <2>3 DEF IsFree
  <2>8. order[Size] = Unused /\ \A j \in Pos : order[j] # FreePos
    BY <2>1, <2>7, <1>1 DEF Used, Pos
  <2>9. \A q \in Used(order) : records[q].dev # d
    BY <1>4, <1>6 DEF Used
  <2> QED
    <3>1. /\ IndexOf(d) \in Pos /\ PosOf(d) \in Pos /\ order[IndexOf(d)] = Unused
          /\ \A j \in Pos : j < IndexOf(d) => order[j] # Unused
          /\ \A j \in Pos : order[j] # PosOf(d)
      BY <2>1, <2>2, <2>7, <2>8, <1>1
    <3>2. RecordOf(d) \in Record /\ RecordOf(d).dev = d
      BY <2>2 DEF Record
    <3> QED BY <3>1, <3>2, <2>2, <2>9, <1>4, <1>6 DEF Listing
<1>7. CASE ~ Found(d) /\ Size = N
  <2>1. /\ IndexOf(d) = N - 1 /\ N - 1 \in Pos /\ PosOf(d) = order[N - 1]
        /\ RecordOf(d) = [dev |-> d, trusted |-> FALSE, priority |-> FALSE]
    BY <1>7 DEF IndexOf, PosOf, RecordOf, Pos
  <2>2. \A j \in Pos : order[j] # Unused
    BY <1>1, <1>7 DEF Pos
  <2>3. order[N - 1] \in Pos
    BY <2>1, <2>2, <1>2
  <2>4. \A j \in Pos : j # N - 1 => order[j] # order[N - 1]
    BY <2>1, <2>2 DEF Distinct
  <2>5. \A q \in Used(order) : records[q].dev # d
    BY <1>4, <1>7 DEF Used
  <2>6. RecordOf(d) \in Record /\ RecordOf(d).dev = d
    BY <2>1 DEF Record
  <2> QED BY <2>1, <2>2, <2>3, <2>4, <2>5, <2>6, <1>4, <1>7 DEF Listing
<1> QED BY <1>1, <1>5, <1>6, <1>7

(***************************************************************************)
(* The series of writes that the operations are put together from.         *)
(***************************************************************************)
(* idx is the entry of pos, or the one pos will get. *)
Place(x, pos, idx) ==
  /\ x.order[idx] \in {pos, Unused}
  /\ \A j \in Pos : j < idx => x.order[j] # Unused
  /\ \A j \in Pos : j # idx => x.order[j] # pos

(* No listed record but the one at pos is of device d. *)
Alone(x, pos, d) ==
  \A p \in Used(x.order) : p # pos /\ x.records[p] # NoRecord => x.records[p].dev # d

(* z is x with the record rec at pos, and the entry of pos in front. *)
Promoted(x, pos, idx, rec, z) ==
  /\ z.records = [x.records EXCEPT ![pos] = rec] /\ z.attrs = x.attrs /\ z.db = x.db
  /\ z.order = Moved(x.order, pos, idx) /\ z.order[0] = pos
  /\ Used(z.order) = Used(x.order) \cup {pos}
  /\ Complete(x.records, x.order) => Complete(z.records, z.order)

(* A record is written and its entry moved to the front. *)
LEMMA RecordThenIndex ==
  ASSUME NEW m, NEW x, Safe(m, x),
         NEW pos \in Pos, NEW idx \in Pos, NEW rec \in Record,
         Place(x, pos, idx), Alone(x, pos, rec.dev), "priority" \notin m => ~ rec.priority,
         NEW y, y = After(PutRecord(pos, rec), x),
         NEW z, z = After(PutIndex(Moved(x.order, pos, idx)), y)
  PROVE  Safe(m, y) /\ Safe(m, z) /\ Promoted(x, pos, idx, rec, z)
<1> USE PlacesAssumption, SentinelAssumption
<1>1. /\ y.records = [x.records EXCEPT ![pos] = rec] /\ y.attrs = x.attrs
      /\ y.order = x.order /\ y.db = x.db
  BY DEF After, PutRecord
<1>2. /\ z.records = y.records /\ z.attrs = y.attrs
      /\ z.order = Moved(x.order, pos, idx) /\ z.db = y.db
  BY DEF After, PutIndex
<1>3. /\ x.records \in Records /\ x.order \in Index /\ Compact(x.order) /\ Distinct(x.order)
      /\ OneRecordEach(x.records, x.order)
  BY DEF Safe
<1>4. /\ z.order \in Index /\ Compact(z.order) /\ Distinct(z.order)
      /\ Used(z.order) = Used(x.order) \cup {pos}
  BY <1>2, <1>3, MovedIndex DEF Place
<1>5. /\ y.records \in Records /\ y.records[pos] = rec
      /\ \A p : p # pos => y.records[p] = x.records[p]
  BY <1>1, <1>3 DEF Records
<1>6. /\ OneRecordEach(y.records, x.order)
      /\ OneRecordEach(y.records, z.order)
  BY <1>3, <1>4, <1>5 DEF OneRecordEach, Alone
<1>7. "priority" \notin m => \A p \in Pos : y.records[p] # NoRecord => ~ y.records[p].priority
  BY <1>5 DEF Safe
<1>8. Safe(m, y) /\ Safe(m, z)
  BY <1>1, <1>2, <1>3, <1>4, <1>5, <1>6, <1>7 DEF Safe
<1>9. z.order[0] = pos
  BY <1>2 DEF Moved, Pos
<1>10. Complete(x.records, x.order) => Complete(z.records, z.order)
  BY <1>1, <1>2, <1>4, <1>5 DEF Complete
<1> QED BY <1>1, <1>2, <1>4, <1>8, <1>9, <1>10 DEF Promoted

(* The first entry sinks. *)
LEMMA IndexSunk ==
  ASSUME NEW m, NEW x, Safe(m, x), Complete(x.records, x.order), x.order[0] # Unused,
         NEW z, z = After(PutIndex(Sunk(x.order, x.records)), x)
  PROVE  /\ Safe(m, z) /\ Complete(z.records, z.order)
         /\ z.records = x.records /\ z.attrs = x.attrs /\ z.db = x.db
         /\ Used(z.order) = Used(x.order)
         /\ ~ x.records[x.order[0]].priority /\ SortedFrom(1, x.records, x.order)
              => SortedFrom(0, z.records, z.order)
<1>1. /\ z.records = x.records /\ z.attrs = x.attrs
      /\ z.order = Sunk(x.order, x.records) /\ z.db = x.db
  BY DEF After, PutIndex
<1>2. x.records \in Records /\ x.order \in Index /\ Compact(x.order) /\ Distinct(x.order)
  BY DEF Safe
<1>3. /\ z.order \in Index /\ Compact(z.order) /\ Distinct(z.order) /\ Used(z.order) = Used(x.order)
      /\ ~ x.records[x.order[0]].priority /\ SortedFrom(1, x.records, x.order)
           => SortedFrom(0, z.records, z.order)
  BY <1>1, <1>2, SunkIndex
<1>4. Safe(m, z)
  BY <1>1, <1>3 DEF Safe, OneRecordEach
<1> QED BY <1>1, <1>3, <1>4 DEF Complete

(* A device is deleted: its entry, its record, its attribute data. *)
LEMMA Deletion ==
  ASSUME NEW m, NEW x, Safe(m, x), Complete(x.records, x.order),
         NEW idx \in Pos, NEW pos \in Pos, x.order[idx] = pos,
         NEW y, y = After(PutIndex(Removed(x.order, idx)), x),
         NEW z, z = After(PutRecord(pos, NoRecord), y),
         NEW u, u = After(PutAttr(pos, NoRecord), z)
  PROVE  /\ Safe(m, y) /\ Safe(m, z) /\ Safe(m, u) /\ Complete(u.records, u.order)
         /\ u.records = [x.records EXCEPT ![pos] = NoRecord]
         /\ u.attrs = [x.attrs EXCEPT ![pos] = NoRecord]
         /\ u.db = x.db
         /\ Used(u.order) = Used(x.order) \ {pos}
         /\ SortedFrom(0, x.records, x.order) => SortedFrom(0, u.records, u.order)
<1> USE PlacesAssumption, SentinelAssumption
<1>1. y.records = x.records /\ y.attrs = x.attrs /\ y.order = Removed(x.order, idx) /\ y.db = x.db
  BY DEF After, PutIndex
<1>2. /\ z.records = [x.records EXCEPT ![pos] = NoRecord] /\ z.attrs = y.attrs
      /\ z.order = y.order /\ z.db = y.db
  BY <1>1 DEF After, PutRecord
<1>3. /\ u.records = z.records /\ u.attrs = [x.attrs EXCEPT ![pos] = NoRecord]
      /\ u.order = y.order /\ u.db = y.db
  BY <1>1, <1>2 DEF After, PutAttr
<1>4. /\ x.records \in Records /\ x.order \in Index /\ Compact(x.order) /\ Distinct(x.order)
      /\ OneRecordEach(x.records, x.order) /\ x.attrs \in [Pos -> Device \cup {NoRecord}]
  BY DEF Safe
<1>5. pos # Unused
  BY DEF Pos
<1>6. /\ y.order \in Index /\ Compact(y.order) /\ Distinct(y.order)
      /\ Used(y.order) = Used(x.order) \ {pos}
  BY <1>1, <1>4, <1>5, RemovedIndex
<1>7. /\ z.records \in Records /\ z.records[pos] = NoRecord
      /\ \A p : p # pos => z.records[p] = x.records[p]
  BY <1>2, <1>4 DEF Records
<1>8. Safe(m, y)
  BY <1>1, <1>4, <1>6 DEF Safe, OneRecordEach
<1>9. OneRecordEach(z.records, z.order)
  BY <1>2, <1>4, <1>6, <1>7 DEF OneRecordEach
<1>10. "priority" \notin m => \A p \in Pos : z.records[p] # NoRecord => ~ z.records[p].priority
  BY <1>7 DEF Safe
<1>11. Safe(m, z)
  BY <1>1, <1>2, <1>6, <1>7, <1>8, <1>9, <1>10 DEF Safe
<1>12. Safe(m, u)
  BY <1>2, <1>3, <1>4, <1>11 DEF Safe
<1>13. Complete(u.records, u.order)
  BY <1>3, <1>6, <1>7 DEF Complete
<1>14. ASSUME SortedFrom(0, x.records, x.order) PROVE SortedFrom(0, u.records, u.order)
  <2>1. SortedFrom(0, x.records, y.order)
    BY <1>14, <1>1, <1>4, RemovedSorted
  <2>2. \A i \in Pos : y.order[i] # Unused => y.order[i] # pos
    BY <1>6 DEF Used
  <2>3. \A i \in Pos : y.order[i] # Unused => u.records[y.order[i]] = x.records[y.order[i]]
    BY <2>2, <1>3, <1>7
  <2> QED BY <2>1, <2>3, <1>3, <1>6 DEF SortedFrom, Compact
<1> QED BY <1>2, <1>3, <1>1, <1>6, <1>8, <1>11, <1>12, <1>13, <1>14

(* Bluestack registers a device. *)
LEMMA Registering ==
  ASSUME NEW m, NEW x, Safe(m, x), NEW d \in Device, NEW t \in BOOLEAN,
         NEW z, z = After(SmAdd(d, t), x)
  PROVE  /\ Safe(m, z) /\ z.records = x.records /\ z.attrs = x.attrs /\ z.order = x.order
         /\ DOMAIN z.db = DOMAIN x.db \cup {d} /\ z.db[d] = t
         /\ \A e \in DOMAIN x.db : e # d => z.db[e] = x.db[e]
<1>1. /\ z.records = x.records /\ z.attrs = x.attrs /\ z.order = x.order
      /\ z.db = [e \in DOMAIN x.db \cup {d} |-> IF e = d THEN t ELSE x.db[e]]
  BY DEF After, SmAdd
<1>2. /\ DOMAIN z.db = DOMAIN x.db \cup {d} /\ z.db[d] = t
      /\ \A e \in DOMAIN x.db : e # d => z.db[e] = x.db[e]
  BY <1>1
<1>3. DOMAIN z.db \subseteq Device /\ z.db \in [DOMAIN z.db -> BOOLEAN]
  BY <1>1 DEF Safe
<1> QED BY <1>1, <1>2, <1>3 DEF Safe

(* Bluestack forgets a device. *)
LEMMA Forgetting ==
  ASSUME NEW m, NEW x, Safe(m, x), NEW d \in Device,
         NEW z, z = After(SmRemove(d), x)
  PROVE  /\ Safe(m, z) /\ z.records = x.records /\ z.attrs = x.attrs /\ z.order = x.order
         /\ DOMAIN z.db = DOMAIN x.db \ {d}
         /\ \A e \in DOMAIN x.db : e # d => z.db[e] = x.db[e]
<1>1. /\ z.records = x.records /\ z.attrs = x.attrs /\ z.order = x.order
      /\ z.db = [e \in DOMAIN x.db \ {d} |-> x.db[e]]
  BY DEF After, SmRemove
<1>2. /\ DOMAIN z.db = DOMAIN x.db \ {d}
      /\ \A e \in DOMAIN x.db : e # d => z.db[e] = x.db[e]
  BY <1>1
<1>3. DOMAIN z.db \subseteq Device /\ z.db \in [DOMAIN z.db -> BOOLEAN]
  BY <1>1 DEF Safe
<1> QED BY <1>1, <1>2, <1>3 DEF Safe

LEMMA WritesType ==
  /\ \A p \in Pos, rec \in Record \cup {NoRecord} : PutRecord(p, rec) \in Writes
  /\ \A p \in Pos, d \in Device \cup {NoRecord} : PutAttr(p, d) \in Writes
  /\ \A ord \in Index : PutIndex(ord) \in Writes
  /\ \A d \in Device, t \in BOOLEAN : SmAdd(d, t) \in Writes
  /\ \A d \in Device : SmRemove(d) \in Writes
  /\ Nothing \in Writes
BY DEF Writes, PutRecord, PutAttr, PutIndex, SmAdd, SmRemove, Nothing

(***************************************************************************)
(* The inductive invariant: what is left of the operation in progress is a *)
(* series of writes that is safe to interrupt and ends in a final state.   *)
(***************************************************************************)
IInv ==
  /\ mode \in Modes /\ crashes \in 0..MaxCrash /\ todo \in Seq(Writes)
  /\ \/ state = "up" /\ \E y : Runs(mode, Store, todo, y) /\ Final(mode, y)
     \/ /\ state = "boot" /\ todo = << >> /\ Safe(mode, Store)
        /\ "crash" \notin mode => /\ order = [i \in Pos |-> Unused]
                                  /\ attrs = [p \in Pos |-> NoRecord]

(* Deleting all devices closes no gap in the index, so that a priority     *)
(* device behind an ordinary one would be lost: the clients of             *)
(* connectionAuthDeleteAllDevice that use priority devices too must keep   *)
(* the index in the order ConnectionAuthSetPriorityDevice gives it.        *)
SafeModes ==
  \A m \in Modes : {"deleteAll", "priority"} \subseteq m => {"mru", "keys", "crash"} \cap m = {}

LEMMA StoreFields ==
  Store.records = records /\ Store.attrs = attrs /\ Store.order = order /\ Store.db = db
BY DEF Store

LEMMA InitIInv ==
  ASSUME Init PROVE IInv
<1> USE PlacesAssumption, SentinelAssumption, BoundAssumption
<1>1. /\ records \in Records /\ attrs \in [Pos -> Device \cup {NoRecord}] /\ order \in Index
      /\ Compact(order) /\ Distinct(order) /\ Used(order) = {}
  BY DEF Init, Records, Index, Compact, Distinct, Used
<1>2. OneRecordEach(records, order)
  BY <1>1 DEF OneRecordEach
<1>3. DOMAIN db = {} /\ db \in [DOMAIN db -> BOOLEAN]
  BY DEF Init
<1>4. \A p \in Pos : records[p] = NoRecord
  BY DEF Init
<1>5. Safe(mode, Store)
  BY <1>1, <1>2, <1>3, <1>4, StoreFields DEF Safe
<1>6. crashes \in 0..MaxCrash /\ todo \in Seq(Writes)
  BY DEF Init
<1> QED BY <1>5, <1>6 DEF IInv, Init

(* The store between two operations. *)
LEMMA IdleStore ==
  ASSUME IInv, Idle
  PROVE  Safe(mode, Store) /\ Final(mode, Store)
<1>1. PICK y : Runs(mode, Store, todo, y) /\ Final(mode, y)
  BY DEF IInv, Idle
<1>2. todo \in Seq(Writes)
  BY DEF IInv
<1>3. Safe(mode, Store) /\ (todo = << >> => Store = y)
  BY <1>1, <1>2, RunsSafe
<1>4. Store = y
  BY <1>3 DEF Idle
<1> QED BY <1>1, <1>3, <1>4

(* An operation may begin with a series of writes that is safe. *)
LEMMA BeginSafely ==
  ASSUME IInv, state = "up", NEW s \in Seq(Writes), Begin(s),
         NEW y, Runs(mode, Store, s, y), Final(mode, y)
  PROVE  IInv'
<1>1. /\ mode' = mode /\ state' = state /\ crashes' = crashes /\ todo' = s
      /\ records' = records /\ attrs' = attrs /\ order' = order /\ db' = db
  BY DEF Begin
<1>2. Store' = Store
  BY <1>1 DEF Store
<1>3. Runs(mode', Store', todo', y) /\ Final(mode', y)
  BY <1>1, <1>2
<1> QED BY <1>1, <1>3 DEF IInv

(* What tdl_find_device gives an operation. *)
LEMMA ReadyToFind ==
  ASSUME IInv, NEW op, Ready(op), NEW d \in Device
  PROVE  /\ Idle /\ op \in mode /\ Safe(mode, Store) /\ Final(mode, Store)
         /\ Listing(d, IndexOf(d), PosOf(d), RecordOf(d))
<1>1. Idle /\ op \in mode
  BY DEF Ready, Idle
<1>2. Safe(mode, Store) /\ Final(mode, Store)
  BY <1>1, IdleStore
<1>3. /\ order \in Index /\ Compact(order) /\ Distinct(order) /\ records \in Records
      /\ Complete(records, order) /\ OneRecordEach(records, order)
  BY <1>2, StoreFields DEF Safe, Final
<1> QED BY <1>1, <1>2, <1>3, FindDevice

(***************************************************************************)
(* The operations.                                                         *)
(***************************************************************************)
(* The attribute data is still its owner's when a record of the device     *)
(* that is at pos, or goes there, is written.                              *)
LEMMA OwnAttributesKept ==
  ASSUME NEW d, NEW idx, NEW pos, NEW rec, Listing(d, idx, pos, rec),
         Found(d) \/ Size # N, Distinct(order),
         OwnAttributes(Store), records \in Records, NEW now \in Record, now.dev = d,
         NEW z, z.attrs = attrs, z.records = [records EXCEPT ![pos] = now],
         Used(z.order) = Used(order) \cup {pos}
  PROVE  OwnAttributes(z)
<1> USE PlacesAssumption, SentinelAssumption
<1>1. pos \in Pos /\ z.records[pos] = now /\ \A p : p # pos => z.records[p] = records[p]
  BY DEF Listing, Records
<1>2. \A p \in Pos : attrs[p] # NoRecord => p \in Used(order) /\ attrs[p] = records[p].dev
  BY StoreFields DEF OwnAttributes
<1>3. attrs[pos] # NoRecord => attrs[pos] = d
  <2>1. CASE Found(d)
    BY <2>1, <1>1, <1>2 DEF Listing
  <2>2. CASE ~ Found(d)
    <3>1. pos \notin Used(order)
      BY <2>2 DEF Listing, Used
    <3> QED BY <3>1, <1>1, <1>2
  <2> QED BY <2>1, <2>2
<1> QED BY <1>1, <1>2, <1>3 DEF OwnAttributes

(* The entry, the record and the attribute data of a listed device are     *)
(* deleted, from a store that differs from the one the positions were      *)
(* read from in Bluestack's part only.                                     *)
LEMMA DeletingAfter ==
  ASSUME NEW d \in Device, NEW idx, NEW pos, NEW rec, Listing(d, idx, pos, rec), Found(d),
         Complete(records, order),
         NEW x, Safe(mode, x), x.records = records, x.attrs = attrs, x.order = order
  PROVE  /\ DeleteWrites(pos, idx) \in Seq(Writes)
         /\ \E z : /\ Runs(mode, x, DeleteWrites(pos, idx), z)
                   /\ Complete(z.records, z.order) /\ z.db = x.db
                   /\ Used(z.order) = Used(order) \ {pos}
                   /\ \A p \in Used(z.order) : z.records[p] = records[p]
                   /\ SortedFrom(0, records, order) => SortedFrom(0, z.records, z.order)
                   /\ OwnAttributes(Store) => OwnAttributes(z)
<1> USE PlacesAssumption, SentinelAssumption
<1>1. pos \in Pos /\ idx \in Pos /\ order[idx] = pos /\ pos # Unused
  BY DEF Listing, Pos
<1>2. /\ order \in Index /\ Compact(order) /\ Distinct(order) /\ records \in Records
      /\ attrs \in [Pos -> Device \cup {NoRecord}]
  BY DEF Safe
<1>3. Removed(order, idx) \in Index
  BY <1>1, <1>2, RemovedIndex
<1>4. DeleteWrites(pos, idx) \in Seq(Writes)
  <2>1. /\ PutIndex(Removed(order, idx)) \in Writes /\ PutRecord(pos, NoRecord) \in Writes
        /\ PutAttr(pos, NoRecord) \in Writes
    BY <1>1, <1>3, WritesType
  <2> QED BY <2>1 DEF DeleteWrites
<1> DEFINE y == After(PutIndex(Removed(x.order, idx)), x)
           u == After(PutRecord(pos, NoRecord), y)
           z == After(PutAttr(pos, NoRecord), u)
<1>5. /\ Safe(mode, y) /\ Safe(mode, u) /\ Safe(mode, z) /\ Complete(z.records, z.order)
      /\ z.records = [records EXCEPT ![pos] = NoRecord]
      /\ z.attrs = [attrs EXCEPT ![pos] = NoRecord]
      /\ z.db = x.db /\ Used(z.order) = Used(order) \ {pos}
      /\ SortedFrom(0, records, order) => SortedFrom(0, z.records, z.order)
  <2> HIDE DEF y, u, z
  <2> QED BY <1>1, Deletion DEF y, u, z
<1> HIDE DEF y, u, z
<1>6. Runs(mode, x, DeleteWrites(pos, idx), z)
  BY <1>5, RunsThree DEF y, u, z, DeleteWrites
<1>7. \A p \in Used(z.order) : z.records[p] = records[p]
  BY <1>2, <1>5 DEF Records
<1>8. OwnAttributes(Store) => OwnAttributes(z)
  <2>1. \A p \in Pos : p # pos => z.attrs[p] = attrs[p] /\ z.records[p] = records[p]
    BY <1>2, <1>5 DEF Records
  <2>2. z.attrs[pos] = NoRecord
    BY <1>1, <1>2, <1>5
  <2> QED BY <2>1, <2>2, <1>5, StoreFields DEF OwnAttributes
<1> QED BY <1>4, <1>5, <1>6, <1>7, <1>8

LEMMA Deleting ==
  ASSUME NEW d \in Device, NEW idx, NEW pos, NEW rec, Listing(d, idx, pos, rec), Found(d),
         Safe(mode, Store), Final(mode, Store)
  PROVE  /\ DeleteWrites(pos, idx) \in Seq(Writes)
         /\ \E z : /\ Runs(mode, Store, DeleteWrites(pos, idx), z) /\ Final(mode, z)
                   /\ \A p \in Used(z.order) : z.records[p] \in Record /\ z.records[p].dev # d
<1>1. Complete(records, order) /\ order \in Index /\ records \in Records
  BY StoreFields DEF Final, Safe
<1>2. PICK z : /\ Runs(mode, Store, DeleteWrites(pos, idx), z)
               /\ Complete(z.records, z.order) /\ z.db = db
               /\ Used(z.order) = Used(order) \ {pos}
               /\ \A p \in Used(z.order) : z.records[p] = records[p]
               /\ SortedFrom(0, records, order) => SortedFrom(0, z.records, z.order)
               /\ OwnAttributes(Store) => OwnAttributes(z)
  BY <1>1, DeletingAfter, StoreFields
<1>3. Registrations(mode, z)
  BY <1>2, StoreFields DEF Final, Registrations
<1>4. Final(mode, z)
  BY <1>2, <1>3, StoreFields DEF Final
<1>5. \A p \in Used(z.order) : z.records[p] \in Record /\ z.records[p].dev # d
  <2>1. \A p \in Used(order) : p \in Pos /\ records[p] \in Record
    BY <1>1 DEF Complete, Records, Used, Index
  <2> QED BY <1>2, <2>1 DEF Listing
<1>6. DeleteWrites(pos, idx) \in Seq(Writes)
  BY <1>1, DeletingAfter, StoreFields
<1> QED BY <1>2, <1>4, <1>5, <1>6

LEMMA SetTrustLevelSafe ==
  ASSUME IInv, NEW d \in Device, NEW trusted \in BOOLEAN, SetTrustLevel(d, trusted)
  PROVE  IInv'
<1> USE PlacesAssumption, SentinelAssumption
<1> DEFINE pos == PosOf(d)
           idx == IndexOf(d)
           now == [RecordOf(d) EXCEPT !.trusted = trusted]
           x1  == After(PutRecord(pos, now), Store)
           x2  == After(SmAdd(d, trusted), x1)
           s   == <<PutRecord(pos, now), SmAdd(d, trusted)>>
<1>1. /\ Idle /\ Safe(mode, Store) /\ Final(mode, Store) /\ Listing(d, idx, pos, RecordOf(d))
      /\ Found(d) /\ Begin(s)
  <2>1. Ready("trust")
    BY DEF SetTrustLevel
  <2> QED BY <2>1, ReadyToFind DEF SetTrustLevel
<1> HIDE DEF pos, idx
<1>2. /\ pos \in Pos /\ idx \in Pos /\ order[idx] = pos /\ now \in Record /\ now.dev = d
      /\ now.priority = records[pos].priority /\ now.trusted = trusted /\ records[pos] # NoRecord
      /\ records[pos] \in Record /\ pos \in Used(order)
  BY <1>1 DEF Listing, Record, Used, Pos
<1>3. /\ x1.records = [records EXCEPT ![pos] = now] /\ x1.attrs = attrs
      /\ x1.order = order /\ x1.db = db
  BY StoreFields DEF After, PutRecord
<1> HIDE DEF now, x1
<1>4. /\ x1.records \in Records /\ x1.records[pos] = now
      /\ \A p : p # pos => x1.records[p] = records[p]
  BY <1>1, <1>2, <1>3, StoreFields DEF Safe, Records
<1>5. Safe(mode, x1)
  <2>1. OneRecordEach(x1.records, x1.order)
    BY <1>1, <1>2, <1>3, <1>4, StoreFields DEF Safe, OneRecordEach, Listing
  <2>2. "priority" \notin mode => \A p \in Pos : x1.records[p] # NoRecord => ~ x1.records[p].priority
    BY <1>1, <1>2, <1>4, StoreFields DEF Safe
  <2> QED BY <1>1, <1>3, <1>4, <2>1, <2>2, StoreFields DEF Safe
<1>6. /\ Safe(mode, x2) /\ x2.records = x1.records /\ x2.attrs = attrs /\ x2.order = order
      /\ DOMAIN x2.db = DOMAIN db \cup {d} /\ x2.db[d] = trusted
      /\ \A e \in DOMAIN db : e # d => x2.db[e] = db[e]
  BY <1>3, <1>5, Registering
<1> HIDE DEF x2
<1>7. Runs(mode, Store, s, x2)
  BY <1>1, <1>5, <1>6, RunsTwo DEF x1, x2
<1>8. Final(mode, x2)
  <2>1. Complete(x2.records, x2.order)
    BY <1>1, <1>2, <1>4, <1>6, StoreFields DEF Final, Complete
  <2>2. Registrations(mode, x2)
    BY <1>1, <1>2, <1>4, <1>6, StoreFields DEF Final, Registrations, Listing
  <2>3. SortedFrom(0, records, order) => SortedFrom(0, x2.records, x2.order)
    <3>1. \A p \in Used(order) : x2.records[p].priority = records[p].priority
      BY <1>2, <1>4, <1>6
    <3> QED BY <3>1, <1>1, <1>6, StoreFields DEF SortedFrom, Used, Safe, Compact
  <2>4. OwnAttributes(Store) => OwnAttributes(x2)
    BY <1>1, <1>2, <1>4, <1>6, StoreFields DEF OwnAttributes, Listing
  <2> QED BY <1>1, <2>1, <2>2, <2>3, <2>4, StoreFields DEF Final
<1>9. s \in Seq(Writes)
  BY <1>2, WritesType
<1> QED BY <1>1, <1>7, <1>8, <1>9, BeginSafely DEF Idle

LEMMA UpdateMruSafe ==
  ASSUME IInv, NEW d \in Device, UpdateMru(d)
  PROVE  IInv'
<1> USE PlacesAssumption, SentinelAssumption
<1> DEFINE pos == PosOf(d)
           idx == IndexOf(d)
           m   == Moved(order, pos, idx)
           x1  == After(PutIndex(m), Store)
<1>1. /\ Idle /\ Safe(mode, Store) /\ Final(mode, Store) /\ Listing(d, idx, pos, RecordOf(d))
      /\ Found(d) /\ Begin(<<PutIndex(m)>>) /\ "mru" \in mode
  <2>1. Ready("mru")
    BY DEF UpdateMru
  <2> QED BY <2>1, ReadyToFind DEF UpdateMru
<1> HIDE DEF pos, idx
<1>2. /\ pos \in Pos /\ idx \in Pos /\ order[idx] = pos /\ pos \in Used(order)
  BY <1>1 DEF Listing, Used, Pos
<1>3. /\ x1.records = records /\ x1.attrs = attrs /\ x1.order = m /\ x1.db = db
  BY StoreFields DEF After, PutIndex
<1> HIDE DEF x1
<1>4. m \in Index /\ Compact(m) /\ Distinct(m) /\ Used(m) = Used(order)
  <2>1. order \in Index /\ Compact(order) /\ Distinct(order)
    BY <1>1, StoreFields DEF Safe
  <2>2. /\ order[idx] \in {pos, Unused} /\ \A j \in Pos : j < idx => order[j] # Unused
        /\ \A j \in Pos : j # idx => order[j] # pos
    BY <1>1 DEF Listing
  <2>3. m \in Index /\ Compact(m) /\ Distinct(m) /\ Used(m) = Used(order) \cup {pos}
    BY <1>2, <2>1, <2>2, MovedIndex
  <2> QED BY <1>2, <2>3
<1> HIDE DEF m
<1>5. Safe(mode, x1)
  BY <1>1, <1>3, <1>4, StoreFields DEF Safe, OneRecordEach
<1>6. Runs(mode, Store, <<PutIndex(m)>>, x1)
  BY <1>1, <1>5, RunsOne DEF x1
<1>7. Final(mode, x1)
  BY <1>1, <1>3, <1>4, StoreFields DEF Final, Complete, Registrations, OwnAttributes
<1>8. <<PutIndex(m)>> \in Seq(Writes)
  BY <1>4, WritesType
<1> QED BY <1>1, <1>6, <1>7, <1>8, BeginSafely DEF Idle

LEMMA PutAttributeSafe ==
  ASSUME IInv, NEW d \in Device, PutAttribute(d)
  PROVE  IInv'
<1> USE PlacesAssumption, SentinelAssumption
<1> DEFINE pos == PosOf(d)
           x1  == After(PutAttr(pos, d), Store)
<1>1. /\ Idle /\ Safe(mode, Store) /\ Final(mode, Store)
      /\ Listing(d, IndexOf(d), pos, RecordOf(d)) /\ Found(d) /\ Begin(<<PutAttr(pos, d)>>)
  <2>1. Ready("attr")
    BY DEF PutAttribute
  <2> QED BY <2>1, ReadyToFind DEF PutAttribute
<1> HIDE DEF pos
<1>2. pos \in Pos /\ pos \in Used(order) /\ records[pos].dev = d
  BY <1>1 DEF Listing, Used, Pos
<1>3. /\ x1.records = records /\ x1.attrs = [attrs EXCEPT ![pos] = d]
      /\ x1.order = order /\ x1.db = db
  BY StoreFields DEF After, PutAttr
<1> HIDE DEF x1
<1>4. attrs \in [Pos -> Device \cup {NoRecord}]
  BY <1>1, StoreFields DEF Safe
<1>5. /\ x1.attrs \in [Pos -> Device \cup {NoRecord}]
      /\ x1.attrs[pos] = d /\ \A p : p # pos => x1.attrs[p] = attrs[p]
  BY <1>2, <1>3, <1>4
<1>6. Safe(mode, x1)
  BY <1>1, <1>3, <1>5, StoreFields DEF Safe
<1>7. Runs(mode, Store, <<PutAttr(pos, d)>>, x1)
  BY <1>1, <1>6, RunsOne DEF x1
<1>8. OwnAttributes(Store) => OwnAttributes(x1)
  BY <1>2, <1>3, <1>5, StoreFields DEF OwnAttributes
<1>9. Final(mode, x1)
  BY <1>1, <1>3, <1>8, StoreFields DEF Final, Registrations
<1>10. <<PutAttr(pos, d)>> \in Seq(Writes)
  BY <1>2, WritesType
<1> QED BY <1>1, <1>7, <1>9, <1>10, BeginSafely DEF Idle

LEMMA DeleteDeviceFromTdlSafe ==
  ASSUME IInv, NEW d \in Device, DeleteDeviceFromTdl(d)
  PROVE  IInv'
<1> USE PlacesAssumption, SentinelAssumption
<1>1. /\ Idle /\ Safe(mode, Store) /\ Final(mode, Store)
      /\ Listing(d, IndexOf(d), PosOf(d), RecordOf(d)) /\ Found(d)
      /\ Begin(DeleteWrites(PosOf(d), IndexOf(d)))
  <2>1. Ready("unbond")
    BY DEF DeleteDeviceFromTdl
  <2> QED BY <2>1, ReadyToFind DEF DeleteDeviceFromTdl
<1>2. PICK z : /\ Runs(mode, Store, DeleteWrites(PosOf(d), IndexOf(d)), z) /\ Final(mode, z)
               /\ DeleteWrites(PosOf(d), IndexOf(d)) \in Seq(Writes)
  BY <1>1, Deleting
<1> QED BY <1>1, <1>2, BeginSafely DEF Idle

LEMMA DeleteDeviceSafe ==
  ASSUME IInv, NEW d \in Device, DeleteDevice(d)
  PROVE  IInv'
<1> USE PlacesAssumption, SentinelAssumption
<1> DEFINE x1 == After(SmRemove(d), Store)
           s  == DeleteWrites(PosOf(d), IndexOf(d))
<1>1. /\ Idle /\ Safe(mode, Store) /\ Final(mode, Store)
      /\ Listing(d, IndexOf(d), PosOf(d), RecordOf(d)) /\ Found(d)
      /\ Begin(<<SmRemove(d)>> \o s)
  <2>1. Ready("delete")
    BY DEF DeleteDevice
  <2> QED BY <2>1, ReadyToFind DEF DeleteDevice
<1>2. /\ Safe(mode, x1) /\ x1.records = records /\ x1.attrs = attrs /\ x1.order = order
      /\ DOMAIN x1.db = DOMAIN db \ {d} /\ \A e \in DOMAIN db : e # d => x1.db[e] = db[e]
  BY <1>1, Forgetting, StoreFields
<1>3. Runs(mode, Store, <<SmRemove(d)>>, x1)
  BY <1>1, <1>2, RunsOne
<1> HIDE DEF x1
<1>4. PICK z : /\ Runs(mode, x1, s, z) /\ s \in Seq(Writes)
               /\ Complete(z.records, z.order) /\ z.db = x1.db
               /\ Used(z.order) = Used(order) \ {PosOf(d)}
               /\ \A p \in Used(z.order) : z.records[p] = records[p]
               /\ SortedFrom(0, records, order) => SortedFrom(0, z.records, z.order)
               /\ OwnAttributes(Store) => OwnAttributes(z)
  <2>1. Complete(records, order)
    BY <1>1, StoreFields DEF Final
  <2> QED BY <1>1, <1>2, <2>1, DeletingAfter
<1>5. Registrations(mode, z)
  <2>1. \A p \in Used(z.order) : p \in Used(order) /\ records[p].dev # d
    BY <1>1, <1>4 DEF Listing
  <2> QED BY <1>1, <1>2, <1>4, <2>1, StoreFields DEF Final, Registrations
<1>6. Final(mode, z)
  BY <1>1, <1>4, <1>5, StoreFields DEF Final
<1>7. <<SmRemove(d)>> \in Seq(Writes)
  BY WritesType
<1>8. Runs(mode, Store, <<SmRemove(d)>> \o s, z) /\ <<SmRemove(d)>> \o s \in Seq(Writes)
  <2> HIDE DEF s
  <2> QED BY <1>3, <1>4, <1>7, RunsThen, ConcatProperties
<1> QED BY <1>1, <1>6, <1>8, BeginSafely DEF Idle

(* The record of the device that was looked up is written and its entry    *)
(* moved to the front, in a store that differs from the one that was read  *)
(* in Bluestack's part only.                                               *)
LEMMA Promoting ==
  ASSUME NEW d \in Device, NEW idx, NEW pos, NEW rec, Listing(d, idx, pos, rec),
         NEW x, Safe(mode, x), x.records = records, x.attrs = attrs, x.order = order,
         Complete(records, order),
         NEW now \in Record, now.dev = d, "priority" \notin mode => ~ now.priority,
         NEW z, z = After(PutIndex(Moved(order, pos, idx)), After(PutRecord(pos, now), x))
  PROVE  /\ <<PutRecord(pos, now), PutIndex(Moved(order, pos, idx))>> \in Seq(Writes)
         /\ Runs(mode, x, <<PutRecord(pos, now), PutIndex(Moved(order, pos, idx))>>, z)
         /\ Safe(mode, z) /\ Complete(z.records, z.order)
         /\ z.records = [records EXCEPT ![pos] = now] /\ z.attrs = attrs /\ z.db = x.db
         /\ z.order = Moved(order, pos, idx) /\ z.order[0] = pos
         /\ Used(z.order) = Used(order) \cup {pos}
         /\ SortedFrom(0, records, order) => /\ SortedFrom(1, z.records, z.order)
                                             /\ now.priority => SortedFrom(0, z.records, z.order)
<1> USE PlacesAssumption, SentinelAssumption
<1> DEFINE y == After(PutRecord(pos, now), x)
<1>1. /\ pos \in Pos /\ idx \in Pos /\ order[idx] \in {pos, Unused}
      /\ \A j \in Pos : j < idx => order[j] # Unused
      /\ \A j \in Pos : j # idx => order[j] # pos
      /\ \A p \in Used(order) : p # pos => records[p].dev # now.dev
  BY DEF Listing
<1>2. order \in Index /\ Compact(order) /\ Distinct(order) /\ records \in Records
  BY DEF Safe
<1>3. /\ Place(x, pos, idx) /\ Alone(x, pos, now.dev)
      /\ z = After(PutIndex(Moved(x.order, pos, idx)), y)
  BY <1>1 DEF Place, Alone
<1> HIDE DEF y
<1>4. /\ Safe(mode, y) /\ Safe(mode, z)
      /\ z.records = [x.records EXCEPT ![pos] = now] /\ z.attrs = x.attrs /\ z.db = x.db
      /\ z.order = Moved(x.order, pos, idx) /\ z.order[0] = pos
      /\ Used(z.order) = Used(x.order) \cup {pos}
      /\ Complete(x.records, x.order) => Complete(z.records, z.order)
  <2>1. Safe(mode, y) /\ Safe(mode, z) /\ Promoted(x, pos, idx, now, z)
    BY <1>1, <1>3, RecordThenIndex DEF y
  <2> QED BY <2>1 DEF Promoted
<1>5. SortedFrom(0, records, order) => /\ SortedFrom(1, z.records, z.order)
                                       /\ now.priority => SortedFrom(0, z.records, z.order)
  BY <1>1, <1>2, <1>4, MovedSorted
<1>6. <<PutRecord(pos, now), PutIndex(Moved(order, pos, idx))>> \in Seq(Writes)
  <2>1. z.order \in Index
    BY <1>4 DEF Safe
  <2> QED BY <1>1, <1>4, <2>1, WritesType
<1>7. Runs(mode, x, <<PutRecord(pos, now), PutIndex(Moved(order, pos, idx))>>, z)
  BY <1>3, <1>4, RunsTwo DEF y
<1> QED BY <1>4, <1>5, <1>6, <1>7

(* The registrations still agree when the record of the device is written  *)
(* and its registration with it.                                           *)
LEMMA RegistrationsKept ==
  ASSUME NEW d, NEW idx, NEW pos, NEW rec, Listing(d, idx, pos, rec),
         Registrations(mode, Store), records \in Records,
         NEW now \in Record, now.dev = d,
         NEW z, z.records = [records EXCEPT ![pos] = now], Used(z.order) = Used(order) \cup {pos},
         d \in DOMAIN z.db, DOMAIN db \subseteq DOMAIN z.db,
         {"full", "keys", "debug"} \cap mode = {} => z.db[d] = now.trusted,
         \A e \in DOMAIN db : e # d => z.db[e] = db[e]
  PROVE  Registrations(mode, z)
<1>1. z.records[pos] = now /\ \A p : p # pos => z.records[p] = records[p]
  BY DEF Listing, Records
<1> QED BY <1>1, StoreFields DEF Registrations, Listing

LEMMA SetPriorityDeviceSafe ==
  ASSUME IInv, NEW d \in Device, NEW priority \in BOOLEAN, SetPriorityDevice(d, priority)
  PROVE  IInv'
<1> USE PlacesAssumption, SentinelAssumption
<1> DEFINE pos == PosOf(d)
           idx == IndexOf(d)
           now == [RecordOf(d) EXCEPT !.priority = priority]
           m   == Moved(order, pos, idx)
           s   == <<PutRecord(pos, now), PutIndex(m)>>
           z   == After(PutIndex(m), After(PutRecord(pos, now), Store))
<1>1. /\ Idle /\ Safe(mode, Store) /\ Final(mode, Store) /\ Listing(d, idx, pos, RecordOf(d))
      /\ Found(d) /\ "priority" \in mode
      /\ Begin(PriorityWrites(order, pos, idx, RecordOf(d), priority))
  <2>1. Ready("priority")
    BY DEF SetPriorityDevice
  <2> QED BY <2>1, ReadyToFind DEF SetPriorityDevice
<1> HIDE DEF pos, idx
<1>2. /\ pos \in Pos /\ idx \in Pos /\ now \in Record /\ now.dev = d /\ now.priority = priority
      /\ now.trusted = records[pos].trusted /\ records[pos].dev = d /\ pos \in Used(order)
  BY <1>1 DEF Listing, Record, Used, Pos
<1>3. PriorityWrites(order, pos, idx, RecordOf(d), priority) =
        s \o (IF priority THEN << >> ELSE <<PutIndex(Sunk(m, [records EXCEPT ![pos] = now]))>>)
  BY DEF PriorityWrites
<1> HIDE DEF now, m
<1>4. /\ Complete(records, order) /\ records \in Records /\ Distinct(order)
      /\ Registrations(mode, Store)
  BY <1>1, StoreFields DEF Final, Safe
<1>5. /\ s \in Seq(Writes) /\ Runs(mode, Store, s, z) /\ Safe(mode, z)
      /\ Complete(z.records, z.order)
      /\ z.records = [records EXCEPT ![pos] = now] /\ z.attrs = attrs /\ z.db = db
      /\ z.order = m /\ z.order[0] = pos /\ Used(z.order) = Used(order) \cup {pos}
      /\ SortedFrom(0, records, order) => /\ SortedFrom(1, z.records, z.order)
                                          /\ now.priority => SortedFrom(0, z.records, z.order)
  BY <1>1, <1>2, <1>4, Promoting, StoreFields DEF m
<1> HIDE DEF s, z
<1>6. ASSUME NEW u, u.records = z.records, u.attrs = z.attrs, u.db = z.db,
             Used(u.order) = Used(z.order), Complete(u.records, u.order),
             SortedFrom(0, records, order) => SortedFrom(0, u.records, u.order)
      PROVE  Final(mode, u)
  <2>1. Registrations(mode, u)
    <3>1. d \in DOMAIN db /\ ({"full", "keys", "debug"} \cap mode = {} => db[d] = now.trusted)
      BY <1>2, <1>4, StoreFields DEF Registrations
    <3> QED BY <3>1, <1>1, <1>2, <1>4, <1>5, <1>6, RegistrationsKept
  <2>2. OwnAttributes(Store) => OwnAttributes(u)
    BY <1>1, <1>2, <1>4, <1>5, <1>6, OwnAttributesKept
  <2> QED BY <1>1, <1>6, <2>1, <2>2, StoreFields DEF Final
<1>7. CASE priority
  <2>1. Final(mode, z)
    BY <1>7, <1>2, <1>5, <1>6
  <2>2. PriorityWrites(order, pos, idx, RecordOf(d), priority) = s
    BY <1>3, <1>5, <1>7, ConcatEmptySeq
  <2> QED BY <1>1, <1>5, <2>1, <2>2, BeginSafely DEF Idle
<1>8. CASE ~ priority
  <2> DEFINE w == PutIndex(Sunk(z.order, z.records))
             u == After(w, z)
  <2>1. pos # Unused
    BY <1>2 DEF Pos
  <2>2. /\ Safe(mode, u) /\ Complete(u.records, u.order)
        /\ u.records = z.records /\ u.attrs = z.attrs /\ u.db = z.db
        /\ Used(u.order) = Used(z.order)
        /\ ~ z.records[z.order[0]].priority /\ SortedFrom(1, z.records, z.order)
             => SortedFrom(0, u.records, u.order)
    BY <1>5, <2>1, IndexSunk
  <2>3. ~ z.records[z.order[0]].priority
    BY <1>2, <1>4, <1>5, <1>8 DEF Records
  <2>4. u.order = Sunk(z.order, z.records)
    BY DEF After, PutIndex
  <2> HIDE DEF u
  <2>5. Final(mode, u)
    BY <1>5, <1>6, <2>2, <2>3
  <2>6. Runs(mode, z, <<w>>, u)
    BY <1>5, <2>2, RunsOne DEF u
  <2>7. <<w>> \in Seq(Writes)
    <3>1. u.order \in Index
      BY <2>2 DEF Safe
    <3> QED BY <3>1, <2>4, WritesType
  <2>8. PriorityWrites(order, pos, idx, RecordOf(d), priority) = s \o <<w>>
    BY <1>3, <1>5, <1>8
  <2> HIDE DEF w
  <2>9. Runs(mode, Store, s \o <<w>>, u) /\ s \o <<w>> \in Seq(Writes)
    BY <1>5, <2>6, <2>7, RunsThen, ConcatProperties
  <2> QED BY <1>1, <2>5, <2>8, <2>9, BeginSafely DEF Idle
<1> QED BY <1>7, <1>8

LEMMA UpdateTdlSafe ==
  ASSUME IInv, NEW d \in Device, NEW stored \in BOOLEAN, UpdateTdl(d, stored)
  PROVE  IInv'
<1> USE PlacesAssumption, SentinelAssumption
<1> DEFINE pos == PosOf(d)
           idx == IndexOf(d)
           now == RecordOf(d)
           s   == <<PutRecord(pos, now), PutIndex(Moved(order, pos, idx))>>
           w   == IF stored THEN s ELSE << >>
           x   == Store'
           z   == After(PutIndex(Moved(order, pos, idx)), After(PutRecord(pos, now), x))
<1>1. /\ Idle /\ Safe(mode, Store) /\ Final(mode, Store) /\ Listing(d, idx, pos, now)
      /\ "keys" \in mode /\ (~ Found(d) /\ Size = N => "evict" \in mode)
      /\ todo' = w
      /\ db' = IF d \in DOMAIN db THEN db
               ELSE [e \in DOMAIN db \cup {d} |-> IF e = d THEN FALSE ELSE db[e]]
      /\ mode' = mode /\ records' = records /\ attrs' = attrs /\ order' = order
      /\ state' = state /\ crashes' = crashes
  <2>1. Ready("keys")
    BY DEF UpdateTdl
  <2> QED BY <2>1, ReadyToFind DEF UpdateTdl
<1> HIDE DEF pos, idx
<1>2. /\ x.records = records /\ x.attrs = attrs /\ x.order = order /\ x.db = db'
  BY <1>1 DEF Store
<1>3. /\ DOMAIN x.db = DOMAIN db \cup {d} /\ \A e \in DOMAIN db : x.db[e] = db[e]
      /\ d \notin DOMAIN db => x.db[d] = FALSE
  BY <1>1, <1>2
<1> HIDE DEF x
<1>4. Safe(mode, x)
  <2>1. DOMAIN x.db \subseteq Device /\ x.db \in [DOMAIN x.db -> BOOLEAN]
    <3>1. DOMAIN db \subseteq Device /\ db \in [DOMAIN db -> BOOLEAN]
      BY <1>1, StoreFields DEF Safe
    <3>2. CASE d \in DOMAIN db
      BY <3>1, <3>2, <1>1, <1>2
    <3>3. CASE d \notin DOMAIN db
      BY <3>1, <3>3, <1>1, <1>2
    <3> QED BY <3>2, <3>3
  <2> QED BY <1>1, <1>2, <2>1, StoreFields DEF Safe
<1>5. /\ Complete(records, order) /\ records \in Records /\ Distinct(order)
      /\ Registrations(mode, Store)
  BY <1>1, StoreFields DEF Final, Safe
<1>6. w \in Seq(Writes) /\ \E y : Runs(mode, x, w, y) /\ Final(mode, y)
  <2>1. CASE ~ stored
    <3>1. Final(mode, x)
      BY <1>1, <1>2, <1>3, StoreFields DEF Final, Registrations, OwnAttributes
    <3> QED BY <2>1, <1>4, <3>1, RunsNothing
  <2>2. CASE stored
    <3>1. now \in Record /\ now.dev = d /\ ("priority" \notin mode => ~ now.priority)
      <4>1. CASE Found(d)
        BY <4>1, <1>1, StoreFields DEF Listing, Safe
      <4>2. CASE ~ Found(d)
        BY <4>2, <1>1 DEF Listing
      <4> QED BY <4>1, <4>2
    <3> HIDE DEF now
    <3>2. /\ s \in Seq(Writes) /\ Runs(mode, x, s, z) /\ Safe(mode, z)
          /\ Complete(z.records, z.order)
          /\ z.records = [records EXCEPT ![pos] = now] /\ z.attrs = attrs /\ z.db = x.db
          /\ Used(z.order) = Used(order) \cup {pos}
      <4>1. Listing(d, idx, pos, now) /\ Complete(records, order)
        BY <1>1, <1>5
      <4>2. x.records = records /\ x.attrs = attrs /\ x.order = order
        BY <1>2
      <4> QED BY <4>1, <4>2, <1>4, <3>1, Promoting
    <3> HIDE DEF z, s
    <3>3. Registrations(mode, z)
      BY <1>1, <1>3, <1>5, <3>1, <3>2, RegistrationsKept
    <3>4. {"evict", "crash"} \cap mode = {} /\ OwnAttributes(Store) => OwnAttributes(z)
      BY <1>1, <1>5, <3>1, <3>2, OwnAttributesKept
    <3>5. Final(mode, z)
      BY <1>1, <3>2, <3>3, <3>4, StoreFields DEF Final
    <3> QED BY <2>2, <3>2, <3>5
  <2> QED BY <2>1, <2>2
<1> HIDE DEF w
<1> QED BY <1>1, <1>6 DEF x, IInv, Idle

(* z is the store with the record of a bonded device added or changed. *)
Bonded(pos, now, z) ==
  /\ Safe(mode, z) /\ Complete(z.records, z.order)
  /\ z.records = [records EXCEPT ![pos] = now] /\ z.attrs = attrs /\ z.db = db
  /\ Used(z.order) = Used(order) \cup {pos}
  /\ SortedFrom(0, records, order) => SortedFrom(0, z.records, z.order)

(* The series with which a bonded device is stored: its record, the index, *)
(* and both again by ConnectionAuthSetPriorityDevice, whose last write     *)
(* lets the device sink below the priority devices.                        *)
LEMMA Bonding ==
  ASSUME NEW d \in Device, NEW idx, NEW pos, NEW rec0, Listing(d, idx, pos, rec0),
         Safe(mode, Store), Complete(records, order),
         NEW rec \in Record, rec.dev = d, "priority" \notin mode => ~ rec.priority
  PROVE  LET m == Moved(order, pos, idx)
             s == <<PutRecord(pos, rec), PutIndex(m)>> \o PriorityWrites(m, pos, 0, rec, FALSE)
         IN  /\ s \in Seq(Writes)
             /\ \E z : /\ Runs(mode, Store, s, z)
                       /\ Bonded(pos, [rec EXCEPT !.priority = FALSE], z)
<1> USE PlacesAssumption, SentinelAssumption
<1> DEFINE m   == Moved(order, pos, idx)
           now == [rec EXCEPT !.priority = FALSE]
           mm  == Moved(m, pos, 0)
           u   == Sunk(mm, [records EXCEPT ![pos] = now])
           s1  == <<PutRecord(pos, rec), PutIndex(m)>>
           s2  == <<PutRecord(pos, now), PutIndex(mm)>>
           s3  == <<PutIndex(u)>>
           x1  == After(PutIndex(m), After(PutRecord(pos, rec), Store))
           y2  == After(PutRecord(pos, now), x1)
           x2  == After(PutIndex(mm), y2)
           x3  == After(PutIndex(u), x2)
<1>1. PriorityWrites(m, pos, 0, rec, FALSE) = s2 \o s3
  BY DEF PriorityWrites
<1>2. now \in Record /\ now.dev = d /\ ~ now.priority
  BY DEF Record
<1> HIDE DEF m, now, mm, u
<1>3. /\ s1 \in Seq(Writes) /\ Runs(mode, Store, s1, x1) /\ Safe(mode, x1)
      /\ Complete(x1.records, x1.order)
      /\ x1.records = [records EXCEPT ![pos] = rec] /\ x1.attrs = attrs /\ x1.db = db
      /\ x1.order = m /\ x1.order[0] = pos /\ Used(x1.order) = Used(order) \cup {pos}
  BY Promoting, StoreFields DEF m
<1> HIDE DEF s1, x1
<1>4. /\ pos \in Pos /\ idx \in Pos /\ pos # Unused /\ 0 \in Pos
      /\ order \in Index /\ Compact(order) /\ Distinct(order) /\ records \in Records
  BY StoreFields DEF Safe, Listing, Pos
<1>5. Place(x1, pos, 0) /\ Alone(x1, pos, now.dev)
  <2>1. Distinct(x1.order)
    BY <1>3 DEF Safe
  <2>2. \A p : p # pos => x1.records[p] = records[p]
    BY <1>3, <1>4 DEF Records
  <2> QED BY <2>1, <2>2, <1>2, <1>3, <1>4 DEF Place, Alone, Distinct, Listing, Pos
<1>6. /\ Safe(mode, y2) /\ Safe(mode, x2)
      /\ x2.records = [x1.records EXCEPT ![pos] = now] /\ x2.attrs = x1.attrs /\ x2.db = x1.db
      /\ x2.order = mm /\ x2.order[0] = pos /\ Used(x2.order) = Used(x1.order) \cup {pos}
      /\ Complete(x2.records, x2.order)
  <2>1. mm = Moved(x1.order, pos, 0)
    BY <1>3 DEF mm
  <2> HIDE DEF y2, x2
  <2>2. Safe(mode, y2) /\ Safe(mode, x2) /\ Promoted(x1, pos, 0, now, x2)
    BY <2>1, <1>2, <1>3, <1>4, <1>5, RecordThenIndex DEF y2, x2
  <2> QED BY <2>1, <2>2, <1>3 DEF Promoted
<1>7. s2 \in Seq(Writes) /\ Runs(mode, x1, s2, x2)
  <2>1. x2.order \in Index
    BY <1>6 DEF Safe
  <2>2. s2 \in Seq(Writes)
    BY <2>1, <1>2, <1>4, <1>6, WritesType
  <2> HIDE DEF y2, x2
  <2> QED BY <2>2, <1>3, <1>6, RunsTwo DEF y2, x2
<1> HIDE DEF s2, y2, x2
<1>8. x2.records = [records EXCEPT ![pos] = now]
  BY <1>3, <1>4, <1>6 DEF Records
<1>9. SortedFrom(0, records, order) => SortedFrom(1, x2.records, x2.order)
  <2>1. mm = m
    BY <1>3 DEF mm, m, Moved, Pos
  <2>2. \A j \in Pos : j # idx => order[j] # pos
    BY DEF Listing
  <2> QED BY <2>1, <2>2, <1>2, <1>4, <1>6, <1>8, MovedSorted DEF m
<1>10. /\ Safe(mode, x3) /\ Complete(x3.records, x3.order)
       /\ x3.records = x2.records /\ x3.attrs = x2.attrs /\ x3.db = x2.db
       /\ Used(x3.order) = Used(x2.order)
       /\ ~ x2.records[x2.order[0]].priority /\ SortedFrom(1, x2.records, x2.order)
            => SortedFrom(0, x3.records, x3.order)
  <2>1. u = Sunk(x2.order, x2.records)
    BY <1>6, <1>8 DEF u
  <2> HIDE DEF x3
  <2> QED BY <2>1, <1>4, <1>6, IndexSunk DEF x3
<1>11. ~ x2.records[x2.order[0]].priority
  BY <1>2, <1>4, <1>6, <1>8 DEF Records
<1>12. s3 \in Seq(Writes) /\ Runs(mode, x2, s3, x3)
  <2>1. x3.order = u
    BY DEF After, PutIndex
  <2>2. u \in Index
    BY <2>1, <1>10 DEF Safe
  <2>3. s3 \in Seq(Writes)
    BY <2>2, WritesType
  <2> HIDE DEF x3
  <2> QED BY <2>3, <1>6, <1>10, RunsOne DEF x3
<1> HIDE DEF s3, x3
<1>13. s2 \o s3 \in Seq(Writes) /\ Runs(mode, x1, s2 \o s3, x3)
  BY <1>7, <1>12, RunsThen, ConcatProperties
<1>14. s1 \o (s2 \o s3) \in Seq(Writes) /\ Runs(mode, Store, s1 \o (s2 \o s3), x3)
  BY <1>3, <1>13, RunsThen, ConcatProperties
<1>15. Used(x3.order) = Used(order) \cup {pos}
  BY <1>3, <1>6, <1>10
<1>16. Bonded(pos, now, x3)
  BY <1>3, <1>6, <1>8, <1>9, <1>10, <1>11, <1>15 DEF Bonded
<1> QED BY <1>1, <1>14, <1>16 DEF s1, m, now

(* y is a final state but for the registration of d. *)
FinalOnceRegistered(y, d, t) ==
  \A z : /\ z.records = y.records /\ z.attrs = y.attrs /\ z.order = y.order
         /\ DOMAIN z.db = DOMAIN y.db \cup {d} /\ z.db[d] = t
         /\ \A e \in DOMAIN y.db : e # d => z.db[e] = y.db[e]
         => Final(mode, z)

LEMMA AddDeviceSafe ==
  ASSUME IInv, NEW d \in Device, NEW trusted \in BOOLEAN, NEW stored \in BOOLEAN,
         NEW key \in {"bonded", "debug", "none"}, AddDevice(d, trusted, key, stored)
  PROVE  IInv'
<1> USE PlacesAssumption, SentinelAssumption
<1> DEFINE pos == PosOf(d)
           idx == IndexOf(d)
           rec == [RecordOf(d) EXCEPT !.trusted = trusted]
           now == [rec EXCEPT !.priority = FALSE]
           m   == Moved(order, pos, idx)
           add == <<PutRecord(pos, rec), PutIndex(m)>> \o PriorityWrites(m, pos, 0, rec, FALSE)
           s   == CASE key = "debug" -> << >>
                    [] key = "none" -> IF Found(d) THEN DeleteWrites(pos, idx) ELSE << >>
                    [] key = "bonded" -> IF stored THEN add ELSE << >>
           w   == SmAdd(d, trusted)
<1>1. /\ Idle /\ Safe(mode, Store) /\ Final(mode, Store) /\ Listing(d, idx, pos, RecordOf(d))
      /\ (~ stored => "full" \in mode) /\ (key = "debug" => "debug" \in mode)
      /\ (~ Found(d) /\ Size = N => "evict" \in mode)
      /\ Begin(s \o <<w>>)
  <2>1. Ready("add")
    BY DEF AddDevice
  <2> QED BY <2>1, ReadyToFind DEF AddDevice
<1>2. /\ Complete(records, order) /\ records \in Records /\ Distinct(order)
      /\ Registrations(mode, Store)
  BY <1>1, StoreFields DEF Final, Safe
<1> HIDE DEF pos, idx
(* It is enough that the writes to the store end in a state that is final  *)
(* once the device is registered.                                          *)
<1>3. SUFFICES /\ s \in Seq(Writes)
               /\ \E y : /\ Runs(mode, Store, s, y) /\ Safe(mode, y)
                         /\ FinalOnceRegistered(y, d, trusted)
  <2>1. PICK y : /\ Runs(mode, Store, s, y) /\ Safe(mode, y)
                 /\ FinalOnceRegistered(y, d, trusted)
    BY <1>3
  <2> DEFINE z == After(w, y)
  <2>2. /\ Safe(mode, z) /\ z.records = y.records /\ z.attrs = y.attrs /\ z.order = y.order
        /\ DOMAIN z.db = DOMAIN y.db \cup {d} /\ z.db[d] = trusted
        /\ \A e \in DOMAIN y.db : e # d => z.db[e] = y.db[e]
    BY <2>1, Registering
  <2>3. Runs(mode, y, <<w>>, z)
    BY <2>1, <2>2, RunsOne
  <2>4. <<w>> \in Seq(Writes)
    BY WritesType
  <2> HIDE DEF z, s, w
  <2>5. Final(mode, z)
    BY <2>1, <2>2 DEF FinalOnceRegistered
  <2>6. Runs(mode, Store, s \o <<w>>, z) /\ s \o <<w>> \in Seq(Writes)
    BY <1>3, <2>1, <2>3, <2>4, RunsThen, ConcatProperties
  <2> QED BY <1>1, <2>5, <2>6, BeginSafely DEF Idle
(* Nothing is stored: then the trust of a listed record may differ, for a  *)
(* debug key or a full store.                                              *)
<1>4. ASSUME s = << >>, {"full", "debug"} \cap mode # {} \/ ~ Found(d)
      PROVE  /\ s \in Seq(Writes)
             /\ \E y : /\ Runs(mode, Store, s, y) /\ Safe(mode, y)
                       /\ FinalOnceRegistered(y, d, trusted)
  <2>1. Runs(mode, Store, s, Store)
    BY <1>1, <1>4, RunsNothing
  <2>2. ASSUME NEW z, z.records = records, z.attrs = attrs, z.order = order,
               DOMAIN z.db = DOMAIN db \cup {d}, z.db[d] = trusted,
               \A e \in DOMAIN db : e # d => z.db[e] = db[e]
        PROVE  Final(mode, z)
    <3>1. Registrations(mode, z)
      <4>1. \A p \in Used(order) : records[p].dev \in DOMAIN db
        BY <1>2, StoreFields DEF Registrations
      <4>2. CASE {"full", "debug"} \cap mode # {}
        BY <4>1, <4>2, <2>2 DEF Registrations
      <4>3. CASE ~ Found(d)
        <5>1. \A p \in Used(order) : records[p].dev # d
          BY <4>3, <1>1 DEF Listing, Used
        <5> QED BY <4>1, <5>1, <1>2, <2>2, StoreFields DEF Registrations
      <4> QED BY <1>4, <4>2, <4>3
    <3> QED BY <1>1, <2>2, <3>1, StoreFields DEF Final, OwnAttributes
  <2>3. FinalOnceRegistered(Store, d, trusted)
    BY <2>2, StoreFields DEF FinalOnceRegistered
  <2> HIDE DEF s
  <2> QED BY <1>1, <1>4, <2>1, <2>3
<1>5. CASE key = "debug"
  BY <1>1, <1>4, <1>5
<1>6. CASE key = "bonded" /\ ~ stored
  BY <1>1, <1>4, <1>6
<1>7. CASE key = "none" /\ ~ Found(d)
  BY <1>1, <1>4, <1>7
<1>8. CASE key = "none" /\ Found(d)
  <2>1. s = DeleteWrites(pos, idx)
    BY <1>8
  <2> HIDE DEF s
  <2>2. PICK y : /\ Runs(mode, Store, DeleteWrites(pos, idx), y) /\ Final(mode, y)
                 /\ \A p \in Used(y.order) : y.records[p] \in Record /\ y.records[p].dev # d
    BY <1>1, <1>8, Deleting
  <2>3. DeleteWrites(pos, idx) \in Seq(Writes)
    BY <1>1, <1>8, Deleting
  <2>4. Safe(mode, y)
    BY <2>2, <2>3, RunsEnd
  <2>5. ASSUME NEW z, z.records = y.records, z.attrs = y.attrs, z.order = y.order,
               DOMAIN z.db = DOMAIN y.db \cup {d}, z.db[d] = trusted,
               \A e \in DOMAIN y.db : e # d => z.db[e] = y.db[e]
        PROVE  Final(mode, z)
    <3>1. Registrations(mode, z)
      BY <2>2, <2>5 DEF Final, Registrations
    <3> QED BY <2>2, <2>5, <3>1 DEF Final, OwnAttributes
  <2>6. FinalOnceRegistered(y, d, trusted)
    BY <2>5 DEF FinalOnceRegistered
  <2> QED BY <2>1, <2>2, <2>3, <2>4, <2>6
<1>9. CASE key = "bonded" /\ stored
  <2>1. s = add
    BY <1>9
  <2>2. /\ rec \in Record /\ rec.dev = d /\ rec.trusted = trusted
        /\ "priority" \notin mode => ~ rec.priority
    <3>1. RecordOf(d) \in Record /\ RecordOf(d).dev = d
      BY <1>1 DEF Listing
    <3>2. rec \in Record /\ rec.dev = d /\ rec.trusted = trusted /\ rec.priority = RecordOf(d).priority
      BY <3>1 DEF Record
    <3>3. CASE Found(d)
      BY <3>1, <3>2, <3>3, <1>1, StoreFields DEF Listing, Safe
    <3>4. CASE ~ Found(d)
      BY <3>2, <3>4, <1>1 DEF Listing
    <3> QED BY <3>2, <3>3, <3>4
  <2>3. now \in Record /\ now.dev = d /\ now.trusted = trusted
    BY <2>2 DEF Record
  <2> HIDE DEF rec
  <2>4. add \in Seq(Writes) /\ \E y : Runs(mode, Store, add, y) /\ Bonded(pos, now, y)
    BY <1>1, <1>2, <2>2, Bonding
  <2> HIDE DEF s, add, now
  <2>5. PICK y : /\ Runs(mode, Store, add, y) /\ Safe(mode, y) /\ Complete(y.records, y.order)
                 /\ y.records = [records EXCEPT ![pos] = now]
                 /\ y.attrs = attrs /\ y.db = db
                 /\ Used(y.order) = Used(order) \cup {pos}
                 /\ SortedFrom(0, records, order) => SortedFrom(0, y.records, y.order)
    BY <2>4 DEF Bonded
  <2>6. ASSUME NEW z, z.records = y.records, z.attrs = y.attrs, z.order = y.order,
               DOMAIN z.db = DOMAIN y.db \cup {d}, z.db[d] = trusted,
               \A e \in DOMAIN y.db : e # d => z.db[e] = y.db[e]
        PROVE  Final(mode, z)
    <3>1. Registrations(mode, z)
      BY <1>1, <1>2, <2>3, <2>5, <2>6, RegistrationsKept
    <3>2. {"evict", "crash"} \cap mode = {} /\ OwnAttributes(Store) => OwnAttributes(z)
      BY <1>1, <1>2, <2>3, <2>5, <2>6, OwnAttributesKept
    <3> QED BY <1>1, <2>5, <2>6, <3>1, <3>2, StoreFields DEF Final
  <2>7. FinalOnceRegistered(y, d, trusted)
    BY <2>6 DEF FinalOnceRegistered
  <2> QED BY <2>1, <2>4, <2>5, <2>7
<1> QED BY <1>5, <1>6, <1>7, <1>8, <1>9

(***************************************************************************)
(* connectionAuthDeleteAllDevice. Writes 3 * i + 1 .. 3 * i + 3 are those  *)
(* of entry i; Halfway(k) is the store after k of them.                    *)
(***************************************************************************)
RecordGone(p, k) == \E i \in Pos : Deletable(i) /\ order[i] = p /\ 3 * i + 1 <= k
AttrGone(p, k)   == \E i \in Pos : Deletable(i) /\ order[i] = p /\ 3 * i + 3 <= k
DeviceGone(e, k) == \E i \in Pos : Deletable(i) /\ records[order[i]].dev = e /\ 3 * i + 2 <= k

Halfway(k) ==
  [records |-> [p \in Pos |-> IF RecordGone(p, k) THEN NoRecord ELSE records[p]],
   attrs   |-> [p \in Pos |-> IF AttrGone(p, k) THEN NoRecord ELSE attrs[p]],
   order   |-> order,
   db      |-> [e \in {f \in DOMAIN db : ~ DeviceGone(f, k)} |-> db[e]]]

LEMMA WritesOfEntry ==
  ASSUME NEW k \in 1..(3 * N)
  PROVE  \E i \in Pos : i = (k - 1) \div 3 /\ k \in {3 * i + 1, 3 * i + 2, 3 * i + 3}
<1> USE PlacesAssumption
<1> DEFINE i == (k - 1) \div 3
<1>1. /\ k \in Int /\ k >= 1 /\ k <= 3 * N
      /\ i \in Int /\ 3 * i <= k - 1 /\ k - 1 < 3 * i + 3
  OBVIOUS
<1> HIDE DEF i
<1>2. i \in Pos
  BY <1>1 DEF Pos
<1>3. k \in {3 * i + 1, 3 * i + 2, 3 * i + 3}
  BY <1>1
<1> QED BY <1>2, <1>3 DEF i

LEMMA HalfwayStep ==
  ASSUME Safe(mode, Store), NEW k \in 1..(3 * N)
  PROVE  Halfway(k) = After(DeleteAllWrites[k], Halfway(k - 1)) /\ DeleteAllWrites[k] \in Writes
<1> USE PlacesAssumption, SentinelAssumption
<1> DEFINE w == DeleteAllWrites[k]
           x == Halfway(k - 1)
<1>1. PICK i \in Pos : i = (k - 1) \div 3 /\ k \in {3 * i + 1, 3 * i + 2, 3 * i + 3}
  BY WritesOfEntry
<1> DEFINE p == order[i]
<1>2. k \in Int /\ i \in Int /\ \A j \in Pos : j \in Int
  BY DEF Pos
<1>3. /\ order \in Index /\ records \in Records /\ attrs \in [Pos -> Device \cup {NoRecord}]
      /\ Distinct(order)
  BY StoreFields DEF Safe
<1>4. /\ x.records = [q \in Pos |-> IF RecordGone(q, k - 1) THEN NoRecord ELSE records[q]]
      /\ x.attrs = [q \in Pos |-> IF AttrGone(q, k - 1) THEN NoRecord ELSE attrs[q]]
      /\ x.order = order
      /\ x.db = [e \in {f \in DOMAIN db : ~ DeviceGone(f, k - 1)} |-> db[e]]
  BY DEF Halfway
<1>5. w = CASE ~ Deletable(i)                -> Nothing
            [] Deletable(i) /\ k = 3 * i + 1 -> PutRecord(p, NoRecord)
            [] Deletable(i) /\ k = 3 * i + 2 -> SmRemove(records[p].dev)
            [] Deletable(i) /\ k = 3 * i + 3 -> PutAttr(p, NoRecord)
  BY <1>1 DEF DeleteAllWrites, DeleteAllWrite
<1>6. Deletable(i) => p \in Pos /\ records[p] \in Record
  BY <1>3 DEF Deletable, Readable, Index, Records
<1>7. Deletable(i) => p \in Pos /\ records[p].dev \in Device
  BY <1>6 DEF Record
<1> HIDE DEF w, x
<1> DEFINE y == Halfway(k)
<1>8. /\ y.records = [q \in Pos |-> IF RecordGone(q, k) THEN NoRecord ELSE records[q]]
      /\ y.attrs = [q \in Pos |-> IF AttrGone(q, k) THEN NoRecord ELSE attrs[q]]
      /\ y.order = order
      /\ y.db = [e \in {f \in DOMAIN db : ~ DeviceGone(f, k)} |-> db[e]]
      /\ y = [records |-> y.records, attrs |-> y.attrs, order |-> y.order, db |-> y.db]
  BY DEF Halfway
<1> HIDE DEF y
<1>9. ASSUME ~ (Deletable(i) /\ k = 3 * i + 1) PROVE y.records = x.records
  <2>1. \A q : RecordGone(q, k) <=> RecordGone(q, k - 1)
    BY <1>1, <1>2, <1>9 DEF RecordGone
  <2> QED BY <2>1, <1>4, <1>8
<1>10. ASSUME ~ (Deletable(i) /\ k = 3 * i + 3) PROVE y.attrs = x.attrs
  <2>1. \A q : AttrGone(q, k) <=> AttrGone(q, k - 1)
    BY <1>1, <1>2, <1>10 DEF AttrGone
  <2> QED BY <2>1, <1>4, <1>8
<1>11. ASSUME ~ (Deletable(i) /\ k = 3 * i + 2) PROVE y.db = x.db
  <2>1. \A j \in Pos : Deletable(j) => (3 * j + 2 <= k <=> 3 * j + 2 <= k - 1)
    BY <1>1, <1>2, <1>11
  <2>2. \A e : DeviceGone(e, k) <=> DeviceGone(e, k - 1)
    BY <2>1 DEF DeviceGone
  <2> QED BY <2>2, <1>4, <1>8
<1>12. ASSUME Deletable(i), k = 3 * i + 1 PROVE y.records = [x.records EXCEPT ![p] = NoRecord]
  <2>1. \A q : RecordGone(q, k) <=> RecordGone(q, k - 1) \/ q = p
    BY <1>1, <1>2, <1>12 DEF RecordGone
  <2> HIDE DEF p
  <2> QED BY <2>1, <1>4, <1>8
<1>13. ASSUME Deletable(i), k = 3 * i + 3 PROVE y.attrs = [x.attrs EXCEPT ![p] = NoRecord]
  <2>1. \A q : AttrGone(q, k) <=> AttrGone(q, k - 1) \/ q = p
    BY <1>1, <1>2, <1>13 DEF AttrGone
  <2> HIDE DEF p
  <2> QED BY <2>1, <1>4, <1>8
<1>14. ASSUME Deletable(i), k = 3 * i + 2
       PROVE  y.db = [e \in DOMAIN x.db \ {records[p].dev} |-> x.db[e]]
  <2> DEFINE dev == records[p].dev
  <2>1. \A e : DeviceGone(e, k) <=> DeviceGone(e, k - 1) \/ e = dev
    BY <1>1, <1>2, <1>14 DEF DeviceGone
  <2> HIDE DEF dev
  <2>2. DOMAIN x.db = {f \in DOMAIN db : ~ DeviceGone(f, k - 1)}
    BY <1>4
  <2>3. {f \in DOMAIN db : ~ DeviceGone(f, k)} = DOMAIN x.db \ {dev}
    BY <2>1, <2>2
  <2>4. y.db = [e \in DOMAIN x.db \ {dev} |-> x.db[e]]
    BY <2>2, <2>3, <1>4, <1>8
  <2> QED BY <2>4 DEF dev
<1> HIDE DEF p
<1>15. CASE ~ Deletable(i)
  <2>1. w = Nothing
    BY <1>5, <1>15
  <2>2. After(w, x) = y
    BY <2>1, <1>4, <1>8, <1>9, <1>10, <1>11, <1>15 DEF After, Nothing
  <2> QED BY <2>1, <2>2, WritesType DEF w, x, y
<1>16. CASE Deletable(i) /\ k = 3 * i + 1
  <2>1. w = PutRecord(p, NoRecord)
    BY <1>2, <1>5, <1>16
  <2>2. After(w, x) = y
    BY <2>1, <1>2, <1>4, <1>8, <1>10, <1>11, <1>12, <1>16 DEF After, PutRecord
  <2> QED BY <2>1, <2>2, <1>6, <1>16, WritesType DEF w, x, y
<1>17. CASE Deletable(i) /\ k = 3 * i + 2
  <2>1. w = SmRemove(records[p].dev)
    BY <1>2, <1>5, <1>17
  <2>2. k # 3 * i + 1 /\ k # 3 * i + 3
    BY <1>2, <1>17
  <2>3. y.records = x.records /\ y.attrs = x.attrs /\ y.order = x.order
    BY <2>2, <1>4, <1>8, <1>9, <1>10
  <2> DEFINE dev == records[p].dev
  <2>4. y.db = [e \in DOMAIN x.db \ {dev} |-> x.db[e]] /\ w = SmRemove(dev)
    BY <2>1, <1>14, <1>17
  <2> HIDE DEF dev
  <2>5. After(w, x) = y
    BY <2>3, <2>4, <1>8 DEF After, SmRemove
  <2> QED BY <2>1, <2>5, <1>7, <1>17, WritesType DEF w, x, y
<1>18. CASE Deletable(i) /\ k = 3 * i + 3
  <2>1. w = PutAttr(p, NoRecord)
    BY <1>2, <1>5, <1>18
  <2>2. After(w, x) = y
    BY <2>1, <1>2, <1>4, <1>8, <1>9, <1>11, <1>13, <1>18 DEF After, PutAttr
  <2> QED BY <2>1, <2>2, <1>6, <1>18, WritesType DEF w, x, y
<1> QED BY <1>1, <1>15, <1>16, <1>17, <1>18

LEMMA HalfwaySafe ==
  ASSUME Safe(mode, Store), NEW k
  PROVE  Safe(mode, Halfway(k))
<1> USE PlacesAssumption, SentinelAssumption
<1> DEFINE y == Halfway(k)
<1>1. /\ y.records = [q \in Pos |-> IF RecordGone(q, k) THEN NoRecord ELSE records[q]]
      /\ y.attrs = [q \in Pos |-> IF AttrGone(q, k) THEN NoRecord ELSE attrs[q]]
      /\ y.order = order
      /\ y.db = [e \in {f \in DOMAIN db : ~ DeviceGone(f, k)} |-> db[e]]
  BY DEF Halfway
<1> HIDE DEF y
<1>2. /\ records \in Records /\ order \in Index /\ attrs \in [Pos -> Device \cup {NoRecord}]
      /\ OneRecordEach(records, order)
      /\ DOMAIN db \subseteq Device /\ db \in [DOMAIN db -> BOOLEAN]
      /\ "priority" \notin mode => \A p \in Pos : records[p] # NoRecord => ~ records[p].priority
  BY StoreFields DEF Safe
<1>3. y.records \in Records /\ \A p \in Pos : y.records[p] # NoRecord => y.records[p] = records[p]
  BY <1>1, <1>2 DEF Records
<1>4. y.attrs \in [Pos -> Device \cup {NoRecord}]
  BY <1>1, <1>2
<1>5. DOMAIN y.db \subseteq Device /\ y.db \in [DOMAIN y.db -> BOOLEAN]
  BY <1>1, <1>2
<1>6. OneRecordEach(y.records, y.order)
  <2>1. \A p \in Used(order) : p \in Pos
    BY <1>2 DEF Used, Index
  <2> QED BY <2>1, <1>1, <1>2, <1>3 DEF OneRecordEach
<1>7. "priority" \notin mode => \A p \in Pos : y.records[p] # NoRecord => ~ y.records[p].priority
  BY <1>2, <1>3
<1> QED BY <1>1, <1>3, <1>4, <1>5, <1>6, <1>7, StoreFields DEF Safe, y

LEMMA HalfwayRuns ==
  ASSUME Safe(mode, Store)
  PROVE  /\ DeleteAllWrites \in Seq(Writes)
         /\ Runs(mode, Store, DeleteAllWrites, Halfway(3 * N))
<1> USE PlacesAssumption
<1> DEFINE s == DeleteAllWrites
<1>1. DOMAIN s = 1..(3 * N) /\ s = [k \in DOMAIN s |-> s[k]]
  <2>1. DOMAIN s = 1..(3 * N)
    BY DEF DeleteAllWrites
  <2>2. s = [k \in DOMAIN s |-> s[k]]
    BY DEF DeleteAllWrites
  <2> QED BY <2>1, <2>2
<1> HIDE DEF s
<1>2. \A k \in 1..(3 * N) : s[k] \in Writes /\ Halfway(k) = After(s[k], Halfway(k - 1))
  BY HalfwayStep DEF s
<1>3. s \in Seq(Writes)
  BY <1>1, <1>2, SeqDef
<1>4. Len(s) = 3 * N
  BY <1>1, <1>3, LenProperties
<1> DEFINE h == [k \in 0..(3 * N) |-> Halfway(k)]
<1>5. \A k \in 0..(3 * N) : h[k] = Halfway(k) /\ Safe(mode, h[k])
  BY HalfwaySafe
<1>6. Halfway(0) = Store
  <2>1. /\ records \in Records /\ order \in Index /\ attrs \in [Pos -> Device \cup {NoRecord}]
        /\ db \in [DOMAIN db -> BOOLEAN]
    BY StoreFields DEF Safe
  <2>2. \A p : ~ RecordGone(p, 0) /\ ~ AttrGone(p, 0) /\ ~ DeviceGone(p, 0)
    BY DEF RecordGone, AttrGone, DeviceGone, Pos
  <2>3. /\ [p \in Pos |-> IF RecordGone(p, 0) THEN NoRecord ELSE records[p]] = records
        /\ [p \in Pos |-> IF AttrGone(p, 0) THEN NoRecord ELSE attrs[p]] = attrs
    BY <2>1, <2>2 DEF Records
  <2>4. [e \in {f \in DOMAIN db : ~ DeviceGone(f, 0)} |-> db[e]] = db
    BY <2>1, <2>2
  <2> QED BY <2>3, <2>4 DEF Halfway, Store
<1> HIDE DEF h
<1>7. h[0] = Store /\ h[3 * N] = Halfway(3 * N)
  BY <1>5, <1>6
<1>8. \A k \in 1..(3 * N) : h[k] = After(s[k], h[k - 1])
  BY <1>2, <1>5
<1>9. Runs(mode, Store, s, Halfway(3 * N))
  BY <1>4, <1>5, <1>7, <1>8 DEF Runs
<1> QED BY <1>3, <1>9 DEF s

(* The entries that stay are those of the priority devices, and they come  *)
(* first.                                                                  *)
LEMMA DeleteAllDeviceSafe ==
  ASSUME IInv, SafeModes, DeleteAllDevice
  PROVE  IInv'
<1> USE PlacesAssumption, SentinelAssumption
<1> DEFINE x == Halfway(3 * N)
           ord == IndexAfterDeleteAll
           z == After(PutIndex(ord), x)
<1>1. /\ Idle /\ "deleteAll" \in mode /\ Safe(mode, Store) /\ Final(mode, Store)
      /\ Begin(DeleteAllWrites \o <<PutIndex(ord)>>)
  <2>1. Idle /\ "deleteAll" \in mode
    BY DEF DeleteAllDevice, Ready, Idle
  <2> QED BY <2>1, IdleStore DEF DeleteAllDevice
<1>2. /\ records \in Records /\ order \in Index /\ attrs \in [Pos -> Device \cup {NoRecord}]
      /\ Compact(order) /\ Distinct(order) /\ OneRecordEach(records, order)
      /\ Complete(records, order)
      /\ "priority" \notin mode => \A p \in Pos : records[p] # NoRecord => ~ records[p].priority
      /\ "crash" \notin mode /\ "mru" \notin mode /\ "keys" \notin mode
           => SortedFrom(0, records, order)
  BY <1>1, StoreFields DEF Safe, Final
<1>3. "priority" \in mode => "crash" \notin mode /\ "mru" \notin mode /\ "keys" \notin mode
  BY <1>1 DEF SafeModes, IInv
<1>4. \A i \in Pos : order[i] # Unused =>
         /\ order[i] \in Pos /\ order[i] \in Used(order) /\ records[order[i]] \in Record
         /\ Deletable(i) <=> ~ records[order[i]].priority
  BY <1>2 DEF Used, Index, Complete, Records, Deletable, Readable
<1>5. \A i \in Pos : ~ Deletable(i) /\ order[i] # Unused => records[order[i]].priority
  BY <1>4
<1>6. ord \in Index /\ \A i \in Pos : ord[i] = IF Deletable(i) THEN Unused ELSE order[i]
  BY <1>2 DEF IndexAfterDeleteAll, Index
<1> HIDE DEF ord
<1>7. \A i \in Pos : ord[i] # Unused => /\ ord[i] = order[i] /\ ~ Deletable(i)
                                        /\ records[order[i]].priority
  BY <1>5, <1>6
<1>8. Compact(ord)
  <2> SUFFICES ASSUME NEW i \in Pos, NEW j \in Pos, j < i, ord[i] # Unused PROVE ord[j] # Unused
    BY DEF Compact
  <2>1. order[i] # Unused /\ records[order[i]].priority /\ order[i] \in Pos /\ records[order[i]] # NoRecord
    BY <1>4, <1>7, <1>2 DEF Complete
  <2>2. SortedFrom(0, records, order)
    BY <2>1, <1>2, <1>3
  <2>3. order[j] # Unused /\ records[order[j]].priority
    BY <2>1, <2>2, <1>2 DEF SortedFrom, Compact, Pos
  <2> QED BY <2>3, <1>4, <1>6
<1>9. Distinct(ord)
  BY <1>2, <1>7 DEF Distinct
<1>10. /\ Used(ord) \subseteq Used(order)
       /\ \A p \in Used(ord) : \A i \in Pos : order[i] = p => ~ Deletable(i)
  <2>1. ASSUME NEW p \in Used(ord), NEW i \in Pos, order[i] = p PROVE ~ Deletable(i)
    <3>1. PICK j \in Pos : ord[j] = p /\ p # Unused
      BY DEF Used
    <3>2. j = i
      BY <3>1, <2>1, <1>2, <1>7 DEF Distinct
    <3> QED BY <3>1, <3>2, <1>7
  <2> QED BY <2>1, <1>7 DEF Used
<1>11. /\ x.records = [q \in Pos |-> IF RecordGone(q, 3 * N) THEN NoRecord ELSE records[q]]
       /\ x.attrs = [q \in Pos |-> IF AttrGone(q, 3 * N) THEN NoRecord ELSE attrs[q]]
       /\ x.order = order
       /\ x.db = [e \in {f \in DOMAIN db : ~ DeviceGone(f, 3 * N)} |-> db[e]]
  BY DEF Halfway
<1>12. Safe(mode, x)
  BY <1>1, HalfwaySafe
<1>13. DeleteAllWrites \in Seq(Writes) /\ Runs(mode, Store, DeleteAllWrites, x)
  BY <1>1, HalfwayRuns
<1> HIDE DEF x
<1>14. z.records = x.records /\ z.attrs = x.attrs /\ z.order = ord /\ z.db = x.db
  BY DEF After, PutIndex
<1> HIDE DEF z
<1>15. Safe(mode, z)
  <2>1. OneRecordEach(z.records, z.order)
    BY <1>10, <1>11, <1>12, <1>14 DEF Safe, OneRecordEach
  <2> QED BY <2>1, <1>6, <1>8, <1>9, <1>12, <1>14 DEF Safe
<1>16. Runs(mode, x, <<PutIndex(ord)>>, z) /\ <<PutIndex(ord)>> \in Seq(Writes)
  BY <1>6, <1>12, <1>15, RunsOne, WritesType DEF z
<1>17. \A p \in Used(ord) : p \in Pos /\ z.records[p] = records[p]
  <2>1. \A p \in Used(ord) : p \in Pos /\ ~ RecordGone(p, 3 * N)
    BY <1>2, <1>10 DEF RecordGone, Used, Index
  <2> QED BY <2>1, <1>11, <1>14
<1>18. Complete(z.records, z.order)
  BY <1>2, <1>10, <1>14, <1>17 DEF Complete
<1>19. Registrations(mode, z)
  <2> SUFFICES ASSUME NEW p \in Used(ord)
               PROVE  /\ records[p].dev \in DOMAIN z.db
                      /\ z.db[records[p].dev] = db[records[p].dev]
    BY <1>1, <1>10, <1>14, <1>17, StoreFields DEF Final, Registrations
  <2>1. ~ DeviceGone(records[p].dev, 3 * N)
    <3> SUFFICES ASSUME NEW i \in Pos, Deletable(i), records[order[i]].dev = records[p].dev
                 PROVE  FALSE
      BY DEF DeviceGone
    <3>1. order[i] # p /\ order[i] # Unused /\ order[i] \in Used(order) /\ p \in Used(order)
      BY <1>10 DEF Deletable, Used
    <3>2. records[order[i]] # NoRecord /\ records[p] # NoRecord
      BY <3>1, <1>2 DEF Complete
    <3> QED BY <3>1, <3>2, <1>2 DEF OneRecordEach
  <2>2. records[p].dev \in DOMAIN db
    BY <1>1, <1>10, StoreFields DEF Final, Registrations
  <2> QED BY <2>1, <2>2, <1>11, <1>14
<1>20. SortedFrom(0, z.records, z.order)
  <2> SUFFICES ASSUME NEW i \in Pos, NEW j \in Pos, i < j, ord[j] # Unused
               PROVE  z.records[ord[i]].priority
    BY <1>14 DEF SortedFrom
  <2>1. ord[i] # Unused
    BY <1>8 DEF Compact
  <2>2. ord[i] \in Used(ord)
    BY <2>1 DEF Used
  <2> QED BY <2>1, <2>2, <1>7, <1>17
<1>21. OwnAttributes(Store) => OwnAttributes(z)
  <2> SUFFICES ASSUME OwnAttributes(Store), NEW p \in Pos, z.attrs[p] # NoRecord
               PROVE  p \in Used(ord) /\ z.attrs[p] = z.records[p].dev
    BY <1>14 DEF OwnAttributes
  <2>1. ~ AttrGone(p, 3 * N) /\ z.attrs[p] = attrs[p] /\ attrs[p] # NoRecord
    BY <1>11, <1>14
  <2>2. p \in Used(order) /\ attrs[p] = records[p].dev
    BY <2>1, StoreFields DEF OwnAttributes
  <2>3. PICK i \in Pos : order[i] = p /\ p # Unused
    BY <2>2 DEF Used
  <2>4. 3 * i + 3 <= 3 * N
    BY DEF Pos
  <2>5. ~ Deletable(i)
    BY <2>1, <2>3, <2>4 DEF AttrGone
  <2>6. p \in Used(ord)
    BY <2>3, <2>5, <1>6 DEF Used
  <2> QED BY <2>1, <2>2, <2>6, <1>17
<1>22. Final(mode, z)
  BY <1>1, <1>18, <1>19, <1>20, <1>21, StoreFields DEF Final
<1> DEFINE s == DeleteAllWrites
           t == <<PutIndex(ord)>>
<1> HIDE DEF s, t
<1>23. s \o t \in Seq(Writes) /\ Runs(mode, Store, s \o t, z)
  <2>1. /\ s \in Seq(Writes) /\ t \in Seq(Writes)
        /\ Runs(mode, Store, s, x) /\ Runs(mode, x, t, z)
    BY <1>13, <1>16 DEF s, t
  <2> QED BY <2>1, RunsThen, ConcatProperties
<1>24. Begin(s \o t)
  BY <1>1 DEF s, t
<1> QED BY <1>1, <1>22, <1>23, <1>24, BeginSafely DEF Idle

(***************************************************************************)
(* The steps that are not operations.                                      *)
(***************************************************************************)
LEMMA WriteSafe ==
  ASSUME IInv, Write
  PROVE  IInv'
<1>1. /\ state = "up" /\ todo # << >> /\ todo \in Seq(Writes) /\ todo' = Tail(todo)
      /\ mode' = mode /\ state' = state /\ crashes' = crashes
  BY DEF IInv, Write
<1>2. PICK y : Runs(mode, Store, todo, y) /\ Final(mode, y)
  BY <1>1 DEF IInv
<1>3. Store' = After(Head(todo), Store)
  BY DEF Write, Store, After
<1>4. Runs(mode, After(Head(todo), Store), Tail(todo), y)
  BY <1>1, <1>2, RunsStep
<1>5. Tail(todo) \in Seq(Writes)
  BY <1>1, HeadTailProperties
<1>6. Runs(mode', Store', todo', y) /\ Final(mode', y)
  BY <1>1, <1>2, <1>3, <1>4
<1> QED BY <1>1, <1>5, <1>6 DEF IInv

LEMMA CrashSafe ==
  ASSUME IInv, Crash
  PROVE  IInv'
<1>1. /\ "crash" \in mode /\ crashes' \in 0..MaxCrash /\ mode' = mode
      /\ state' = "boot" /\ todo' = << >> /\ db' = [e \in {} |-> FALSE]
      /\ records' = records /\ attrs' = attrs /\ order' = order
  BY BoundAssumption DEF Crash, IInv
<1>2. Safe(mode, Store)
  <2>1. CASE state = "up"
    <3>1. PICK y : Runs(mode, Store, todo, y) /\ Final(mode, y)
      BY <2>1 DEF IInv
    <3> QED BY <3>1, RunsSafe DEF IInv
  <2> QED BY <2>1 DEF IInv
<1> DEFINE x == Store'
<1>3. x.records = records /\ x.attrs = attrs /\ x.order = order /\ x.db = [e \in {} |-> FALSE]
  BY <1>1 DEF Store
<1> HIDE DEF x
<1>4. Safe(mode, x)
  <2>1. DOMAIN x.db \subseteq Device /\ x.db \in [DOMAIN x.db -> BOOLEAN]
    BY <1>3
  <2> QED BY <1>2, <1>3, <2>1, StoreFields DEF Safe
<1>5. todo' \in Seq(Writes)
  BY <1>1
<1> QED BY <1>1, <1>4, <1>5 DEF IInv, x

LEMMA BootSafe ==
  ASSUME IInv, Boot
  PROVE  IInv'
<1> USE PlacesAssumption, SentinelAssumption
<1>1. /\ state = "boot" /\ todo = << >> /\ Safe(mode, Store)
      /\ "crash" \notin mode => /\ order = [i \in Pos |-> Unused]
                                /\ attrs = [p \in Pos |-> NoRecord]
      /\ mode' = mode /\ records' = records /\ attrs' = attrs /\ todo' = todo
      /\ crashes' = crashes
  BY DEF IInv, Boot
<1>2. /\ records \in Records /\ order \in Index /\ attrs \in [Pos -> Device \cup {NoRecord}]
      /\ Compact(order) /\ Distinct(order) /\ OneRecordEach(records, order)
  BY <1>1, StoreFields DEF Safe
<1>3. Size \in 0..N /\ \A i \in Pos : i < Size <=> order[i] # Unused
  BY <1>2, SizeOfList
<1> DEFINE x == Store'
<1>4. x.records = records /\ x.attrs = attrs /\ x.order = order' /\ x.db = db'
  BY <1>1 DEF Store
<1>5. CASE Repair
  <2>1. order' = [i \in Pos |-> Unused] /\ db' = db /\ state' = state
    BY <1>5 DEF Repair
  <2>2. x.order \in Index /\ Compact(x.order) /\ Distinct(x.order) /\ Used(x.order) = {}
    BY <2>1, <1>4 DEF Index, Compact, Distinct, Used
  <2> HIDE DEF x
  <2>3. Safe(mode, x)
    BY <2>1, <2>2, <1>1, <1>2, <1>4, StoreFields DEF Safe, OneRecordEach
  <2> QED BY <2>1, <2>3, <1>1 DEF IInv, x
<1>6. CASE Register /\ \A i \in 0..(Size - 1) : Readable(i)
  <2>1. /\ db' = [e \in {records[order[i]].dev : i \in 0..(Size - 1)} |-> RecordOf(e).trusted]
        /\ state' = "up" /\ order' = order
    BY <1>6 DEF Register
  <2>2. \A i : i \in 0..(Size - 1) <=> i \in Pos /\ order[i] # Unused
    BY <1>3 DEF Pos
  <2>3. Complete(records, order)
    BY <1>6, <2>2 DEF Complete, Used, Readable
  <2> DEFINE devs == {records[order[i]].dev : i \in 0..(Size - 1)}
  <2>4. devs = {records[p].dev : p \in Used(order)}
    BY <2>2 DEF Used
  <2> HIDE DEF devs
  <2>5. \A p \in Used(order) : p \in Pos /\ records[p] \in Record
    BY <2>3, <1>2 DEF Complete, Used, Index, Records
  <2>6. \A p \in Used(order) : records[p].dev \in Device /\ records[p].trusted \in BOOLEAN
    BY <2>5 DEF Record
  <2>7. \A p \in Used(order) : RecordOf(records[p].dev) = records[p]
    <3> SUFFICES ASSUME NEW p \in Used(order) PROVE RecordOf(records[p].dev) = records[p]
      OBVIOUS
    <3> DEFINE d == records[p].dev
    <3>1. Listing(d, IndexOf(d), PosOf(d), RecordOf(d))
      BY <2>3, <2>6, <1>2, FindDevice
    <3>2. p = PosOf(d) /\ Found(d)
      BY <3>1 DEF Listing, Used
    <3> QED BY <3>1, <3>2 DEF Listing
  <2>8. DOMAIN db' = devs /\ \A e \in devs : db'[e] = RecordOf(e).trusted
    BY <2>1 DEF devs
  <2>9. /\ DOMAIN x.db \subseteq Device /\ x.db \in [DOMAIN x.db -> BOOLEAN]
        /\ \A p \in Used(order) : /\ records[p].dev \in DOMAIN x.db
                                  /\ x.db[records[p].dev] = records[p].trusted
    <3>1. \A e \in devs : e \in Device /\ RecordOf(e).trusted \in BOOLEAN
      BY <2>4, <2>6, <2>7
    <3>2. x.db = [e \in devs |-> RecordOf(e).trusted]
      BY <2>1, <1>4 DEF devs
    <3> QED BY <3>1, <3>2, <2>4, <2>7
  <2> HIDE DEF x
  <2>10. Safe(mode, x)
    BY <2>1, <2>9, <1>1, <1>2, <1>4, StoreFields DEF Safe
  <2>11. Final(mode, x)
    <3>1. Complete(x.records, x.order) /\ Registrations(mode, x)
      BY <2>1, <2>3, <2>9, <1>4 DEF Registrations
    <3>2. "crash" \notin mode => \A i \in Pos : x.order[i] = Unused /\ x.attrs[i] = NoRecord
      BY <2>1, <1>1, <1>4
    <3>3. "crash" \notin mode => SortedFrom(0, x.records, x.order) /\ OwnAttributes(x)
      BY <3>2 DEF SortedFrom, OwnAttributes
    <3> QED BY <3>1, <3>3 DEF Final
  <2>12. Runs(mode', Store', todo', x) /\ Final(mode', x)
    BY <2>10, <2>11, <1>1, RunsNothing DEF x
  <2> QED BY <2>1, <2>12, <1>1 DEF IInv
<1> QED BY <1>5, <1>6 DEF Boot

(* Every step keeps the invariant. *)
LEMMA StepSafe ==
  ASSUME SafeModes, IInv, [Next]_vars
  PROVE  IInv'
<1>1. CASE Operation
  <2>1. CASE \E d \in Device : \/ DeleteDevice(d) \/ UpdateMru(d) \/ PutAttribute(d)
                               \/ DeleteDeviceFromTdl(d)
    BY <2>1, DeleteDeviceSafe, UpdateMruSafe, PutAttributeSafe, DeleteDeviceFromTdlSafe
  <2>2. CASE \E d \in Device : \E trusted, stored \in BOOLEAN, key \in {"bonded", "debug", "none"} :
               AddDevice(d, trusted, key, stored)
    BY <2>2, AddDeviceSafe
  <2>3. CASE \E d \in Device : \E trusted \in BOOLEAN : SetTrustLevel(d, trusted)
    BY <2>3, SetTrustLevelSafe
  <2>4. CASE \E d \in Device : \E priority \in BOOLEAN : SetPriorityDevice(d, priority)
    BY <2>4, SetPriorityDeviceSafe
  <2>5. CASE \E d \in Device : \E stored \in BOOLEAN : UpdateTdl(d, stored)
    BY <2>5, UpdateTdlSafe
  <2>6. CASE DeleteAllDevice
    BY <2>6, DeleteAllDeviceSafe
  <2> QED BY <1>1, <2>1, <2>2, <2>3, <2>4, <2>5, <2>6 DEF Operation
<1>2. CASE UNCHANGED vars
  <2>1. /\ mode' = mode /\ todo' = todo /\ state' = state /\ crashes' = crashes
        /\ records' = records /\ attrs' = attrs /\ order' = order /\ db' = db
    BY <1>2 DEF vars
  <2>2. Store' = Store
    BY <2>1 DEF Store
  <2> QED BY <2>1, <2>2 DEF IInv
<1> QED BY <1>1, <1>2, WriteSafe, CrashSafe, BootSafe DEF Next

(* What the writes left of an operation lead to is a list in order again,  *)
(* and the store is safe to be read after a reset between any two of them: *)
(* in every behaviour.                                                     *)
THEOREM Invariance ==
  ASSUME SafeModes
  PROVE  Spec => []IInv
<1>1. Init => IInv
  BY InitIInv
<1>2. IInv /\ [Next]_vars => IInv'
  BY StepSafe
<1> QED BY <1>1, <1>2, PTL DEF Spec

(***************************************************************************)
(* What the invariant gives.                                               *)
(***************************************************************************)
LEMMA AlwaysSafe ==
  ASSUME IInv
  PROVE  Safe(mode, Store)
<1>1. CASE state = "up"
  <2>1. PICK y : Runs(mode, Store, todo, y) /\ Final(mode, y)
    BY <1>1 DEF IInv
  <2> QED BY <2>1, RunsSafe DEF IInv
<1> QED BY <1>1 DEF IInv

LEMMA ListedEntries ==
  ASSUME IInv
  PROVE  \A i : i \in Listed <=> i \in Pos /\ order[i] # Unused
<1>1. order \in Index /\ Compact(order)
  BY AlwaysSafe, StoreFields DEF Safe
<1> QED BY <1>1, SizeOfList DEF Listed

(* The store, the index and Bluestack's database keep their types: an      *)
(* entry of the index is a position or TDI_UNUSED after any series of      *)
(* moves, deletions, resets and repairs.                                   *)
THEOREM TypeCorrect ==
  ASSUME SafeModes
  PROVE  Spec => []TypeOK
<1>1. ASSUME IInv PROVE TypeOK
  <2>1. /\ records \in Records /\ order \in Index /\ attrs \in [Pos -> Device \cup {NoRecord}]
        /\ DOMAIN db \subseteq Device /\ db \in [DOMAIN db -> BOOLEAN]
    BY <1>1, AlwaysSafe, StoreFields DEF Safe
  <2>2. mode \in Modes /\ crashes \in 0..MaxCrash /\ state \in {"boot", "up"}
    BY <1>1 DEF IInv
  <2> QED BY <2>1, <2>2 DEF TypeOK, Records, Index
<1> QED BY <1>1, Invariance, PTL

(* At every moment, between the writes of an operation and after a reset   *)
(* there too, no record is listed twice and no device has two records.     *)
THEOREM OneEntryForADevice ==
  ASSUME SafeModes
  PROVE  Spec => []OneEntryPerDevice
<1>1. ASSUME IInv PROVE OneEntryPerDevice
  <2>1. Distinct(order) /\ OneRecordEach(records, order) /\ order \in Index
    BY <1>1, AlwaysSafe, StoreFields DEF Safe
  <2>2. \A i \in Listed : i \in Pos /\ order[i] # Unused /\ order[i] \in Used(order)
    BY <1>1, ListedEntries DEF Used
  <2> QED BY <2>1, <2>2 DEF OneEntryPerDevice, Distinct, OneRecordEach, Readable
<1> QED BY <1>1, Invariance, PTL

(* Between operations every listed record can be read and the used entries *)
(* come first, whatever resets came before.                                *)
THEOREM IndexStaysInStep ==
  ASSUME SafeModes
  PROVE  Spec => []IndexInStep
<1>1. ASSUME IInv PROVE IndexInStep
  <2> SUFFICES ASSUME Idle
               PROVE  /\ \A i \in Listed : Readable(i)
                      /\ \A i \in Pos \ Listed : order[i] = Unused
    BY DEF IndexInStep
  <2>1. Complete(records, order)
    BY <1>1, IdleStore, StoreFields DEF Final
  <2> QED BY <1>1, <2>1, ListedEntries DEF Complete, Used, Readable
<1> QED BY <1>1, Invariance, PTL

(* Between operations Bluestack knows every listed device, with the trust  *)
(* of its record where every store finds room and the keys come from the   *)
(* library.                                                                *)
THEOREM RegistrationsAgree ==
  ASSUME SafeModes
  PROVE  Spec => []Registered
<1>1. ASSUME IInv PROVE Registered
  <2>1. CASE Idle
    <3>1. Registrations(mode, Store)
      BY <1>1, <2>1, IdleStore DEF Final
    <3>2. \A i \in Listed : order[i] \in Used(order)
      BY <1>1, ListedEntries DEF Used
    <3> QED BY <3>1, <3>2, StoreFields DEF Registered, Registrations
  <2> QED BY <2>1 DEF Registered
<1> QED BY <1>1, Invariance, PTL

(* Between operations the priority devices come first, where nothing moves *)
(* a device in front of them.                                              *)
THEOREM PriorityDevicesFirst ==
  ASSUME SafeModes
  PROVE  Spec => []PriorityFirst
<1>1. ASSUME IInv PROVE PriorityFirst
  <2>1. CASE Idle /\ {"mru", "keys", "crash"} \cap mode = {}
    <3>1. SortedFrom(0, records, order)
      BY <1>1, <2>1, IdleStore, StoreFields DEF Final
    <3>2. \A i \in Listed : i \in Pos /\ order[i] # Unused /\ 0 <= i
      BY <1>1, ListedEntries DEF Pos
    <3> QED BY <3>1, <3>2 DEF PriorityFirst, SortedFrom
  <2> QED BY <2>1 DEF PriorityFirst
<1> QED BY <1>1, Invariance, PTL

(* Between operations the attribute data of a listed device is its own,    *)
(* where no device takes another one's place and no reset comes between    *)
(* the writes of a deletion.                                               *)
THEOREM AttributesStayWithDevice ==
  ASSUME SafeModes
  PROVE  Spec => []AttributesFollow
<1>1. ASSUME IInv PROVE AttributesFollow
  <2>1. CASE Idle /\ {"evict", "crash"} \cap mode = {}
    <3>1. OwnAttributes(Store) /\ order \in Index
      BY <1>1, <2>1, IdleStore, AlwaysSafe, StoreFields DEF Final, Safe
    <3>2. \A i \in Listed : order[i] \in Pos
      BY <1>1, <3>1, ListedEntries DEF Index
    <3> QED BY <3>1, <3>2, StoreFields DEF AttributesFollow, OwnAttributes
  <2> QED BY <2>1 DEF AttributesFollow
<1> QED BY <1>1, Invariance, PTL
=============================================================================
