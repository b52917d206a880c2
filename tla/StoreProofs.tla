----------------------------- MODULE StoreProofs -----------------------------
(***************************************************************************)
(* What the local store guarantees for any namespaces, keys, batches,       *)
(* quotas and engine formats: no engine reads another one's layout, and the *)
(* file implements the atomic maps of KvStore.                              *)
(***************************************************************************)
EXTENDS LocalStore, TLAPS

\* A leaf that names no prover is tried with each of these in turn.
USE SMT, Zenon, Z3T(30), SMTT(30)

\* A map of namespaces whose rows are all in one layout.
RowsAt(rows, f) ==
  /\ rows = [ns \in Namespaces |-> rows[ns]]
  /\ \A ns \in Namespaces : \A k \in DOMAIN rows[ns] :
       rows[ns][k] = [len |-> rows[ns][k].len, fmt |-> f]

SameLens(a, b) == \A ns \in Namespaces : \A k \in Keys : LenIn(a[ns], k) = LenIn(b[ns], k)

\* The length a key has after the first n operations of a batch.
Final(at) == CHOOSE i \in at : \A j \in at : j <= i

LenAfter(m, ops, n, k) ==
  LET at == {i \in 1 .. n : ops[i].key = k}
  IN  IF at = {} THEN LenIn(m, k) ELSE ops[Final(at)].len

Layout == IF file.stamp = NoStamp THEN 1 ELSE file.stamp

FileOK ==
  /\ file = [stamp |-> file.stamp, table |-> file.table, clean |-> file.clean,
             rows |-> file.rows]
  /\ file.stamp \in Versions \cup {NoStamp, Malformed}
  /\ RowsAt(file.rows, Layout)
  /\ file.stamp = NoStamp /\ ~file.table => \A ns \in Namespaces : DOMAIN file.rows[ns] = {}

ProcOK ==
  /\ proc \in [phase : {"down", "probed", "migrating", "serving"}, v : Nat, step : Nat]
  /\ proc.phase # "down" => proc.v \in Versions

\* A migration has every row at the step it is in, and no row changed length.
MigrationOK ==
  proc.phase = "migrating" =>
    /\ txn = [staged |-> txn.staged]
    /\ RowsAt(txn.staged, proc.step) /\ SameLens(txn.staged, file.rows)

\* A batch has its first operations in the staged rows, and nothing else.
BatchOK ==
  Writing =>
    /\ txn = [h |-> txn.h, ops |-> txn.ops, done |-> txn.done, staged |-> txn.staged,
              total |-> txn.total]
    /\ txn.h \in Handles /\ txn.ops \in Requests /\ txn.done \in 0 .. Len(txn.ops)
    /\ \A k \in DOMAIN txn.staged :
         txn.staged[k] = [len |-> txn.staged[k].len, fmt |-> proc.v]
    /\ \A k \in Keys :
         LenIn(txn.staged, k) = LenAfter(file.rows[txn.h.ns], txn.ops, txn.done, k)

StoreInv == FileOK /\ ProcOK /\ ServedAtFormat /\ MigrationOK /\ BatchOK

\* A request is a sequence of writes to keys.
LEMMA RequestType ==
  ASSUME NEW ops \in Requests
  PROVE  ops \in Seq([key : Keys, len : Lens \cup {Absent}])
<1>1. CASE ops \in Batches
  BY Zenon, <1>1, StoreAssumption
<1>2. ASSUME NEW k \in Keys, NEW len \in Lens \cup {Absent}, ops = <<[key |-> k, len |-> len]>>
      PROVE  ops \in Seq([key : Keys, len : Lens \cup {Absent}])
  BY <1>2
<1>3. ops \in Batches \/ \E k \in Keys, len \in Lens \cup {Absent} : ops = <<[key |-> k, len |-> len]>>
  BY DEF Requests
<1> QED
  BY Zenon, <1>1, <1>2, <1>3

\* Formats are positive numbers, apart from the marks of an absent or malformed
\* stamp.
LEMMA VersionType ==
  /\ \A v \in Versions : v \in Nat /\ v > 0
  /\ NoStamp \notin Versions /\ Malformed \notin Versions
BY StoreAssumption DEF NoStamp, Malformed

\* Before its first write a batch has changed nothing.
LEMMA NoneDone ==
  ASSUME NEW m, NEW ops, NEW k
  PROVE  LenAfter(m, ops, 0, k) = LenIn(m, k)
<1>1. {i \in 1 .. 0 : ops[i].key = k} = {}
  OBVIOUS
<1> QED
  BY <1>1 DEF LenAfter

\* One more operation decides the length of its own key and of no other.
LEMMA OneMore ==
  ASSUME NEW m, NEW ops, NEW n \in Nat, NEW k
  PROVE  LenAfter(m, ops, n + 1, k) =
           IF ops[n + 1].key = k THEN ops[n + 1].len ELSE LenAfter(m, ops, n, k)
<1> DEFINE At(p) == {i \in 1 .. p : ops[i].key = k}
<1>1. CASE ops[n + 1].key = k
  <2>1. n + 1 \in At(n + 1) /\ \A j \in At(n + 1) : j <= n + 1
    BY <1>1
  <2>2. \A i \in At(n + 1) : (\A j \in At(n + 1) : j <= i) => i = n + 1
    BY <2>1
  <2>3. Final(At(n + 1)) = n + 1
    <3> HIDE DEF At
    <3> QED
      BY <2>1, <2>2 DEF Final
  <2> QED
    BY <1>1, <2>1, <2>3 DEF LenAfter
<1>2. CASE ops[n + 1].key # k
  <2>1. At(n + 1) = At(n)
    BY <1>2
  <2> QED
    BY Zenon, <1>2, <2>1 DEF LenAfter
<1> QED
  BY <1>1, <1>2

\* With every operation done, the lengths are those KvStore gives the batch.
LEMMA AllDone ==
  ASSUME NEW rows, NEW ns \in Namespaces, NEW ops \in Requests, NEW k \in Keys
  PROVE  Kv!Outcome([j \in Keys |-> LenIn(rows[ns], j)], ops)[k] =
           LenAfter(rows[ns], ops, Len(ops), k)
<1>1. DOMAIN ops = 1 .. Len(ops)
  BY RequestType
<1> QED
  BY <1>1 DEF Kv!Outcome, LenAfter, Final

\* A file is found in one of the states an engine may have left it in.
LEMMA StoreInit_Inv == StoreInit => StoreInv
<1> SUFFICES ASSUME StoreInit PROVE StoreInv
  OBVIOUS
<1>1. file \in Files /\ proc = Down /\ txn = Idle /\ proc.phase = "down"
  BY DEF StoreInit, Down
<1>2. ProcOK /\ ServedAtFormat /\ MigrationOK /\ BatchOK
  BY <1>1 DEF ProcOK, ServedAtFormat, MigrationOK, BatchOK, Writing, Down
<1> DEFINE none == [ns \in Namespaces |-> [k \in {} |-> 0]]
           one(f) == [ns \in Namespaces |->
                        [k \in {Min(Keys)} |-> [len |-> Min(Lens), fmt |-> f]]]
<1>3. \A f : RowsAt(none, f) /\ RowsAt(one(f), f)
  BY DEF RowsAt
<1>4. \A ns \in Namespaces : DOMAIN none[ns] = {}
  OBVIOUS
<1>5. \/ file = [stamp |-> NoStamp, table |-> FALSE, clean |-> TRUE, rows |-> none]
      \/ file = [stamp |-> NoStamp, table |-> TRUE, clean |-> TRUE, rows |-> one(1)]
      \/ file = [stamp |-> Malformed, table |-> TRUE, clean |-> TRUE, rows |-> none]
      \/ \E v \in Versions :
           file = [stamp |-> v, table |-> TRUE, clean |-> FALSE, rows |-> one(v)]
  BY Zenon, <1>1 DEF Files
<1>6. FileOK
  <2> HIDE DEF none, one
  <2>1. CASE file = [stamp |-> NoStamp, table |-> FALSE, clean |-> TRUE, rows |-> none]
    BY <1>3, <1>4, <2>1 DEF FileOK, Layout
  <2>2. CASE file = [stamp |-> NoStamp, table |-> TRUE, clean |-> TRUE, rows |-> one(1)]
    BY <1>3, <2>2 DEF FileOK, Layout
  <2>3. CASE file = [stamp |-> Malformed, table |-> TRUE, clean |-> TRUE, rows |-> none]
    BY <1>3, <2>3 DEF FileOK, Layout, NoStamp, Malformed
  <2>4. ASSUME NEW v \in Versions,
               file = [stamp |-> v, table |-> TRUE, clean |-> FALSE, rows |-> one(v)]
        PROVE  FileOK
    <3>1. v # NoStamp
      BY VersionType
    <3> QED
      BY <1>3, <2>4, <3>1 DEF FileOK, Layout
  <2> QED
    BY <1>5, <2>1, <2>2, <2>3, <2>4
<1> QED
  BY <1>2, <1>6 DEF StoreInv

\* A call of set, apply or delete that gets past its checks begins a batch.
Begins == \E h \in Handles, ops \in Requests : \E total : Begin(h, ops, total)

\* What a step of the store is: the begin of a call, or one of the others.
LEMMA CallsBegin ==
  ASSUME StoreNext
  PROVE  \/ Begins
         \/ \E v \in Versions : Probe(v)
         \/ Create \/ Migrate \/ Stamp \/ Put \/ Commit \/ Abort \/ NextPage \/ Close \/ Crash
         \/ \E h \in Handles, q \in Queries : StartScan(h, q)
<1>1. ASSUME NEW h \in Handles, NEW k \in Keys, NEW len \in Lens, Set(h, k, len)
      PROVE  Begins
  <2> DEFINE ops == <<[key |-> k, len |-> len]>>
  <2>1. ops \in Requests
    BY DEF Requests
  <2>2. \E total : Begin(h, ops, total)
    BY <1>1 DEF Set, BeginTracked
  <2> HIDE DEF ops
  <2> QED
    BY <2>1, <2>2 DEF Begins
<1>2. ASSUME NEW h \in Handles, NEW k \in Keys, Delete(h, k)
      PROVE  Begins
  <2> DEFINE ops == <<[key |-> k, len |-> Absent]>>
  <2>1. ops \in Requests
    <3>1. PICK len \in Lens \cup {Absent} : len = Absent
      OBVIOUS
    <3>2. <<[key |-> k, len |-> len]>> \in Requests
      BY DEF Requests
    <3> QED
      BY <3>1, <3>2
  <2>2. \E total : Begin(h, ops, total)
    BY <1>2 DEF Delete
  <2> HIDE DEF ops
  <2> QED
    BY <2>1, <2>2 DEF Begins
<1>3. ASSUME NEW h \in Handles, NEW ops \in Batches, Apply(h, ops)
      PROVE  Begins
  <2>1. ops \in Requests
    BY DEF Requests
  <2>2. \E total : Begin(h, ops, total)
    BY <1>3 DEF Apply, BeginTracked
  <2> QED
    BY <2>1, <2>2 DEF Begins
<1> QED
  BY <1>1, <1>2, <1>3 DEF StoreNext

\* The parts of the invariant that a step which leaves the file, the process
\* and the transaction alone does not touch.
LEMMA Untouched ==
  ASSUME StoreInv, UNCHANGED <<file, proc, txn>>
  PROVE  StoreInv'
<1>1. FileOK' /\ ProcOK' /\ ServedAtFormat'
  BY DEF StoreInv, FileOK, Layout, ProcOK, ServedAtFormat
<1>2. MigrationOK' /\ BatchOK'
  BY DEF StoreInv, MigrationOK, BatchOK, Writing
<1> QED
  BY <1>1, <1>2 DEF StoreInv

\* A step that moves only the clean mark of the file, and ends the process.
LEMMA EndsDown ==
  ASSUME StoreInv, proc' = Down, NEW clean, file' = [file EXCEPT !.clean = clean]
  PROVE  StoreInv'
<1>1. /\ file' = [stamp |-> file.stamp, table |-> file.table, clean |-> clean,
                  rows |-> file.rows]
      /\ file'.stamp = file.stamp /\ file'.table = file.table /\ file'.rows = file.rows
  BY DEF StoreInv, FileOK
<1>2. FileOK /\ Layout' = Layout
  BY <1>1 DEF StoreInv, Layout
<1>3. FileOK'
  <2>1. file' = [stamp |-> file'.stamp, table |-> file'.table, clean |-> file'.clean,
                 rows |-> file'.rows]
    BY Zenon, <1>1
  <2>2. RowsAt(file'.rows, Layout')
    BY <1>1, <1>2 DEF FileOK
  <2> QED
    BY <1>1, <1>2, <2>1, <2>2 DEF FileOK
<1>4. proc'.phase = "down" /\ ProcOK'
  BY DEF ProcOK, Down
<1> QED
  BY <1>3, <1>4 DEF StoreInv, ServedAtFormat, MigrationOK, BatchOK, Writing

\* A migration step moves every row to the next layout and keeps its value.
LEMMA NextLayoutRows ==
  ASSUME NEW rows, NEW f \in Nat, RowsAt(rows, f)
  PROVE  RowsAt(NextLayout(rows), f + 1) /\ SameLens(NextLayout(rows), rows)
<1> DEFINE new == NextLayout(rows)
<1>1. ASSUME NEW ns \in Namespaces
      PROVE  /\ DOMAIN new[ns] = DOMAIN rows[ns]
             /\ \A k \in DOMAIN rows[ns] :
                  new[ns][k] = [len |-> rows[ns][k].len, fmt |-> f + 1]
  BY DEF RowsAt, NextLayout
<1>2. new = [ns \in Namespaces |-> new[ns]]
  BY DEF NextLayout
<1> HIDE DEF new
<1>3. RowsAt(new, f + 1)
  <2>1. ASSUME NEW ns \in Namespaces, NEW k \in DOMAIN new[ns]
        PROVE  new[ns][k] = [len |-> new[ns][k].len, fmt |-> f + 1]
    <3>1. new[ns][k] = [len |-> rows[ns][k].len, fmt |-> f + 1]
      BY <1>1, <2>1
    <3>2. new[ns][k].len = rows[ns][k].len
      BY <3>1
    <3> QED
      BY <3>1, <3>2
  <2> QED
    BY <1>2, <2>1, Zenon DEF RowsAt
<1>4. ASSUME NEW ns \in Namespaces, NEW k \in Keys
      PROVE  LenIn(new[ns], k) = LenIn(rows[ns], k)
  <2>1. CASE k \in DOMAIN rows[ns]
    <3>1. k \in DOMAIN new[ns] /\ new[ns][k] = [len |-> rows[ns][k].len, fmt |-> f + 1]
      BY <1>1, <2>1
    <3>2. new[ns][k].len = rows[ns][k].len
      BY <3>1
    <3> QED
      BY <2>1, <3>1, <3>2, Zenon DEF LenIn
  <2>2. CASE k \notin DOMAIN rows[ns]
    BY <1>1, <2>2, Zenon DEF LenIn
  <2> QED
    BY <2>1, <2>2
<1> QED
  BY <1>3, <1>4 DEF SameLens, new

\* Every step of an open, a migration, a batch, a listing or a death keeps the
\* invariant.
LEMMA StoreStep ==
  ASSUME StoreInv, [StoreNext]_storeVars
  PROVE  StoreInv'
<1>0. FileOK /\ ProcOK /\ ServedAtFormat /\ MigrationOK /\ BatchOK
  BY DEF StoreInv
<1>1. ASSUME NEW v \in Versions, Probe(v) PROVE StoreInv'
  <2>1. file' = file /\ txn' = txn
        /\ (proc' = Down \/ proc' = [phase |-> "probed", v |-> v, step |-> 0])
    BY <1>1 DEF Probe
  <2>2. ProcOK' /\ proc'.phase \in {"down", "probed"}
    BY <2>1, VersionType DEF ProcOK, Down
  <2>3. FileOK'
    BY <1>0, <2>1 DEF FileOK, Layout
  <2> QED
    BY <2>2, <2>3 DEF StoreInv, ServedAtFormat, MigrationOK, BatchOK, Writing
<1>2. CASE Create
  <2>1. CASE Refused(proc.v) /\ proc' = Down /\ file' = [file EXCEPT !.clean = TRUE]
    BY <2>1, EndsDown
  <2>2. CASE /\ ~Refused(proc.v) /\ file' = [file EXCEPT !.clean = FALSE]
             /\ proc' = IF Found = "stamped" /\ file.stamp = proc.v
                          THEN [proc EXCEPT !.phase = "serving"]
                        ELSE [proc EXCEPT !.phase = "migrating",
                                          !.step = CASE Found = "stamped"   -> file.stamp
                                                     [] Found = "unstamped" -> 1
                                                     [] Found = "fresh"     -> proc.v]
    <3>1. /\ file' = [stamp |-> file.stamp, table |-> file.table, clean |-> FALSE,
                      rows |-> file.rows]
          /\ file'.stamp = file.stamp /\ file'.table = file.table /\ file'.rows = file.rows
      BY Zenon, <1>0, <2>2 DEF FileOK
    <3>2. FileOK'
      <4>1. Layout' = Layout
        BY <3>1 DEF Layout
      <4>2. file' = [stamp |-> file'.stamp, table |-> file'.table, clean |-> file'.clean,
                     rows |-> file'.rows]
        BY <3>1
      <4> QED
        BY <1>0, <3>1, <4>1, <4>2 DEF FileOK
    <3>3. proc.phase = "probed" /\ proc.v \in Versions /\ proc.v \in Nat
          /\ txn' = IF proc'.phase = "migrating" THEN [staged |-> file.rows] ELSE Idle
      BY <1>0, <1>2, VersionType DEF Create, ProcOK
    <3>4. CASE Found = "stamped" /\ file.stamp = proc.v
      <4>1. proc' = [proc EXCEPT !.phase = "serving"]
        BY <2>2, <3>4
      <4>2. /\ proc' \in [phase : {"down", "probed", "migrating", "serving"}, v : Nat, step : Nat]
            /\ proc'.phase = "serving" /\ proc'.v = proc.v
        BY <1>0, <4>1 DEF ProcOK
      <4>3. txn' = Idle
        BY <3>3, <4>2
      <4> QED
        BY <3>1, <3>2, <3>3, <3>4, <4>2, <4>3
           DEF StoreInv, ProcOK, ServedAtFormat, MigrationOK, BatchOK, Writing
    <3>5. CASE ~(Found = "stamped" /\ file.stamp = proc.v)
      <4> DEFINE step == CASE Found = "stamped"   -> file.stamp
                           [] Found = "unstamped" -> 1
                           [] Found = "fresh"     -> proc.v
      <4>1. proc' = [proc EXCEPT !.phase = "migrating", !.step = step]
        BY Zenon, <2>2, <3>5
      <4>2. step \in Nat /\ RowsAt(file.rows, step)
        <5>1. CASE file.stamp # NoStamp
          <6>1. file.stamp # Malformed /\ Found = "stamped"
            BY <2>2, <5>1 DEF Refused, Found
          <6>2. file.stamp \in Versions
            BY <1>0, <5>1, <6>1 DEF FileOK
          <6>3. step = file.stamp
            BY <6>1
          <6> QED
            BY Zenon, <1>0, <5>1, <6>2, <6>3, VersionType DEF FileOK, Layout
        <5>2. CASE file.stamp = NoStamp /\ file.table
          <6>1. Found = "unstamped" /\ step = 1
            BY <5>2 DEF Found
          <6> QED
            BY <1>0, <5>2, <6>1 DEF FileOK, Layout
        <5>3. CASE file.stamp = NoStamp /\ ~file.table
          <6>1. Found = "fresh" /\ step = proc.v
            BY <5>3 DEF Found
          <6>2. \A ns \in Namespaces : DOMAIN file.rows[ns] = {}
            BY <1>0, <5>3 DEF FileOK
          <6>3. file.rows = [ns \in Namespaces |-> file.rows[ns]]
            BY <1>0 DEF FileOK, RowsAt
          <6> QED
            BY <3>3, <6>1, <6>2, <6>3 DEF RowsAt
        <5> QED
          BY Zenon, <5>1, <5>2, <5>3
      <4> HIDE DEF step
      <4>3. /\ proc' \in [phase : {"down", "probed", "migrating", "serving"}, v : Nat, step : Nat]
            /\ proc'.phase = "migrating" /\ proc'.v = proc.v /\ proc'.step = step
        BY Zenon, <1>0, <4>1, <4>2 DEF ProcOK
      <4>4. txn' = [staged |-> file.rows]
        BY <3>3, <4>3
      <4>5. ProcOK' /\ ServedAtFormat' /\ BatchOK'
        BY <3>3, <4>3 DEF ProcOK, ServedAtFormat, BatchOK, Writing
      <4>6. RowsAt(txn'.staged, proc'.step) /\ SameLens(txn'.staged, file'.rows)
        BY <3>1, <4>2, <4>3, <4>4 DEF SameLens
      <4>7. MigrationOK'
        BY <4>4, <4>6 DEF MigrationOK
      <4> QED
        BY <3>2, <4>5, <4>7 DEF StoreInv
    <3> QED
      BY <3>4, <3>5
  <2> QED
    BY Zenon, <1>2, <2>1, <2>2 DEF Create
<1>3. CASE Migrate
  <2>1. CASE proc' = Down /\ file' = [file EXCEPT !.clean = TRUE]
    BY <2>1, EndsDown
  <2>2. CASE /\ proc' = [proc EXCEPT !.step = @ + 1] /\ file' = file
             /\ txn' = [staged |-> NextLayout(txn.staged)]
    <3> DEFINE old == txn.staged
               new == NextLayout(old)
    <3>1. /\ proc.phase = "migrating"
          /\ RowsAt(old, proc.step) /\ SameLens(old, file.rows)
      BY <1>0, <1>3 DEF Migrate, MigrationOK
    <3>2. /\ txn' = [staged |-> new] /\ txn'.staged = new
      BY <2>2
    <3>3. /\ proc' \in [phase : {"down", "probed", "migrating", "serving"}, v : Nat, step : Nat]
          /\ proc'.phase = "migrating" /\ proc'.v = proc.v /\ proc'.step = proc.step + 1
          /\ proc.step \in Nat
      <4> HIDE DEF new, old
      <4> QED
        BY <1>0, <2>2, <3>1 DEF ProcOK
    <3>4. RowsAt(new, proc.step + 1) /\ SameLens(new, old)
      BY <3>1, <3>3, NextLayoutRows
    <3> HIDE DEF new, old
    <3>6. SameLens(new, file.rows)
      BY <3>1, <3>4 DEF SameLens
    <3>7. FileOK'
      BY <1>0, <2>2 DEF FileOK, Layout
    <3>8. ProcOK' /\ ServedAtFormat' /\ BatchOK'
      BY <1>0, <3>1, <3>3 DEF ProcOK, ServedAtFormat, BatchOK, Writing
    <3>9. MigrationOK'
      BY <2>2, <3>2, <3>3, <3>4, <3>6 DEF MigrationOK
    <3> QED
      BY <3>7, <3>8, <3>9 DEF StoreInv
  <2> QED
    BY <1>3, <2>1, <2>2 DEF Migrate
<1>4. CASE Stamp
  <2>1. CASE proc' = Down /\ file' = [file EXCEPT !.clean = TRUE]
    BY <2>1, EndsDown
  <2>2. CASE /\ file' = [file EXCEPT !.stamp = proc.v, !.table = TRUE, !.rows = txn.staged]
             /\ proc' = [proc EXCEPT !.phase = "serving"]
    <3>1. /\ proc.phase = "migrating" /\ proc.step = proc.v /\ txn' = Idle
          /\ RowsAt(txn.staged, proc.v) /\ proc.v \in Versions /\ proc.v # NoStamp
      BY <1>0, <1>4, VersionType DEF Stamp, MigrationOK, ProcOK
    <3>2. /\ file' = [stamp |-> proc.v, table |-> TRUE, clean |-> file.clean,
                      rows |-> txn.staged]
      BY Zenon, <1>0, <2>2 DEF FileOK
    <3>3. FileOK'
      BY <3>1, <3>2 DEF FileOK, Layout
    <3>4. /\ proc' \in [phase : {"down", "probed", "migrating", "serving"}, v : Nat, step : Nat]
          /\ proc'.phase = "serving" /\ proc'.v = proc.v
      BY <1>0, <2>2 DEF ProcOK
    <3> QED
      BY <3>1, <3>2, <3>3, <3>4
         DEF StoreInv, ProcOK, ServedAtFormat, MigrationOK, BatchOK, Writing
  <2> QED
    BY <1>4, <2>1, <2>2 DEF Stamp
<1>5. CASE Begins
  <2>1. PICK h \in Handles, ops \in Requests : \E total : Begin(h, ops, total)
    BY <1>5 DEF Begins
  <2>2. PICK total : Begin(h, ops, total)
    BY <2>1
  <2>3. /\ proc.phase = "serving" /\ file' = file /\ proc' = proc
        /\ txn' = [h |-> h, ops |-> ops, done |-> 0, staged |-> file.rows[h.ns],
                   total |-> total]
    BY <2>2 DEF Begin
  <2>4. h.ns \in Namespaces
    BY StoreAssumption
  <2>5. file.stamp = proc.v /\ Layout = proc.v
    BY <1>0, <2>3, VersionType DEF ServedAtFormat, Layout, ProcOK
  <2>6. \A k \in DOMAIN file.rows[h.ns] :
          file.rows[h.ns][k] = [len |-> file.rows[h.ns][k].len, fmt |-> proc.v]
    BY <1>0, <2>4, <2>5 DEF FileOK, RowsAt
  <2>7. Len(ops) \in Nat
    BY RequestType
  <2>8. \A k \in Keys : LenIn(file.rows[h.ns], k) = LenAfter(file.rows[h.ns], ops, 0, k)
    BY NoneDone
  <2>9. BatchOK'
    <3>1. /\ txn'.h = h /\ txn'.ops = ops /\ txn'.done = 0 /\ txn'.staged = file.rows[h.ns]
          /\ txn' = [h |-> txn'.h, ops |-> txn'.ops, done |-> txn'.done,
                     staged |-> txn'.staged, total |-> txn'.total]
      BY <2>3
    <3>2. txn'.done \in 0 .. Len(txn'.ops)
      BY <2>7, <3>1
    <3>3. \A k \in DOMAIN txn'.staged :
            txn'.staged[k] = [len |-> txn'.staged[k].len, fmt |-> proc'.v]
      BY <2>3, <2>6, <3>1
    <3>4. \A k \in Keys : LenIn(txn'.staged, k)
            = LenAfter(file'.rows[txn'.h.ns], txn'.ops, txn'.done, k)
      BY <2>3, <2>8, <3>1
    <3> QED
      BY <3>1, <3>2, <3>3, <3>4 DEF BatchOK
  <2>10. FileOK' /\ ProcOK' /\ ServedAtFormat' /\ MigrationOK'
    BY <1>0, <2>3 DEF FileOK, Layout, ProcOK, ServedAtFormat, MigrationOK
  <2> QED
    BY <2>9, <2>10 DEF StoreInv
<1>6. CASE Put
  <2> DEFINE n == txn.done
             op == txn.ops[n + 1]
             row == [len |-> op.len, fmt |-> proc.v]
             keep == DOMAIN txn.staged \ {op.key}
             dom == IF op.len = Absent THEN keep ELSE keep \cup {op.key}
             new == [k \in dom |-> IF k = op.key THEN row ELSE txn.staged[k]]
  <2>1. /\ Writing /\ n < Len(txn.ops) /\ file' = file /\ proc' = proc
        /\ txn' = [txn EXCEPT !.done = n + 1, !.staged = new]
    BY <1>6 DEF Put
  <2>2. /\ txn = [h |-> txn.h, ops |-> txn.ops, done |-> n, staged |-> txn.staged,
                  total |-> txn.total]
        /\ txn.h \in Handles /\ txn.ops \in Requests /\ n \in 0 .. Len(txn.ops)
        /\ \A k \in DOMAIN txn.staged :
             txn.staged[k] = [len |-> txn.staged[k].len, fmt |-> proc.v]
        /\ \A k \in Keys : LenIn(txn.staged, k) = LenAfter(file.rows[txn.h.ns], txn.ops, n, k)
    BY <1>0, <2>1 DEF BatchOK
  <2>3. Len(txn.ops) \in Nat
    BY <2>2, RequestType
  <2>4. n + 1 \in 0 .. Len(txn.ops) /\ n \in Nat
    BY <2>1, <2>2, <2>3
  <2>5. txn' = [h |-> txn.h, ops |-> txn.ops, done |-> n + 1, staged |-> new,
                total |-> txn.total]
    BY ZenonT(40), <2>1, <2>2
  <2>6. \A k \in DOMAIN new : new[k] = [len |-> new[k].len, fmt |-> proc.v]
    BY <2>2
  <2>7. \A k \in Keys : LenIn(new, k) = IF op.key = k THEN op.len ELSE LenIn(txn.staged, k)
    BY DEF LenIn
  <2>8. \A k \in Keys : LenIn(new, k) = LenAfter(file.rows[txn.h.ns], txn.ops, n + 1, k)
    <3> HIDE DEF new
    <3> QED
      BY <2>2, <2>4, <2>7, OneMore
  <2> HIDE DEF new, n
  <2>9. BatchOK'
    BY Zenon, <2>1, <2>2, <2>4, <2>5, <2>6, <2>8 DEF BatchOK
  <2>10. FileOK' /\ ProcOK' /\ ServedAtFormat' /\ MigrationOK'
    BY <1>0, <2>1 DEF FileOK, Layout, ProcOK, ServedAtFormat, MigrationOK, Writing
  <2> QED
    BY <2>9, <2>10 DEF StoreInv
<1>7. CASE Commit
  <2> DEFINE ns == txn.h.ns
  <2>1. /\ Writing /\ proc' = proc /\ txn' = Idle
        /\ file' = [file EXCEPT !.rows[ns] = txn.staged]
    BY <1>7 DEF Commit
  <2>2. /\ txn.h \in Handles /\ proc.phase = "serving"
        /\ \A k \in DOMAIN txn.staged :
             txn.staged[k] = [len |-> txn.staged[k].len, fmt |-> proc.v]
    BY <1>0, <2>1 DEF BatchOK, Writing
  <2>3. ns \in Namespaces
    BY <2>2, StoreAssumption
  <2>4. file.stamp = proc.v /\ Layout = proc.v /\ proc.v \in Versions /\ proc.v # NoStamp
    BY <1>0, <2>2, VersionType DEF ServedAtFormat, Layout, ProcOK
  <2> DEFINE rows == [file.rows EXCEPT ![ns] = txn.staged]
  <2>5. file' = [stamp |-> file.stamp, table |-> file.table, clean |-> file.clean,
                 rows |-> rows]
    BY <1>0, <2>1 DEF FileOK
  <2>6. RowsAt(rows, proc.v)
    BY <1>0, <2>2, <2>3, <2>4 DEF FileOK, RowsAt
  <2> HIDE DEF rows
  <2>7. FileOK'
    BY <2>4, <2>5, <2>6 DEF FileOK, Layout
  <2> QED
    BY <1>0, <2>1, <2>2, <2>4, <2>5, <2>7
       DEF StoreInv, ProcOK, ServedAtFormat, MigrationOK, BatchOK, Writing
<1>8. CASE Abort
  <2>1. file' = file /\ proc' = proc /\ txn' = Idle /\ proc.phase = "serving"
    BY <1>8 DEF Abort, Writing
  <2>2. FileOK'
    BY <1>0, <2>1 DEF FileOK, Layout
  <2> QED
    BY <1>0, <2>1, <2>2
       DEF StoreInv, ProcOK, ServedAtFormat, MigrationOK, BatchOK, Writing
<1>9. CASE Close \/ Crash
  BY <1>9, EndsDown DEF Close, Crash, Gone
<1>10. CASE NextPage
  BY <1>10, Untouched DEF NextPage
<1>11. ASSUME NEW h \in Handles, NEW q \in Queries, StartScan(h, q) PROVE StoreInv'
  BY <1>11, Untouched DEF StartScan
<1>12. CASE UNCHANGED storeVars
  BY <1>12, Untouched DEF storeVars
<1> QED
  BY <1>1, <1>2, <1>3, <1>4, <1>5, <1>6, <1>7, <1>8, <1>9, <1>10, <1>11, <1>12, CallsBegin

\* For any formats and any order of engines, failures and deaths: the rows are
\* in the layout the stamp names.
THEOREM LayoutKept == StoreSpec => []LayoutIsStamped
<1>1. StoreInv => LayoutIsStamped
  <2> SUFFICES ASSUME StoreInv, NEW ns \in Namespaces, NEW k \in DOMAIN file.rows[ns]
               PROVE  file.rows[ns][k].fmt = IF file.stamp = NoStamp THEN 1 ELSE file.stamp
    BY DEF LayoutIsStamped
  <2>1. file.rows[ns][k] = [len |-> file.rows[ns][k].len, fmt |-> Layout]
    BY DEF StoreInv, FileOK, RowsAt
  <2> QED
    BY <2>1 DEF Layout
<1> QED
  BY <1>1, StoreInit_Inv, StoreStep, PTL DEF StoreSpec

\* For any formats: an engine serves the file at its own format only.
THEOREM ServesItsFormat == StoreSpec => []ServedAtFormat
<1>1. StoreInv => ServedAtFormat
  BY DEF StoreInv
<1> QED
  BY <1>1, StoreInit_Inv, StoreStep, PTL DEF StoreSpec

-----------------------------------------------------------------------------
(* The refinement. *)

KvOf == [ns \in Namespaces |-> [k \in Keys |-> LenIn(file.rows[ns], k)]]
AskOf == IF Writing THEN [ns |-> txn.h.ns, ops |-> txn.ops] ELSE Idle

\* The abstract maps see the lengths of the rows and nothing else.
LEMMA SameRowsSameKv ==
  ASSUME SameLens(file'.rows, file.rows)
  PROVE  KvOf' = KvOf
BY DEF SameLens, KvOf

\* A step that changes neither the maps nor the batch in flight is a stutter of
\* KvStore.
LEMMA Stutters ==
  ASSUME KvOf' = KvOf, AskOf' = AskOf
  PROVE  [Kv!KvNext]_(Kv!kvVars)
BY DEF KvOf, AskOf, Kv!kvVars

\* A step after which nothing is in flight, and which moves no row.
LEMMA DropsOrStutters ==
  ASSUME KvOf' = KvOf, AskOf' = Idle
  PROVE  [Kv!KvNext]_(Kv!kvVars)
<1>1. CASE AskOf = Idle
  BY <1>1, Stutters
<1>2. CASE AskOf # Idle
  <2>1. Kv!Drop
    BY <1>2 DEF Kv!Drop, Kv!Idle, KvOf, AskOf, Idle
  <2> QED
    BY <2>1 DEF Kv!KvNext
<1> QED
  BY <1>1, <1>2

\* The mark of a clean close is not part of the maps.
LEMMA CleanKeepsKv ==
  ASSUME FileOK, NEW clean, file' = [file EXCEPT !.clean = clean]
  PROVE  KvOf' = KvOf
<1>1. file'.rows = file.rows
  BY DEF FileOK
<1> QED
  BY <1>1 DEF KvOf

\* Every step of the store is a step of KvStore or changes nothing in it.
LEMMA StepMaps ==
  ASSUME StoreInv, [StoreNext]_storeVars
  PROVE  [Kv!KvNext]_(Kv!kvVars)
<1>0. FileOK /\ ProcOK /\ ServedAtFormat /\ MigrationOK /\ BatchOK
  BY DEF StoreInv
<1>1. ASSUME NEW v \in Versions, Probe(v) PROVE [Kv!KvNext]_(Kv!kvVars)
  <2>1. file' = file /\ proc'.phase # "serving"
    BY <1>1 DEF Probe, Down
  <2>2. KvOf' = KvOf /\ AskOf' = Idle
    BY <2>1 DEF KvOf, AskOf, Writing
  <2> QED
    BY <2>2, DropsOrStutters
<1>2. CASE Create
  <2>1. KvOf' = KvOf
    BY <1>0, <1>2, CleanKeepsKv DEF Create
  <2>2. proc'.phase # "migrating" => txn' = Idle
    BY <1>2 DEF Create
  <2>3. AskOf' = Idle
    BY <2>2 DEF AskOf, Writing
  <2> QED
    BY <2>1, <2>3, DropsOrStutters
<1>3. CASE Migrate
  <2>1. KvOf' = KvOf
    <3>1. file' = file \/ file' = [file EXCEPT !.clean = TRUE]
      BY <1>3 DEF Migrate
    <3>2. CASE file' = file
      BY <3>2 DEF KvOf
    <3>3. CASE file' = [file EXCEPT !.clean = TRUE]
      BY <1>0, <3>3, CleanKeepsKv
    <3> QED
      BY <3>1, <3>2, <3>3
  <2>2. proc'.phase # "serving"
    BY <1>0, <1>3 DEF Migrate, Down, ProcOK
  <2>3. AskOf' = Idle
    BY <2>2 DEF AskOf, Writing
  <2> QED
    BY <2>1, <2>3, DropsOrStutters
<1>4. CASE Stamp
  <2>1. KvOf' = KvOf
    <3>1. CASE file' = [file EXCEPT !.clean = TRUE]
      BY <1>0, <3>1, CleanKeepsKv
    <3>2. CASE file' = [file EXCEPT !.stamp = proc.v, !.table = TRUE, !.rows = txn.staged]
      <4>1. file'.rows = txn.staged
        BY <1>0, <3>2 DEF FileOK
      <4>2. SameLens(txn.staged, file.rows)
        BY <1>0, <1>4 DEF MigrationOK, Stamp
      <4> QED
        BY <4>1, <4>2, SameRowsSameKv
    <3> QED
      BY <1>4, <3>1, <3>2 DEF Stamp
  <2>2. AskOf' = Idle
    BY <1>4 DEF Stamp, AskOf, Writing
  <2> QED
    BY <2>1, <2>2, DropsOrStutters
<1>5. CASE Begins
  <2>1. PICK h \in Handles, ops \in Requests : \E total : Begin(h, ops, total)
    BY <1>5 DEF Begins
  <2>2. PICK total : Begin(h, ops, total)
    BY <2>1
  <2>3. /\ proc.phase = "serving" /\ txn = Idle /\ file' = file /\ proc' = proc
        /\ txn' = [h |-> h, ops |-> ops, done |-> 0, staged |-> file.rows[h.ns],
                   total |-> total]
    BY <2>2 DEF Begin
  <2>4. h.ns \in Namespaces
    BY StoreAssumption
  <2>5. txn' # Idle /\ txn'.h = h /\ txn'.ops = ops
    <3>1. txn'.h = h /\ txn'.ops = ops /\ "h" \in DOMAIN txn'
      BY <2>3
    <3>2. DOMAIN Idle = {}
      BY DEF Idle
    <3> QED
      BY <3>1, <3>2
  <2>6. AskOf = Idle /\ AskOf' = [ns |-> h.ns, ops |-> ops] /\ KvOf' = KvOf
    BY <2>3, <2>5 DEF AskOf, Writing, KvOf
  <2>7. Kv!Ask(h.ns, ops)
    BY <2>6 DEF Kv!Ask, Kv!Idle, Idle, AskOf, KvOf
  <2> QED
    BY <2>4, <2>7 DEF Kv!KvNext
<1>6. CASE Put
  <2>1. /\ Writing /\ file' = file /\ proc' = proc
        /\ \E done, staged : txn' = [txn EXCEPT !.done = done, !.staged = staged]
    BY Zenon, <1>6 DEF Put
  <2>2. txn = [h |-> txn.h, ops |-> txn.ops, done |-> txn.done, staged |-> txn.staged,
               total |-> txn.total]
    BY <1>0, <2>1 DEF BatchOK
  <2>3. /\ txn'.h = txn.h /\ txn'.ops = txn.ops /\ "h" \in DOMAIN txn'
    BY <2>1, <2>2
  <2>4. txn' # Idle
    <3>1. DOMAIN Idle = {}
      BY DEF Idle
    <3> QED
      BY <2>3, <3>1
  <2>5. KvOf' = KvOf /\ AskOf' = AskOf
    BY <2>1, <2>3, <2>4 DEF KvOf, AskOf, Writing
  <2> QED
    BY <2>5, Stutters
<1>7. CASE Commit
  <2> DEFINE ns == txn.h.ns
  <2>1. /\ Writing /\ txn.done = Len(txn.ops) /\ txn' = Idle
        /\ file' = [file EXCEPT !.rows[ns] = txn.staged]
    BY <1>7 DEF Commit
  <2>2. /\ txn.h \in Handles /\ txn.ops \in Requests
        /\ \A k \in Keys :
             LenIn(txn.staged, k) = LenAfter(file.rows[ns], txn.ops, Len(txn.ops), k)
    BY <1>0, <2>1 DEF BatchOK
  <2>3. ns \in Namespaces
    BY <2>2, StoreAssumption
  <2>4. /\ AskOf # Idle /\ AskOf' = Idle /\ AskOf.ns = ns /\ AskOf.ops = txn.ops
    <3>1. AskOf = [ns |-> ns, ops |-> txn.ops] /\ "ns" \in DOMAIN AskOf
      BY <2>1 DEF AskOf
    <3>2. DOMAIN Idle = {}
      BY DEF Idle
    <3>3. AskOf' = Idle
      BY <2>1 DEF AskOf, Writing
    <3> QED
      BY <3>1, <3>2, <3>3
  <2>5. file'.rows = [file.rows EXCEPT ![ns] = txn.staged]
    BY <1>0, <2>1 DEF FileOK
  <2> DEFINE out == Kv!Outcome([k \in Keys |-> LenIn(file.rows[ns], k)], txn.ops)
  <2>6. \A k \in Keys : out[k] = LenIn(txn.staged, k)
    <3> HIDE DEF ns, out
    <3> QED
      BY <2>2, <2>3, AllDone DEF out
  <2>7. out = [k \in Keys |-> out[k]]
    BY DEF Kv!Outcome
  <2>8. out = [k \in Keys |-> LenIn(txn.staged, k)]
    <3> HIDE DEF out
    <3> QED
      BY <2>6, <2>7
  <2>9. KvOf' = [KvOf EXCEPT ![ns] = out]
    <3>1. \A n \in Namespaces :
            file'.rows[n] = IF n = ns THEN txn.staged ELSE file.rows[n]
      BY <1>0, <2>3, <2>5 DEF FileOK, RowsAt
    <3> HIDE DEF out, ns
    <3> QED
      BY Zenon, <2>3, <2>8, <3>1 DEF KvOf
  <2>10. Kv!Land
    <3>1. KvOf[ns] = [k \in Keys |-> LenIn(file.rows[ns], k)]
      BY <2>3 DEF KvOf
    <3>2. KvOf' = [KvOf EXCEPT ![AskOf.ns] = Kv!Outcome(@, AskOf.ops)]
      BY <2>4, <2>9, <3>1
    <3> QED
      BY <2>4, <3>2 DEF Kv!Land, Kv!Idle, Idle, KvOf, AskOf
  <2> QED
    BY <2>10 DEF Kv!KvNext
<1>8. CASE Abort
  <2>1. KvOf' = KvOf /\ AskOf' = Idle
    BY <1>8 DEF Abort, KvOf, AskOf, Writing
  <2> QED
    BY <2>1, DropsOrStutters
<1>9. CASE Close \/ Crash
  <2>1. KvOf' = KvOf
    BY <1>0, <1>9, CleanKeepsKv DEF Close, Crash, Gone
  <2>2. AskOf' = Idle
    BY <1>9 DEF Close, Crash, Gone, AskOf, Writing
  <2> QED
    BY <2>1, <2>2, DropsOrStutters
<1>10. ASSUME UNCHANGED <<file, proc, txn>> PROVE [Kv!KvNext]_(Kv!kvVars)
  <2>1. KvOf' = KvOf /\ AskOf' = AskOf
    BY <1>10 DEF KvOf, AskOf, Writing
  <2> QED
    BY <2>1, Stutters
<1>11. CASE NextPage
  BY <1>10, <1>11 DEF NextPage
<1>12. ASSUME NEW h \in Handles, NEW q \in Queries, StartScan(h, q)
       PROVE  [Kv!KvNext]_(Kv!kvVars)
  BY <1>10, <1>12 DEF StartScan
<1>13. CASE UNCHANGED storeVars
  BY <1>10, <1>13 DEF storeVars
<1> QED
  BY <1>1, <1>2, <1>3, <1>4, <1>5, <1>6, <1>7, <1>8, <1>9, <1>11, <1>12, <1>13, CallsBegin

\* For any namespaces, keys, batches, quotas and formats: the store implements
\* the atomic maps, so a batch is seen whole or not at all and what is on disk
\* survives every migration and every death of the process.
THEOREM StoreImplementsKv == StoreSpec => Refines
<1>1. StoreInit => Kv!KvInit
  BY DEF StoreInit, Kv!KvInit, Kv!Idle, Idle, Writing
<1> QED
  BY <1>1, StoreInit_Inv, StoreStep, StepMaps, PTL DEF StoreSpec, Refines, Kv!KvSpec
=============================================================================
