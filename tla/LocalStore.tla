---------------------------- MODULE LocalStore ----------------------------
(***************************************************************************)
(* The redb file behind local-store: opening it at the engine's format      *)
(* (Format::open), the writes of the module handles (set, apply, delete)    *)
(* with the quota and its cached footprint, and the paged listing           *)
(* (list_entries).  Engines of several formats open the file one after the  *)
(* other; a process may die between any two steps.                          *)
(*                                                                         *)
(* Keys are numbers in key order, a prefix is an interval of them; a value  *)
(* is its length and the format of the engine that wrote or migrated it.    *)
(***************************************************************************)
EXTENDS Integers, FiniteSets, FiniteSetsExt, Functions, Sequences, TLC

CONSTANTS Namespaces, Keys,
          Lens,          \* the lengths a value may have
          Handles,       \* module handles, [ns, quota]
          Versions,      \* formats of the engines that may open the file
          Batches,       \* the batches the callers ask for
          Queries,       \* the listings the callers ask for
          Overhead,      \* prefix bytes and ENTRY_OVERHEAD
          MaxApplyOps, MaxApplyBytes, ListCap, ScanCap, PageBytes,
          MaxWrites      \* bound on the write transactions

NoQuota == -1
Absent == -1
NoStamp == 0
Malformed == -1
NoKey == -1
Idle == <<>>

ASSUME StoreAssumption ==
  /\ Versions \subseteq Nat \ {0} /\ Keys \subseteq Nat /\ Lens \subseteq Nat
  /\ Handles \subseteq [ns : Namespaces, quota : Nat \cup {NoQuota}]
  /\ Batches \subseteq Seq([key : Keys, len : Lens \cup {Absent}])
  /\ MaxApplyOps \in Nat /\ MaxApplyBytes \in Nat /\ Overhead \in Nat
  /\ ListCap \in Nat \ {0} /\ ScanCap \in Nat \ {0} /\ PageBytes \in Nat

VARIABLES
  file,     \* on disk: stamp, table (TABLE exists), rows, clean (closed in order)
  proc,     \* the engine process: phase, v, and the step of a migration
  counters, \* the cached footprint of the namespaces that are tracked
  txn,      \* the write transaction: handle, ops, what is staged; or Idle
  scan,     \* a listing under way: handle, query, resume key, keys returned,
            \* and of the keys that matched throughout, those it lost
  writes

storeVars == <<file, proc, counters, txn, scan, writes>>

Down == [phase |-> "down", v |-> 0, step |-> 0]
NoScan == [over |-> TRUE, lost |-> {}, twice |-> {}]
NoCounters == [n \in {} |-> 0]

---------------------------------------------------------------------------
(* Opening the file. *)

(* read_found: META decides, and without it the data table *)
Found == IF file.stamp # NoStamp
           THEN IF file.stamp = Malformed THEN "unreadable" ELSE "stamped"
         ELSE IF file.table THEN "unstamped" ELSE "fresh"

(* refuse_newer, and the unreadable stamp read_found refuses *)
Refused(v) == Found = "unreadable" \/ (Found = "stamped" /\ file.stamp > v)

(* Format::open, up to the writable handle: a file that was not closed in
   order cannot be probed, an empty one holds nothing to probe *)
Probe(v) ==
  /\ proc.phase = "down"
  /\ proc' = IF file.clean /\ Refused(v) THEN Down
             ELSE [phase |-> "probed", v |-> v, step |-> 0]
  /\ UNCHANGED <<file, counters, txn, scan, writes>>

(* Mutant: an unstamped file is taken for a fresh one *)
CreateAfresh ==
  /\ proc.phase = "probed" /\ ~Refused(proc.v)
  /\ file' = [file EXCEPT !.clean = FALSE]
  /\ proc' = IF Found = "stamped" /\ file.stamp = proc.v
               THEN [proc EXCEPT !.phase = "serving"]
             ELSE [proc EXCEPT !.phase = "migrating",
                               !.step = IF Found = "stamped" THEN file.stamp ELSE proc.v]
  /\ txn' = IF proc'.phase # "migrating" THEN Idle
            ELSE [staged |-> IF Found = "stamped" THEN file.rows
                             ELSE [ns \in Namespaces |-> [k \in {} |-> 0]]]
  /\ UNCHANGED <<counters, scan, writes>>

(* Database::create repairs and opens, the stamp is read again, and the
   transaction that migrates or creates begins *)
Create ==
  /\ proc.phase = "probed"
  /\ \/ /\ Refused(proc.v)
        /\ proc' = Down /\ file' = [file EXCEPT !.clean = TRUE]
     \/ /\ ~Refused(proc.v)
        /\ file' = [file EXCEPT !.clean = FALSE]
        /\ proc' = IF Found = "stamped" /\ file.stamp = proc.v
                     THEN [proc EXCEPT !.phase = "serving"]
                   ELSE [proc EXCEPT !.phase = "migrating",
                                     !.step = CASE Found = "stamped"   -> file.stamp
                                                [] Found = "unstamped" -> 1
                                                [] Found = "fresh"     -> proc.v]
  /\ txn' = IF proc'.phase = "migrating" THEN [staged |-> file.rows] ELSE Idle
  /\ UNCHANGED <<counters, scan, writes>>

(* what a migration step makes of the rows: the next layout, the same values *)
NextLayout(rows) ==
  [ns \in Namespaces |->
     [k \in DOMAIN rows[ns] |-> [len |-> rows[ns][k].len, fmt |-> rows[ns][k].fmt + 1]]]

(* one step of migrate, inside the transaction; it may fail *)
Migrate ==
  /\ proc.phase = "migrating" /\ proc.step < proc.v
  /\ \/ /\ proc' = [proc EXCEPT !.step = @ + 1]
        /\ txn' = [staged |-> NextLayout(txn.staged)]
        /\ UNCHANGED file
     \/ proc' = Down /\ txn' = Idle /\ file' = [file EXCEPT !.clean = TRUE]
  /\ UNCHANGED <<counters, scan, writes>>

(* Mutant: the stamp is written before the last step *)
StampEarly ==
  /\ proc.phase = "migrating"
  /\ \/ /\ file' = [file EXCEPT !.stamp = proc.v, !.table = TRUE,
                                !.rows = txn.staged]
        /\ proc' = [proc EXCEPT !.phase = "serving"]
     \/ proc' = Down /\ file' = [file EXCEPT !.clean = TRUE]
  /\ txn' = Idle
  /\ UNCHANGED <<counters, scan, writes>>

(* the stamp goes in with the layout: one commit, which may fail *)
Stamp ==
  /\ proc.phase = "migrating" /\ proc.step = proc.v
  /\ \/ /\ file' = [file EXCEPT !.stamp = proc.v, !.table = TRUE,
                                !.rows = txn.staged]
        /\ proc' = [proc EXCEPT !.phase = "serving"]
     \/ proc' = Down /\ file' = [file EXCEPT !.clean = TRUE]
  /\ txn' = Idle
  /\ UNCHANGED <<counters, scan, writes>>

---------------------------------------------------------------------------
(* Writing. *)

KeyLen == 1
SatSub(a, b) == IF a < b THEN 0 ELSE a - b

(* entry_cost *)
EntryCost(len) == IF len = Absent THEN 0 ELSE Overhead + KeyLen + len

LenIn(m, k) == IF k \in DOMAIN m THEN m[k].len ELSE Absent

(* used_bytes: the footprint of a namespace, by a scan of it *)
UsedBytes(m) == MapThenSumSet(LAMBDA k : EntryCost(m[k].len), DOMAIN m)

(* finals: the length each key of a batch ends with *)
Finals(ops) ==
  [k \in {ops[i].key : i \in DOMAIN ops} |->
     ops[Max({i \in DOMAIN ops : ops[i].key = k})].len]

Used(ns) == IF ns \in DOMAIN counters THEN counters[ns] ELSE UsedBytes(file.rows[ns])

(* the footprint after a batch: each key released once and charged once *)
Projected(ns, ops) ==
  LET fin == Finals(ops)
      released == MapThenSumSet(LAMBDA k : EntryCost(LenIn(file.rows[ns], k)), DOMAIN fin)
      charged  == MapThenSumSet(LAMBDA k : EntryCost(fin[k]), DOMAIN fin)
  IN  SatSub(Used(ns), released) + charged

Untracked == -1

(* begin_write and the counters' lock, both held until the call returns *)
Begin(h, ops, total) ==
  /\ proc.phase = "serving" /\ txn = Idle /\ writes < MaxWrites
  /\ txn' = [h |-> h, ops |-> ops, done |-> 0, staged |-> file.rows[h.ns],
             total |-> total]
  /\ writes' = writes + 1
  /\ UNCHANGED <<file, proc, counters, scan>>

(* Mutant: the footprint is checked before the batch is counted *)
BeginUnprojected(h, ops) ==
  LET track == h.quota # NoQuota \/ h.ns \in DOMAIN counters
  IN  /\ h.quota # NoQuota => Used(h.ns) <= h.quota
      /\ Begin(h, ops, IF track THEN Projected(h.ns, ops) ELSE Untracked)

(* the quota check of set and of apply; a refused batch leaves no trace *)
BeginTracked(h, ops) ==
  LET track == h.quota # NoQuota \/ h.ns \in DOMAIN counters
      total == IF track THEN Projected(h.ns, ops) ELSE Untracked
  IN  /\ h.quota # NoQuota => total <= h.quota
      /\ Begin(h, ops, total)

Set(h, k, len) == BeginTracked(h, <<[key |-> k, len |-> len]>>)

ValueBytes(ops) ==
  MapThenSumSet(LAMBDA i : IF ops[i].len = Absent THEN 0 ELSE ops[i].len, DOMAIN ops)

Apply(h, ops) == /\ Len(ops) <= MaxApplyOps /\ ValueBytes(ops) <= MaxApplyBytes
                 /\ BeginTracked(h, ops)

(* delete never checks the quota, and lowers a footprint only if one is cached *)
Delete(h, k) ==
  LET released == EntryCost(LenIn(file.rows[h.ns], k))
  IN  Begin(h, <<[key |-> k, len |-> Absent]>>,
            IF h.ns \in DOMAIN counters THEN SatSub(counters[h.ns], released)
                                        ELSE Untracked)

Writing == txn # Idle /\ proc.phase = "serving"

(* table.insert or table.remove of the next operation *)
Put ==
  /\ Writing /\ txn.done < Len(txn.ops)
  /\ LET op == txn.ops[txn.done + 1]
         row == [len |-> op.len, fmt |-> proc.v]
         keep == DOMAIN txn.staged \ {op.key}
         dom == IF op.len = Absent THEN keep ELSE keep \cup {op.key}
     IN  txn' = [txn EXCEPT !.done = @ + 1,
                            !.staged = [k \in dom |-> IF k = op.key THEN row ELSE @[k]]]
  /\ UNCHANGED <<file, proc, counters, scan, writes>>

(* the keys of a listing under way that no write has touched *)
StillSteady(ns, m) ==
  IF scan.over \/ scan.ns # ns THEN scan
  ELSE [scan EXCEPT !.steady = {k \in @ : LenIn(m, k) = LenIn(file.rows[ns], k)}]

(* txn.commit, then the cached footprint *)
Commit ==
  /\ Writing /\ txn.done = Len(txn.ops)
  /\ file' = [file EXCEPT !.rows[txn.h.ns] = txn.staged]
  /\ counters' = IF txn.total = Untracked THEN counters
                 ELSE (txn.h.ns :> txn.total) @@ counters
  /\ txn' = Idle /\ scan' = StillSteady(txn.h.ns, txn.staged)
  /\ UNCHANGED <<proc, writes>>

(* a storage or commit error: the transaction is dropped *)
Abort == /\ Writing /\ txn' = Idle
         /\ UNCHANGED <<file, proc, counters, scan, writes>>

---------------------------------------------------------------------------
(* Listing. *)

(* resolve: zero takes the cap, more than the cap is an error *)
Resolve(asked, cap) == IF asked = 0 THEN cap ELSE asked

InPrefix(m, q) == {k \in DOMAIN m : q.lo <= k /\ k <= q.hi}
Sorted(S) ==
  CHOOSE rows \in [1 .. Cardinality(S) -> S] :
    \A i, j \in 1 .. Cardinality(S) : i < j => rows[i] < rows[j]

EmptyPage == [keys |-> <<>>, seen |-> 0, bytes |-> 0, last |-> NoKey, more |-> FALSE]

(* Mutant: a full page resumes after the row that did not fit *)
PageSkipping(m, q, rows, limit, scanLimit, maxBytes) ==
  LET Examine(p, k) ==
        LET cost == KeyLen + m[k].len
            kept == m[k].len \in q.keep
            full == \/ Len(p.keys) = limit
                    \/ p.keys # <<>> /\ p.bytes + cost > maxBytes
        IN  IF p.more THEN p
            ELSE IF p.seen = scanLimit \/ (kept /\ full)
            THEN [p EXCEPT !.more = TRUE, !.last = k]
            ELSE [keys  |-> IF kept THEN Append(p.keys, k) ELSE p.keys,
                  seen  |-> p.seen + 1,
                  bytes |-> IF kept THEN p.bytes + cost ELSE p.bytes,
                  last  |-> k, more |-> FALSE]
      page[i \in 0 .. Len(rows)] ==
        IF i = 0 THEN EmptyPage ELSE Examine(page[i - 1], rows[i])
  IN  page[Len(rows)]

(* the loop of list_entries over the rows in key order *)
PageOf(m, q, rows, limit, scanLimit, maxBytes) ==
  LET Examine(p, k) ==
        LET cost == KeyLen + m[k].len
            kept == m[k].len \in q.keep
            full == \/ Len(p.keys) = limit
                    \/ p.keys # <<>> /\ p.bytes + cost > maxBytes
        IN  IF p.more THEN p
            ELSE IF p.seen = scanLimit \/ (kept /\ full) THEN [p EXCEPT !.more = TRUE]
            ELSE [keys  |-> IF kept THEN Append(p.keys, k) ELSE p.keys,
                  seen  |-> p.seen + 1,
                  bytes |-> IF kept THEN p.bytes + cost ELSE p.bytes,
                  last  |-> k, more |-> FALSE]
      page[i \in 0 .. Len(rows)] ==
        IF i = 0 THEN EmptyPage ELSE Examine(page[i - 1], rows[i])
  IN  page[Len(rows)]

(* list_entries: a resume key below the prefix starts at the prefix *)
Page(m, q, after) ==
  PageOf(m, q,
         Sorted({k \in InPrefix(m, q) : after = NoKey \/ after < q.lo \/ k > after}),
         Resolve(q.limit, ListCap), Resolve(q.scanLimit, ScanCap), PageBytes)

(* a caller starts a listing and asks for its pages, resuming after the last
   key examined; a limit above its cap is an error *)
StartScan(h, q) ==
  /\ proc.phase = "serving" /\ scan.over
  /\ q.limit <= ListCap /\ q.scanLimit <= ScanCap
  /\ scan' = [ns |-> h.ns, q |-> q, after |-> NoKey, out |-> {}, over |-> FALSE,
              lost |-> {}, twice |-> {},
              steady |-> {k \in InPrefix(file.rows[h.ns], q) :
                            file.rows[h.ns][k].len \in q.keep}]
  /\ UNCHANGED <<file, proc, counters, txn, writes>>

NextPage ==
  /\ proc.phase = "serving" /\ ~scan.over
  /\ LET p == Page(file.rows[scan.ns], scan.q, scan.after)
         page == Range(p.keys)
     IN  scan' = IF p.more /\ p.last # NoKey
                   THEN [scan EXCEPT !.out = @ \cup page, !.after = p.last,
                                     !.twice = @ \cup (scan.out \cap page)]
                 ELSE [over |-> TRUE, lost |-> scan.steady \ (scan.out \cup page),
                       twice |-> scan.twice \cup (scan.out \cap page)]
  /\ UNCHANGED <<file, proc, counters, txn, writes>>

---------------------------------------------------------------------------
(* The engine stops in order, or its process dies. *)
Gone(clean) == /\ proc' = Down /\ txn' = Idle /\ scan' = NoScan /\ counters' = NoCounters
               /\ file' = [file EXCEPT !.clean = clean] /\ UNCHANGED writes

Close == proc.phase = "serving" /\ txn = Idle /\ Gone(TRUE)
Crash == proc.phase # "down" /\ Gone(file.clean)

(* the file as it may be found: none yet, written before the stamp existed,
   stamped by one of the engines, or with a stamp nothing can read *)
Files ==
  LET none == [ns \in Namespaces |-> [k \in {} |-> 0]]
      one(f) == [ns \in Namespaces |-> [k \in {Min(Keys)} |-> [len |-> Min(Lens), fmt |-> f]]]
  IN  {[stamp |-> NoStamp, table |-> FALSE, clean |-> TRUE, rows |-> none],
       [stamp |-> NoStamp, table |-> TRUE, clean |-> TRUE, rows |-> one(1)],
       [stamp |-> Malformed, table |-> TRUE, clean |-> TRUE, rows |-> none]}
      \cup {[stamp |-> v, table |-> TRUE, clean |-> FALSE, rows |-> one(v)] : v \in Versions}

StoreInit == /\ file \in Files /\ proc = Down /\ counters = NoCounters
             /\ txn = Idle /\ scan = NoScan /\ writes = 0

StoreNext ==
  \/ \E v \in Versions : Probe(v)
  \/ Create \/ Migrate \/ Stamp \/ Put \/ Commit \/ Abort \/ NextPage \/ Close \/ Crash
  \/ \E h \in Handles : \/ \E k \in Keys, len \in Lens : Set(h, k, len)
                        \/ \E k \in Keys : Delete(h, k)
                        \/ \E ops \in Batches : Apply(h, ops)
                        \/ \E q \in Queries : StartScan(h, q)

StoreSpec == StoreInit /\ [][StoreNext]_storeVars

---------------------------------------------------------------------------
(* Every row is in the layout the stamp names (version 1 where there is no
   stamp), whatever mixture of engines opened the file, failed half way
   through a migration or died: no engine ever reads another one's layout. *)
LayoutIsStamped ==
  \A ns \in Namespaces : \A k \in DOMAIN file.rows[ns] :
     file.rows[ns][k].fmt = IF file.stamp = NoStamp THEN 1 ELSE file.stamp

(* An engine serves the file only at its own format. *)
ServedAtFormat == proc.phase = "serving" => file.stamp = proc.v

(* No write of a handle with a quota leaves its namespace above the quota,
   even where another handle of the same namespace has none; where that one
   already has, a write that makes the namespace smaller is let through. *)
QuotaHeld ==
  [][\A ns \in Namespaces :
       (Writing /\ txn.h.ns = ns /\ txn.h.quota # NoQuota /\ file'.rows[ns] # file.rows[ns])
         => \/ UsedBytes(file'.rows[ns]) <= txn.h.quota
            \/ UsedBytes(file'.rows[ns]) < UsedBytes(file.rows[ns])]_storeVars

(* A listing read page by page while others write returns every key that
   matched from its start to its end, and returns no key twice. *)
ScanComplete == scan.lost = {} /\ scan.twice = {}

(* The operations callers ask for: the batches, and one row set or deleted *)
Requests == Batches \cup {<<[key |-> k, len |-> len]>> : k \in Keys, len \in Lens \cup {Absent}}

(* The store implements the atomic maps of KvStore: migrations, quota
   counters, listings and deaths of the process do not show in them, and the
   batch of a set, apply or delete lands whole or not at all. *)
Kv == INSTANCE KvStore WITH
        Batches <- Requests,
        kv <- [ns \in Namespaces |-> [k \in Keys |-> LenIn(file.rows[ns], k)]],
        ask <- IF Writing THEN [ns |-> txn.h.ns, ops |-> txn.ops] ELSE Idle

Refines == Kv!KvSpec
============================================================================
