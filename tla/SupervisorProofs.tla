-------------------------- MODULE SupervisorProofs --------------------------
(***************************************************************************)
(* What the supervisor guarantees, for any number of modules, any trigger  *)
(* tables and any policy values.                                           *)
(*                                                                         *)
(* The inductive invariant ties the job in progress to the lifecycle: only *)
(* an alive module is called or left to call, only a module in backoff is  *)
(* revived.                                                                *)
(***************************************************************************)
EXTENDS Supervisor, WellFoundedInduction, TLAPS

\* A leaf that names no prover is tried with each of these in turn.
USE SMT, Zenon, Z3T(30), SMTT(30)

(***************************************************************************)
(* The operators the actions are built from                                *)
(***************************************************************************)
\* A refill and an acquisition keep a bucket within its burst allowance.
LEMMA BucketStays ==
  ASSUME NEW b \in Bucket, NEW t \in Nat
  PROVE  TryAcquire(b, t) \in Bucket
<1>1. Full \in Nat
  BY BucketAssumption DEF Full
<1>2. Elapsed(b, t) \in Nat
  BY DEF Elapsed, Bucket
<1>3. Elapsed(b, t) * Refill \in Nat
  BY <1>2, BucketAssumption
<1>4. Refilled(b, t) \in 0..Full
  BY <1>1, <1>3 DEF Refilled, Bucket
<1>. QED
  BY <1>1, <1>4, BucketAssumption DEF TryAcquire, Granted, Bucket

\* A new bucket is full.
LEMMA NewBucketType ==
  ASSUME NEW t \in Nat
  PROVE  NewBucket(t) \in Bucket
BY BucketAssumption DEF NewBucket, Bucket, Full

\* A sequence with an element at its end, and one without its first k.
LEMMA Appended ==
  ASSUME NEW S, NEW s \in Seq(S), NEW e \in S
  PROVE  /\ Append(s, e) \in Seq(S) /\ Len(Append(s, e)) = Len(s) + 1
         /\ \A i \in 1..Len(s) : Append(s, e)[i] = s[i]
         /\ Append(s, e)[Len(s) + 1] = e
OBVIOUS

\* What is left of a sequence without its first elements.
LEMMA Suffix ==
  ASSUME NEW s \in Seq(Nat), NEW k \in 0..Len(s)
  PROVE  LET rest == SubSeq(s, k + 1, Len(s))
         IN  /\ rest \in Seq(Nat) /\ Len(rest) = Len(s) - k
             /\ \A j \in 1..(Len(s) - k) : rest[j] = s[k + j]
OBVIOUS

\* The least element of a nonempty set of naturals, as CHOOSE picks it.
LEMMA LeastIsChosen ==
  ASSUME NEW S \in SUBSET Nat, S # {}
  PROVE  LET least == CHOOSE i \in S : \A j \in S : i <= j
         IN  least \in S /\ \A j \in S : least <= j
<1> DEFINE Less == OpToRel(<, Nat)
<1>1. IsWellFoundedOn(Less, Nat)
  BY NatLessThanWellFounded, Zenon
<1>2. \A i, j \in Nat : ~(<<j, i>> \in Less) => i <= j
  BY DEF OpToRel
<1>3. \E i \in S : \A j \in S : ~(<<j, i>> \in Less)
  <2>. HIDE DEF Less
  <2>. QED
    BY Zenon, <1>1, WFMin
<1>4. \E i \in S : \A j \in S : i <= j
  <2>. HIDE DEF Less
  <2>. QED
    BY Zenon, <1>2, <1>3
<1>. QED
  BY Zenon, <1>4

\* Popping expired traps leaves a suffix of the window: everything cut off is
\* older than the first trap kept, which is within the window of t.
LEMMA UnexpiredSuffix ==
  ASSUME NEW w \in Seq(Nat), NEW t \in Nat
  PROVE  \E k \in 0..Len(w) :
           /\ Unexpired(w, t) = SubSeq(w, k + 1, Len(w))
           /\ \A i \in 1..k : t - w[i] > Window
           /\ k < Len(w) => t - w[k + 1] <= Window
<1> DEFINE kept == {i \in 1..Len(w) : t - w[i] <= Window}
<1>0. Window \in Nat /\ \A i \in 1..Len(w) : w[i] \in Nat
  BY SupervisorAssumption
<1>1. CASE kept = {}
  <2>1. Unexpired(w, t) = SubSeq(w, Len(w) + 1, Len(w))
    BY <1>1 DEF Unexpired
  <2>2. \A i \in 1..Len(w) : t - w[i] > Window
    BY <1>0, <1>1
  <2>. QED
    BY <2>1, <2>2
<1>2. CASE kept # {}
  <2> DEFINE first == CHOOSE i \in kept : \A j \in kept : i <= j
  <2>1. Unexpired(w, t) = SubSeq(w, first, Len(w))
    BY Zenon, <1>2 DEF Unexpired
  <2>2. kept \in SUBSET Nat
    OBVIOUS
  <2>3. first \in kept /\ \A j \in kept : first <= j
    <3>. HIDE DEF kept
    <3>. QED
      BY <1>2, <2>2, LeastIsChosen
  <2>. HIDE DEF first
  <2>4. ASSUME NEW i \in 1..(first - 1) PROVE t - w[i] > Window
    <3>1. i \in 1..Len(w) /\ i \notin kept
      BY <2>3
    <3>. QED
      BY <1>0, <3>1
  <2>5. first - 1 \in 0..Len(w) /\ (first - 1) + 1 = first
    BY <2>3
  <2>. QED
    BY Zenon, <2>1, <2>3, <2>4, <2>5
<1>. QED
  BY <1>1, <1>2

\* The base delay of a failure count is a number.
LEMMA BackoffBaseType ==
  ASSUME NEW c \in Nat
  PROVE  BackoffBase(c) \in Int
BY SupervisorAssumption DEF BackoffBase

\* Pruning the trap window leaves instants.
LEMMA UnexpiredType ==
  ASSUME NEW w \in Seq(Nat), NEW t \in Nat
  PROVE  Unexpired(w, t) \in Seq(Nat)
<1>1. PICK k \in 0..Len(w) : Unexpired(w, t) = SubSeq(w, k + 1, Len(w))
  BY Zenon, UnexpiredSuffix
<1>. QED
  BY Zenon, <1>1, Suffix

\* A delay that is drawn is not negative.
LEMMA BackoffType ==
  ASSUME NEW c \in Nat, NEW d \in BackoffFor(c)
  PROVE  d \in Nat
BY SupervisorAssumption DEF BackoffFor

\* record_trap leaves a well-typed health.
LEMMA RecordTrapType ==
  ASSUME NEW h \in Health, NEW t \in Nat, NEW d \in Nat
  PROVE  RecordTrap(h, t, d) \in Health
<1>1. Append(Unexpired(h.window, t), t) \in Seq(Nat)
  BY UnexpiredType DEF Health
<1>. QED
  BY <1>1 DEF RecordTrap, Health, States

\* A commit, with whatever of its reads and writes failed, leaves a cursor.
LEMMA CommitType ==
  ASSUME NEW c \in Cursor, NEW b \in Nat, NEW rm \in BOOLEAN,
         NEW r \in BOOLEAN, NEW w \in BOOLEAN
  PROVE  Commit(c, b, rm, r, w) \in Cursor
<1> DEFINE current == Current(c, r)
           next    == Moved(current, b, rm)
<1>1. current \in Nat \cup {None}
  BY DEF Current, ReadCursor, Cursor
<1>. HIDE DEF current
<1>2. next \in Nat
  BY <1>1 DEF Moved, None
<1>. HIDE DEF next
<1>3. Commit(c, b, rm, r, w)
        = [c EXCEPT !.mirror = next,
                    !.stored = IF next # current /\ w THEN next ELSE c.stored]
  BY DEF Commit, next, current
<1>. QED
  BY Zenon, <1>2, <1>3 DEF Cursor

(***************************************************************************)
(* Type correctness                                                        *)
(***************************************************************************)
\* Where the job's module and kind are fixed, besides their types.
JobOK ==
  /\ job.pc \in {"init", "probe", "call"} => job.mod \in Mods
  /\ job.pc = "sweep" => job.mod \in 1..(N + 1)
  /\ job.pc \in {"sweep", "fanout"} => job.kind \in Fanouts
  /\ job.kind \in Fanouts => job.feed \in Feeds

\* The loop between two jobs.
LEMMA IdleType ==
  ASSUME NEW pc \in PCs
  PROVE  Idle(pc) \in Job
BY SupervisorAssumption DEF Idle, Job, JobKinds

\* The initial state of the supervisor after boot is well typed.
LEMMA InitType == Init => TypeOK /\ JobOK
<1> SUFFICES ASSUME Init PROVE TypeOK /\ JobOK
  OBVIOUS
<1>1. health \in [Mods -> Health]
  <2>1. \A ok \in BOOLEAN : FromInit(ok) \in Health
    BY DEF FromInit, Health, States
  <2>. QED
    BY Zenon, <2>1 DEF Init, BootHealth
<1>2. live \in [Mods -> [tainted : BOOLEAN, bucket : Bucket]]
  BY NewBucketType DEF Init, BootLive
<1>3. job \in Job /\ JobOK
  <2>1. Idle("top") \in Job
    BY IdleType DEF PCs
  <2>. QED
    BY <2>1 DEF Init, Idle, JobOK, Fanouts
<1>4. cursors \in [Mods -> Cursor]
  BY DEF Init, FreshCursor, Cursor
<1>5. /\ now \in Nat /\ stop \in BOOLEAN /\ lost \subseteq Mods
      /\ frontier \in [Chains -> Heights \cup {None}]
      /\ published \in [Mods -> States \cup {"unpublished"}]
  BY Zenon DEF Init
<1>6. deaths \in [Mods -> Seq(Nat)]
  BY DEF Init
<1>. QED
  BY <1>1, <1>2, <1>3, <1>4, <1>5, <1>6 DEF TypeOK

\* A job that is begun is well typed.
LEMMA JobOfType ==
  ASSUME now \in Nat, NEW pc \in PCs, NEW kind \in JobKinds, NEW m \in Mods,
         NEW feed \in Feeds \cup {NoFeed}, NEW height \in Heights \cup {None},
         NEW removed \in BOOLEAN
  PROVE  JobOf(pc, kind, m, feed, height, removed) \in Job
BY SupervisorAssumption DEF JobOf, Job, Mods

\* The updates the actions make to the job record keep its type.
LEMMA JobUpdateType ==
  ASSUME NEW j \in Job
  PROVE  /\ \A pc \in PCs : [j EXCEPT !.pc = pc] \in Job
         /\ \A m \in 0..(N + 1) : [j EXCEPT !.mod = m] \in Job
         /\ \A S \in SUBSET Mods : [j EXCEPT !.todo = S] \in Job
         /\ \A pc \in PCs, m \in 0..(N + 1) : [j EXCEPT !.pc = pc, !.mod = m] \in Job
         /\ \A pc \in PCs, m \in 0..(N + 1), S \in SUBSET Mods :
              /\ [j EXCEPT !.pc = pc, !.mod = m, !.todo = S] \in Job
              /\ [j EXCEPT !.todo = S, !.mod = m, !.pc = pc] \in Job
         /\ \A pc \in PCs, m \in 0..(N + 1), a \in BOOLEAN :
              [j EXCEPT !.pc = pc, !.mod = m, !.accepted = a] \in Job
<1>1. \A pc \in PCs : [j EXCEPT !.pc = pc] \in Job
  BY DEF Job
<1>2. \A m \in 0..(N + 1) : [j EXCEPT !.mod = m] \in Job
  BY DEF Job
<1>3. \A S \in SUBSET Mods : [j EXCEPT !.todo = S] \in Job
  BY DEF Job
<1>4. \A pc \in PCs, m \in 0..(N + 1) : [j EXCEPT !.pc = pc, !.mod = m] \in Job
  BY Zenon DEF Job
<1>5. \A pc \in PCs, m \in 0..(N + 1), S \in SUBSET Mods :
        [j EXCEPT !.pc = pc, !.mod = m, !.todo = S] \in Job
  BY Zenon DEF Job
<1>6. \A pc \in PCs, m \in 0..(N + 1), S \in SUBSET Mods :
        [j EXCEPT !.todo = S, !.mod = m, !.pc = pc] \in Job
  BY Zenon DEF Job
<1>7. \A pc \in PCs, m \in 0..(N + 1), a \in BOOLEAN :
        [j EXCEPT !.pc = pc, !.mod = m, !.accepted = a] \in Job
  BY Zenon DEF Job
<1>. QED
  BY Zenon, <1>1, <1>2, <1>3, <1>4, <1>5, <1>6, <1>7

\* A restart that succeeded, and a poisoning, leave a well-typed health.
LEMMA RestartSucceededType ==
  ASSUME NEW h \in Health
  PROVE  RestartSucceeded(h) \in Health /\ Poison(h) \in Health
BY Zenon DEF RestartSucceeded, Poison, Health, States

\* A restart that was put off leaves a well-typed health.
LEMMA DeferRestartType ==
  ASSUME NEW h \in Health, NEW t \in Nat, NEW d \in Nat
  PROVE  DeferRestart(h, t, d) \in Health
<1>1. h.count + 1 \in Nat /\ t + d \in Nat
  BY DEF Health
<1>2. \A u, c \in Nat : [h EXCEPT !.state = "Backoff", !.until = u, !.count = c] \in Health
  BY Zenon DEF Health, States
<1>3. DeferRestart(h, t, d)
        = [h EXCEPT !.state = "Backoff", !.until = t + d, !.count = h.count + 1]
  BY DEF DeferRestart
<1>. QED
  BY Zenon, <1>1, <1>2, <1>3

\* A hold changes no cursor but the held one's mark.
LEMMA HoldType ==
  ASSUME cursors \in [Mods -> Cursor], NEW kind, NEW m, HoldIfKeyed(kind, m)
  PROVE  cursors' \in [Mods -> Cursor]
BY Zenon DEF HoldIfKeyed, Hold, Cursor

\* The delivered heights of the chains stay heights.
LEMMA DeliveredType ==
  ASSUME frontier \in [Chains -> Heights \cup {None}], NEW c, NEW h \in Heights
  PROVE  Delivered(frontier, c, h) \in [Chains -> Heights \cup {None}]
BY Zenon DEF Delivered

\* A dispatch charges the bucket of the module it calls.
LEMMA ChargeType ==
  ASSUME TypeOK, NEW m \in Mods,
         live' = [live EXCEPT ![m].bucket = TryAcquire(@, job.at)]
  PROVE  live' \in [Mods -> [tainted : BOOLEAN, bucket : Bucket]]
<1>1. live[m].bucket \in Bucket /\ job.at \in Nat
  BY DEF TypeOK, Job
<1>2. TryAcquire(live[m].bucket, job.at) \in Bucket
  BY <1>1, BucketStays
<1>. QED
  BY Zenon, <1>2 DEF TypeOK

\* Every step keeps the types.
LEMMA TypeStep ==
  ASSUME TypeOK, JobOK, [Next]_vars
  PROVE  TypeOK' /\ JobOK'
<1> USE DEF PCs, JobKinds, Fanouts, InGuest
<1>t. /\ now \in Nat /\ stop \in BOOLEAN /\ lost \subseteq Mods
      /\ health \in [Mods -> Health] /\ job \in Job
      /\ live \in [Mods -> [tainted : BOOLEAN, bucket : Bucket]]
      /\ frontier \in [Chains -> Heights \cup {None}]
      /\ cursors \in [Mods -> Cursor]
      /\ published \in [Mods -> States \cup {"unpublished"}]
      /\ deaths \in [Mods -> Seq(Nat)]
  BY DEF TypeOK
<1>i. \A pc \in PCs : Idle(pc) \in Job
  BY IdleType
<1>1. CASE Tick
  BY <1>1, <1>t DEF Tick, TypeOK, JobOK
<1>2. CASE FireStop
  BY <1>2, <1>t DEF FireStop, TypeOK, JobOK
<1>3. CASE Publish
  <2>1. published' \in [Mods -> States \cup {"unpublished"}]
    BY <1>3, <1>t DEF Publish, Snapshot, Health
  <2>2. job' \in Job /\ JobOK'
    BY Zenon, <1>3, <1>i DEF Publish, Idle, JobOK
  <2>. QED
    BY <1>3, <1>t, <2>1, <2>2 DEF Publish, TypeOK
<1>4. CASE LoopExit
  BY <1>4, <1>t, <1>i DEF LoopExit, TypeOK, JobOK, Idle
<1>5. ASSUME NEW m \in EventModules, PoisonSource(m)
      PROVE  TypeOK' /\ JobOK'
  <2>0. m \in Mods
    BY <1>5, SupervisorAssumption
  <2>1. lost' \subseteq Mods
    BY <1>5, <1>t, <2>0 DEF PoisonSource
  <2>2. health' \in [Mods -> Health]
    <3>1. Poison(health[m]) \in Health
      BY <1>t, <2>0, RestartSucceededType
    <3>. QED
      BY Zenon, <1>5, <1>t, <3>1 DEF PoisonSource
  <2>3. job' \in Job /\ JobOK'
    BY <1>5, <1>i DEF PoisonSource, Idle, JobOK
  <2>. QED
    BY <1>5, <1>t, <2>1, <2>2, <2>3 DEF PoisonSource, TypeOK
<1>6. ASSUME NEW m \in Keyed, NEW f \in Heights, FrontierCommit(m, f)
      PROVE  TypeOK' /\ JobOK'
  <2>1. PICK r, w \in StoreOutcomes :
          cursors' = [cursors EXCEPT ![m] = CommitFrontier(@, f, r, w)]
    BY Zenon, <1>6 DEF FrontierCommit
  <2>2. CommitFrontier(cursors[m], f, r, w) \in Cursor
    <3>1. f \in Nat /\ m \in Mods /\ r \in BOOLEAN /\ w \in BOOLEAN
      BY Zenon, SupervisorAssumption DEF StoreOutcomes
    <3>2. Commit(cursors[m], f, FALSE, r, w) \in Cursor
      BY Zenon, <1>t, <3>1, CommitType
    <3>. QED
      BY Zenon, <1>t, <3>1, <3>2 DEF CommitFrontier
  <2>3. job' \in Job /\ JobOK'
    BY <1>6, <1>i DEF FrontierCommit, Idle, JobOK
  <2>. QED
    BY Zenon, <1>6, <1>t, <2>1, <2>2, <2>3 DEF FrontierCommit, TypeOK
<1>7. ASSUME NEW c \in Chains, NEW h \in Heights, BeginBlock(c, h)
      PROVE  TypeOK' /\ JobOK'
  <2>1. job' \in Job
    <3>1. 1 \in Mods /\ Chains \subseteq Feeds /\ ExtKinds \subseteq Feeds
      BY SupervisorAssumption DEF Mods, Feeds
    <3>2. JobOf("sweep", "block", 1, c, h, FALSE) \in Job
      BY Zenon, <1>7, <1>t, <3>1, JobOfType
    <3>. QED
      BY Zenon, <1>7, <3>2 DEF BeginBlock
  <2>2. JobOK'
    BY <1>7, SupervisorAssumption DEF BeginBlock, JobOf, JobOK, Mods, Feeds
  <2>. QED
    BY Zenon, <1>7, <1>t, <2>1, <2>2 DEF BeginBlock, TypeOK
<1>8. ASSUME NEW k \in ExtKinds, BeginExtension(k)
      PROVE  TypeOK' /\ JobOK'
  <2>1. job' \in Job
    <3>1. 1 \in Mods /\ Chains \subseteq Feeds /\ ExtKinds \subseteq Feeds
      BY SupervisorAssumption DEF Mods, Feeds
    <3>2. JobOf("sweep", "extension", 1, k, None, FALSE) \in Job
      BY Zenon, <1>8, <1>t, <3>1, JobOfType
    <3>. QED
      BY Zenon, <1>8, <3>2 DEF BeginExtension
  <2>2. JobOK'
    BY <1>8, SupervisorAssumption DEF BeginExtension, JobOf, JobOK, Mods, Feeds
  <2>. QED
    BY Zenon, <1>8, <1>t, <2>1, <2>2 DEF BeginExtension, TypeOK
<1>9. ASSUME NEW kind \in {"event", "schedule"}, NEW m \in Mods,
             NEW feed \in Feeds \cup {NoFeed}, NEW h \in Heights \cup {None},
             NEW rm \in BOOLEAN, BeginDirect(kind, m, feed, h, rm)
      PROVE  TypeOK' /\ JobOK'
  <2>1. cursors' \in [Mods -> Cursor]
    BY <1>9, <1>t, HoldType DEF BeginDirect
  <2>2. job' \in Job
    <3>1. JobOf("init", kind, m, feed, h, rm) \in Job
      BY Zenon, <1>9, <1>t, JobOfType
    <3>2. JobOf("probe", kind, m, feed, h, rm) \in Job
      BY ZenonT(40), <1>9, <1>t, JobOfType
    <3>. QED
      BY <1>9, <1>i, <3>1, <3>2 DEF BeginDirect
  <2>3. JobOK'
    BY <1>9 DEF BeginDirect, JobOf, Idle, JobOK
  <2>. QED
    BY <1>9, <1>t, <2>1, <2>2, <2>3 DEF BeginDirect, TypeOK
<1>10. CASE SweepItem
  <2>0. job.mod \in 1..(N + 1) /\ job.kind \in Fanouts /\ N \in Nat
    BY <1>10, SupervisorAssumption DEF SweepItem, JobOK
  <2> DEFINE S == {m \in Subscribers[job.feed] : Dispatchable(health[m])}
  <2>1. job' \in Job /\ JobOK'
    <3>1. CASE job.mod > N \/ stop
      <4>1. job' = [job EXCEPT !.pc = "fanout", !.mod = 0, !.todo = S]
        BY <1>10, <3>1 DEF SweepItem
      <4>2. S \in SUBSET Mods
        BY <2>0, SupervisorAssumption DEF JobOK
      <4>. HIDE DEF S
      <4>3. job' \in Job
        <5>1. "fanout" \in PCs /\ 0 \in 0..(N + 1)
          BY <2>0
        <5>. HIDE DEF PCs
        <5>. QED
          BY Zenon, <1>t, <4>1, <4>2, <5>1, JobUpdateType
      <4>4. job'.pc = "fanout" /\ job'.kind = job.kind /\ job'.feed = job.feed
        BY <1>t, <4>1 DEF Job
      <4>. QED
        BY <2>0, <4>3, <4>4 DEF JobOK
    <3>2. CASE ~(job.mod > N \/ stop) /\ SweepDue(job.mod)
      <4>1. job' = [job EXCEPT !.pc = "init"] /\ job.mod \in Mods
        BY <1>10, <2>0, <3>2 DEF SweepItem, Mods
      <4>2. job' \in Job
        BY Zenon, <1>t, <2>0, <4>1, JobUpdateType
      <4>3. /\ job'.pc = "init" /\ job'.mod = job.mod
            /\ job'.kind = job.kind /\ job'.feed = job.feed
        BY <1>t, <4>1 DEF Job
      <4>. QED
        BY <4>1, <4>2, <4>3 DEF JobOK
    <3>3. CASE ~(job.mod > N \/ stop) /\ ~SweepDue(job.mod)
      <4>1. job' = [job EXCEPT !.mod = job.mod + 1]
        BY <1>10, <3>3 DEF SweepItem
      <4>2. job.mod + 1 \in 1..(N + 1) /\ job.mod + 1 \in 0..(N + 1)
        BY <2>0, <3>3
      <4>3. job' \in Job
        BY Zenon, <1>t, <4>1, <4>2, JobUpdateType
      <4>4. /\ job'.pc = job.pc /\ job'.mod = job.mod + 1
            /\ job'.kind = job.kind /\ job'.feed = job.feed
        BY <1>t, <4>1 DEF Job
      <4>. QED
        BY <1>10, <2>0, <4>2, <4>3, <4>4 DEF SweepItem, JobOK
    <3>. QED
      BY <3>1, <3>2, <3>3
  <2>. QED
    BY <1>10, <1>t, <2>1 DEF SweepItem, TypeOK
<1>11. ASSUME job.pc = "init", job' = AfterRevive
       PROVE  job' \in Job /\ JobOK'
  <2>0. job.mod \in Mods
    BY <1>11 DEF JobOK
  <2>1. CASE job.kind \in Fanouts
    <3>1. job' = [job EXCEPT !.pc = "sweep", !.mod = job.mod + 1]
      BY <1>11, <2>1 DEF AfterRevive
    <3>2. job.mod + 1 \in 1..(N + 1) /\ job.mod + 1 \in 0..(N + 1) /\ "sweep" \in PCs
      BY <2>0, SupervisorAssumption DEF Mods
    <3>3. job' \in Job
      BY Zenon, <1>t, <3>1, <3>2, JobUpdateType
    <3>4. /\ job'.pc = "sweep" /\ job'.mod = job.mod + 1
          /\ job'.kind = job.kind /\ job'.feed = job.feed
      BY <1>t, <3>1 DEF Job
    <3>. QED
      BY <2>1, <3>2, <3>3, <3>4 DEF JobOK
  <2>2. CASE job.kind \notin Fanouts
    <3>1. job' = [job EXCEPT !.pc = "probe"]
      BY <1>11, <2>2 DEF AfterRevive
    <3>2. job' \in Job
      BY Zenon, <1>t, <3>1, <2>0, JobUpdateType DEF Mods
    <3>3. job'.pc = "probe" /\ job'.mod = job.mod /\ job'.kind = job.kind
      BY <1>t, <3>1 DEF Job
    <3>. QED
      BY <2>0, <2>2, <3>2, <3>3 DEF JobOK
  <2>. QED
    BY <2>1, <2>2
<1>12. CASE ReviveOk
  <2>1. health' \in [Mods -> Health]
    BY <1>12, <1>t, RestartSucceededType DEF ReviveOk, JobOK
  <2>2. live' \in [Mods -> [tainted : BOOLEAN, bucket : Bucket]]
    BY Zenon, <1>12, <1>t DEF ReviveOk, FreshRun
  <2>. QED
    BY <1>11, <1>12, <1>t, <2>1, <2>2 DEF ReviveOk, TypeOK
<1>13. CASE ReviveFailed
  <2>1. PICK d \in NextBackoff(health[job.mod]) :
          health' = [health EXCEPT ![job.mod] = DeferRestart(@, job.at, d)]
    BY Zenon, <1>13 DEF ReviveFailed
  <2>2. health[job.mod] \in Health /\ job.at \in Nat
    BY <1>13, <1>t DEF ReviveFailed, JobOK, Job
  <2>3. d \in Nat
    BY <2>2, BackoffType DEF NextBackoff, Health
  <2>4. DeferRestart(health[job.mod], job.at, d) \in Health
    BY <2>2, <2>3, DeferRestartType
  <2>. QED
    BY Zenon, <1>11, <1>13, <1>t, <2>1, <2>4 DEF ReviveFailed, TypeOK
<1>14. CASE FanoutNext
  <2> DEFINE m == Lowest(job.todo)
  <2>1. m \in Mods
    <3>1. job.todo \in SUBSET Nat /\ job.todo # {} /\ job.todo \subseteq Mods
      BY <1>14, <1>t DEF FanoutNext, Job, Mods
    <3>. QED
      BY <3>1, LeastIsChosen DEF Lowest
  <2>. HIDE DEF m
  <2>2. live' = [live EXCEPT ![m].bucket = TryAcquire(@, job.at)]
    BY <1>14 DEF FanoutNext, Throttled, Admitted, m
  <2>3. live' \in [Mods -> [tainted : BOOLEAN, bucket : Bucket]]
    BY Zenon, <2>1, <2>2, ChargeType
  <2>4. \/ job' = [job EXCEPT !.todo = job.todo \ {m}]
        \/ job' = [job EXCEPT !.todo = job.todo \ {m}, !.mod = m, !.pc = "call"]
    BY <1>14 DEF FanoutNext, m
  <2>5. job' \in Job /\ JobOK'
    <3>0. m \in 0..(N + 1)
      BY <2>1, SupervisorAssumption DEF Mods
    <3>1. (job.todo \ {m}) \in SUBSET Mods /\ "call" \in PCs
      BY <1>t DEF Job
    <3>2. job' \in Job
      <4> DEFINE S == job.todo \ {m}
      <4>. HIDE DEF S, PCs
      <4>1. S \in SUBSET Mods /\ "call" \in PCs
        BY <3>1 DEF S
      <4>2. job' = [job EXCEPT !.todo = S] \/ job' = [job EXCEPT !.todo = S, !.mod = m, !.pc = "call"]
        BY <2>4 DEF S
      <4>3. job \in Job
        BY <1>t
      <4>4. [job EXCEPT !.todo = S] \in Job
        BY ZenonT(40), <4>1, <4>3, JobUpdateType
      <4>5. [job EXCEPT !.todo = S, !.mod = m, !.pc = "call"] \in Job
        BY Zenon, <3>0, <4>1, <4>3, JobUpdateType
      <4>. QED
        BY <4>2, <4>4, <4>5
    <3>3. /\ job'.kind = job.kind /\ job'.feed = job.feed
          /\ job'.pc = job.pc \/ (job'.pc = "call" /\ job'.mod = m)
      BY Zenon, <1>t, <2>4 DEF Job
    <3>. QED
      BY <1>14, <2>1, <3>2, <3>3 DEF FanoutNext, JobOK
  <2>. QED
    BY <1>14, <1>t, <2>3, <2>5 DEF FanoutNext, TypeOK
<1>15. CASE FanoutEnd
  <2>1. job.height \in Heights \cup {None}
    BY <1>t DEF Job
  <2>2. frontier' \in [Chains -> Heights \cup {None}]
    BY Zenon, <1>15, <1>t, <2>1 DEF FanoutEnd, Delivered
  <2>3. job' \in Job /\ JobOK'
    BY <1>15, <1>i DEF FanoutEnd, Idle, JobOK
  <2>. QED
    BY <1>15, <1>t, <2>2, <2>3 DEF FanoutEnd, TypeOK
<1>16. CASE ProbeDirect
  <2>0. job.mod \in Mods
    BY <1>16 DEF ProbeDirect, JobOK
  <2>1. live' \in [Mods -> [tainted : BOOLEAN, bucket : Bucket]]
    BY Zenon, <1>16, <1>t, <2>0, ChargeType DEF ProbeDirect, Throttled, Admitted
  <2>2. cursors' \in [Mods -> Cursor]
    BY <1>16, <1>t, HoldType DEF ProbeDirect
  <2>3. job' = Idle("top") \/ job' = [job EXCEPT !.pc = "call"]
    BY <1>16 DEF ProbeDirect
  <2>4. CASE job' = Idle("top")
    <3>1. job' \in Job /\ JobOK'
      BY <1>i, <2>4 DEF Idle, JobOK
    <3>. QED
      BY <1>16, <1>t, <2>1, <2>2, <3>1 DEF ProbeDirect, TypeOK
  <2>5. CASE job' = [job EXCEPT !.pc = "call"]
    <3>1. job' \in Job
      BY Zenon, <1>t, <2>5, <2>0, JobUpdateType DEF Mods
    <3>2. job'.pc = "call" /\ job'.mod = job.mod /\ job'.kind = job.kind /\ job'.feed = job.feed
      BY <1>t, <2>5 DEF Job
    <3>. QED
      BY <1>16, <1>t, <2>0, <2>1, <2>2, <3>1, <3>2 DEF ProbeDirect, TypeOK, JobOK
  <2>. QED
    BY <2>3, <2>4, <2>5
<1>17. ASSUME NEW ok \in BOOLEAN, job' = AfterCall(ok)
       PROVE  job' \in Job /\ JobOK'
  <2>1. CASE job.kind \in Fanouts
    <3>1. job' = [job EXCEPT !.pc = "fanout", !.mod = 0, !.accepted = job.accepted \/ ok]
      BY <1>17, <2>1 DEF AfterCall
    <3>2. 0 \in 0..(N + 1) /\ (job.accepted \/ ok) \in BOOLEAN /\ "fanout" \in PCs
      BY <1>17, SupervisorAssumption
    <3>3. job' \in Job
      BY Zenon, <1>t, <3>1, <3>2, JobUpdateType
    <3>4. job'.pc = "fanout" /\ job'.kind = job.kind /\ job'.feed = job.feed
      BY <1>t, <3>1 DEF Job
    <3>. QED
      BY <2>1, <3>3, <3>4 DEF JobOK
  <2>2. CASE job.kind \notin Fanouts
    BY <1>17, <1>i, <2>2 DEF AfterCall, Idle, JobOK
  <2>. QED
    BY <2>1, <2>2
<1>18. CASE CallOk
  <2>0. job.mod \in Mods /\ job.height \in Heights \cup {None} /\ job.removed \in BOOLEAN
    BY <1>18, <1>t DEF CallOk, JobOK, Job
  <2>1. health' \in [Mods -> Health]
    <3>1. ASSUME NEW h \in Health PROVE DispatchSucceeded(h) \in Health
      BY DEF DispatchSucceeded, Health
    <3>2. health' = [health EXCEPT ![job.mod] = DispatchSucceeded(health[job.mod])]
      BY <1>18 DEF CallOk
    <3>. QED
      BY Zenon, <1>t, <3>1, <3>2
  <2>2. frontier' \in [Chains -> Heights \cup {None}]
    BY <1>18, <1>t, <2>0, DeliveredType DEF CallOk
  <2>3. cursors' \in [Mods -> Cursor]
    <3>1. CASE job.kind = "event" /\ job.height # None /\ job.mod \in Keyed
      <4>1. PICK r, w \in StoreOutcomes : cursors' = [cursors EXCEPT
                ![job.mod] = Commit(@, job.height, job.removed, r, w)]
        BY <1>18, <3>1 DEF CallOk
      <4>2. job.height \in Nat /\ r \in BOOLEAN /\ w \in BOOLEAN
        BY Zenon, <2>0, <3>1, SupervisorAssumption DEF StoreOutcomes
      <4>3. Commit(cursors[job.mod], job.height, job.removed, r, w) \in Cursor
        BY <1>t, <2>0, <4>2, CommitType
      <4>. QED
        BY Zenon, <1>t, <4>1, <4>3
    <3>2. CASE ~(job.kind = "event" /\ job.height # None /\ job.mod \in Keyed)
      BY <1>18, <1>t, <3>2 DEF CallOk
    <3>. QED
      BY <3>1, <3>2
  <2>. QED
    BY Zenon, <1>17, <1>18, <1>t, <2>1, <2>2, <2>3 DEF CallOk, TypeOK
<1>19. CASE CallFault
  <2>1. cursors' \in [Mods -> Cursor]
    BY <1>19, <1>t, HoldType DEF CallFault
  <2>. QED
    BY Zenon, <1>17, <1>19, <1>t, <2>1 DEF CallFault, TypeOK
<1>20. CASE CallTrap
  <2>0. job.mod \in Mods /\ health[job.mod] \in Health
    BY <1>20, <1>t DEF CallTrap, JobOK
  <2>1. PICK d \in NextBackoff(health[job.mod]) :
          health' = [health EXCEPT ![job.mod] = RecordTrap(@, now, d)]
    BY Zenon, <1>20 DEF CallTrap
  <2>2. d \in Nat
    BY <2>0, BackoffType DEF NextBackoff, Health
  <2>3. health' \in [Mods -> Health]
    BY <1>t, <2>0, <2>1, <2>2, RecordTrapType
  <2>4. live' \in [Mods -> [tainted : BOOLEAN, bucket : Bucket]]
    <3>1. [live[job.mod] EXCEPT !.tainted = TRUE] \in [tainted : BOOLEAN, bucket : Bucket]
      BY Zenon, <1>t, <2>0
    <3>2. live' = [live EXCEPT ![job.mod] = [live[job.mod] EXCEPT !.tainted = TRUE]]
      BY <1>20, <1>t, <2>0 DEF CallTrap
    <3>. QED
      BY <1>t, <2>0, <3>1, <3>2
  <2>5. deaths' \in [Mods -> Seq(Nat)]
    BY <1>20, <1>t, <2>0 DEF CallTrap
  <2>6. cursors' \in [Mods -> Cursor]
    BY <1>20, <1>t, HoldType DEF CallTrap
  <2>. QED
    BY Zenon, <1>17, <1>20, <1>t, <2>3, <2>4, <2>5, <2>6 DEF CallTrap, TypeOK
<1>21. CASE UNCHANGED vars
  BY <1>21, <1>t DEF vars, TypeOK, JobOK
<1>22. CASE Begin
  <2>1. CASE \E m \in EventModules, c \in Chains, h \in Heights \cup {None}, r \in BOOLEAN :
               BeginEvent(m, c, h, r)
    BY <1>9, <2>1, SupervisorAssumption DEF BeginEvent, Feeds
  <2>2. CASE \E m \in ScheduleModules : BeginSchedule(m)
    BY Zenon, <1>9, <2>2, SupervisorAssumption DEF BeginSchedule
  <2>. QED
    BY <1>5, <1>6, <1>7, <1>8, <1>22, <2>1, <2>2 DEF Begin
<1>. QED
  BY <1>1, <1>2, <1>3, <1>4, <1>10, <1>12, <1>13, <1>14, <1>15, <1>16, <1>18, <1>19,
     <1>20, <1>21, <1>22 DEF Next, JobStep, Terminated

\* Every reachable state of the supervisor is well typed, for any number of
\* modules and any policy: buckets stay within their burst, a sweep never runs
\* past the last module, and no job calls a module that is not loaded.
THEOREM TypeCorrect == Spec => []TypeOK
<1>1. Init => TypeOK /\ JobOK
  BY InitType
<1>2. (TypeOK /\ JobOK) /\ [Next]_vars => (TypeOK /\ JobOK)'
  BY TypeStep
<1>. QED
  BY <1>1, <1>2, PTL DEF Spec

\* A module being called, or left to call in a fan-out, is alive; the one being
\* called is not called again; the one being revived is in backoff.
CalledAlive ==
  /\ job.pc = "call" => Dispatchable(health[job.mod]) /\ job.mod \notin job.todo
  /\ job.pc \in {"call", "fanout"} => \A m \in job.todo : Dispatchable(health[m])
  /\ job.pc = "init" => health[job.mod].state = "Backoff"
  /\ job.pc \notin {"call", "fanout"} => job.todo = {}

\* An alive module runs on a store no call has left abnormally.
CleanStore == \A m \in Mods : Dispatchable(health[m]) => ~live[m].tainted

Inv == TypeOK /\ JobOK /\ CalledAlive /\ CleanStore

\* A failure never leaves a module alive, and poisons a poisoned one again.
LEMMA RecordTrapState ==
  ASSUME NEW h \in Health, NEW t \in Nat, NEW d \in Nat
  PROVE  RecordTrap(h, t, d).state \in {"Backoff", "Poisoned"}
BY DEF RecordTrap

\* Which state each transition of the lifecycle ends in.
LEMMA AliveStates ==
  ASSUME NEW h \in Health
  PROVE  /\ RestartSucceeded(h).state = "Alive"
         /\ Poison(h).state = "Poisoned"
         /\ DispatchSucceeded(h).state = h.state
         /\ \A t, d : DeferRestart(h, t, d).state = "Backoff"
BY DEF RestartSucceeded, Poison, DispatchSucceeded, DeferRestart, Health

\* The next module of a fan-out is one of those left.
LEMMA LowestIn ==
  ASSUME job \in Job, job.todo # {}
  PROVE  Lowest(job.todo) \in job.todo
<1>1. job.todo \in SUBSET Nat
  BY DEF Job, Mods
<1>. QED
  BY <1>1, LeastIsChosen DEF Lowest

\* What each step of a job does to the states of the modules.
LEMMA StateChange ==
  ASSUME TypeOK, JobOK, [Next]_vars
  PROVE  \/ \A m \in Mods : health'[m].state = health[m].state
         \/ /\ ReviveOk /\ job.mod \in Mods
            /\ health'[job.mod].state = "Alive"
            /\ \A m \in Mods \ {job.mod} : health'[m] = health[m]
         \/ /\ ReviveFailed /\ job.mod \in Mods
            /\ health'[job.mod].state = "Backoff"
            /\ \A m \in Mods \ {job.mod} : health'[m] = health[m]
         \/ /\ CallTrap /\ job.mod \in Mods
            /\ health'[job.mod].state \in {"Backoff", "Poisoned"}
            /\ \A m \in Mods \ {job.mod} : health'[m] = health[m]
         \/ \E k \in Mods :
              /\ PoisonSource(k)
              /\ health'[k].state = "Poisoned"
              /\ \A m \in Mods \ {k} : health'[m] = health[m]
<1>t. health \in [Mods -> Health] /\ job \in Job /\ now \in Nat
  BY DEF TypeOK
<1>1. CASE UNCHANGED health
  BY <1>1
<1>2. CASE ReviveOk
  <2>1. job.mod \in Mods
    BY <1>2 DEF ReviveOk, JobOK
  <2>. QED
    BY <1>2, <1>t, <2>1, AliveStates DEF ReviveOk
<1>3. CASE ReviveFailed
  <2>1. job.mod \in Mods
    BY <1>3 DEF ReviveFailed, JobOK
  <2>. QED
    <3>1. PICK d : health' = [health EXCEPT ![job.mod] = DeferRestart(@, job.at, d)]
      BY Zenon, <1>3 DEF ReviveFailed
    <3>2. DeferRestart(health[job.mod], job.at, d).state = "Backoff"
      BY <1>t, <2>1, AliveStates
    <3>. QED
      BY <1>3, <1>t, <2>1, <3>1, <3>2
<1>4. CASE CallTrap
  <2>1. job.mod \in Mods /\ health[job.mod] \in Health /\ health[job.mod].count + 1 \in Nat
    BY <1>4, <1>t DEF CallTrap, JobOK, Health
  <2>2. PICK d \in NextBackoff(health[job.mod]) :
          health' = [health EXCEPT ![job.mod] = RecordTrap(health[job.mod], now, d)]
    BY Zenon, <1>4, <2>1 DEF CallTrap
  <2>3. d \in Nat
    BY <2>1, BackoffType DEF NextBackoff
  <2>4. RecordTrap(health[job.mod], now, d).state \in {"Backoff", "Poisoned"}
    BY <1>t, <2>1, <2>3, RecordTrapState
  <2>. QED
    BY <1>4, <1>t, <2>1, <2>2, <2>4
<1>5. CASE CallOk
  <2>1. \A m \in Mods : health'[m].state = health[m].state
    BY <1>5, <1>t, AliveStates DEF CallOk
  <2>. QED
    BY <2>1
<1>6. ASSUME NEW k \in EventModules, PoisonSource(k), ~(UNCHANGED health)
      PROVE  /\ k \in Mods /\ health'[k].state = "Poisoned"
             /\ \A m \in Mods \ {k} : health'[m] = health[m]
  BY <1>6, <1>t, AliveStates, SupervisorAssumption DEF PoisonSource
<1>7. CASE Begin
  BY Zenon, <1>1, <1>6, <1>7, SupervisorAssumption
     DEF Begin, BeginBlock, BeginExtension, BeginEvent, BeginSchedule, BeginDirect, FrontierCommit
<1>. QED
  BY Zenon, <1>1, <1>2, <1>3, <1>4, <1>5, <1>7
     DEF Next, JobStep, Tick, FireStop, LoopExit, Terminated, vars, Publish, SweepItem,
         FanoutNext, FanoutEnd, ProbeDirect, CallFault

\* What each step does to the stores of the modules.
LEMMA TaintChange ==
  ASSUME TypeOK, JobOK, [Next]_vars
  PROVE  \/ \A m \in Mods : live'[m].tainted = live[m].tainted
         \/ ReviveOk /\ ~live'[job.mod].tainted
            /\ \A m \in Mods \ {job.mod} : live'[m].tainted = live[m].tainted
         \/ CallTrap /\ \A m \in Mods \ {job.mod} : live'[m].tainted = live[m].tainted
<1>t. live \in [Mods -> [tainted : BOOLEAN, bucket : Bucket]]
  BY DEF TypeOK
<1>1. CASE UNCHANGED live
  BY <1>1
<1>2. ASSUME NEW k, live' = [live EXCEPT ![k].bucket = TryAcquire(@, job.at)]
      PROVE  \A m \in Mods : live'[m].tainted = live[m].tainted
  BY <1>2, <1>t
<1>3. CASE FanoutNext
  BY <1>2, <1>3 DEF FanoutNext, Throttled, Admitted
<1>4. CASE ProbeDirect
  BY <1>1, <1>2, <1>4 DEF ProbeDirect, Throttled, Admitted
<1>5. CASE ReviveOk
  <2>1. job.mod \in Mods
    BY <1>5 DEF ReviveOk, JobOK
  <2>. QED
    BY Zenon, <1>5, <1>t, <2>1 DEF ReviveOk, FreshRun
<1>6. CASE CallTrap
  BY Zenon, <1>6, <1>t DEF CallTrap
<1>7. CASE Begin
  BY Zenon, <1>1, <1>7
     DEF Begin, BeginBlock, BeginExtension, BeginEvent, BeginSchedule, BeginDirect,
         FrontierCommit, PoisonSource
<1>. QED
  BY Zenon, <1>1, <1>3, <1>4, <1>5, <1>6, <1>7
     DEF Next, JobStep, Tick, FireStop, LoopExit, Terminated, vars, Publish, SweepItem,
         ReviveFailed, FanoutEnd, CallOk, CallFault

\* Where a step may leave a job: at rest or on its way, unless it is one of the
\* entries of a fan-out or of a guest, or a step of neither.
LEMMA JobChange ==
  ASSUME TypeOK, JobOK, [Next]_vars
  PROVE  \/ UNCHANGED <<job, health>>
         \/ /\ job'.pc \in {"top", "ready", "done", "sweep", "probe"}
            /\ job'.todo = {} \/ (job.pc \in {"sweep", "init"} /\ job'.todo = job.todo)
         \/ /\ job'.todo = {} \/ (job.pc = "sweep" /\ job'.todo = job.todo)
            /\ job'.pc = "init" /\ ~stop /\ job.pc \notin InGuest /\ UNCHANGED health
            /\ job'.mod \in Mods /\ health[job'.mod].state = "Backoff"
         \/ SweepItem /\ job'.pc = "fanout" /\ \A m \in job'.todo : Dispatchable(health[m])
         \/ FanoutNext /\ ~stop /\ job'.pc \in {"fanout", "call"}
         \/ ProbeDirect /\ ~stop /\ job'.pc = "call" /\ job'.mod = job.mod /\ job'.todo = job.todo
            /\ Dispatchable(health[job.mod])
         \/ /\ CallOk \/ CallFault \/ CallTrap
            /\ job'.pc = "fanout" /\ job'.todo = job.todo
<1>t. job \in Job
  BY DEF TypeOK
<1>1. CASE Tick \/ FireStop \/ Terminated \/ UNCHANGED vars
  BY <1>1 DEF Tick, FireStop, Terminated, vars
<1>2. ASSUME NEW pc \in {"top", "ready", "done"}, job' = Idle(pc)
      PROVE  job'.pc \in {"top", "ready", "done", "sweep", "probe"} /\ job'.todo = {}
  BY <1>2 DEF Idle
<1>3. CASE Publish \/ LoopExit \/ FanoutEnd
  BY <1>2, <1>3 DEF Publish, LoopExit, FanoutEnd
<1>4. CASE SweepItem
  <2>1. CASE job.mod > N \/ stop
    <3> DEFINE S == {m \in Subscribers[job.feed] : Dispatchable(health[m])}
    <3>1. job' = [job EXCEPT !.pc = "fanout", !.mod = 0, !.todo = S]
      BY <1>4, <2>1 DEF SweepItem
    <3>2. \A m \in S : Dispatchable(health[m])
      OBVIOUS
    <3>. HIDE DEF S
    <3>3. job'.pc = "fanout" /\ job'.todo = S
      BY <1>t, <3>1 DEF Job
    <3>. QED
      BY <1>4, <3>2, <3>3
  <2>2. CASE ~(job.mod > N \/ stop) /\ SweepDue(job.mod)
    <3>1. job' = [job EXCEPT !.pc = "init"] /\ UNCHANGED health /\ job.pc = "sweep"
      BY <1>4, <2>2 DEF SweepItem
    <3>2. job'.pc = "init" /\ job'.mod = job.mod /\ job'.todo = job.todo
      BY <1>t, <3>1 DEF Job
    <3>3. job.mod \in Mods
      BY <2>2, <3>1, SupervisorAssumption DEF JobOK, Mods
    <3>. QED
      BY <2>2, <3>1, <3>2, <3>3 DEF SweepDue, DueRestart, InGuest
  <2>3. CASE ~(job.mod > N \/ stop) /\ ~SweepDue(job.mod)
    <3>1. job' = [job EXCEPT !.mod = job.mod + 1] /\ job.pc = "sweep"
      BY <1>4, <2>3 DEF SweepItem
    <3>2. job'.pc = "sweep" /\ job'.todo = job.todo
      BY <1>t, <3>1 DEF Job
    <3>. QED
      BY <3>1, <3>2
  <2>. QED
    BY <2>1, <2>2, <2>3
<1>5. CASE ReviveOk \/ ReviveFailed
  <2>1. job' = AfterRevive /\ job.pc = "init"
    BY <1>5 DEF ReviveOk, ReviveFailed
  <2>2. job'.pc \in {"sweep", "probe"} /\ job'.todo = job.todo
    BY <1>t, <2>1 DEF AfterRevive, Job
  <2>. QED
    BY <2>1, <2>2
<1>6. CASE FanoutNext
  <2>1. job.pc = "fanout" /\ ~stop
    BY <1>6 DEF FanoutNext
  <2>2. PICK S, m : \/ job' = [job EXCEPT !.todo = S]
                   \/ job' = [job EXCEPT !.todo = S, !.mod = m, !.pc = "call"]
    BY Zenon, <1>6 DEF FanoutNext
  <2>3. job'.pc \in {"fanout", "call"}
    BY Zenon, <1>t, <2>1, <2>2 DEF Job
  <2>. QED
    BY <1>6, <2>1, <2>3
<1>7. CASE ProbeDirect
  <2>1. CASE job' = Idle("top")
    BY <1>2, <2>1
  <2>2. CASE ~RefusedAtProbe(job.mod) /\ job' = [job EXCEPT !.pc = "call"]
    <3>1. job'.pc = "call" /\ job'.mod = job.mod /\ job'.todo = job.todo
      BY <1>t, <2>2 DEF Job
    <3>. QED
      BY <1>7, <2>2, <3>1 DEF RefusedAtProbe
  <2>. QED
    BY <1>7, <2>1, <2>2 DEF ProbeDirect
<1>8. CASE CallOk \/ CallFault \/ CallTrap
  <2>1. PICK ok \in BOOLEAN : job' = AfterCall(ok)
    BY Zenon, <1>8 DEF CallOk, CallFault, CallTrap
  <2>2. CASE job.kind \in Fanouts
    <3>1. job' = [job EXCEPT !.pc = "fanout", !.mod = 0, !.accepted = job.accepted \/ ok]
      BY <2>1, <2>2 DEF AfterCall
    <3>2. job'.pc = "fanout" /\ job'.todo = job.todo
      BY <1>t, <3>1 DEF Job
    <3>. QED
      BY <1>8, <3>2
  <2>3. CASE job.kind \notin Fanouts
    BY <1>2, <2>1, <2>3 DEF AfterCall
  <2>. QED
    BY <2>2, <2>3
<1>9. ASSUME NEW kind, NEW m \in Mods, NEW feed, NEW h, NEW rm,
             BeginDirect(kind, m, feed, h, rm), job'.pc = "init"
      PROVE  /\ ~stop /\ job.pc \notin InGuest /\ UNCHANGED health
             /\ job'.todo = {} /\ job'.mod = m /\ health[m].state = "Backoff"
  BY <1>9 DEF BeginDirect, Idle, JobOf, DueRestart, InGuest
<1>10. ASSUME NEW kind, NEW m \in Mods, NEW feed, NEW h, NEW rm,
              BeginDirect(kind, m, feed, h, rm)
       PROVE  job'.pc \in {"top", "init", "probe"} /\ job'.todo = {}
  BY <1>10 DEF BeginDirect, Idle, JobOf
<1>11. CASE Begin
  <2>1. CASE \E m \in EventModules, c \in Chains, h \in Heights \cup {None}, r \in BOOLEAN :
               BeginEvent(m, c, h, r)
    BY <1>9, <1>10, <2>1, SupervisorAssumption DEF BeginEvent
  <2>2. CASE \E m \in ScheduleModules : BeginSchedule(m)
    BY Zenon, <1>9, <1>10, <2>2, SupervisorAssumption DEF BeginSchedule
  <2>3. CASE \/ \E c \in Chains, h \in Heights : BeginBlock(c, h)
             \/ \E k \in ExtKinds : BeginExtension(k)
    <3>1. PICK kind, feed, h : job' = JobOf("sweep", kind, 1, feed, h, FALSE)
      BY Zenon, <2>3 DEF BeginBlock, BeginExtension
    <3>2. job'.pc = "sweep" /\ job'.todo = {}
      BY <3>1 DEF JobOf
    <3>. QED
      BY <3>2
  <2>4. CASE \/ \E m \in Keyed, f \in Heights : FrontierCommit(m, f)
             \/ \E m \in EventModules : PoisonSource(m)
    <3>1. job' = Idle("top")
      BY <2>4 DEF FrontierCommit, PoisonSource
    <3>. QED
      BY <1>2, <3>1
  <2>. QED
    BY <1>11, <2>1, <2>2, <2>3, <2>4 DEF Begin
<1>. QED
  BY Zenon, <1>1, <1>3, <1>4, <1>5, <1>6, <1>7, <1>8, <1>11 DEF Next, JobStep

\* Every step keeps the invariant.
LEMMA InvStep ==
  ASSUME Inv, [Next]_vars
  PROVE  Inv'
<1>t. /\ TypeOK /\ JobOK /\ health \in [Mods -> Health] /\ job \in Job
      /\ live \in [Mods -> [tainted : BOOLEAN, bucket : Bucket]]
  BY DEF Inv, TypeOK
<1>1. TypeOK' /\ JobOK'
  BY <1>t, TypeStep
<1>2. CleanStore'
  <2>1. ReviveOk => ~live'[job.mod].tainted
    BY <1>t DEF ReviveOk, FreshRun, JobOK
  <2>2. CallTrap => health'[job.mod].state # "Alive"
    <3>1. SUFFICES ASSUME CallTrap PROVE health'[job.mod].state # "Alive"
      OBVIOUS
    <3>2. job.mod \in Mods
      BY <1>t, <3>1 DEF CallTrap, JobOK
    <3>3. PICK d : health' = [health EXCEPT ![job.mod] = RecordTrap(@, now, d)]
      BY Zenon, <3>1 DEF CallTrap
    <3>4. RecordTrap(health[job.mod], now, d).state # "Alive"
      BY DEF RecordTrap
    <3>. QED
      BY <1>t, <3>2, <3>3, <3>4
  <2>3. \A m \in Mods : health'[m].state = "Alive" =>
                         health[m].state = "Alive" \/ (ReviveOk /\ m = job.mod)
    BY <1>t, StateChange
  <2>4. \A m \in Mods : live'[m].tainted => live[m].tainted \/ (CallTrap /\ m = job.mod)
    BY <1>t, TaintChange
  <2>. QED
    BY <2>1, <2>2, <2>3, <2>4 DEF Inv, CleanStore, Dispatchable
<1>3. CalledAlive'
  <2>c. CalledAlive
    BY DEF Inv
  <2>1. CASE UNCHANGED <<job, health>>
    BY <2>c, <2>1 DEF CalledAlive
  <2>2. CASE /\ job'.pc \in {"top", "ready", "done", "sweep", "probe"}
             /\ job'.todo = {} \/ (job.pc \in {"sweep", "init"} /\ job'.todo = job.todo)
    BY <2>c, <2>2 DEF CalledAlive
  <2>3. CASE /\ job'.todo = {} \/ (job.pc = "sweep" /\ job'.todo = job.todo)
             /\ job'.pc = "init" /\ UNCHANGED health
             /\ health[job'.mod].state = "Backoff"
    BY <2>c, <2>3 DEF CalledAlive
  <2>4. CASE SweepItem /\ job'.pc = "fanout" /\ \A m \in job'.todo : Dispatchable(health[m])
    BY <2>4 DEF CalledAlive, SweepItem
  <2>5. CASE FanoutNext
    <3> DEFINE m == Lowest(job.todo)
    <3>1. m \in job.todo
      BY <1>t, <2>5, LowestIn DEF FanoutNext
    <3>2. \/ job' = [job EXCEPT !.todo = job.todo \ {m}]
          \/ job' = [job EXCEPT !.todo = job.todo \ {m}, !.mod = m, !.pc = "call"]
      BY <2>5 DEF FanoutNext
    <3>. HIDE DEF m
    <3>3. /\ job'.todo = job.todo \ {m}
          /\ job'.pc = "fanout" \/ (job'.pc = "call" /\ job'.mod = m)
      BY Zenon, <1>t, <2>5, <3>2 DEF FanoutNext, Job
    <3>4. UNCHANGED health /\ job.pc = "fanout"
      BY <2>5 DEF FanoutNext
    <3>. QED
      BY <2>c, <3>1, <3>3, <3>4 DEF CalledAlive
  <2>6. CASE /\ ProbeDirect /\ job'.pc = "call" /\ job'.mod = job.mod
             /\ job'.todo = job.todo /\ Dispatchable(health[job.mod])
    <3>1. job.todo = {} /\ UNCHANGED health
      BY <2>c, <2>6 DEF ProbeDirect, CalledAlive
    <3>. QED
      BY <2>6, <3>1 DEF CalledAlive
  <2>7. CASE /\ CallOk \/ CallFault \/ CallTrap
             /\ job'.pc = "fanout" /\ job'.todo = job.todo
    <3>1. \A m \in Mods \ {job.mod} : health'[m] = health[m]
      BY Zenon, <1>t, <2>7 DEF CallOk, CallFault, CallTrap
    <3>2. job.pc = "call" /\ job.todo \subseteq Mods
      BY Zenon, <1>t, <2>7 DEF CallOk, CallFault, CallTrap, Job
    <3>. QED
      BY <2>c, <2>7, <3>1, <3>2 DEF CalledAlive
  <2>. QED
    BY <1>t, <2>1, <2>2, <2>3, <2>4, <2>5, <2>6, <2>7, JobChange
<1>. QED
  BY <1>1, <1>2, <1>3 DEF Inv

\* The supervisor begins without a job, every module on a clean store.
LEMMA InitInv == Init => Inv
<1>1. Init => TypeOK /\ JobOK
  BY InitType
<1>2. Init => CalledAlive /\ CleanStore
  BY DEF Init, Idle, BootLive, CalledAlive, CleanStore
<1>. QED
  BY <1>1, <1>2 DEF Inv

\* The invariant holds in every state of the supervisor.
LEMMA Invariance == Spec => []Inv
<1>1. Inv /\ [Next]_vars => Inv'
  BY InvStep
<1>. QED
  BY <1>1, InitInv, PTL DEF Spec

\* A store that a trap or a deadline left behind is never entered again, however
\* many modules there are and whatever jobs, restarts and stops interleave.
THEOREM TrappedStoreSafe == Spec => []TrappedStoreNeverEntered
<1>1. Inv => TrappedStoreNeverEntered
  BY DEF Inv, CalledAlive, CleanStore, TrappedStoreNeverEntered
<1>. QED
  BY <1>1, Invariance, PTL

\* After the stop signal no init and no on_trigger is entered: every job probes
\* the signal again before each guest call it makes.
THEOREM StopSafe == Spec => NoGuestEntryAfterStop
<1>1. Inv /\ [Next]_vars => (stop /\ job.pc \notin InGuest => job'.pc \notin InGuest)
  <2>1. SUFFICES ASSUME Inv, [Next]_vars, stop, job.pc \notin InGuest
                 PROVE  job'.pc \notin InGuest
    OBVIOUS
  <2>2. CASE UNCHANGED <<job, health>>
    BY <2>1, <2>2
  <2>3. CASE ~(UNCHANGED <<job, health>>)
    <3>1. \/ job'.pc \in {"top", "ready", "done", "sweep", "probe"}
          \/ job'.pc = "fanout"
      BY <2>1, <2>3, JobChange DEF Inv
    <3>. QED
      BY <3>1 DEF InGuest
  <2>. QED
    BY <2>2, <2>3
<1>. QED
  BY <1>1, Invariance, PTL DEF Spec, NoGuestEntryAfterStop

\* Quarantine and boot-time death are final: no sweep, dispatch or source event
\* brings such a module back or calls it.
THEOREM QuarantineSafe == Spec => QuarantineIsFinal
<1> DEFINE Final ==
      \A m \in Mods :
        health[m].state \in {"Poisoned", "Dead"} =>
          /\ health'[m].state = health[m].state \/ health'[m].state = "Poisoned"
          /\ ~(job'.pc \in InGuest /\ job'.mod = m)
<1>1. Inv /\ [Next]_vars => Final
  <2>1. SUFFICES ASSUME Inv, [Next]_vars, NEW m \in Mods,
                        health[m].state \in {"Poisoned", "Dead"}
                 PROVE  /\ health'[m].state = health[m].state \/ health'[m].state = "Poisoned"
                        /\ ~(job'.pc \in InGuest /\ job'.mod = m)
    OBVIOUS
  <2>2. ReviveOk \/ ReviveFailed => health[job.mod].state = "Backoff"
    BY <2>1 DEF ReviveOk, ReviveFailed, Inv, CalledAlive
  <2>3. CallTrap => health[job.mod].state = "Alive"
    BY <2>1 DEF CallTrap, Inv, CalledAlive, Dispatchable
  <2>4. health'[m].state = health[m].state \/ health'[m].state = "Poisoned"
    BY <2>1, <2>2, <2>3, StateChange DEF Inv
  <2>5. CalledAlive'
    BY <2>1, InvStep DEF Inv
  <2>. QED
    BY <2>1, <2>4, <2>5 DEF CalledAlive, Dispatchable, InGuest
<1>. QED
  BY <1>1, Invariance, PTL DEF Spec, QuarantineIsFinal

\* The published snapshot is exact whenever the loop is waiting or has returned.
THEOREM SnapshotExact == Spec => []PublishedAtRest
<1>1. Init => PublishedAtRest
  <2>1. Init => job.pc = "top"
    BY DEF Init, Idle
  <2>. QED
    BY <2>1 DEF PublishedAtRest
<1>2. Inv /\ PublishedAtRest /\ [Next]_vars => PublishedAtRest'
  <2>1. SUFFICES ASSUME Inv, PublishedAtRest, [Next]_vars, job'.pc \in {"ready", "done"}
                 PROVE  \A m \in Mods : published'[m] = health'[m].state
    BY DEF PublishedAtRest
  <2>t. job \in Job
    BY <2>1 DEF Inv, TypeOK
  <2>2. CASE Publish
    BY <2>2 DEF Publish, Snapshot
  <2>3. CASE LoopExit \/ Tick \/ FireStop \/ Terminated \/ UNCHANGED vars
    BY <2>1, <2>3 DEF LoopExit, Tick, FireStop, Terminated, vars, PublishedAtRest
  <2>4. CASE SweepItem
    BY <2>1, <2>4, <2>t DEF SweepItem, Job
  <2>5. CASE ReviveOk \/ ReviveFailed
    BY Zenon, <2>1, <2>5, <2>t DEF ReviveOk, ReviveFailed, AfterRevive, Job
  <2>6. CASE FanoutNext
    BY Zenon, <2>1, <2>6, <2>t DEF FanoutNext, Job
  <2>7. CASE FanoutEnd
    BY <2>1, <2>7 DEF FanoutEnd, Idle
  <2>8. CASE ProbeDirect
    BY <2>1, <2>8, <2>t DEF ProbeDirect, Idle, Job
  <2>9. CASE CallOk \/ CallFault \/ CallTrap
    <3>1. PICK ok \in BOOLEAN : job' = AfterCall(ok)
      BY Zenon, <2>9 DEF CallOk, CallFault, CallTrap
    <3>. QED
      BY <2>1, <2>t, <3>1 DEF AfterCall, Idle, Job
  <2>10. CASE Begin
    <3>1. ASSUME NEW kind, NEW m, NEW feed, NEW height, NEW removed,
                 BeginDirect(kind, m, feed, height, removed)
          PROVE  job'.pc \in {"top", "init", "probe"}
      BY <3>1 DEF BeginDirect, Idle, JobOf
    <3>2. ASSUME NEW m, NEW f, FrontierCommit(m, f) PROVE job'.pc = "top"
      BY <3>2 DEF FrontierCommit, Idle
    <3>3. ASSUME NEW m, PoisonSource(m) PROVE job'.pc = "top"
      BY <3>3 DEF PoisonSource, Idle
    <3>4. ASSUME NEW f, NEW h, BeginBlock(f, h) \/ BeginExtension(f) PROVE job'.pc = "sweep"
      BY <3>4 DEF BeginBlock, BeginExtension, JobOf
    <3>5. job'.pc \in {"top", "init", "probe", "sweep"}
      BY Zenon, <2>10, <3>1, <3>2, <3>3, <3>4 DEF Begin, BeginEvent, BeginSchedule
    <3>. QED
      BY <2>1, <3>5
  <2>. QED
    BY <2>1, <2>2, <2>3, <2>4, <2>5, <2>6, <2>7, <2>8, <2>9, <2>10 DEF Next, JobStep
<1>. QED
  BY <1>1, <1>2, Invariance, PTL DEF Spec

\* No job moves a chain's last-delivered height back.
THEOREM FrontierSafe == Spec => FrontierMonotone
<1>1. Inv /\ [Next]_vars => \A c \in Chains : frontier'[c] >= frontier[c]
  <2>1. SUFFICES ASSUME Inv, [Next]_vars, NEW c \in Chains
                 PROVE  frontier'[c] >= frontier[c]
    OBVIOUS
  <2>0. frontier \in [Chains -> Heights \cup {None}] /\ Heights \subseteq Nat
    BY <2>1, SupervisorAssumption DEF Inv, TypeOK
  <2>2. frontier[c] \in Int /\ \A h \in Heights \cup {None} : h \in Int
    <3>1. None \in Int
      BY DEF None
    <3>2. frontier[c] \in Heights \cup {None}
      BY <2>0
    <3>3. \A h \in Heights : h \in Int
      BY <2>0
    <3>. QED
      BY <3>1, <3>2, <3>3
  <2>3. CASE UNCHANGED frontier
    BY <2>2, <2>3
  <2>4. ASSUME NEW k, NEW h \in Heights \cup {None}, frontier' = Delivered(frontier, k, h)
        PROVE  frontier'[c] >= frontier[c]
    BY <2>0, <2>2, <2>4 DEF Delivered
  <2>5. job.height \in Heights \cup {None}
    BY <2>1 DEF Inv, TypeOK, Job
  <2>6. CASE FanoutEnd
    BY <2>3, <2>4, <2>5, <2>6 DEF FanoutEnd
  <2>7. CASE CallOk
    BY <2>3, <2>4, <2>5, <2>7 DEF CallOk
  <2>8. CASE Begin
    BY Zenon, <2>3, <2>8
       DEF Begin, BeginBlock, BeginExtension, BeginEvent, BeginSchedule, BeginDirect,
           FrontierCommit, PoisonSource
  <2>. QED
    BY Zenon, <2>1, <2>3, <2>6, <2>7, <2>8
       DEF Next, JobStep, Tick, FireStop, LoopExit, Terminated, vars, Publish, SweepItem,
           ReviveOk, ReviveFailed, FanoutNext, ProbeDirect, CallFault, CallTrap
<1>. QED
  BY <1>1, Invariance, PTL DEF Spec, FrontierMonotone

(***************************************************************************)
(* The trap window.  It holds the tail of a module's traps; what has been  *)
(* cut off lies more than Window before its last trap, so no later burst   *)
(* can reach back to it.                                                   *)
(***************************************************************************)
\* A module's trap window w against the instants ds of all its traps.
WindowOf(w, ds) ==
  /\ Len(w) <= Len(ds)
  /\ \A j \in 1..Len(w) : w[j] = ds[Len(ds) - Len(w) + j]
  /\ \A i \in 1..(Len(ds) - Len(w)) : ds[Len(ds)] - ds[i] > Window
  /\ \A j \in 1..Len(w) : ds[Len(ds)] - w[j] <= Window

\* The traps of a module are recorded in order, none in the future.
Ordered(ds) ==
  /\ \A i, j \in 1..Len(ds) : i <= j => ds[i] <= ds[j]
  /\ \A i \in 1..Len(ds) : ds[i] <= now

\* A burst of MaxFailures traps in ds, the first being the i-th.
BurstOf(ds, i) ==
  /\ i + MaxFailures - 1 <= Len(ds)
  /\ ds[i + MaxFailures - 1] - ds[i] <= Window

WindowInv ==
  \A m \in Mods :
    /\ Ordered(deaths[m])
    /\ WindowOf(health[m].window, deaths[m])
    /\ ~IsPoisoned(health[m]) => Len(health[m].window) < MaxFailures

\* One more trap at t: the new window is the window of the longer history.
LEMMA WindowAfterTrap ==
  ASSUME NEW w \in Seq(Nat), NEW ds \in Seq(Nat), NEW t \in Nat,
         Ordered(ds), WindowOf(w, ds), now = t
  PROVE  /\ WindowOf(Append(Unexpired(w, t), t), Append(ds, t))
         /\ Ordered(Append(ds, t))
<1> DEFINE n  == Len(ds)
           l  == Len(w)
           ds2 == Append(ds, t)
<1>0. n \in Nat /\ l \in Nat /\ Window \in Nat /\ MaxFailures \in Nat \ {0}
  BY SupervisorAssumption
<1>1. PICK k \in 0..l :
        /\ Unexpired(w, t) = SubSeq(w, k + 1, l)
        /\ \A i \in 1..k : t - w[i] > Window
        /\ k < l => t - w[k + 1] <= Window
  BY Zenon, UnexpiredSuffix
<1> DEFINE u  == Unexpired(w, t)
           w2 == Append(u, t)
<1>2. /\ u \in Seq(Nat) /\ Len(u) = l - k
      /\ \A j \in 1..(l - k) : u[j] = w[k + j]
  BY Zenon, <1>1, Suffix
<1>3. /\ Len(w2) = l - k + 1 /\ w2[l - k + 1] = t
      /\ \A j \in 1..(l - k) : w2[j] = w[k + j]
  <2>. HIDE DEF u
  <2>. QED
    BY <1>0, <1>2
<1>4. /\ Len(ds2) = n + 1 /\ ds2[n + 1] = t
      /\ \A i \in 1..n : ds2[i] = ds[i] /\ ds[i] \in Nat /\ ds[i] <= t
  BY <1>0 DEF Ordered
<1>5. \A i, j \in 1..n : i <= j => ds[i] <= ds[j]
  BY DEF Ordered
<1>6. /\ l <= n
      /\ \A j \in 1..l : w[j] = ds[n - l + j]
      /\ \A i \in 1..(n - l) : ds[n] - ds[i] > Window
  BY DEF WindowOf
<1>. HIDE DEF n, l, ds2, u, w2
<1>7. Ordered(ds2)
  <2>1. ASSUME NEW i \in 1..(n + 1), NEW j \in 1..(n + 1), i <= j
        PROVE  ds2[i] <= ds2[j]
    <3>1. CASE j = n + 1
      <4>1. i = n + 1 \/ i \in 1..n
        BY <1>0
      <4>2. t \in Nat /\ t <= t
        OBVIOUS
      <4>3. ds2[i] \in Nat /\ ds2[i] <= t
        BY <1>4, <4>1, <4>2
      <4>. QED
        BY <1>4, <3>1, <4>3
    <3>2. CASE j \in 1..n
      <4>1. i \in 1..n
        BY <1>0, <2>1, <3>2
      <4>. QED
        BY <1>4, <1>5, <2>1, <3>2, <4>1
    <3>. QED
      BY <1>0, <3>1, <3>2
  <2>2. \A i \in 1..(n + 1) : ds2[i] <= now
    BY <1>0, <1>4
  <2>. QED
    BY <1>4, <2>1, <2>2 DEF Ordered
<1>8. \A j \in 1..(l - k + 1) : w2[j] = ds2[(n + 1) - (l - k + 1) + j]
  <2>1. ASSUME NEW j \in 1..(l - k + 1) PROVE w2[j] = ds2[(n + 1) - (l - k + 1) + j]
    <3>1. CASE j = l - k + 1
      BY <1>0, <1>3, <1>4, <3>1
    <3>2. CASE j \in 1..(l - k)
      <4>1. w2[j] = w[k + j] /\ k + j \in 1..l
        BY <1>0, <1>3, <3>2
      <4>2. w[k + j] = ds[n - l + (k + j)] /\ n - l + (k + j) \in 1..n
        BY <1>0, <1>6, <4>1
      <4>3. (n + 1) - (l - k + 1) + j = n - l + (k + j)
        BY <1>0
      <4>. QED
        BY <1>4, <4>1, <4>2, <4>3
    <3>. QED
      BY <1>0, <3>1, <3>2
  <2>. QED
    BY <2>1
<1>9. \A i \in 1..((n + 1) - (l - k + 1)) : t - ds2[i] > Window
  <2>1. ASSUME NEW i \in 1..((n + 1) - (l - k + 1)) PROVE t - ds2[i] > Window
    <3>0. i \in 1..n /\ ds2[i] = ds[i] /\ ds[i] \in Nat /\ i <= n - l + k
      BY <1>0, <1>4, <1>6
    <3>1. CASE i <= n - l
      <4>1. n \in 1..n /\ i \in 1..(n - l)
        BY <1>0, <3>0, <3>1
      <4>2. ds[n] \in Nat /\ ds[n] <= t /\ ds[n] - ds[i] > Window
        BY <1>4, <1>6, <4>1
      <4>. QED
        BY <1>0, <3>0, <4>2
    <3>2. CASE i > n - l
      <4>1. i - (n - l) \in 1..k /\ n - l + (i - (n - l)) = i
        BY <1>0, <1>6, <3>0, <3>2
      <4>2. w[i - (n - l)] = ds[i]
        BY <1>0, <1>6, <4>1
      <4>. QED
        BY <1>1, <3>0, <4>1, <4>2
    <3>. QED
      BY <1>0, <3>0, <3>1, <3>2
  <2>. QED
    BY <2>1
<1>10. \A j \in 1..(l - k + 1) : t - w2[j] <= Window
  <2>1. ASSUME NEW j \in 1..(l - k + 1) PROVE t - w2[j] <= Window
    <3>1. CASE j = l - k + 1
      BY <1>0, <1>3, <3>1
    <3>2. CASE j \in 1..(l - k)
      <4>1. /\ k < l /\ k + j \in 1..l /\ k + 1 \in 1..l
            /\ n - l + (k + j) \in 1..n /\ n - l + (k + 1) \in 1..n
            /\ n - l + (k + 1) <= n - l + (k + j)
        BY <1>0, <1>6, <3>2
      <4>2. w[k + 1] <= w[k + j] /\ w[k + 1] \in Nat /\ w[k + j] \in Nat
        BY Zenon, <1>4, <1>5, <1>6, <4>1
      <4>3. w2[j] = w[k + j] /\ t - w[k + 1] <= Window
        BY <1>1, <1>3, <3>2, <4>1
      <4>4. \A a, b \in Nat : a <= b /\ t - a <= Window => t - b <= Window
        BY <1>0
      <4>. QED
        BY Zenon, <4>2, <4>3, <4>4
    <3>. QED
      BY <1>0, <3>1, <3>2
  <2>. QED
    BY <2>1
<1>11. WindowOf(w2, ds2)
  BY <1>0, <1>3, <1>4, <1>6, <1>8, <1>9, <1>10 DEF WindowOf
<1>. QED
  BY <1>7, <1>11 DEF w2, u, ds2

\* The window is as long as the threshold exactly when the last MaxFailures
\* traps form a burst.
LEMMA LongWindowIsBurst ==
  ASSUME NEW w \in Seq(Nat), NEW ds \in Seq(Nat), WindowOf(w, ds), Len(ds) > 0
  PROVE  Len(w) >= MaxFailures <=>
           /\ Len(ds) - MaxFailures + 1 >= 1
           /\ BurstOf(ds, Len(ds) - MaxFailures + 1)
<1> DEFINE n == Len(ds)
           l == Len(w)
           i == n - MaxFailures + 1
<1>0. n \in Nat /\ l \in Nat /\ Window \in Nat /\ MaxFailures \in Nat \ {0}
  BY SupervisorAssumption
<1>1. /\ l <= n
      /\ \A j \in 1..l : w[j] = ds[n - l + j]
      /\ \A j \in 1..(n - l) : ds[n] - ds[j] > Window
      /\ \A j \in 1..l : ds[n] - w[j] <= Window
      /\ \A j \in 1..n : ds[j] \in Nat
  BY DEF WindowOf
<1>2. BurstOf(ds, i) <=> ds[n] - ds[i] <= Window
  <2>1. i + MaxFailures - 1 = n
    BY <1>0
  <2>. HIDE DEF i
  <2>. QED
    BY <1>0, <2>1 DEF BurstOf
<1>3. ASSUME l >= MaxFailures PROVE i >= 1 /\ ds[n] - ds[i] <= Window
  <2>1. i - (n - l) \in 1..l /\ n - l + (i - (n - l)) = i /\ i >= 1
    BY <1>0, <1>1, <1>3
  <2>. QED
    BY <1>1, <2>1
<1>4. ASSUME i >= 1, ds[n] - ds[i] <= Window, l < MaxFailures PROVE FALSE
  <2>1. i \in 1..(n - l) /\ i \in 1..n /\ n \in 1..n
    BY <1>0, <1>1, <1>4
  <2>2. ds[n] - ds[i] > Window /\ ds[n] \in Nat /\ ds[i] \in Nat
    BY Zenon, <1>1, <2>1
  <2>. QED
    BY <1>0, <1>4, <2>2
<1>. QED
  BY <1>0, <1>2, <1>3, <1>4

\* A trap adds no burst but the one it ends.
LEMMA NewBurst ==
  ASSUME NEW ds \in Seq(Nat), NEW t \in Nat
  PROVE  LET ds2  == Append(ds, t)
             last == Len(ds) + 1 - MaxFailures + 1
         IN  (\E i \in 1..Len(ds2) : BurstOf(ds2, i)) <=>
               \/ \E i \in 1..Len(ds) : BurstOf(ds, i)
               \/ last >= 1 /\ BurstOf(ds2, last)
<1> DEFINE n    == Len(ds)
           ds2  == Append(ds, t)
           last == n + 1 - MaxFailures + 1
<1>0. n \in Nat /\ MaxFailures \in Nat \ {0} /\ Window \in Nat
  BY SupervisorAssumption
<1>1. Len(ds2) = n + 1 /\ \A i \in 1..n : ds2[i] = ds[i]
  BY <1>0
<1>. HIDE DEF n, ds2
<1>2. ASSUME NEW i \in 1..(n + 1), BurstOf(ds2, i), i # last
      PROVE  i \in 1..n /\ BurstOf(ds, i)
  <2>1. i + MaxFailures - 1 <= n + 1 /\ ds2[i + MaxFailures - 1] - ds2[i] <= Window
    BY <1>1, <1>2 DEF BurstOf
  <2>2. i + MaxFailures - 1 \in 1..n /\ i \in 1..n
    BY <1>0, <1>2, <2>1
  <2>. QED
    BY <1>1, <2>1, <2>2 DEF BurstOf, n
<1>3. ASSUME NEW i \in 1..n, BurstOf(ds, i)
      PROVE  i \in 1..(n + 1) /\ BurstOf(ds2, i)
  <2>1. i + MaxFailures - 1 \in 1..n /\ ds[i + MaxFailures - 1] - ds[i] <= Window
    BY <1>0, <1>3 DEF BurstOf, n
  <2>. QED
    BY <1>0, <1>1, <1>3, <2>1 DEF BurstOf
<1>4. last >= 1 => last \in 1..(n + 1)
  BY <1>0
<1>. QED
  BY <1>1, <1>2, <1>3, <1>4 DEF n, ds2

\* The quarantine of one module, as a relation of its state to its history.
ExactFor(h, ds, isLost) ==
  IsPoisoned(h) <=> isLost \/ \E i \in 1..Len(ds) : BurstOf(ds, i)

\* The exactness of the quarantine, module by module.
LEMMA ExactIsQuarantineExact ==
  QuarantineExact <=> \A m \in Mods : ExactFor(health[m], deaths[m], m \in lost)
BY DEF QuarantineExact, ExactFor, Burst, BurstOf

\* What a step does to a module's window, traps and quarantine.
LEMMA WindowChange ==
  ASSUME Inv, [Next]_vars, NEW m \in Mods
  PROVE  /\ now' \in Nat /\ now <= now'
         /\ \/ /\ health'[m].window = health[m].window /\ deaths'[m] = deaths[m]
               /\ IsPoisoned(health'[m]) <=> IsPoisoned(health[m])
               /\ m \in lost' <=> m \in lost
            \/ /\ health'[m].window = health[m].window /\ deaths'[m] = deaths[m]
               /\ IsPoisoned(health'[m]) /\ m \in lost'
            \/ CallTrap /\ m = job.mod
<1>t. /\ now \in Nat /\ health \in [Mods -> Health] /\ deaths \in [Mods -> Seq(Nat)]
      /\ job \in Job /\ JobOK /\ CalledAlive
  BY DEF Inv, TypeOK
<1>n. now' \in Nat /\ now <= now'
  <2>1. CASE Tick
    BY <1>t, <2>1 DEF Tick
  <2>2. CASE UNCHANGED now
    BY <1>t, <2>2
  <2>3. CASE Begin
    BY Zenon, <2>2, <2>3
       DEF Begin, BeginBlock, BeginExtension, BeginEvent, BeginSchedule, BeginDirect,
           FrontierCommit, PoisonSource
  <2>. QED
    BY Zenon, <2>1, <2>2, <2>3
       DEF Next, JobStep, FireStop, LoopExit, Terminated, vars, Publish, SweepItem, ReviveOk,
           ReviveFailed, FanoutNext, FanoutEnd, ProbeDirect, CallOk, CallFault, CallTrap
<1>1. CASE UNCHANGED <<health, deaths, lost>>
  BY <1>1, <1>n
<1>2. CASE ReviveOk
  <2>1. job.mod \in Mods /\ health[job.mod].state = "Backoff"
    BY <1>2, <1>t DEF ReviveOk, JobOK, CalledAlive
  <2>2. /\ RestartSucceeded(health[job.mod]).window = health[job.mod].window
        /\ RestartSucceeded(health[job.mod]).state = "Alive"
    BY <1>t, <2>1 DEF RestartSucceeded, Health
  <2>3. UNCHANGED <<deaths, lost>> /\ health'[m] =
          IF m = job.mod THEN RestartSucceeded(health[m]) ELSE health[m]
    BY <1>2, <1>t DEF ReviveOk
  <2>. QED
    BY <1>n, <2>1, <2>2, <2>3 DEF IsPoisoned
<1>3. CASE ReviveFailed
  <2>1. job.mod \in Mods /\ health[job.mod].state = "Backoff"
    BY <1>3, <1>t DEF ReviveFailed, JobOK, CalledAlive
  <2>2. PICK d : health' = [health EXCEPT ![job.mod] = DeferRestart(@, job.at, d)]
    BY Zenon, <1>3 DEF ReviveFailed
  <2>3. /\ DeferRestart(health[job.mod], job.at, d).window = health[job.mod].window
        /\ DeferRestart(health[job.mod], job.at, d).state = "Backoff"
    BY <1>t, <2>1 DEF DeferRestart, Health
  <2>4. UNCHANGED <<deaths, lost>> /\ health'[m] =
          IF m = job.mod THEN DeferRestart(health[m], job.at, d) ELSE health[m]
    BY <1>3, <1>t, <2>2 DEF ReviveFailed
  <2>. QED
    BY <1>n, <2>1, <2>3, <2>4 DEF IsPoisoned
<1>4. CASE CallOk
  <2>1. job.mod \in Mods
    BY <1>4, <1>t DEF CallOk, JobOK
  <2>2. /\ DispatchSucceeded(health[job.mod]).window = health[job.mod].window
        /\ DispatchSucceeded(health[job.mod]).state = health[job.mod].state
    BY <1>t, <2>1 DEF DispatchSucceeded, Health
  <2>3. UNCHANGED <<deaths, lost>> /\ health'[m] =
          IF m = job.mod THEN DispatchSucceeded(health[m]) ELSE health[m]
    BY <1>4, <1>t DEF CallOk
  <2>. QED
    BY <1>n, <2>2, <2>3 DEF IsPoisoned
<1>5. CASE CallTrap
  <2>1. m # job.mod => health'[m] = health[m] /\ deaths'[m] = deaths[m]
    BY <1>5, <1>t DEF CallTrap
  <2>2. UNCHANGED lost
    BY <1>5 DEF CallTrap
  <2>. QED
    BY <1>5, <1>n, <2>1, <2>2
<1>6. ASSUME NEW k \in EventModules, PoisonSource(k)
      PROVE  \/ UNCHANGED <<health, deaths, lost>>
             \/ /\ deaths'[m] = deaths[m]
                /\ m # k => health'[m] = health[m] /\ (m \in lost' <=> m \in lost)
                /\ m = k => /\ health'[m].window = health[m].window
                            /\ IsPoisoned(health'[m]) /\ m \in lost'
  <2>1. \A h \in Health : Poison(h).window = h.window /\ Poison(h).state = "Poisoned"
    BY DEF Poison, Health
  <2>2. CASE IsPoisoned(health[k])
    BY <1>6, <2>2 DEF PoisonSource
  <2>3. CASE ~IsPoisoned(health[k])
    <3>1. /\ health' = [health EXCEPT ![k] = Poison(health[k])]
          /\ lost' = lost \cup {k} /\ UNCHANGED deaths
      BY <1>6, <2>3, <1>t DEF PoisonSource
    <3>. QED
      BY <1>t, <2>1, <3>1 DEF IsPoisoned
  <2>. QED
    BY <2>2, <2>3
<1>7. CASE Begin
  <2>1. CASE \E k \in EventModules : PoisonSource(k)
    BY <1>1, <1>6, <1>n, <2>1
  <2>2. CASE ~\E k \in EventModules : PoisonSource(k)
    BY Zenon, <1>1, <1>7, <2>2
       DEF Begin, BeginBlock, BeginExtension, BeginEvent, BeginSchedule, BeginDirect,
           FrontierCommit
  <2>. QED
    BY <2>1, <2>2
<1>. QED
  BY ZenonT(40), <1>1, <1>2, <1>3, <1>4, <1>5, <1>7
     DEF Next, JobStep, Tick, FireStop, LoopExit, Terminated, vars, Publish, SweepItem,
         FanoutNext, FanoutEnd, ProbeDirect, CallFault

\* A trap of module m keeps its window exact.
LEMMA TrapStep ==
  ASSUME Inv, WindowInv, QuarantineExact, CallTrap, job.mod \in Mods
  PROVE  LET m == job.mod IN
         /\ Ordered(deaths'[m]) /\ WindowOf(health'[m].window, deaths'[m])
         /\ ~IsPoisoned(health'[m]) => Len(health'[m].window) < MaxFailures
         /\ ExactFor(health'[m], deaths'[m], m \in lost')
<1> DEFINE m == job.mod
           h == health[m]
           ds == deaths[m]
           recent == Append(Unexpired(h.window, now), now)
<1>t. /\ h \in Health /\ ds \in Seq(Nat) /\ now \in Nat /\ h.state = "Alive"
      /\ h.window \in Seq(Nat) /\ MaxFailures \in Nat \ {0}
  BY SupervisorAssumption DEF Inv, TypeOK, CallTrap, CalledAlive, Dispatchable, Health
<1>1. PICK d : health' = [health EXCEPT ![m] = RecordTrap(@, now, d)]
  BY Zenon DEF CallTrap
<1>2. deaths'[m] = Append(ds, now) /\ lost' = lost /\ health'[m] = RecordTrap(h, now, d)
  BY <1>1 DEF CallTrap, Inv, TypeOK
<1>3. /\ RecordTrap(h, now, d).window = recent
      /\ IsPoisoned(RecordTrap(h, now, d)) <=> Len(recent) >= MaxFailures
  BY Zenon, <1>t DEF RecordTrap, IsPoisoned, ShouldPoison
<1>4. recent \in Seq(Nat)
  <2>1. Unexpired(h.window, now) \in Seq(Nat)
    BY Zenon, <1>t, UnexpiredType
  <2>. QED
    BY <1>t, <2>1
<1>5. Ordered(ds) /\ WindowOf(h.window, ds)
  BY DEF WindowInv
<1>6. Ordered(Append(ds, now)) /\ WindowOf(recent, Append(ds, now))
  BY <1>t, <1>5, WindowAfterTrap
<1>7. ~\E i \in 1..Len(ds) : BurstOf(ds, i)
  BY <1>t, ExactIsQuarantineExact DEF ExactFor, IsPoisoned
<1>8. m \notin lost
  BY <1>t, ExactIsQuarantineExact DEF ExactFor, IsPoisoned
<1> DEFINE ds2  == Append(ds, now)
           last == Len(ds) + 1 - MaxFailures + 1
<1>9. Len(ds2) = Len(ds) + 1 /\ Len(ds2) > 0 /\ ds2 \in Seq(Nat)
  BY <1>t
<1>10. (\E i \in 1..Len(ds2) : BurstOf(ds2, i)) <=> last >= 1 /\ BurstOf(ds2, last)
  BY <1>t, <1>7, NewBurst
<1>11. Len(recent) >= MaxFailures <=> last >= 1 /\ BurstOf(ds2, last)
  <2>1. last = Len(ds2) - MaxFailures + 1
    <3>1. Len(ds) \in Nat
      BY <1>t
    <3>. HIDE DEF ds2, ds
    <3>. QED
      BY <1>t, <1>9, <3>1
  <2>. HIDE DEF ds2, last, recent
  <2>2. WindowOf(recent, ds2)
    BY <1>6 DEF ds2
  <2>. QED
    BY <1>4, <1>9, <2>1, <2>2, LongWindowIsBurst
<1>12. Len(recent) \in Nat
  BY <1>4
<1>. HIDE DEF ds2, last, recent
<1>13. IsPoisoned(health'[m]) <=> \E i \in 1..Len(ds2) : BurstOf(ds2, i)
  BY <1>2, <1>3, <1>10, <1>11
<1>14. deaths'[m] = ds2
  BY <1>2 DEF ds2
<1>15. ~IsPoisoned(health'[m]) => Len(health'[m].window) < MaxFailures
  BY <1>t, <1>2, <1>3, <1>12
<1>. QED
  BY Zenon, <1>2, <1>3, <1>6, <1>8, <1>13, <1>14, <1>15 DEF ExactFor, ds2

\* A module is quarantined exactly when its source was lost or MaxFailures of
\* its traps ever fell within one window: popping the deque forgets nothing that
\* matters, and failed restarts never count.
THEOREM QuarantineIsExact == Spec => []QuarantineExact
<1> DEFINE QInv == WindowInv /\ QuarantineExact
<1>1. Init => QInv
  <2>1. SUFFICES ASSUME Init PROVE QInv
    OBVIOUS
  <2>2. ASSUME NEW m \in Mods
        PROVE  /\ health[m].window = <<>> /\ deaths[m] = <<>>
               /\ ~IsPoisoned(health[m]) /\ m \notin lost
    BY <2>1, <2>2 DEF Init, BootHealth, FromInit, IsPoisoned
  <2>3. WindowInv
    <3>1. Ordered(<<>>) /\ WindowOf(<<>>, <<>>)
      BY DEF Ordered, WindowOf
    <3>2. Len(<<>>) < MaxFailures
      BY SupervisorAssumption
    <3>. QED
      BY <2>2, <3>1, <3>2 DEF WindowInv
  <2>4. QuarantineExact
    BY <2>2 DEF QuarantineExact, Burst
  <2>. QED
    BY <2>3, <2>4
<1>2. Inv /\ QInv /\ [Next]_vars => QInv'
  <2>1. SUFFICES ASSUME Inv, WindowInv, QuarantineExact, [Next]_vars PROVE QInv'
    OBVIOUS
  <2>2. ASSUME NEW m \in Mods
        PROVE  /\ Ordered(deaths[m])' /\ WindowOf(health[m].window, deaths[m])'
               /\ (~IsPoisoned(health[m]) => Len(health[m].window) < MaxFailures)'
               /\ ExactFor(health[m], deaths[m], m \in lost)'
    <3>0. /\ Ordered(deaths[m]) /\ WindowOf(health[m].window, deaths[m])
          /\ ~IsPoisoned(health[m]) => Len(health[m].window) < MaxFailures
          /\ ExactFor(health[m], deaths[m], m \in lost)
      BY <2>1, ExactIsQuarantineExact DEF WindowInv
    <3>1. now \in Nat /\ now' \in Nat /\ now <= now' /\ deaths[m] \in Seq(Nat)
      BY <2>1, WindowChange DEF Inv, TypeOK
    <3>2. deaths'[m] = deaths[m] => Ordered(deaths[m])'
      BY <3>0, <3>1 DEF Ordered
    <3>3. CASE /\ health'[m].window = health[m].window /\ deaths'[m] = deaths[m]
               /\ IsPoisoned(health'[m]) <=> IsPoisoned(health[m])
               /\ m \in lost' <=> m \in lost
      BY ZenonT(40), <3>0, <3>2, <3>3 DEF WindowOf, ExactFor, IsPoisoned, BurstOf
    <3>4. CASE /\ health'[m].window = health[m].window /\ deaths'[m] = deaths[m]
               /\ IsPoisoned(health'[m]) /\ m \in lost'
      BY Zenon, <3>0, <3>2, <3>4 DEF WindowOf, ExactFor, IsPoisoned
    <3>5. CASE CallTrap /\ m = job.mod
      <4>1. UNCHANGED now
        BY <3>5 DEF CallTrap
      <4>2. /\ Ordered(deaths'[m]) /\ WindowOf(health'[m].window, deaths'[m])
            /\ ~IsPoisoned(health'[m]) => Len(health'[m].window) < MaxFailures
            /\ ExactFor(health'[m], deaths'[m], m \in lost')
        BY <2>1, <2>2, <3>5, TrapStep
      <4>. QED
        BY Zenon, <4>1, <4>2 DEF Ordered, WindowOf, ExactFor, IsPoisoned, BurstOf
    <3>. QED
      BY <2>1, <3>3, <3>4, <3>5, WindowChange
  <2>3. WindowInv'
    BY <2>2 DEF WindowInv
  <2>4. QuarantineExact'
    BY <2>2 DEF QuarantineExact, Burst, BurstOf, ExactFor
  <2>. QED
    BY <2>3, <2>4
<1>. QED
  BY <1>1, <1>2, Invariance, PTL DEF Spec

(***************************************************************************)
(* Restarts back off                                                       *)
(***************************************************************************)
\* The delay of h, measured from the last of the traps ds.
BackedOff(h, ds) ==
  /\ ds # <<>>
  /\ ds[Len(ds)] <= h.until
  /\ 2 * (h.until - ds[Len(ds)]) >= BackoffBase(h.count)

\* Besides, the module being revived was due when the job began: a deferral
\* counts from an instant that its last trap does not follow.
BackoffInv ==
  /\ \A m \in Mods : health[m].state = "Backoff" => BackedOff(health[m], deaths[m])
  /\ job.pc = "init" => health[job.mod].until <= job.at

\* A delay the code may draw is at least half of its base.
LEMMA DelayIsLongEnough ==
  ASSUME NEW h \in Health, NEW d \in NextBackoff(h)
  PROVE  d \in Nat /\ 2 * d >= BackoffBase(h.count + 1) /\ BackoffBase(h.count + 1) \in Int
<1>1. h.count + 1 \in Nat /\ h.count + 1 # 0
  BY DEF Health
<1>2. BackoffBase(h.count + 1) \in Int
  BY <1>1, BackoffBaseType
<1>. QED
  BY <1>1, <1>2, BackoffType DEF NextBackoff, BackoffFor

\* A module that enters or stays in backoff has been backed off.
LEMMA BackoffStep ==
  ASSUME Inv, BackoffInv, [Next]_vars, NEW m \in Mods, health'[m].state = "Backoff"
  PROVE  BackedOff(health'[m], deaths'[m])
<1>t. /\ now \in Nat /\ health \in [Mods -> Health] /\ deaths \in [Mods -> Seq(Nat)]
      /\ job \in Job /\ JobOK /\ CalledAlive
  BY DEF Inv, TypeOK
<1>1. CASE health'[m] = health[m] /\ deaths'[m] = deaths[m]
  BY <1>1 DEF BackoffInv
<1>2. CASE ReviveFailed /\ m = job.mod
  <2>1. deaths' = deaths /\ job.pc = "init" /\ health[m].state = "Backoff" /\ job.at \in Nat
    BY <1>2, <1>t DEF ReviveFailed, CalledAlive, Job
  <2>2. PICK d \in NextBackoff(health[m]) :
          health' = [health EXCEPT ![m] = DeferRestart(@, job.at, d)]
    BY Zenon, <1>2 DEF ReviveFailed
  <2>3. /\ DeferRestart(health[m], job.at, d).until = job.at + d
        /\ DeferRestart(health[m], job.at, d).count = health[m].count + 1
    BY <1>t DEF DeferRestart, Health
  <2>4. health'[m].until = job.at + d /\ health'[m].count = health[m].count + 1
    BY <1>t, <2>2, <2>3
  <2>5. BackedOff(health[m], deaths[m]) /\ health[m].until <= job.at
    BY <1>2, <2>1 DEF BackoffInv
  <2>6. deaths[m][Len(deaths[m])] \in Nat /\ health[m].until \in Nat
    BY <1>t, <2>5 DEF BackedOff, Health
  <2>7. d \in Nat /\ 2 * d >= BackoffBase(health[m].count + 1)
        /\ BackoffBase(health[m].count + 1) \in Int
    BY <1>t, <2>2, DelayIsLongEnough
  <2>8. deaths[m][Len(deaths[m])] <= job.at
    BY <2>1, <2>5, <2>6 DEF BackedOff
  <2>. QED
    BY <2>1, <2>4, <2>5, <2>6, <2>7, <2>8 DEF BackedOff
<1>3. CASE CallTrap /\ m = job.mod
  <2>1. PICK d \in NextBackoff(health[m]) :
          health' = [health EXCEPT ![m] = RecordTrap(@, now, d)]
    BY Zenon, <1>3 DEF CallTrap
  <2>2. deaths'[m] = Append(deaths[m], now)
    BY <1>3, <1>t DEF CallTrap
  <2>3. health'[m] = RecordTrap(health[m], now, d)
    BY <1>t, <2>1
  <2>4. health'[m].until = now + d /\ health'[m].count = health[m].count + 1
    BY <2>3 DEF RecordTrap
  <2>5. /\ Append(deaths[m], now) # <<>>
        /\ Append(deaths[m], now)[Len(Append(deaths[m], now))] = now
    <3>1. deaths[m] \in Seq(Nat)
      BY <1>t
    <3>2. Len(Append(deaths[m], now)) = Len(deaths[m]) + 1
      BY <1>t, <3>1
    <3>3. Append(deaths[m], now) # <<>>
      BY <3>1, <3>2
    <3>4. Append(deaths[m], now)[Len(deaths[m]) + 1] = now
      BY <1>t, <3>1
    <3>. QED
      BY <3>2, <3>4, <3>3, Zenon
  <2>6. d \in Nat /\ 2 * d >= BackoffBase(health[m].count + 1)
        /\ BackoffBase(health[m].count + 1) \in Int
    BY <1>t, <2>1, DelayIsLongEnough
  <2>. QED
    BY <1>t, <2>2, <2>4, <2>5, <2>6 DEF BackedOff
<1>4. deaths'[m] = deaths[m] \/ (CallTrap /\ m = job.mod)
  BY WindowChange
<1>5. CASE CallOk
  <2>1. job.mod \in Mods /\ health[job.mod].state = "Alive"
    BY <1>5, <1>t DEF CallOk, JobOK, CalledAlive, Dispatchable
  <2>2. DispatchSucceeded(health[job.mod]).state = "Alive"
    BY <1>t, <2>1, AliveStates
  <2>3. m # job.mod /\ health'[m] = health[m] /\ deaths'[m] = deaths[m]
    BY <1>5, <1>t, <2>1, <2>2 DEF CallOk
  <2>. QED
    BY <1>1, <2>3
<1>6. CASE ReviveOk
  <2>1. job.mod \in Mods
    BY <1>6, <1>t DEF ReviveOk, JobOK
  <2>2. m # job.mod /\ health'[m] = health[m] /\ deaths'[m] = deaths[m]
    BY <1>6, <1>t, <2>1, AliveStates DEF ReviveOk
  <2>. QED
    BY <1>1, <2>2
<1>7. CASE ReviveFailed /\ m # job.mod
  BY <1>1, <1>7, <1>t DEF ReviveFailed
<1>8. CASE CallTrap /\ m # job.mod
  BY <1>1, <1>8, <1>t DEF CallTrap
<1>9. ASSUME NEW k \in EventModules, PoisonSource(k)
      PROVE  health'[m] = health[m]
  BY <1>9, <1>t, AliveStates DEF PoisonSource
<1>10. CASE Begin
  <2>1. health'[m] = health[m]
    BY Zenon, <1>9, <1>10
       DEF Begin, BeginBlock, BeginExtension, BeginEvent, BeginSchedule, BeginDirect,
           FrontierCommit
  <2>2. ~CallTrap
    BY Zenon, <1>10
       DEF Begin, BeginBlock, BeginExtension, BeginEvent, BeginSchedule, BeginDirect,
           FrontierCommit, PoisonSource, CallTrap
  <2>. QED
    BY <1>1, <1>4, <2>1, <2>2
<1>11. CASE UNCHANGED health /\ ~CallTrap
  BY <1>1, <1>4, <1>11
<1>. QED
  BY ZenonT(40), <1>2, <1>3, <1>5, <1>6, <1>7, <1>8, <1>10, <1>11
     DEF Next, JobStep, Tick, FireStop, LoopExit, Terminated, vars, Publish, SweepItem,
         FanoutNext, FanoutEnd, ProbeDirect, CallFault

\* An idle job has the program counter it is given.
LEMMA IdlePc == \A pc : Idle(pc).pc = pc
  BY DEF Idle

\* A job enters a revive only of a module whose delay had passed when it began.
LEMMA RevivesDue ==
  ASSUME Inv, BackoffInv, [Next]_vars, job'.pc = "init"
  PROVE  health'[job'.mod].until <= job'.at
<1>t. job \in Job
  BY DEF Inv, TypeOK
<1>1. CASE UNCHANGED <<job, health>>
  BY <1>1 DEF BackoffInv
<1>2. CASE SweepItem
  BY <1>2, <1>t DEF SweepItem, SweepDue, DueRestart, Job
<1>3. ASSUME NEW k, NEW m, NEW f, NEW h, NEW r, BeginDirect(k, m, f, h, r)
      PROVE  health'[job'.mod].until <= job'.at
  <2>1. CASE stop \/ IsPoisoned(health[m])
    <3>1. job' = Idle("top")
      BY Zenon, <1>3, <2>1 DEF BeginDirect
    <3>. QED
      BY <3>1, IdlePc
  <2>2. CASE ~(stop \/ IsPoisoned(health[m]))
    <3>. DEFINE start == IF DueRestart(health[m], now) THEN "init" ELSE "probe"
    <3>1. job' = JobOf(start, k, m, f, h, r) /\ health' = health
      BY Zenon, <1>3, <2>2 DEF BeginDirect
    <3>2. start = "init" => DueRestart(health[m], now)
      OBVIOUS
    <3>. HIDE DEF start
    <3>3. job'.pc = start /\ job'.at = now /\ job'.mod = m
      <4>. DEFINE fresh == JobOf(start, k, m, f, h, r)
      <4>1. fresh.pc = start /\ fresh.at = now /\ fresh.mod = m
        BY DEF JobOf
      <4>2. job' = fresh
        BY <3>1
      <4>. HIDE DEF fresh
      <4>. QED
        BY Zenon, <4>1, <4>2
    <3>4. health[m].until <= now
      BY Zenon, <3>2, <3>3 DEF DueRestart
    <3>. QED
      BY Zenon, <3>1, <3>3, <3>4
  <2>. QED
    BY Zenon, <2>1, <2>2
<1>4. CASE Begin
  <2>1. ASSUME NEW c, NEW h, BeginBlock(c, h) PROVE job'.pc = "sweep"
    BY <2>1 DEF BeginBlock, JobOf
  <2>2. ASSUME NEW k, BeginExtension(k) PROVE job'.pc = "sweep"
    BY <2>2 DEF BeginExtension, JobOf
  <2>3. ASSUME NEW m, NEW f, FrontierCommit(m, f) \/ PoisonSource(m) PROVE job'.pc = "top"
    <3>1. job' = Idle("top")
      BY Zenon, <2>3 DEF FrontierCommit, PoisonSource
    <3>. QED
      BY Zenon, <3>1, IdlePc
  <2>. QED
    BY ZenonT(40), <1>3, <1>4, <2>1, <2>2, <2>3 DEF Begin, BeginEvent, BeginSchedule
<1>5. CASE ReviveOk \/ ReviveFailed
  <2>1. job'.pc \in {"sweep", "probe"}
    BY Zenon, <1>5, <1>t DEF ReviveOk, ReviveFailed, AfterRevive, Job
  <2>. QED
    BY <2>1
<1>6. CASE FanoutNext \/ ProbeDirect
  <2>1. job'.pc \in {"fanout", "call", "top"}
    <3>1. CASE FanoutNext
      BY Zenon, <3>1, <1>t DEF FanoutNext, Job
    <3>2. CASE ProbeDirect
      BY <3>2, <1>t DEF ProbeDirect, Job, Idle
    <3>. QED
      BY <1>6, <3>1, <3>2
  <2>. QED
    BY <2>1
<1>7. CASE CallOk \/ CallFault \/ CallTrap
  <2>1. ASSUME NEW ok, job' = AfterCall(ok) PROVE job'.pc \in {"fanout", "top"}
    BY <2>1, <1>t DEF AfterCall, Job, Idle
  <2>2. job'.pc \in {"fanout", "top"}
    BY ZenonT(40), <1>7, <2>1 DEF CallOk, CallFault, CallTrap
  <2>. QED
    BY <2>2
<1>8. CASE Publish \/ LoopExit \/ FanoutEnd
  <2>1. \E pc \in {"done", "ready", "top"} : job' = Idle(pc)
    BY Zenon, <1>8 DEF Publish, LoopExit, FanoutEnd
  <2>2. job'.pc \in {"done", "ready", "top"}
    BY Zenon, <2>1, IdlePc
  <2>. QED
    BY <2>2
<1>. QED
  BY Zenon, <1>1, <1>2, <1>4, <1>5, <1>6, <1>8, <1>7
     DEF Next, JobStep, Tick, FireStop, Terminated, vars

\* A module with count failures in a row waits at least half of that count's
\* base delay after its last trap, although a failed revive defers from the
\* instant its sweep began and guests may have run long since.
THEOREM RestartsBackOff == Spec => []BackoffGrows
<1>1. Init => BackoffInv
  BY DEF Init, BootHealth, FromInit, Idle, BackoffInv
<1>2. Inv /\ BackoffInv /\ [Next]_vars => BackoffInv'
  BY Zenon, BackoffStep, RevivesDue DEF BackoffInv
<1>3. BackoffInv => BackoffGrows
  BY DEF BackoffInv, BackedOff, BackoffGrows
<1>. QED
  BY <1>1, <1>2, <1>3, Invariance, PTL DEF Spec
=============================================================================
