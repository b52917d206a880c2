----------------------------- MODULE Supervisor -----------------------------
(***************************************************************************)
(* The supervisor: the lifecycle of every loaded module and the dispatch   *)
(* of triggers to them.                                                    *)
(*                                                                         *)
(* The event loop owns the supervisor, so one job (a dispatch, a frontier  *)
(* commit, a source poisoning) runs at a time.  What runs beside it is the *)
(* clock and the stop signal: both may move at every await of a job, that  *)
(* is while a guest call (init or on_trigger) is in flight and between two *)
(* modules of a sweep or of a fan-out.  A guest call is therefore two      *)
(* steps, its entry and its end; the code between two awaits is one step.  *)
(*                                                                         *)
(* One unit of time is half a second, the granularity of the shortest      *)
(* backoff.  Run numbers, metrics and log lines are left out.              *)
(***************************************************************************)
EXTENDS Sequences, FiniteSets, TokenBucket, ChainLogCursors

CONSTANTS
  N,            \* number of loaded modules, numbered in [[modules]] order
  Chains,       \* chains with a block source
  ExtKinds,     \* extension trigger kinds
  Subscribers,  \* the modules with a trigger on each chain or kind
  EventModules, \* modules with an event trigger
  Keyed,        \* those whose event trigger has resume = true
  ScheduleModules, \* modules with a schedule trigger
  Heights,      \* block heights a trigger may carry
  MaxFailures,  \* [limits.poison] max_failures
  Window,       \* [limits.poison] window
  MaxBackoff,   \* RESTART_MAX_BACKOFF
  StoreFaults,  \* may a read or a write of the cursor store fail?
  Outcomes,     \* how a guest call may end
  MaxTime       \* bound on the clock

Mods == 1..N
Feeds == Chains \cup ExtKinds

ASSUME SupervisorAssumption ==
  /\ N \in Nat \ {0}
  /\ Subscribers \in [Feeds -> SUBSET Mods]
  /\ EventModules \subseteq Mods /\ Keyed \subseteq EventModules
  /\ ScheduleModules \subseteq Mods
  /\ Heights \subseteq Nat
  /\ MaxFailures \in Nat \ {0}
  /\ Window \in Nat /\ MaxBackoff \in Nat \ {0}
  /\ StoreFaults \in BOOLEAN
  /\ Outcomes \subseteq {"ok", "fault", "trap"}
  /\ MaxTime \in Nat

VARIABLES
  now,        \* the monotonic clock
  stop,       \* has the stop signal fired?
  health,     \* each module's Health
  live,       \* each module's live run: whether its wasm store was left by a
              \* trap, and the dispatch bucket
  frontier,   \* delivered_frontier, per chain
  cursors,    \* each keyed module's resume cursor
  published,  \* the last published health snapshot
  job,        \* what the event loop is doing
  deaths,     \* history: the instants of each module's traps
  lost        \* history: the modules poisoned because of their source

vars == <<now, stop, health, live, frontier, cursors, published, job, deaths, lost>>

(***************************************************************************)
(* Health                                                                  *)
(***************************************************************************)
States == {"Alive", "Backoff", "Dead", "Poisoned"}

Health == [state : States, until : Nat, count : Nat, window : Seq(Nat)]

\* until is meaningful in Backoff only and 0 elsewhere.
FromInit(ok) ==
  [state |-> IF ok THEN "Alive" ELSE "Dead", until |-> 0, count |-> 0, window |-> <<>>]

Dispatchable(h) == h.state = "Alive"
IsPoisoned(h) == h.state = "Poisoned"

DueRestart(h, t) == h.state = "Backoff" /\ h.until <= t

\* The undithered delay after count failures: one second doubling, capped.
BackoffBase(count) ==
  LET shift == IF count - 1 <= 9 THEN count - 1 ELSE 9
      base  == 2 * 2^shift
  IN  IF base <= MaxBackoff THEN base ELSE MaxBackoff

\* backoff_for: none in the steady state, else a hash of (seed, count) into the
\* upper half of the base, here any value of that half.
BackoffFor(count) ==
  IF count = 0 THEN {0}
  ELSE {d \in 0..MaxBackoff : d <= BackoffBase(count) /\ BackoffBase(count) <= 2 * d}

\* Mutant: the delay is computed from the count before this failure.
StaleBackoff(h) == BackoffFor(h.count)

\* The delays a failure of h may be given: the count includes that failure.
NextBackoff(h) == BackoffFor(h.count + 1)

\* Mutant: the deque drops a trap exactly Window old.
UnexpiredStrict(w, t) ==
  LET kept == {i \in 1..Len(w) : t - w[i] < Window}
  IN  IF kept = {} THEN <<>>
      ELSE SubSeq(w, CHOOSE i \in kept : \A j \in kept : i <= j, Len(w))

\* The trap window after expired instants are popped from its front.
Unexpired(w, t) ==
  LET kept == {i \in 1..Len(w) : t - w[i] <= Window}
  IN  IF kept = {} THEN <<>>
      ELSE SubSeq(w, CHOOSE i \in kept : \A j \in kept : i <= j, Len(w))

ShouldPoison(recent) == recent >= MaxFailures

\* record_trap at the death instant t, with backoff d.
RecordTrap(h, t, d) ==
  LET recent == Append(Unexpired(h.window, t), t)
      poison == ShouldPoison(Len(recent)) \/ IsPoisoned(h)
  IN  [state  |-> IF poison THEN "Poisoned" ELSE "Backoff",
       until  |-> IF poison THEN 0 ELSE t + d,
       count  |-> h.count + 1,
       window |-> recent]

Poison(h) == [h EXCEPT !.state = "Poisoned", !.until = 0]

\* defer_restart: backoff d slides from t; the poison window is not fed.
DeferRestart(h, t, d) ==
  [h EXCEPT !.state = "Backoff", !.until = t + d, !.count = @ + 1]

RestartSucceeded(h) == [h EXCEPT !.state = "Alive", !.until = 0]

DispatchSucceeded(h) == [h EXCEPT !.count = 0]

(***************************************************************************)
(* Jobs                                                                    *)
(***************************************************************************)
PCs == {"top",     \* head of the loop: the health snapshot is due
        "ready",   \* awaiting the next trigger
        "sweep",   \* restart sweep of a fan-out, at module mod
        "init",    \* reviving module mod: its init is in flight
        "fanout",  \* dispatching to the candidates left in todo
        "probe",   \* an event or a tick about to enter module mod
        "call",    \* on_trigger of module mod is in flight
        "done"}    \* the loop has returned

\* A schedule tick and an event-loop at rest have no feed.
NoFeed == "no feed"

InGuest == {"init", "call"}
Fanouts == {"block", "extension"}
JobKinds == Fanouts \cup {"event", "schedule", "none"}

Job == [pc : PCs, kind : JobKinds, at : Nat, mod : 0..(N + 1), todo : SUBSET Mods,
        feed : Feeds \cup {NoFeed}, height : Heights \cup {None}, removed : BOOLEAN,
        accepted : BOOLEAN]

\* The fields of the job that has just ended are forgotten.
Idle(pc) == [pc |-> pc, kind |-> "none", at |-> 0, mod |-> 0, todo |-> {},
             feed |-> NoFeed, height |-> None, removed |-> FALSE, accepted |-> FALSE]

JobOf(pc, kind, m, feed, height, removed) ==
  [pc |-> pc, kind |-> kind, at |-> now, mod |-> m, todo |-> {},
   feed |-> feed, height |-> height, removed |-> removed, accepted |-> FALSE]

Lowest(S) == CHOOSE m \in S : \A k \in S : m <= k

StoreOutcomes == IF StoreFaults THEN BOOLEAN ELSE {TRUE}

\* record_delivered_height: only an advance counts.
Delivered(f, chain, height) ==
  [f EXCEPT ![chain] = IF height > @ THEN height ELSE @]

\* A keyed event that was not accepted withholds its pair's frontier commits.
HoldIfKeyed(kind, m) ==
  cursors' = IF kind = "event" /\ m \in Keyed
             THEN [cursors EXCEPT ![m] = Hold(@)] ELSE cursors

TypeOK ==
  /\ now \in Nat
  /\ stop \in BOOLEAN
  /\ health \in [Mods -> Health]
  /\ live \in [Mods -> [tainted : BOOLEAN, bucket : Bucket]]
  /\ frontier \in [Chains -> Heights \cup {None}]
  /\ cursors \in [Mods -> Cursor]
  /\ published \in [Mods -> States \cup {"unpublished"}]
  /\ job \in Job
  /\ deaths \in [Mods -> Seq(Nat)]
  /\ lost \subseteq Mods

\* The modules as boot leaves them: every init has run, a fault leaving its
\* module dead; a launch with no module alive is refused.
BootHealth ==
  {h \in [Mods -> {FromInit(TRUE), FromInit(FALSE)}] : \E m \in Mods : Dispatchable(h[m])}

BootLive(t) == [m \in Mods |-> [tainted |-> FALSE, bucket |-> NewBucket(t)]]

Init ==
  /\ now = 0
  /\ stop = FALSE
  /\ health \in BootHealth
  /\ live = BootLive(0)
  /\ frontier = [c \in Chains |-> None]
  /\ cursors = [m \in Mods |-> FreshCursor(None)]
  /\ published = [m \in Mods |-> "unpublished"]
  /\ job = Idle("top")
  /\ deaths = [m \in Mods |-> <<>>]
  /\ lost = {}

(***************************************************************************)
(* The environment                                                         *)
(***************************************************************************)
Tick ==
  /\ now < MaxTime
  /\ now' = now + 1
  /\ UNCHANGED <<stop, health, live, frontier, cursors, published, job, deaths, lost>>

FireStop ==
  /\ ~stop
  /\ stop' = TRUE
  /\ UNCHANGED <<now, health, live, frontier, cursors, published, job, deaths, lost>>

(***************************************************************************)
(* The loop around the jobs                                                *)
(***************************************************************************)

Snapshot == [m \in Mods |-> health[m].state]

\* publish_health at the head of every iteration, then the biased select
\* polls the shutdown branch before any source.
Publish ==
  /\ job.pc = "top"
  /\ published' = Snapshot
  /\ job' = Idle(IF stop THEN "done" ELSE "ready")
  /\ UNCHANGED <<now, stop, health, live, frontier, cursors, deaths, lost>>

\* A stop wakes the waiting select.  One that fires after the poll loses to
\* the trigger already taken, so the jobs below are not guarded by it.
LoopExit ==
  /\ job.pc = "ready" /\ stop
  /\ job' = Idle("done")
  /\ UNCHANGED <<now, stop, health, live, frontier, cursors, published, deaths, lost>>

\* poison_source: the event source of m reported an unrecoverable condition.
PoisonSource(m) ==
  /\ job.pc = "ready"
  /\ IF IsPoisoned(health[m])
     THEN UNCHANGED <<health, lost>>
     ELSE /\ health' = [health EXCEPT ![m] = Poison(@)]
          /\ lost' = lost \cup {m}
  /\ job' = Idle("top")
  /\ UNCHANGED <<now, stop, live, frontier, cursors, published, deaths>>

\* commit_chain_log_frontier for a completed bulk chunk of m's source.
FrontierCommit(m, f) ==
  /\ job.pc = "ready"
  /\ \E r, w \in StoreOutcomes :
       cursors' = [cursors EXCEPT ![m] = CommitFrontier(@, f, r, w)]
  /\ job' = Idle("top")
  /\ UNCHANGED <<now, stop, health, live, frontier, published, deaths, lost>>

(***************************************************************************)
(* Fan-out jobs: dispatch_block and dispatch_extension_trigger             *)
(***************************************************************************)
BeginBlock(c, h) ==
  /\ job.pc = "ready"
  /\ job' = JobOf("sweep", "block", 1, c, h, FALSE)
  /\ UNCHANGED <<now, stop, health, live, frontier, cursors, published, deaths, lost>>

BeginExtension(k) ==
  /\ job.pc = "ready"
  /\ job' = JobOf("sweep", "extension", 1, k, None, FALSE)
  /\ UNCHANGED <<now, stop, health, live, frontier, cursors, published, deaths, lost>>

\* Mutant: the sweep revives only the modules the trigger is for.
SweepDueSubscriber(m) == m \in Subscribers[job.feed] /\ DueRestart(health[m], job.at)

SweepDue(m) == DueRestart(health[m], job.at)

\* One item of the sweep: a fired stop ends it, a due module is revived.  The
\* candidates are collected when it ends.
SweepItem ==
  /\ job.pc = "sweep"
  /\ job' = IF job.mod > N \/ stop
            THEN [job EXCEPT !.pc = "fanout", !.mod = 0,
                             !.todo = {m \in Subscribers[job.feed] : Dispatchable(health[m])}]
            ELSE IF SweepDue(job.mod)
                 THEN [job EXCEPT !.pc = "init"]
                 ELSE [job EXCEPT !.mod = @ + 1]
  /\ UNCHANGED <<now, stop, health, live, frontier, cursors, published, deaths, lost>>

\* Where a job goes after a revive: the sweep moves on, an event or a tick
\* probes again before it enters its module.
AfterRevive ==
  IF job.kind \in Fanouts
  THEN [job EXCEPT !.pc = "sweep", !.mod = @ + 1]
  ELSE [job EXCEPT !.pc = "probe"]

\* Mutant: the next run keeps the trapped store.
ReusedRun(run) == run

\* The run a successful revive commits: a fresh store, the bucket carried over.
FreshRun(run) == [run EXCEPT !.tainted = FALSE]

\* Linker, store, instantiation and init all succeeded.
ReviveOk ==
  /\ job.pc = "init"
  /\ health' = [health EXCEPT ![job.mod] = RestartSucceeded(@)]
  /\ live' = [live EXCEPT ![job.mod] = FreshRun(@)]
  /\ job' = AfterRevive
  /\ UNCHANGED <<now, stop, frontier, cursors, published, deaths, lost>>

\* A revive that fails, at whatever stage, defers the restart from the instant
\* the job began and leaves the live run as it was.
ReviveFailed ==
  /\ job.pc = "init"
  /\ \E d \in NextBackoff(health[job.mod]) :
       health' = [health EXCEPT ![job.mod] = DeferRestart(@, job.at, d)]
  /\ job' = AfterRevive
  /\ UNCHANGED <<now, stop, live, frontier, cursors, published, deaths, lost>>

\* dispatch_to up to the guest: the bucket is charged as of the instant the job
\* began.  The store is then refuelled, which fails only on an engine without
\* fuel metering, and every engine the runtime builds meters fuel.
Throttled(m) ==
  /\ ~Granted(live[m].bucket, job.at)
  /\ live' = [live EXCEPT ![m].bucket = TryAcquire(@, job.at)]

Admitted(m) ==
  /\ Granted(live[m].bucket, job.at)
  /\ live' = [live EXCEPT ![m].bucket = TryAcquire(@, job.at)]

\* The next candidate, in [[modules]] order.
FanoutNext ==
  /\ job.pc = "fanout" /\ ~stop /\ job.todo # {}
  /\ LET m == Lowest(job.todo) IN
     \/ /\ Throttled(m)
        /\ job' = [job EXCEPT !.todo = @ \ {m}]
     \/ /\ Admitted(m)
        /\ job' = [job EXCEPT !.todo = @ \ {m}, !.mod = m, !.pc = "call"]
  /\ UNCHANGED <<now, stop, health, frontier, cursors, published, deaths, lost>>

\* No candidate left, or a stop drops the rest; a block some module accepted
\* counts as delivered.
FanoutEnd ==
  /\ job.pc = "fanout" /\ (stop \/ job.todo = {})
  /\ frontier' = IF job.kind = "block" /\ job.accepted
                 THEN Delivered(frontier, job.feed, job.height) ELSE frontier
  /\ job' = Idle("top")
  /\ UNCHANGED <<now, stop, health, live, cursors, published, deaths, lost>>

(***************************************************************************)
(* Single-module jobs: dispatch_event and dispatch_schedule                *)
(***************************************************************************)
\* A stop or a poisoned module drops the trigger; a due module is revived
\* first.
BeginDirect(kind, m, feed, height, removed) ==
  /\ job.pc = "ready"
  /\ IF stop \/ IsPoisoned(health[m])
     THEN /\ HoldIfKeyed(kind, m)
          /\ job' = Idle("top")
     ELSE /\ job' = JobOf(IF DueRestart(health[m], now) THEN "init" ELSE "probe",
                          kind, m, feed, height, removed)
          /\ UNCHANGED cursors
  /\ UNCHANGED <<now, stop, health, live, frontier, published, deaths, lost>>

BeginEvent(m, c, height, removed) == BeginDirect("event", m, c, height, removed)

BeginSchedule(m) == BeginDirect("schedule", m, NoFeed, None, FALSE)

\* Mutant: a stop that fired during the revive is not looked at again.
RefusedAtProbeUnlessDead(m) == ~Dispatchable(health[m])

RefusedAtProbe(m) == stop \/ ~Dispatchable(health[m])

\* The second probe, then the entry of the guest.
ProbeDirect ==
  /\ job.pc = "probe"
  /\ \/ /\ RefusedAtProbe(job.mod)
        /\ HoldIfKeyed(job.kind, job.mod)
        /\ job' = Idle("top")
        /\ UNCHANGED live
     \/ /\ ~RefusedAtProbe(job.mod)
        /\ Throttled(job.mod)
        /\ HoldIfKeyed(job.kind, job.mod)
        /\ job' = Idle("top")
     \/ /\ ~RefusedAtProbe(job.mod)
        /\ Admitted(job.mod)
        /\ job' = [job EXCEPT !.pc = "call"]
        /\ UNCHANGED cursors
  /\ UNCHANGED <<now, stop, health, frontier, published, deaths, lost>>

(***************************************************************************)
(* The end of a guest call                                                 *)
(***************************************************************************)
AfterCall(ok) ==
  IF job.kind \in Fanouts
  THEN [job EXCEPT !.pc = "fanout", !.mod = 0, !.accepted = @ \/ ok]
  ELSE Idle("top")

\* Accepted: the failure count clears; an event with a height counts as
\* delivered and, when keyed, commits its resume cursor.
CallOk ==
  /\ job.pc = "call" /\ "ok" \in Outcomes
  /\ health' = [health EXCEPT ![job.mod] = DispatchSucceeded(@)]
  /\ IF job.kind = "event" /\ job.height # None
     THEN /\ frontier' = Delivered(frontier, job.feed, job.height)
          /\ IF job.mod \in Keyed
             THEN \E r, w \in StoreOutcomes :
                    cursors' = [cursors EXCEPT
                      ![job.mod] = Commit(@, job.height, job.removed, r, w)]
             ELSE UNCHANGED cursors
     ELSE UNCHANGED <<frontier, cursors>>
  /\ job' = AfterCall(TRUE)
  /\ UNCHANGED <<now, stop, live, published, deaths, lost>>

\* A typed fault leaves the module alive and its failure count as it was.
CallFault ==
  /\ job.pc = "call" /\ "fault" \in Outcomes
  /\ HoldIfKeyed(job.kind, job.mod)
  /\ job' = AfterCall(FALSE)
  /\ UNCHANGED <<now, stop, health, live, frontier, published, deaths, lost>>

\* A trap or a dispatch deadline: the store is unusable and the module died
\* now, not when the job began.
CallTrap ==
  /\ job.pc = "call" /\ "trap" \in Outcomes
  /\ \E d \in NextBackoff(health[job.mod]) :
       health' = [health EXCEPT ![job.mod] = RecordTrap(@, now, d)]
  /\ live' = [live EXCEPT ![job.mod].tainted = TRUE]
  /\ deaths' = [deaths EXCEPT ![job.mod] = Append(@, now)]
  /\ HoldIfKeyed(job.kind, job.mod)
  /\ job' = AfterCall(FALSE)
  /\ UNCHANGED <<now, stop, frontier, published, lost>>

\* The loop has returned.
Terminated == job.pc = "done" /\ UNCHANGED vars

\* The steps of a job, once it has begun.
JobStep ==
  \/ Publish \/ SweepItem \/ ReviveOk \/ ReviveFailed
  \/ FanoutNext \/ FanoutEnd \/ ProbeDirect
  \/ CallOk \/ CallFault \/ CallTrap

Begin ==
  \/ \E c \in Chains, h \in Heights : BeginBlock(c, h)
  \/ \E k \in ExtKinds : BeginExtension(k)
  \/ \E m \in EventModules, c \in Chains, h \in Heights \cup {None}, r \in BOOLEAN :
       BeginEvent(m, c, h, r)
  \/ \E m \in ScheduleModules : BeginSchedule(m)
  \/ \E m \in Keyed, f \in Heights : FrontierCommit(m, f)
  \/ \E m \in EventModules : PoisonSource(m)

Next == Tick \/ FireStop \/ Begin \/ JobStep \/ LoopExit \/ Terminated

Spec == Init /\ [][Next]_vars

\* A job that has begun goes on: guest calls are bounded by the dispatch
\* deadline, everything else is host code.  The select wakes on a stop.  Blocks
\* keep coming, and the branches polled before them are not always ready.
Fairness ==
  /\ WF_vars(JobStep)
  /\ WF_vars(LoopExit)
  /\ WF_vars(Tick)
  /\ SF_vars(\E c \in Chains, h \in Heights : BeginBlock(c, h))

FairSpec == Spec /\ Fairness

(***************************************************************************)
(* Properties                                                              *)
(***************************************************************************)
\* The wasm store a trap or a deadline left behind is never entered again:
\* a module that may be called, or is being called, runs on a store that no
\* call has left abnormally (revive "must rebuild on a fresh store").
TrappedStoreNeverEntered ==
  \A m \in Mods :
    Dispatchable(health[m]) \/ (job.pc = "call" /\ job.mod = m) => ~live[m].tainted

\* MaxFailures consecutive traps of m, the first being its i-th, fall within
\* one window.
Burst(m, i) ==
  /\ i + MaxFailures - 1 <= Len(deaths[m])
  /\ deaths[m][i + MaxFailures - 1] - deaths[m][i] <= Window

\* The sliding deque of record_trap decides exactly the poison policy: a module
\* is quarantined when its source was lost or MaxFailures of all the traps it
\* ever had lie within one window, and not otherwise.  Failed restarts do not
\* count.
QuarantineExact ==
  \A m \in Mods :
    IsPoisoned(health[m]) <=>
      m \in lost \/ \E i \in 1..Len(deaths[m]) : Burst(m, i)

\* Restarts back off: a module with count failures in a row is not revived
\* before half of that count's base delay has passed since its last trap, also
\* when some of the failures were restarts deferred from the (older) instant a
\* sweep began.
BackoffGrows ==
  \A m \in Mods :
    health[m].state = "Backoff" =>
      2 * (health[m].until - deaths[m][Len(deaths[m])]) >= BackoffBase(health[m].count)

\* Whenever the loop waits for a trigger or has returned, the health snapshot a
\* probe reads is the modules' current state: every job ends in a publication.
PublishedAtRest ==
  job.pc \in {"ready", "done"} =>
    \A m \in Mods : published[m] = health[m].state

\* Once the stop signal has fired no guest call begins, whether an init or an
\* on_trigger; the one in flight may end, and the drain waits for that one.
NoGuestEntryAfterStop ==
  [][stop /\ job.pc \notin InGuest => job'.pc \notin InGuest]_vars

\* Poisoned and Dead are final: such a module keeps its state for the rest of
\* the process, is never revived and never called.
QuarantineIsFinal ==
  [][\A m \in Mods :
       health[m].state \in {"Poisoned", "Dead"} =>
         /\ health'[m].state = health[m].state \/ health'[m].state = "Poisoned"
         /\ ~(job'.pc \in InGuest /\ job'.mod = m)]_vars

\* What publish_health's comment says of the loop: it "observes every one" of
\* the lifecycle transitions, so no module leaves a state before the snapshot
\* has shown it.
ObservesEveryTransition ==
  [][\A m \in Mods :
       health'[m].state # health[m].state => published[m] = health[m].state]_vars

\* The last-delivered height of a chain never moves back, although retracted
\* logs and the blocks of a reorg are delivered below it.
FrontierMonotone ==
  [][\A c \in Chains : frontier'[c] >= frontier[c]]_vars

\* A module in backoff is retried once its delay has passed, as long as blocks
\* arrive: it does not stay in Backoff with an expired delay.  (A delay beyond
\* the bound of the clock cannot expire.)
BackoffRetried ==
  \A m \in Mods :
    health[m].state = "Backoff" /\ health[m].until <= MaxTime
      ~> stop \/ health[m].state # "Backoff" \/ health[m].until > MaxTime
=============================================================================
