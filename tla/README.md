# A TLA+ model of nexum-runtime

Nexum is a host runtime for WebAssembly components. An engine process resolves
its configuration, opens its backends, loads a set of modules, opens the sources
their triggers ask for (blocks, logs, schedules, extension deliveries) and
dispatches what arrives to the modules. It restarts the modules that trap,
quarantines the ones that keep trapping, keeps a resume cursor so that logs are
not lost over a restart, and gives the guests a store, a log pipeline, chain
reads and outbound HTTP. The guest SDK adds a keeper: a journal and a registry
of commitments over the store.

This directory models that system in TLA+. TLC checks the models on small
instances; TLAPS proves the central safety properties for every value of the
constants. `PROJECT.json` names, for every definition, the source lines it
stands for.

## The system, and which module models it

| Part | State | Module | What makes it hard |
| --- | --- | --- | --- |
| Module lifecycle (`supervisor/lifecycle.rs`, `restart_policy.rs`, `poison_policy.rs`) | per module: Alive / Backoff / Dead / Poisoned, failure count, trap window | `Supervisor` | time read once per dispatch and used much later; window boundary; restarts that fail half way |
| Dispatch (`supervisor/dispatch.rs`, `dispatch_rate.rs`) | the job in progress, delivered heights, rate buckets | `Supervisor`, `TokenBucket` | a stop racing every await; a stale store after a trap |
| Resume cursors (`supervisor/cursors.rs`) | in-memory mirror, stored value, holds | `ChainLogCursors`, `EventReplay` | best-effort writes; a crash between dispatch and commit; retractions |
| Health publication (`health.rs`, `mod.rs`) | published snapshot | `Supervisor` | a snapshot older than the modules |
| Event loop (`runtime/event_loop.rs`) | streams, task set, tally of terminal sources | `EventLoop` | a stream ends before its task's report arrives |
| Chain-log source (`runtime/event_loop.rs`, provider pool) | resume position, delivered tail, boot cursor | `ChainLogSource` | reorgs while disconnected; bounded lookback |
| Block source (`runtime/event_loop.rs`) | attempt counter, last item, bounded channel | `BlockSource` | a flapping node, a slow loop |
| Schedule source (`runtime/schedule.rs`), cron (`manifest/cron.rs`) | armed minute, one-slot channel | `Schedule`, `Cron` | a wall clock that steps; leap days and century years |
| Task manager (`nexum-tasks`) | latched signal, guard count, wake channel | `TaskManager` | lost wake-ups |
| Launcher and boot (`builder.rs`, `addons.rs`, `load.rs`, `prepass.rs`, `artifact.rs`, `admission.rs`, `sources.rs`) | phase, per-entry progress, reservations, started tasks | `Launch` | artifacts replaced between check and use; refusals after tasks were started |
| Engine configuration (`nexum-runtime-config`) | lexer position and state | `EnvSubst`, `Launch` | a token in a comment or a string |
| Local store (`nexum-runtime-store`) | file, stamp, rows, open transaction, cached footprint | `LocalStore`, `KvStore` | a crash in a migration; quota accounting; listing under writes |
| Log pipeline (`nexum-runtime-logs`) | rings, runs, bucket, partial lines, cursors | `RunLogs` | eviction against late records; a flush at the drop of a dead run |
| HTTP gate (`nexum-runtime-http`) | call, socket, body, deadline | `HttpExchange` | a late answer against a deadline; a refused request whose body is still being written |
| Chain reads (`impls/chain.rs`, provider pool, SDK transport, balance-tracker) | request, retries, saved readings | `ChainRead` | retries under one deadline; one read of several failing |
| Keeper (`nexum-sdk/src/keeper.rs`) | markers; rows of commitments and gates | `Journal`, `Commitments` | a trap or a failed write between two writes |

How they compose: `Supervisor` is the body of the loop's dispatch arms;
`EventReplay` puts a source, a channel and the death and reboot of the process
around it; `EventLoop`, which extends `TaskManager`, is the loop around the
dispatches; `ChainLogSource`, `BlockSource` and `Schedule` are the pumps behind
its arms; `Launch` ends where `EventLoop` begins. `LocalStore` implements
`KvStore`, and `Journal`, `Commitments` and `ChainLogCursors` assume of the
store only what `KvStore` says: a write is there as a whole or not at all.

Some conventions:

* The event loop owns the supervisor, so in `Supervisor` one job runs at a time;
  the clock (`Tick`) and the stop (`FireStop`) may move at every await. A guest
  call is an entry and an end. `job.at` is the instant the dispatch read at its
  start, `now` is the clock.
* What runs on several threads is split where the threads can interleave: a
  guard's drop is a decrement and a wake-up, the drain a check and a wait; the
  select of `EventLoop` is polled arm by arm, so that an arm may become ready
  just after it was passed over.
* A store transaction, a migration and a keeper call are sequences of steps, each
  of which may fail and between any two of which the process may die.
* In `Launch` a step of the sequence is an action; `RefuseBoot` is an early
  return, with what it drops: the tasks of the task set are aborted and the task
  manager fires its signal. The operator may replace a file at any moment.
* `Cron`, `EnvSubst` and the listing of `LocalStore` are algorithms run step by
  step beside a reference definition: a plain Gregorian calendar, the lexical
  grammar of TOML, the set of keys with a prefix.
* External, and modelled from their use: alloy's log poller and transport, redb's
  transactions, wasmtime, the resolver, servers and nodes, and the guests.
* Variables marked history are used only to state properties. A definition under
  a comment "Mutant:" is a plausible wrong version of the definition after it;
  no specification uses it.
* `MC...` modules give constants their values. Three of them, `MCBoot`, `MCHost`
  and `MCRetries`, check several parts that share no state in one run: `part`
  says which one is under way, and the others rest, in states in which nothing of
  theirs is due, so that the fairness of one part never constrains another.

## What the runs check

| Run | Instance | What it shows |
| --- | --- | --- |
| `lifecycle` | one module with a schedule, 3 failures, a window of 5 time units, 8 units, under fairness | the pruned trap deque quarantines exactly as the full history would; restarts keep backing off although a deferral counts from the start of the sweep; an expired back-off is retried by blocks the module does not subscribe to |
| `fanout` | two modules with blocks, extension triggers, keyed events, ticks | no trapped store is entered again, and no guest call starts after the stop |
| `replay` | a chain that grows to three blocks, a trigger with and without `start_block` and `max_lookback`, two deaths, failing store reads and writes, failing dispatches | every log behind the cursor a restart would resume from was accepted, failed by a dispatch or passed over at an open; an open passes over only what `max_lookback`, `start_block` or the lack of both a cursor and a `start_block` makes it; a bulk frontier never carries the cursor past a missed log; every log from the open on is in the end accepted or failed by a dispatch |
| `event_loop` | two sources of any kinds, which may send for ever | a drain covers dispatch and pumps; a late terminal report is not taken for a dead pump; a stop makes `wait` return; a source with a backlog is served again and again, unless the run ends or an arm polled earlier always has something ready |
| `reorg` | chain up to height 4, a retained depth of 2, one reorg of up to 3 blocks, `max_lookback` unset or 1 | gapless scan but for clamped heights, exact view, final bulk blocks |
| `source_live` | chain up to height 3, a retained depth of 1, one reorg of any depth | the source catches up or ends terminally |
| `boot` | some 1,700 worlds; texts, cron expressions; a store file (below) | only verified bytes run, nothing is compiled before every manifest passed; only live `${VAR}` tokens are looked up; the search finds the first matching minute; rows are in the stamped layout, no write passes its quota, a listing is complete, and the store implements `KvStore` |
| `host` | tasks, a schedule, the log pipeline, an HTTP exchange, chain reads (below) | each part keeps its representation invariant (`HostTypeOK`: rings and stdout bytes are accounted exactly, caps hold, only reads reach a node); drains end; ticks never burst and a reached minute fires; pages deliver exactly once; the gate holds and sockets close; a moved balance is reported and requests resolve |
| `retries` | two receipts; one commitment; one block source (below) | no landed effect loses its marker or is submitted twice by `guard`, and it settles; no gate outlives its commitment, and none keeps it shut for ever; a block source is asked again at pauses that grow |

Three further runs end in a counterexample, each about a sentence in the
repository that the code does not bear out:

* `observed` - one publication per iteration does not observe every transition.
* `replay_skip` - a failed dispatch is skipped, not re-delivered, once a later
  log succeeds.
* `restated` - with `max_lookback`, a stream that ends between the retraction of
  the tail and its first batch leaves the retracted height behind for good.

Some sentences differ from the code in a way that needs no run:

* The state diagram of the module guide (`docs/02-modules-triggers-packaging.md:136-138`)
  reaches Poisoned from Backoff only; the code poisons a module at the trap,
  straight from Alive, or at the loss of its source, from any other state.
* `docs/production.md:443-444` gives the bulk phase a threshold of 1000 blocks
  that the plan (`event_loop.rs:310-313`) does not have.
* `event_loop.rs:11-12` says that a source resets its back-off "once the stream
  has been healthy for `HEALTHY_WINDOW`". The code resets it when an item comes a
  whole window after the item before it, on whichever stream that one came
  (`Reset` in `BlockSource`). A stream that delivers steadily therefore never
  resets its counter, and a long outage does at the first item after it.
* The guide has a forward step of the clock fire once "for all the minutes that
  the step skipped" (`docs/02-modules-triggers-packaging.md:308`). A step between
  the reading that ends one pass and the reading that arms the next is not seen
  by either, and fires nothing.
* The balance-tracker reports a balance that moved by "more than" the threshold,
  say `balance-tracker/src/logic.rs:17`, its `lib.rs:5`, `component.toml:2-3` and
  `docs/tutorial-first-module.md:331`. The code compares with `>=`
  (`logic.rs:50`), as its own test (`logic.rs:336`) and `component.toml:31` have
  it, and so do `Moved` and `NoSilentMove`.
* `load.rs:157`, "Every refusal precedes compile cost": the import check that
  follows in the same function needs the compiled component.

### Bounds, and why they are enough

Every bound is a constant named in a guard or in `Init`. The policies (failures,
window, back-off, depth, chunk size, caps, periods) are constants of the code
with small values here, chosen so that their boundary is crossed.

* `lifecycle`, `fanout`: two modules are the least at which one is swept while
  another is called; three failures and a window shorter than the run are the
  least at which a trap expires between two that count.
* `replay`: blocks with one, with no and with two logs, which share a cursor, and
  a bulk chunk that ends inside them; no `start_block`, one at the first block and
  one at the last, and no `max_lookback` or one of a single block, on a chain that
  starts at any height, so that each of the three may decide where an open
  begins; two deaths let a stale store be read by a
  process that dies as well; a channel of two items makes the source wait in the
  middle of a block. Dispatches succeed or fault; traps, back-off and the
  clock are the business of `lifecycle` and `fanout`.
* `event_loop`: two sources, of one kind or of two, are the least at which one
  kind ends while another lives, and one arm holds another back. A channel takes
  two items, so that it may hold something at every poll; what is sent in all is
  not bounded.
* `reorg`, `source_live`: a retained depth of 2 below height 4 has final blocks, a
  reorg window and room for a re-opened bulk pass; reorgs of 3 exceed it. Chains
  with a second reorg are not explored by TLC; the theorems cover them.
* `boot`, launch: 8 policies, 2 pins, 3 extension lists and 5 x 7 manifests of
  two entries, and beside them worlds with an override path, required digests,
  two extensions with a metrics port, and no entry at all; 2 states of the disk
  with one rewrite between any two steps; a reservation sum that saturates at 8.
* `boot`, text: every text of up to three symbols, and longer ones with runs of
  quotes, which is what the lexer's states depend on. Cron: 7 expressions from 6
  dates between 1970 and 2399, with leap days, a century that is one and one that
  is not, and 3 minutes of the day.
* `boot`, store: 2 namespaces, 3 keys, values of length 0 and 4, a handle with a
  quota and one without on the same namespace, engines of formats 1 and 3 (so
  that a migration has an intermediate step), 4 batches, 3 listings, 3 writes;
  pages of 2 entries and 7 bytes, scans of 3.
* `host`: 3 graceful tasks and a critical one, with a wake-up buffer of 1; a
  period of 3 with rechecks every 2, and a wall clock up to 7 that may step both
  ways; 3 records and 3 chunks against a cap of 5 bytes, a burst of 2, a ring of
  12 bytes, one retained run of three; 2 names and a literal, 3 addresses, a
  deadline of 3, 2 frames against a cap of 3; 2 tracked addresses, one retry, a
  deadline of 2.
* `retries`: 2 receipts, 2 epochs and 2 faults; one commitment registered up to
  twice, blocks and epochs up to the saturation bound of 2, 2 faults. Commitments
  do not share rows, so one is enough. The block source has no bound on its
  steps: ages and counts are not told apart beyond the window and the last rung
  of the back-off, which the code cannot tell apart either.

`Supervisor` runs and `replay` check deadlock; there `Tick` is the only action
that ends. The other parts may stop (a finished process, a terminal source, an
answered call), so their runs do not check it; their liveness properties say what
must not be left undone.

### Fairness, and what justifies it

* `Supervisor`: a job goes on (`JobStep`), because a guest call has a deadline;
  the loop sees a fired stop; time passes; blocks keep arriving (strong, since
  the loop may be busy whenever one does).
* `EventReplay`: the chain grows to its bound; source, loop and jobs go on.
  Deaths are not fair, and bounded; nothing forces a re-open.
* `TaskManager`: what is ready is polled, and a flush ends. A task that never
  looks at the signal is not forced to, and the deadline need not pass: the drain
  ends without it.
* `EventLoop`: the executor polls the loop, `wait`, an aborted pump and a pump on
  its way out. Among the streams of one arm, one that is ready whenever its arm is
  polled gets its turn (strong, per source): `select_all` polls the streams that
  woke it in turn. Across arms nothing is assumed, since the select is biased.
  Nothing forces a pump to send or to end. `GraceTimeout` is taken
  to outlast the time between a task's dropping its sender and its handle's
  resolving: one second against one scheduling step.
* `ChainLogSource`: the chain grows to its bound, back-offs end, and a provider
  asked again and again answers a probe and delivers a batch at some time
  (strong). A chunk need never be fetched: the pass is abandoned.
* `Schedule`: the task is polled and the clock runs on. Nothing is asked of the
  receiver or of whoever sets the clock.
* `HttpExchange`: time passes, and the host's own tasks (refusal, expiry, connection driver) are polled; nothing is
  asked of guest, resolver or server. `ChainRead`: time passes and the deadline
  fires; the node owes nothing.
* `Journal`: a call goes on to its next write, epochs advance, and a reconcile
  pass that runs again and again is not refused or left in doubt for ever
  (strong). `Commitments`: a begun call goes on, and dispatches with a later block
  and with a later epoch keep coming (strong).
* `Launch`, `Cron`, `EnvSubst`, `LocalStore`, `RunLogs`, `BlockSource`: none; their properties are safety
  properties and a refinement.

## What is proved

TLAPS checks the theorems for every value of the constants: any number of
modules, tasks, sources, receipts, commitments, namespaces and keys, any policy,
any chain and any number of reorgs, deaths and faults. They assume only the named
assumptions on the constants (`SupervisorAssumption`, `BucketAssumption`,
`ReplayAssumption`, `SourceAssumption`, `LaunchAssumption`, `TaskAssumption`,
`LoopAssumption`, `ScheduleAssumption`, `HttpAssumption`, `StoreAssumption`,
`JournalAssumption`, `CommitmentsAssumption`, `ChainReadAssumption`,
`BlockAssumption`), which TLC evaluates in the runs. `PowersOfTwo`, beside
`BlockAssumption`, is arithmetic the provers do not have: each power of two up to
the last rung of the back-off is twice the one before it.

Twenty-three theorems state a property that a run also checks. The others
(`TypeCorrect`, `QuarantineSafe`, `SnapshotExact`, `FrontierSafe`, `TaskTypes`,
`DrainIsComplete`, `WakeupSafe`, `GraceKept`, `WaitingIsFirst`, `RefusalIsHeard`,
`FramesInTime`, `ServesItsFormat`, `ReadsAreGated`) rest on the proof alone: no
run repeats them by name.

* `SupervisorProofs`: `TypeOK` needs only that a job's parts agree (`JobOK`).
  It bounds the bucket by its burst and names only loaded modules in jobs
  (`TypeCorrect`). The inductive invariant of the safety properties adds that the
  module being called is alive (`CalledAlive`) and that an alive module runs on a
  clean store (`CleanStore`). `TrappedStoreSafe` follows: the property speaks of
  callable modules only, and is not inductive without the other two, since a
  revive that ends must know that it was a backed-off module that was
  initialised. `StopSafe`, `QuarantineSafe` and `FrontierSafe` are action
  properties from the same invariant, one step per action. `SnapshotExact` is
  proved by induction on its own over `TypeOK`.
* `SupervisorProofs`, the policies. `QuarantineIsExact`: the deque holds the
  latest traps of the history that had not expired at the last one (`WindowOf`),
  the history is ordered, and a module that is not poisoned has fewer than
  `MaxFailures` of them; a burst in the longer history therefore ends at the trap
  just recorded and lies within the deque. `RestartsBackOff`: a module in
  back-off waits at least half its count's base delay from its last trap
  (`BackedOff`). A deferral counts from the start of the sweep, an older instant
  than its own, so the invariant also says that the module being revived was due
  at that instant.
* `ReplayProofs`: that the cursor lies past no log but those accepted, failed or
  passed over (`ReplaySkipsOnlyFailures`) needs an account of every log behind the
  scan: one of these, or missed, being dispatched, or in the channel
  (`Accounted`); the channel
  in the order of the chain (`ChannelOrdered`), so that the cursor of the log
  being dispatched has nothing undelivered below it; and that a miss which is not
  a failure is the last thing a stopping process does, and that every miss holds
  back the frontiers (`MissesHold`). A new process that scans a log again no
  longer counts it as passed over, so the invariant must know that one below the
  cursor is not scanned again: it lies below the head of its time (`BelowHead`)
  and was passed over for a reason that still holds (`PassesOverOnly`, itself the
  theorem `OpensPassOverOnly`). `FrontiersWaitForMisses` is an action property of
  the same invariant. The proof covers any trigger, any growth of the chain, any
  number of restarts, any channel size and any chunk size.
* `SourceProofs`, `SourceSafety`: the chain-log source under any reorgs.
  `SourceInv` says where each phase of a scan resumes (`ScanInv`: no height below
  the start chosen from the basis is missing, with one exception, an invalid tail,
  which is the start itself); that a fork names the blocks it brought (`Forked`:
  in the poller's window the canonical blocks are a prefix); that the view of a
  height is that of the block delivered there where something will notice a
  replacement, and the canonical one elsewhere (`ViewHeld`); and how far below
  the peak the bulk phase stays (`Settled`, `BulkAbove`, `BulkHeld`). The three
  theorems are `ScanHasNoGaps`, `ViewIsExact` and `BulkStaysFinal`.
  `SourceProofs` has the invariant and the steps that deliver nothing,
  `SourceSafety` those that do.
* `LaunchProofs`: the plan is the part of the entries that passed the pre-pass
  (`PlanPassed`, `Place`), entries run in order, the one that ran without being
  loaded ended the launch (`RanInOrder`), and each check leaves what it checked
  behind for the entry at hand (`Checked`). Hence `RunsVerifiedBytes`, though the
  file may be replaced at any step, and `PrepassComesFirst`.
* `EngineProofs`, tasks: the count is the number of live guards (`CountExact`),
  which makes the drain's zero mean that every guard it began with is gone
  (`DrainIsComplete`), and a zero count reached while the drain waits was reached
  by a decrement whose wake-up is due or queued (`WakeupSafe`). `TaskTypes` needs
  `CountExact` too: a count that may be wrong may underflow.
* `EngineProofs`, event loop: every step of the loop is a step of the task
  manager or leaves it alone (`LoopIsTaskStep`), so the manager's invariant
  carries over. The loop holds its guard until every pump is joined
  (`GuardHeld`), which gives `DrainOutlivesRun`; its tally of terminal exits is
  exact (`ExitsCounted`) and it rules on an end only of streams whose pumps have
  all ended (`RulesOnEnded`), which gives `StreamEndIsALoss`.
* `EngineProofs`, schedule and HTTP: the armed minute lies after the reading it
  was armed from (`ArmedAhead`), so a tick cannot be for a minute an earlier tick
  covered (`NeverBursts`); a tick that finds the slot taken is dropped and never
  replaces the one that waits (`WaitingIsFirst`). `Gated` says what each phase of
  a call knows: admitted by the author's list and by the
  operator's, where there is one, from the check on, every address it was
  shown judged from the connect on, no socket before. `GateIsKept` is its last
  conjunct; `RefusalIsHeard`, about refusals by a list or for an unusable URI, is
  inductive beside it and `FramesInTime` is an action property.
* `StoreProofs`: `LayoutIsStamped` is not inductive, since a migration in
  progress has rows ahead of the stamp. `StoreInv` adds what the open transaction
  is: its rows are the file's with a migration's steps so far applied
  (`MigrationOK`) or the batch's writes so far (`BatchOK`), and only a process
  that found or wrote its own stamp serves (`ServedAtFormat`). From it follow
  `LayoutKept`, `ServesItsFormat` and the refinement `StoreImplementsKv`: under
  the mapping of rows to value lengths and of the open transaction to the batch
  in flight, each step of the store is a step of `KvStore` or a stutter; a
  migration changes layouts and no length, and a death drops the batch.
* `RetryProofs`, keeper: `LandedIsMarked` needs to know where `guard` is
  (`GuardHolds`: from the reservation to the settle the receipt has a marker);
  then no step can land an effect without one (`JournalSafe`), and a submit sees
  the marker of what has landed (`GuardOnce`). `NoOrphan` (`CommitmentsClean`)
  needs the order of the writes still to come (`TodoOrdered`: the gates go before
  the row), and `GraceGranted` (`GraceKept`) that a refusal on disk was asked for
  in some block since the last clear (`RefusalAsked`).
* `RetryProofs`, chain reads and the block source: a request is under way only
  for its guest's current one, and on the wire only if that one may be
  (`CallHolds`), and a packet that met a fault stands behind its last request
  (`GuestHolds`), which gives `ReadsAreGated`. While a reading is about to be
  saved the alert raised is the one of that row and that reading, so no row moves
  silently (`MovesAreSaid`), wherever the guest is cut. `ReconnectsBackOff`: the
  last pause is at most the base delay of the attempts counted, and the upper
  half of the next rung begins where this one ends.

Only model-checked, and why:

* everything under fairness (`BackoffRetried`, `EveryLogDelivered`,
  `StopReturns`, `BacklogDispatched`, `CatchesUp`, `DrainEnds`,
  `ReachedMinuteFires`, `SocketCloses`, `RequestResolves`, `LandedSettles`,
  `NeverWedged`): the prover handles neither liveness under fairness nor
  `ENABLED`;
* `LooksUpLiveTokens`, `FirstMatch`, `ScanComplete`, `QuotaHeld` and
  `PageExactlyOnce`: what a recursive definition computes - the lexing of a text,
  the search through the calendar, a page cut from the rows, a sum over a
  namespace, the records a chunk is split into - needs induction over data, which
  is out of its reach;
* `HostTypeOK`, a conjunction over the five parts of its run. The parts of the
  task manager and of the chain reads are theorems; that of the log pipeline
  folds over the bytes of a chunk.

## Limits of the code worth knowing

* At a re-open only the tail, the last delivered block with logs, is probed. An
  older delivered height that was replaced while no poller was open, or deeper
  than the poller retained, keeps its stale logs. `ViewExact` excepts exactly
  those heights (`blind`), until the height is delivered again and the view holds
  no log of the replaced block (`Healed`).
* Within a scan only a failed dispatch makes the cursor pass a log
  (`OnlyFailedSkipped`), and the next successful one does (`replay_skip`). The
  hold keeps bulk frontiers back, not later logs.
* Where a process opens its scan, it passes over what lies below
  (`PassesOverOnly`). A cursor that cannot be read is taken for none
  (`cursors.rs`, `sources.rs:58-63`): a trigger with a `start_block` then scans
  from there again, and one without opens at the head, so that what came between
  the last process and this one is passed over, though the cursor is still on
  disk; the next commit moves it on. `max_lookback` raises every start, at boot as
  at a re-open, and only logs a warning (`event_loop.rs:582-595`).
* The select of the loop is biased: a block or chain-log arm that always has
  something ready holds back the arms after it. `BacklogDispatched` excepts that
  case (`HeldBack`) and no other.
* A destination the HTTP gate refuses is answered at once, with the request body
  still open (`http.rs:201-209`); the refusals of the lists and of an unusable URI
  wait for the body. An operator list that is present and empty refuses every
  host; an absent one refuses none.
* `UnknownTriggerKind` is refused after `init` ran (`load.rs:372-384`), although
  the error type is introduced as "Admission refusals ahead of instantiation"
  (`load.rs:32`).
* The observability listener is a plain detached task: it keeps its port after a
  refused launch, or after `wait`, until the process exits. The pumps are in the
  task set, which aborts them.
* The destination check of the HTTP gate and the connection look a name up
  separately. `GateHolds` speaks of the addresses the check was shown.
* The log store orders runs by their first append, not by their start.
* Two chain keys of the configuration that spell the same chain collide without
  a word (`config/src/chain.rs:125-146`).

## Not modelled, and why

The models cover the code that keeps state across a call, and about a third of
the lines of code outside tests. Most of the others are not behaviour of the running
engine, or are behaviour without state:

* unit tests inside the source files, the test harness, the SDK's mocks, fake
  nodes and fixture modules;
* TOML and argument shapes, digests, interface ids and their error texts;
  range checks of single limits, which are one flag in `Launch`;
* metrics, tracing set-up, the routes of the probe server, the CLI's digest
  command;
* wasmtime and WASI bindings, linker adapters, generated bindings and macros;
* point reads of the store and SDK adapters that pass a call on;
* the `price-alert` and `http-probe` examples, which make the same calls as the
  balance-tracker and keep no state.

What could follow: a rate bound for the dispatch limiter, a proof of the log
pipeline's byte accounts, and an abstract "exactly the canonical logs"
specification that `ChainLogSource` implements between the reorgs it watches.
