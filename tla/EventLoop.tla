----------------------------- MODULE EventLoop -----------------------------
(***************************************************************************)
(* The event loop's select, its end-of-run protocol and RuntimeHandle::wait *)
(* over the task manager: pump tasks feed bounded channels, the loop merges *)
(* them by trigger kind, and every way the run can end joins the pumps      *)
(* before the drain guard goes.                                             *)
(*                                                                         *)
(* What a dispatch does is in Supervisor and EventReplay; here it is a step *)
(* that takes time.  The select polls its arms one after the other while    *)
(* pumps and signals run on other threads, so an arm may become ready after *)
(* it was passed over.                                                      *)
(***************************************************************************)
EXTENDS TaskManager, Sequences

CONSTANTS Sources,   \* pump tasks, one per opened source
          Loop,      \* the event-loop task, a graceful one
          Mixes,     \* the kinds they may serve: a set of [Sources -> Kinds]
          ChannelBuf \* RECONNECT_CHANNEL_BUF

Kinds == {"schedule", "block", "chain-log", "extension"}

ASSUME LoopAssumption ==
  /\ IsFiniteSet(Sources)
  /\ Loop \in Graceful
  /\ Mixes \subseteq [Sources -> Kinds]
  /\ ChannelBuf \in Nat \ {0}

VARIABLES
  kind,      \* the trigger kind each source serves
  pump,      \* each source's task
  exit,      \* how it ended
  queue,     \* items in its channel
  loop,      \* where run() is
  arm,       \* the select arm polled next
  ending,    \* the kind whose merged stream ended
  exits,     \* terminal_chain_log_exits
  parked,    \* the chain-log merge was replaced by a pending stream
  poisoned,  \* sources whose owner was poisoned
  end,       \* RunEnd
  waiter     \* RuntimeHandle::wait

pumpVars == <<kind, pump, exit, queue>>
runVars == <<loop, arm, ending, exits, parked, poisoned, end>>
loopVars == <<pumpVars, runVars, waiter>>
vars == <<taskVars, loopVars>>

Of(k) == {s \in Sources : kind[s] = k}

\* The stream arms in the order of the biased select.
Order == <<"schedule", "block", "chain-log", "extension">>

\* The arms that can resolve: a kind nobody declares is a stream that never
\* does.
Declared(k) == Of(k) # {}
Arms == <<"shutdown", "tasks">> \o SelectSeq(Order, Declared)

\* What launch leaves behind: at least one source, the loop spawned.
EventLoopInit ==
  /\ fired = FALSE
  /\ task = [t \in Graceful |-> IF t = Loop THEN "running" ELSE "unspawned"]
  /\ outstanding = 1 /\ wake = 0
  /\ critical = [c \in Critical |-> "running"]
  /\ reports = {} /\ drain = "none" /\ covered = {}
  /\ kind \in Mixes
  /\ pump = [s \in Sources |-> "running"] /\ exit = [s \in Sources |-> "none"]
  /\ queue = [s \in Sources |-> 0]
  /\ loop = "poll" /\ arm = 1 /\ ending = "none"
  /\ exits = 0 /\ parked = FALSE /\ poisoned = {} /\ end = "none"
  /\ waiter = "select"

----------------------------------------------------------------------------
(* Pump tasks. *)

\* The loop holds the stream ends until its end is decided.
Receiving == loop \in {"poll", "dispatch", "grace"}

\* PENDING_TICKS for a schedule.
Cap(s) == IF kind[s] = "schedule" THEN 1 ELSE ChannelBuf

\* A pump sends an item.  A full channel holds a chain or extension pump back;
\* a schedule coalesces the tick into the pending one, which changes nothing.
Send(s) ==
  /\ pump[s] = "running" /\ Receiving
  /\ queue[s] < Cap(s)
  /\ queue' = [queue EXCEPT ![s] = @ + 1]
  /\ UNCHANGED <<taskVars, kind, pump, exit, runVars, waiter>>

\* The ways a pump may end: its receiver gone, and for an extension's task at
\* any time; an unrecoverable chain-log source; a shared source's report, which
\* the loop handles though only tests make one; a panic, in an unwinding build.
\* How one ends that the loop no longer listens to makes no difference.
MayEnd(s) ==
  IF ~Receiving THEN {"gone"}
  ELSE {"died"} \cup CASE kind[s] = "extension" -> {"gone"}
                      [] kind[s] = "chain-log" -> {"terminal"}
                      [] kind[s] = "block"     -> {"shared"}
                      [] kind[s] = "schedule"  -> {}

\* A task's end drops its sender first and resolves its join handle later.
PumpEnds(s) ==
  /\ \/ /\ pump[s] = "running"
        /\ pump' = [pump EXCEPT ![s] = "closed"]
        /\ \E x \in MayEnd(s) : exit' = [exit EXCEPT ![s] = x]
     \/ /\ pump[s] = "closed"
        /\ pump' = [pump EXCEPT ![s] = "resolved"]
        /\ UNCHANGED exit
  /\ UNCHANGED <<taskVars, kind, queue, runVars, waiter>>

----------------------------------------------------------------------------
(* The loop. *)

Pending(k) == {s \in Of(k) : queue[s] > 0}

Top == loop' = "poll" /\ arm' = 1

\* Drop the stream ends and shut the task set down, with the end decided.
Finish(e) == loop' = "joining" /\ end' = e /\ UNCHANGED arm

At(a) == loop = "poll" /\ arm <= Len(Arms) /\ Arms[arm] = a

\* Mutant: the guard the shutdown future yields is not kept.
PollShutdownUnguarded ==
  /\ At("shutdown")
  /\ IF fired THEN DropGuard(Loop) /\ Finish("Shutdown")
     ELSE arm' = arm + 1 /\ UNCHANGED <<taskVars, loop, end>>
  /\ UNCHANGED <<pumpVars, ending, exits, parked, poisoned, waiter>>

\* The shutdown arm: the guard it yields lives until the run returns.
PollShutdown ==
  /\ At("shutdown")
  /\ IF fired THEN Resolve(Loop) /\ Finish("Shutdown")
     ELSE arm' = arm + 1 /\ UNCHANGED <<taskVars, loop, end>>
  /\ UNCHANGED <<pumpVars, ending, exits, parked, poisoned, waiter>>

\* The handles join_next can yield.  A task that died is discarded, not yielded;
\* that leaves its state as it is here.
Joinable == {s \in Sources : pump[s] = "resolved" /\ exit[s] # "died"}

\* An exit taken from the set: an owned terminal source poisons its module, a
\* shared one ends the run, a pump whose receiver is gone says nothing.
TakeExit(s, resume) ==
  /\ pump' = [pump EXCEPT ![s] = "joined"]
  /\ exits' = IF exit[s] = "terminal" THEN exits + 1 ELSE exits
  /\ poisoned' = IF exit[s] = "terminal" THEN poisoned \cup {s} ELSE poisoned
  /\ IF exit[s] = "shared" THEN Finish("SourceTerminal")
     ELSE resume /\ UNCHANGED end

\* The task-set arm.
PollTasks ==
  /\ At("tasks")
  /\ \/ \E s \in Joinable : TakeExit(s, Top)
     \/ /\ Joinable = {} /\ arm' = arm + 1
        /\ UNCHANGED <<pump, exits, poisoned, loop, end>>
  /\ UNCHANGED <<taskVars, kind, exit, queue, ending, parked, waiter>>

\* select_all over a kind's streams yields `None` once all have ended; a parked
\* merge never does.
Ended(k) ==
  /\ Declared(k) /\ Pending(k) = {}
  /\ \A s \in Of(k) : pump[s] # "running"
  /\ ~(k = "chain-log" /\ parked)

\* The stream arms: an item is dispatched, an end is ruled on.
PollStream(k) ==
  /\ At(k)
  /\ \/ \E s \in Pending(k) :
          /\ queue' = [queue EXCEPT ![s] = @ - 1]
          /\ loop' = "dispatch" /\ UNCHANGED <<arm, ending>>
     \/ /\ Ended(k)
        /\ loop' = "grace" /\ ending' = k /\ UNCHANGED <<queue, arm>>
     \/ /\ Pending(k) = {} /\ ~Ended(k)
        /\ arm' = arm + 1 /\ UNCHANGED <<queue, loop, ending>>
  /\ UNCHANGED <<taskVars, kind, pump, exit, exits, parked, poisoned, end, waiter>>

\* With every arm pending the task sleeps until one of them wakes it.
Woken ==
  /\ loop = "poll" /\ arm = Len(Arms) + 1
  /\ fired \/ Joinable # {} \/ \E k \in Kinds : Pending(k) # {} \/ Ended(k)
  /\ Top
  /\ UNCHANGED <<taskVars, pumpVars, ending, exits, parked, poisoned, end, waiter>>

\* The dispatch ends: a guest call is bounded by its deadline and not cancelled.
EndDispatch ==
  /\ loop = "dispatch" /\ Top
  /\ UNCHANGED <<taskVars, pumpVars, ending, exits, parked, poisoned, end, waiter>>

----------------------------------------------------------------------------
(* A merged stream ended: absorb the imminent exits, then rule on the end. *)

Accounted == ending = "chain-log" /\ exits = Cardinality(Of("chain-log"))

GraceJoin ==
  /\ loop = "grace" /\ ~Accounted
  /\ \E s \in Joinable : TakeExit(s, UNCHANGED <<loop, arm>>)
  /\ UNCHANGED <<taskVars, kind, exit, queue, ending, parked, waiter>>

\* Mutant: no grace for a report on its way.
GraceTimeoutAtOnce ==
  /\ loop = "grace" /\ ~Accounted /\ Joinable = {}
  /\ Finish("StreamEnded")
  /\ UNCHANGED <<taskVars, pumpVars, ending, exits, parked, poisoned, waiter>>

\* TERMINAL_REPORT_GRACE passes with no exit.  It is taken to outlast the time
\* between a task's dropping its sender and its handle's resolving.
GraceTimeout ==
  /\ loop = "grace" /\ ~Accounted /\ Joinable = {}
  /\ \A s \in Sources : pump[s] # "closed"
  /\ Finish("StreamEnded")
  /\ UNCHANGED <<taskVars, pumpVars, ending, exits, parked, poisoned, waiter>>

\* has_blocks || has_extensions || has_schedules
OthersDeclared == \E k \in Kinds \ {"chain-log"} : Declared(k)

\* Mutant: the exhausted merge is not replaced.
ResumeUnparked == Top /\ UNCHANGED <<parked, end>>

\* Every chain-log source is terminal: park the merge, or stop.
Resume == Top /\ parked' = TRUE /\ UNCHANGED end

GraceAccounted ==
  /\ loop = "grace" /\ Accounted
  /\ IF OthersDeclared THEN Resume ELSE Finish("NothingLive") /\ UNCHANGED parked
  /\ UNCHANGED <<taskVars, pumpVars, ending, exits, poisoned, waiter>>

----------------------------------------------------------------------------
(* The way out. *)

\* Mutant: the set only waits for its tasks.
AbortNone(s) == loop = "joining" /\ pump[s] = "joined" /\ UNCHANGED vars

\* TaskSet::shutdown aborts every handle: a pump asleep in a back-off or waiting
\* for a provider stops at that await.
Abort(s) ==
  /\ loop = "joining" /\ pump[s] = "running"
  /\ pump' = [pump EXCEPT ![s] = "closed"]
  /\ exit' = [exit EXCEPT ![s] = "died"]
  /\ UNCHANGED <<taskVars, kind, queue, runVars, waiter>>

\* TaskSet::shutdown then awaits every handle.
JoinPumps ==
  /\ loop = "joining"
  /\ \A s \in Sources : pump[s] \in {"resolved", "joined"}
  /\ pump' = [s \in Sources |-> "joined"]
  /\ loop' = "dropping"
  /\ UNCHANGED <<taskVars, kind, exit, queue, arm, ending, exits, parked,
                 poisoned, end, waiter>>

\* The guard goes, from the shutdown arm or with the unresolved future.
ReleaseGuard ==
  /\ loop = "dropping" /\ DropGuard(Loop)
  /\ UNCHANGED loopVars

\* run returns, and the task's handle resolves.
LoopReturns ==
  /\ loop = "dropping" /\ task[Loop] = "ended"
  /\ loop' = "returned"
  /\ UNCHANGED <<taskVars, pumpVars, arm, ending, exits, parked, poisoned, end,
                 waiter>>

----------------------------------------------------------------------------
(* RuntimeHandle::wait. *)

\* finish_wait; the manager goes with the handle, which fires the signal.
FinishWait ==
  /\ loop = "returned" /\ waiter \in {"select", "join"}
  /\ waiter' = IF end \in {"Shutdown", "NothingLive"} THEN "ok" ELSE "failed"
  /\ fired' = TRUE
  /\ UNCHANGED <<task, outstanding, wake, critical, reports, drain, covered,
                 pumpVars, runVars>>

\* A critical task's report or the signal: drain.  The report follows the signal,
\* so the signal stands for both.  An end of the loop that arrives after its own
\* arm was polled waits for the next select.
WaitSignalled ==
  /\ waiter = "select" /\ fired
  /\ waiter' = "drain"
  /\ UNCHANGED <<taskVars, pumpVars, runVars>>

\* The drain, and what follows it: join the loop, or exit(1).
WaitDrains ==
  /\ waiter = "drain"
  /\ \/ (BeginDrain \/ DrainCheck \/ DrainWake) /\ UNCHANGED waiter
     \/ drain = "drained" /\ waiter' = "join" /\ UNCHANGED taskVars
     \/ DrainTimeout /\ waiter' = "exit 1"
  /\ UNCHANGED <<pumpVars, runVars>>

----------------------------------------------------------------------------
\* Shutdown fired by the handle or by the end of the OS-signal listener.
Signals == Fire /\ UNCHANGED loopVars

LoopStep ==
  \/ PollShutdown \/ PollTasks \/ (\E k \in Kinds : PollStream(k)) \/ Woken
  \/ EndDispatch \/ GraceJoin \/ GraceTimeout \/ GraceAccounted
  \/ JoinPumps \/ ReleaseGuard \/ LoopReturns

\* The process goes on: wait has neither returned nor called exit(1).
Running == waiter \notin {"ok", "failed", "exit 1"}

EventLoopNext ==
  /\ Running
  /\ \/ Signals \/ LoopStep \/ FinishWait \/ WaitSignalled \/ WaitDrains
     \/ \E s \in Sources : Send(s) \/ PumpEnds(s) \/ Abort(s)

EventLoopSpec == EventLoopInit /\ [][EventLoopNext]_vars

\* The loop takes an item of this source.
Takes(s) == PollStream(kind[s]) /\ queue'[s] < queue[s]

\* The executor polls what is ready.  Within an arm select_all hands out its
\* ready streams in turn, so that a source with an item is not passed over for
\* ever for another one of its kind.  A pump that has begun to end resolves and
\* an aborted one stops; nothing makes a pump send or end of its own accord, or
\* the drain's deadline pass.
EventLoopFairness ==
  /\ WF_vars(Running /\ LoopStep)
  /\ WF_vars(FinishWait \/ WaitSignalled \/ (WaitDrains /\ waiter' # "exit 1"))
  /\ \A s \in Sources :
       /\ SF_vars(Running /\ Takes(s))
       /\ WF_vars(Running /\ (Abort(s) \/ (pump[s] = "closed" /\ PumpEnds(s))))

EventLoopLiveSpec == EventLoopSpec /\ EventLoopFairness

----------------------------------------------------------------------------
\* A drain that completes has covered the in-flight dispatch and every pump:
\* the loop has decided its end, left its dispatch and joined the task set (the
\* guard `run` holds until return).
DrainCoversRun ==
  drain = "drained" =>
    /\ loop \in {"dropping", "returned"}
    /\ \A s \in Sources : pump[s] = "joined"

\* A run that ends as StreamEnded lost a pump: some source of the ended kind did
\* not report itself terminal.  A terminal report that arrives after the stream's
\* end is not mistaken for a dead pump (TERMINAL_REPORT_GRACE).
TerminalNeverMisread ==
  end = "StreamEnded" => \E s \in Of(ending) : exit[s] # "terminal"

\* Once the signal is latched, wait returns or exits, though a pump may be asleep
\* and the loop may be dispatching, ruling on an end or already leaving.
StopReturns == fired ~> (waiter \in {"ok", "failed", "exit 1"})

\* An item of an arm ahead of this source's in the biased select is dispatched.
HeldBack(s) ==
  \E i, j \in DOMAIN Order :
    i < j /\ kind[s] = Order[j] /\ loop = "dispatch" /\ Arms[arm] = Order[i]

\* However much the pumps go on sending, a source's queue is served again and
\* again for as long as it has anything, unless the run ends or an arm ahead of
\* its own is served again and again.  So nothing holds a schedule back ("a
\* backfill cannot hold it"), sources of one kind do not starve each other, and
\* exhausted chain-log sources hold nobody.
BacklogDispatched ==
  \A s \in Sources :
    \/ <>(end # "none" \/ waiter = "exit 1")
    \/ []<>HeldBack(s)
    \/ []<>(queue[s] = 0)
    \/ []<><<queue'[s] < queue[s]>>_queue
============================================================================
