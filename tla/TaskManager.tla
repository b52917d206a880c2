---------------------------- MODULE TaskManager ----------------------------
(***************************************************************************)
(* nexum-tasks: the latched shutdown signal, the drain guards of graceful  *)
(* tasks, critical tasks, and the bounded drain.                           *)
(*                                                                         *)
(* Tasks run on other threads than the drain.  A guard's drop is two       *)
(* steps, the decrement and the wake-up, and the drain's check of the      *)
(* count and its wait for a wake-up are two steps as well.                 *)
(***************************************************************************)
EXTENDS Naturals, FiniteSets

CONSTANTS Graceful,  \* tasks spawned with spawn_graceful
          Critical,  \* tasks spawned with spawn_critical
          WakeBuf    \* DRAIN_WAKE_BUF

ASSUME TaskAssumption ==
  /\ IsFiniteSet(Graceful)
  /\ WakeBuf \in Nat \ {0}

VARIABLES
  fired,       \* the watch channel's value
  task,        \* each graceful task and its guard
  outstanding, \* guards counted and not yet dropped
  wake,        \* wake-ups queued for the drain
  critical,    \* each critical task
  reports,     \* names queued for on_critical_failure
  drain,       \* graceful_shutdown_with_timeout
  covered      \* history: tasks whose guard existed when the drain began

taskVars == <<fired, task, outstanding, wake, critical, reports, drain, covered>>

TaskStates == {"unspawned",
               "running",    \* awaits the signal, or works without looking at it
               "flushing",   \* the signal resolved and yielded the guard
               "releasing",  \* the guard is being dropped: counted out, wake-up due
               "ended"}

\* The tasks whose guard is counted.
Holding == {t \in Graceful : task[t] \in {"running", "flushing"}}

\* Type invariant; the count is an unsigned integer and never underflows.
TaskTypeOK ==
  /\ fired \in BOOLEAN
  /\ task \in [Graceful -> TaskStates]
  /\ outstanding \in Nat
  /\ wake \in 0..WakeBuf
  /\ critical \in [Critical -> {"running", "signalled", "reported"}]
  /\ reports \subseteq Critical
  /\ drain \in {"none", "check", "wait", "drained", "timed out"}
  /\ covered \subseteq Graceful

TaskInit ==
  /\ fired = FALSE
  /\ task = [t \in Graceful |-> "unspawned"]
  /\ outstanding = 0 /\ wake = 0
  /\ critical = [c \in Critical |-> "running"]
  /\ reports = {}
  /\ drain = "none" /\ covered = {}

\* ShutdownSignal::fire, from any clone of the handle.
Fire ==
  /\ fired' = TRUE
  /\ UNCHANGED <<task, outstanding, wake, critical, reports, drain, covered>>

\* spawn_graceful, from any clone of the executor, also while a drain runs: the
\* guard is counted before the task is ever polled.
SpawnGraceful(t) ==
  /\ task[t] = "unspawned"
  /\ task' = [task EXCEPT ![t] = "running"]
  /\ outstanding' = outstanding + 1
  /\ UNCHANGED <<fired, wake, critical, reports, drain, covered>>

\* Mutant: only a signal that fires while the task waits reaches it.
ResolveOnEdge(t) ==
  /\ task[t] = "running" /\ fired /\ drain = "none"
  /\ task' = [task EXCEPT ![t] = "flushing"]
  /\ UNCHANGED <<fired, outstanding, wake, critical, reports, drain, covered>>

\* GracefulShutdown resolves: the signal is latched, so a task that asks late
\* sees it too.
Resolve(t) ==
  /\ task[t] = "running" /\ fired
  /\ task' = [task EXCEPT ![t] = "flushing"]
  /\ UNCHANGED <<fired, outstanding, wake, critical, reports, drain, covered>>

\* The queue after a try_send: a full one already holds a wake-up.
Queued == IF wake < WakeBuf THEN wake + 1 ELSE wake

\* The guard's drop, after the flush or because the task ended before the
\* signal: fetch_sub, then try_send.
DropGuard(t) ==
  /\ \/ /\ task[t] \in {"running", "flushing"}
        /\ task' = [task EXCEPT ![t] = "releasing"]
        /\ outstanding' = outstanding - 1 /\ UNCHANGED wake
     \/ /\ task[t] = "releasing"
        /\ task' = [task EXCEPT ![t] = "ended"]
        /\ wake' = Queued /\ UNCHANGED outstanding
  /\ UNCHANGED <<fired, critical, reports, drain, covered>>

\* A critical task returns or panics: it fires the signal, then reports.
CriticalEnds(c) ==
  /\ \/ /\ critical[c] = "running"
        /\ critical' = [critical EXCEPT ![c] = "signalled"]
        /\ fired' = TRUE /\ UNCHANGED reports
     \/ /\ critical[c] = "signalled"
        /\ critical' = [critical EXCEPT ![c] = "reported"]
        /\ reports' = reports \cup {c} /\ UNCHANGED fired
  /\ UNCHANGED <<task, outstanding, wake, drain, covered>>

\* graceful_shutdown_with_timeout starts: it consumes the manager, so once.
BeginDrain ==
  /\ drain = "none"
  /\ drain' = "check" /\ fired' = TRUE /\ covered' = Holding
  /\ UNCHANGED <<task, outstanding, wake, critical, reports>>

\* The head of the drain's loop.
DrainCheck ==
  /\ drain = "check"
  /\ drain' = IF outstanding = 0 THEN "drained" ELSE "wait"
  /\ UNCHANGED <<fired, task, outstanding, wake, critical, reports, covered>>

\* The drain's select: a wake-up.  The executor the manager holds keeps a
\* sender, so the queue never closes.
DrainWake ==
  /\ drain = "wait" /\ wake > 0
  /\ wake' = wake - 1 /\ drain' = "check"
  /\ UNCHANGED <<fired, task, outstanding, critical, reports, covered>>

\* The drain's select: the deadline.
DrainTimeout ==
  /\ drain = "wait"
  /\ drain' = "timed out"
  /\ UNCHANGED <<fired, task, outstanding, wake, critical, reports, covered>>

\* on_critical_failure yields a report.
ObserveCritical(c) ==
  /\ c \in reports /\ drain = "none"
  /\ reports' = reports \ {c}
  /\ UNCHANGED <<fired, task, outstanding, wake, critical, drain, covered>>

TaskNext ==
  \/ Fire \/ BeginDrain \/ DrainCheck \/ DrainWake \/ DrainTimeout
  \/ \E t \in Graceful : SpawnGraceful(t) \/ Resolve(t) \/ DropGuard(t)
  \/ \E c \in Critical : CriticalEnds(c) \/ ObserveCritical(c)

TaskSpec == TaskInit /\ [][TaskNext]_taskVars

\* The runtime polls what is ready, and a flush ends.  A task that never looks
\* at the signal is not made to, and the deadline is not made to pass.
TaskFairness ==
  /\ WF_taskVars(DrainCheck) /\ WF_taskVars(DrainWake)
  /\ \A t \in Graceful : /\ WF_taskVars(Resolve(t))
                         /\ WF_taskVars(task[t] # "running" /\ DropGuard(t))

----------------------------------------------------------------------------
\* The drain reports `Drained` only when every guard that existed when it began
\* has been dropped: no flush is cut off by a drain that calls itself complete
\* (GracefulShutdown's "counted from spawn", graceful_shutdown_with_timeout).
DrainCoversFlush ==
  drain = "drained" => \A t \in covered : task[t] \in {"releasing", "ended"}

\* A drain that waits with nothing left to wait for has a wake-up queued or
\* about to be: the decrement comes before the wake-up, so that the last guard
\* to go cannot leave the drain asleep until its deadline (Drop of
\* GracefulShutdownGuard, DRAIN_WAKE_BUF).
NoLostWakeup ==
  drain = "wait" /\ outstanding = 0 =>
    wake > 0 \/ \E t \in Graceful : task[t] = "releasing"

\* A drain ends without its deadline: the latched signal reaches every task,
\* also one that asks after it fired, and the last guard wakes the drain.
DrainEnds == (drain = "check") ~> (drain \in {"drained", "timed out"})
============================================================================
