------------------------------ MODULE Schedule ------------------------------
(***************************************************************************)
(* One schedule source (runtime/schedule.rs) beside a wall clock that      *)
(* steps. The task arms for the first matching minute after the clock's    *)
(* reading, sleeps towards it on the runtime clock for at most Recheck,    *)
(* reads the wall clock again, and sends a tick into a one-slot channel    *)
(* once that minute is reached. The reading that ends a pass and the one   *)
(* that arms the next are two readings, and the clock moves between them.  *)
(*                                                                         *)
(* Every Period-th instant of the wall clock matches; Cron is the search   *)
(* that finds it.                                                          *)
(***************************************************************************)
EXTENDS Integers, Sequences

CONSTANTS Period,  \* instants from one matching minute to the next
          Recheck, \* longest sleep before the wall clock is read again
          MaxWall  \* bound on the wall clock

ASSUME ScheduleAssumption ==
  Period \in Nat \ {0} /\ Recheck \in Nat \ {0} /\ MaxWall \in Nat

VARIABLES wall, \* the host wall clock
          timer, \* the source task: position, armed minute, sleep left
          slot, \* the channel: at most one tick, as its fired_at
          open, \* the stream still holds the receiver
          ticks \* history: the last tick sent or coalesced, and the first since
                \* the slot was empty

scheduleVars == <<wall, timer, slot, open, ticks>>

NextAfter(t) == (t \div Period + 1) * Period
Lesser(a, b) == IF a < b THEN a ELSE b

\* Mutant: armed from the minute that was due, not from the clock
ArmFromDue ==
  /\ timer.at = "arm"
  /\ LET due == NextAfter(timer.due)
     IN  timer' = [at |-> "sleep", due |-> due,
                   left |-> IF due <= wall THEN 0 ELSE Lesser(due - wall, Recheck)]
  /\ UNCHANGED <<wall, slot, open, ticks>>

\* The head of the loop: armed from the current wall clock.
Arm ==
  /\ timer.at = "arm"
  /\ LET due == NextAfter(wall)
     IN  timer' = [at |-> "sleep", due |-> due, left |-> Lesser(due - wall, Recheck)]
  /\ UNCHANGED <<wall, slot, open, ticks>>

\* try_send into the one-slot channel.
SendTick(slots, tick) == IF slots = <<>> THEN <<tick>> ELSE slots

\* Mutant: the minute itself is still early
WakePast ==
  /\ timer.at = "sleep"
  /\ timer.left = 0
  /\ IF wall <= timer.due
     THEN timer' = [timer EXCEPT !.at = "arm"] /\ UNCHANGED <<slot, ticks>>
     ELSE IF open
     THEN /\ timer' = [timer EXCEPT !.at = "arm"]
          /\ slot' = SendTick(slot, wall)
          /\ ticks' = [last |-> wall,
                       first |-> IF slot = <<>> THEN wall ELSE ticks.first]
     ELSE timer' = [timer EXCEPT !.at = "gone"] /\ UNCHANGED <<slot, ticks>>
  /\ UNCHANGED <<wall, open>>

\* The sleep ended: read the clock, go round again if it is early, else tick.
Wake ==
  /\ timer.at = "sleep"
  /\ timer.left = 0
  /\ IF wall < timer.due
     THEN /\ timer' = [timer EXCEPT !.at = "arm"]
          /\ UNCHANGED <<slot, ticks>>
     ELSE IF open
     THEN /\ timer' = [timer EXCEPT !.at = "arm"]
          /\ slot' = SendTick(slot, wall)
          /\ ticks' = [last |-> wall,
                       first |-> IF slot = <<>> THEN wall ELSE ticks.first]
     ELSE timer' = [timer EXCEPT !.at = "gone"] /\ UNCHANGED <<slot, ticks>>
  /\ UNCHANGED <<wall, open>>

\* The receiver dropped while the task slept.
Closed ==
  /\ timer.at = "sleep"
  /\ ~open
  /\ timer' = [timer EXCEPT !.at = "gone"]
  /\ UNCHANGED <<wall, slot, open, ticks>>

\* The event loop takes the waiting tick, or drops the stream.
Receive ==
  /\ open /\ slot # <<>>
  /\ slot' = <<>>
  /\ UNCHANGED <<wall, timer, open, ticks>>

DropStream ==
  /\ open
  /\ open' = FALSE
  /\ slot' = <<>>
  /\ UNCHANGED <<wall, timer, ticks>>

\* Time passes on both clocks; a late wake-up is one that comes after more of
\* it than the sleep asked for.
ClockRuns ==
  /\ wall' = Lesser(wall + 1, MaxWall)
  /\ timer' = IF timer.at = "sleep" /\ timer.left > 0
             THEN [timer EXCEPT !.left = @ - 1] ELSE timer
  /\ UNCHANGED <<slot, open, ticks>>

\* The wall clock is set. After a step back a minute may fire again, so the
\* history forgets the last tick.
ClockSteps ==
  \E w \in 0 .. MaxWall :
    /\ wall' = w
    /\ ticks' = IF w < wall THEN [ticks EXCEPT !.last = -1]
                            ELSE ticks
    /\ UNCHANGED <<timer, slot, open>>

ScheduleInit ==
  /\ wall = 0
  /\ timer = [at |-> "arm", due |-> 0, left |-> 0]
  /\ slot = <<>>
  /\ open = TRUE
  /\ ticks = [last |-> -1, first |-> 0]

ScheduleNext == Arm \/ Wake \/ Closed \/ Receive \/ DropStream \/ ClockRuns \/ ClockSteps

\* The runtime polls a task that is ready and the runtime clock runs; nothing
\* is assumed of the receiver or of who sets the wall clock.
ScheduleFairness ==
  /\ WF_scheduleVars(Arm) /\ WF_scheduleVars(Wake)
  /\ WF_scheduleVars(Closed) /\ WF_scheduleVars(ClockRuns)

ScheduleSpec == ScheduleInit /\ [][ScheduleNext]_scheduleVars

-----------------------------------------------------------------------------
(* Properties. *)

\* Clock, timer, channel and history keep their types.
ScheduleTypeOK ==
  /\ wall \in 0 .. MaxWall /\ open \in BOOLEAN
  /\ timer.at \in {"arm", "sleep", "gone"} /\ timer.left \in 0 .. Recheck /\ timer.due \in Nat
  /\ Len(slot) <= 1

\* No burst: unless the clock was set back in between, a tick is for a minute
\* later than the reading of the clock the last tick was generated at. A
\* forward step over many matching minutes yields one tick at most.
NoBurst ==
  [][ticks'.last # ticks.last /\ wall' = wall => timer.due > ticks.last]_scheduleVars

\* A tick that waits in the slot is the first that came due since the slot
\* was last empty, with the fired_at it was generated with; later ones
\* coalesce into it.
FirstTickWaits == slot # <<>> => slot = <<ticks.first>>

\* A minute the clock reaches while the task sleeps towards it is not slept
\* through: a tick follows, unless the clock is set back or the stream drops.
ReachedMinuteFires ==
  \A due \in {NextAfter(w) : w \in 0 .. MaxWall} :
    (timer.at = "sleep" /\ timer.due = due /\ wall >= due)
      ~> (ticks.last >= due \/ wall < due \/ ~open)
=============================================================================
