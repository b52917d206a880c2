------------------------------ MODULE Journal ------------------------------
(***************************************************************************)
(* The idempotency journal of the SDK's keeper: Journal::guard reserves a   *)
(* receipt, runs the submit, and settles the marker as the outcome directs; *)
(* a reconcile pass takes what pending() lists.  Every write of the store   *)
(* may fail, and the guest may trap or its process die between two steps;   *)
(* markers and the upstream survive both.                                   *)
(*                                                                         *)
(* The submit and the reconcile pass are the module's own (external): a     *)
(* submit is accepted, refused, or its outcome stays unknown.               *)
(***************************************************************************)
EXTENDS Integers

CONSTANTS Receipts, MaxEpoch,
          MaxFaults   \* bound on failed writes, traps and corrupted markers

ASSUME JournalAssumption == MaxEpoch \in Nat /\ MaxFaults \in Nat

None == [tag |-> "none", until |-> 0]
Tags == {"none", "empty", "reserved", "committed", "corrupt"}

(* reserved_value, and the one-byte COMMITTED marker *)
ReservedValue(until) == [tag |-> "reserved", until |-> until]
CommittedValue == [tag |-> "committed", until |-> 0]

VARIABLES marks,   \* the marker of each receipt, on disk
          job,     \* the guard or reconcile under way
          landed,  \* the receipts whose effect is durable upstream
          epoch, faults

journalVars == <<marks, job, landed, epoch, faults>>

Resting == [pc |-> "idle"]
Disposals == {"commit", "release", "retain", "park"}

JournalTypeOK ==
  /\ marks \in [Receipts -> [tag : Tags, until : 0..MaxEpoch]]
  /\ landed \subseteq Receipts /\ epoch \in 0..MaxEpoch /\ faults \in 0..MaxFaults
  /\ job \in {Resting} \cup [pc : {"reserve", "submit", "resubmit"}, r : Receipts]
             \cup [pc : {"settle"}, r : Receipts, disp : Disposals, until : 0..MaxEpoch]

(* Journal::mark: an empty value is a legacy commit, any other tag is owed *)
Mark(r) == CASE marks[r].tag = "none" -> "absent"
             [] marks[r].tag \in {"empty", "committed"} -> "committed"
             [] OTHER -> "reserved"

(* Journal::pending: the host leaves out COMMITTED values, the loop the empty
   ones; only a RESERVED value carries the time of its next attempt *)
Pending == {r \in Receipts : marks[r].tag \notin {"none", "committed", "empty"}}

(* Mutant: a marker with a damaged tag is never due *)
NextEligibleTagged(r) == IF marks[r].tag = "reserved" THEN marks[r].until ELSE MaxEpoch + 1

NextEligible(r) == IF marks[r].tag = "reserved" THEN marks[r].until ELSE 0

(* Mutant: only a committed marker short-circuits *)
GuardRestart(r) ==
  /\ job = Resting /\ Mark(r) # "committed"
  /\ job' = [pc |-> "reserve", r |-> r]
  /\ UNCHANGED <<marks, landed, epoch, faults>>

(* guard: an existing marker short-circuits *)
GuardStart(r) ==
  /\ job = Resting /\ Mark(r) = "absent"
  /\ job' = [pc |-> "reserve", r |-> r]
  /\ UNCHANGED <<marks, landed, epoch, faults>>

Reserve ==
  /\ job.pc = "reserve"
  /\ marks' = [marks EXCEPT ![job.r] = ReservedValue(0)]
  /\ job' = [job EXCEPT !.pc = "submit"]
  /\ UNCHANGED <<landed, epoch, faults>>

(* the reconcile pass resubmits a reservation that is due *)
Reconcile(r) ==
  /\ job = Resting /\ r \in Pending /\ NextEligible(r) <= epoch
  /\ job' = [pc |-> "resubmit", r |-> r]
  /\ UNCHANGED <<marks, landed, epoch, faults>>

Settling(r, disp, until) == [pc |-> "settle", r |-> r, disp |-> disp, until |-> until]

(* the submit: an unknown outcome may or may not have landed *)
Submit ==
  /\ job.pc \in {"submit", "resubmit"}
  /\ \/ /\ landed' = landed \cup {job.r}
        /\ job' = Settling(job.r, "commit", 0)
     \/ /\ job.r \notin landed /\ UNCHANGED landed
        /\ \/ job' = Settling(job.r, "release", 0)
           \/ \E until \in epoch..MaxEpoch : job' = Settling(job.r, "park", until)
     \/ /\ landed' \in {landed, landed \cup {job.r}}
        /\ job' = Settling(job.r, "retain", 0)
  /\ UNCHANGED <<marks, epoch, faults>>

(* Mutant: an unknown outcome releases the marker *)
SettleReleasing ==
  /\ job.pc = "settle"
  /\ marks' = CASE job.disp = "commit" -> [marks EXCEPT ![job.r] = CommittedValue]
                [] job.disp = "park"   -> [marks EXCEPT ![job.r] = ReservedValue(job.until)]
                [] OTHER               -> [marks EXCEPT ![job.r] = None]
  /\ job' = Resting
  /\ UNCHANGED <<landed, epoch, faults>>

(* the match on the disposition *)
Settle ==
  /\ job.pc = "settle"
  /\ marks' = CASE job.disp = "commit"  -> [marks EXCEPT ![job.r] = CommittedValue]
                [] job.disp = "release" -> [marks EXCEPT ![job.r] = None]
                [] job.disp = "park"    -> [marks EXCEPT ![job.r] = ReservedValue(job.until)]
                [] job.disp = "retain"  -> marks
  /\ job' = Resting
  /\ UNCHANGED <<landed, epoch, faults>>

(* a failed write ends the call (a failed commit is tolerated, and ends it
   too); a trap or a crash ends it anywhere *)
Fail ==
  /\ job # Resting /\ faults < MaxFaults
  /\ job' = Resting /\ faults' = faults + 1
  /\ UNCHANGED <<marks, landed, epoch>>

(* a marker on disk is damaged; a damaged tag byte is neither tag *)
Damage(r) ==
  /\ job = Resting /\ faults < MaxFaults /\ marks[r].tag # "none"
  /\ marks' = [marks EXCEPT ![r] = [tag |-> "corrupt", until |-> 0]]
  /\ faults' = faults + 1
  /\ UNCHANGED <<job, landed, epoch>>

Advance == epoch < MaxEpoch /\ epoch' = epoch + 1 /\ UNCHANGED <<marks, job, landed, faults>>

(* a store written by an older module holds empty markers of landed effects *)
JournalInit ==
  /\ landed \in SUBSET Receipts
  /\ marks = [r \in Receipts |-> IF r \in landed THEN [tag |-> "empty", until |-> 0] ELSE None]
  /\ job = Resting /\ epoch = 0 /\ faults = 0

JournalNext ==
  \/ \E r \in Receipts : GuardStart(r) \/ Reconcile(r) \/ Damage(r)
  \/ Reserve \/ Submit \/ Settle \/ Fail \/ Advance

JournalSpec == JournalInit /\ [][JournalNext]_journalVars

(* The guest's calls run to their end, the clock moves, and the reconcile pass
   comes back to every reservation that stays due.  A retry that is refused or
   unknown forever is excluded: Accepted is fair in the strong sense. *)
Accepted(r) == Submit /\ job.r = r /\ job'.pc = "settle" /\ job'.disp = "commit"
JournalFairness ==
  /\ WF_journalVars(Reserve) /\ WF_journalVars(Submit) /\ WF_journalVars(Settle)
  /\ WF_journalVars(Advance)
  /\ \A r \in Receipts : SF_journalVars(Reconcile(r)) /\ SF_journalVars(Accepted(r))

---------------------------------------------------------------------------
(* An effect that is durable upstream has its marker on disk, whatever write
   failed and wherever the guest died: guard can never run it again. *)
LandedIsMarked == \A r \in landed : Mark(r) # "absent"

(* guard never submits what has already landed; only the reconcile pass may,
   which owns the reserved markers. *)
GuardSubmitsOnce ==
  [][\A r \in landed : ~(job.pc = "submit" /\ job.r = r /\ job'.pc = "settle")]_journalVars

(* A landed effect is in the end committed: no reservation is stranded. *)
LandedSettles == \A r \in Receipts : (r \in landed) ~> (Mark(r) = "committed")
============================================================================
