------------------------------ MODULE MCRetries ------------------------------
(***************************************************************************)
(* The parts that retry, for TLC: a keeper's journal and its commitments,   *)
(* each a sequence of single-key writes of the store, and a block source.   *)
(* The three share no state, so one is under way in each behaviour and the  *)
(* others rest.                                                             *)
(***************************************************************************)
EXTENDS Journal, Commitments, BlockSource

VARIABLE part

(* A part that rests: nothing is asked of it and its clock is at its end. *)
JournalRests ==
  /\ landed = {} /\ marks = [r \in Receipts |-> None] /\ job = Resting
  /\ epoch = MaxEpoch /\ faults = 0
CommitRests ==
  /\ rows = [x \in Kinds \X Owners |-> Unset] /\ todo = <<>>
  /\ tick = [block |-> MaxU64, epoch |-> MaxU64] /\ asked = [c \in Owners |-> {}]
  /\ gone = {} /\ puts = 0 /\ rowFaults = 0
BlockRests ==
  /\ link = [at |-> "gone", attempt |-> 0, age |-> Never, left |-> 0]
  /\ inbox = 0 /\ heard = FALSE /\ paused = 0

RetriesInit ==
  \/ part = "journal" /\ JournalInit /\ CommitRests /\ BlockRests
  \/ part = "commitments" /\ JournalRests /\ CommitInit /\ BlockRests
  \/ part = "blocks" /\ JournalRests /\ CommitRests /\ BlockInit

RetriesNext ==
  /\ \/ part = "journal" /\ JournalNext /\ UNCHANGED <<commitVars, blockVars>>
     \/ part = "commitments" /\ CommitNext /\ UNCHANGED <<journalVars, blockVars>>
     \/ part = "blocks" /\ BlockNext /\ UNCHANGED <<journalVars, commitVars>>
  /\ UNCHANGED part

RetriesSpec ==
  /\ RetriesInit /\ [][RetriesNext]_<<part, journalVars, commitVars, blockVars>>
  /\ JournalFairness /\ CommitFairness
==============================================================================
