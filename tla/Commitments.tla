---------------------------- MODULE Commitments ----------------------------
(***************************************************************************)
(* The commitment registry of the SDK's keeper: CommitmentSet, Gates and    *)
(* Retrier.  Each call is a sequence of single-key store writes; one may    *)
(* fail, and the guest may trap, between any two of them.                   *)
(*                                                                         *)
(* The poll and its outcome are the module's own (external): a ready        *)
(* commitment is polled at the current tick and earns a retry action.       *)
(***************************************************************************)
EXTENDS Integers, Sequences

CONSTANTS Owners,     \* the commitments, by owner and hash
          MaxU64,     \* the largest block and epoch
          Delays,     \* seconds of a Backoff
          MaxPuts, MaxRowFaults

ASSUME CommitmentsAssumption ==
  MaxU64 \in Nat /\ Delays \subseteq Nat /\ MaxPuts \in Nat /\ MaxRowFaults \in Nat

Unset == -1
Corrupt == -2   \* a stored value that is not eight bytes
Kinds == {"commitment", "next_block", "next_epoch", "refused"}

VARIABLES rows,   \* rows[<<kind, c>>]: the stored value, Unset if none
          todo,   \* the store writes the call under way still has to make
          tick,   \* the block and the epoch of the current dispatch
          asked,  \* the blocks at which DropOnRepeat was applied to a commitment
                  \* since its refusal was last deleted
          gone,   \* the commitments DropOnRepeat removes now
          puts, rowFaults

commitVars == <<rows, todo, tick, asked, gone, puts, rowFaults>>

Write(kind, c, v) == [key |-> <<kind, c>>, val |-> v]

SatAdd(a, b) == IF a + b > MaxU64 THEN MaxU64 ELSE a + b

(* read_u64: a malformed value reads as absent *)
ReadU64(kind, c) == IF rows[<<kind, c>>] = Corrupt THEN Unset ELSE rows[<<kind, c>>]

Registered(c) == rows[<<"commitment", c>>] # Unset

(* Mutant: a gate opens past its threshold *)
IsReadyPast(c) ==
  LET block == ReadU64("next_block", c)
      epoch == ReadU64("next_epoch", c)
  IN  /\ block = Unset \/ tick.block > block
      /\ epoch = Unset \/ tick.epoch > epoch

(* Gates::is_ready: both gates pass, each at its threshold *)
IsReady(c) ==
  LET block == ReadU64("next_block", c)
      epoch == ReadU64("next_epoch", c)
  IN  /\ block = Unset \/ tick.block >= block
      /\ epoch = Unset \/ tick.epoch >= epoch

(* Mutant: the row goes before what hangs on it *)
RemoveRowFirst(c) == <<Write("commitment", c, Unset), Write("next_block", c, Unset),
                       Write("next_epoch", c, Unset), Write("refused", c, Unset)>>

(* CommitmentSet::remove: the gates, the refusal, then the row *)
RemoveWrites(c) == <<Write("next_block", c, Unset), Write("next_epoch", c, Unset),
                     Write("refused", c, Unset), Write("commitment", c, Unset)>>

PutCommitment(c) ==
  /\ todo = <<>> /\ puts < MaxPuts
  /\ todo' = <<Write("commitment", c, 0)>> /\ puts' = puts + 1
  /\ UNCHANGED <<rows, tick, asked, gone, rowFaults>>

(* Retrier::apply after the poll of a ready commitment *)
TryNextBlock(c) == UNCHANGED <<todo, asked, gone>>

Backoff(c, seconds) ==
  /\ todo' = <<Write("next_epoch", c, SatAdd(tick.epoch, seconds))>>
  /\ UNCHANGED <<asked, gone>>

DropOnRepeat(c) ==
  LET first == ReadU64("refused", c)
  IN  /\ todo' = IF first = Unset
                   THEN <<Write("refused", c, tick.block),
                          Write("next_block", c, SatAdd(tick.block, 1))>>
                 ELSE IF tick.block > first THEN RemoveWrites(c) ELSE <<>>
      /\ asked' = [asked EXCEPT ![c] = @ \cup {tick.block}]
      /\ gone' = IF first # Unset /\ tick.block > first THEN gone \cup {c} ELSE gone

DropIt(c) == todo' = RemoveWrites(c) /\ UNCHANGED <<asked, gone>>

Poll(c) ==
  /\ todo = <<>> /\ Registered(c) /\ IsReady(c)
  /\ \/ TryNextBlock(c)
     \/ \E s \in Delays : Backoff(c, s)
     \/ DropOnRepeat(c)
     \/ DropIt(c)
  /\ UNCHANGED <<rows, tick, puts, rowFaults>>

(* Retrier::clear_refusal *)
ClearRefusal(c) ==
  /\ todo = <<>> /\ Registered(c)
  /\ todo' = <<Write("refused", c, Unset)>>
  /\ UNCHANGED <<rows, tick, asked, gone, puts, rowFaults>>

(* the next store write of the call *)
StoreWrite ==
  /\ todo # <<>>
  /\ rows' = [rows EXCEPT ![Head(todo).key] = Head(todo).val]
  /\ todo' = Tail(todo)
  /\ gone' = IF Tail(todo) = <<>> THEN {} ELSE gone
  /\ asked' = [c \in Owners |-> IF Head(todo) = Write("refused", c, Unset)
                                  THEN {} ELSE asked[c]]
  /\ UNCHANGED <<tick, puts, rowFaults>>

(* the write fails, or the guest traps: the rest of the call is not done *)
Fault ==
  /\ todo # <<>> /\ rowFaults < MaxRowFaults
  /\ todo' = <<>> /\ gone' = {} /\ rowFaults' = rowFaults + 1
  /\ UNCHANGED <<rows, tick, asked, puts>>

(* a derived row is damaged *)
DamageRow(kind, c) ==
  /\ todo = <<>> /\ rowFaults < MaxRowFaults /\ rows[<<kind, c>>] # Unset /\ kind # "commitment"
  /\ rows' = [rows EXCEPT ![<<kind, c>>] = Corrupt] /\ rowFaults' = rowFaults + 1
  /\ UNCHANGED <<todo, tick, asked, gone, puts>>

Dispatch ==
  /\ todo = <<>>
  /\ \E b \in {tick.block, SatAdd(tick.block, 1)}, e \in {tick.epoch, SatAdd(tick.epoch, 1)} :
       tick' = [block |-> b, epoch |-> e] /\ tick' # tick
  /\ UNCHANGED <<rows, todo, asked, gone, puts, rowFaults>>

CommitInit ==
  /\ rows = [x \in Kinds \X Owners |-> Unset] /\ todo = <<>>
  /\ tick = [block |-> 0, epoch |-> 0] /\ asked = [c \in Owners |-> {}]
  /\ gone = {} /\ puts = 0 /\ rowFaults = 0

CommitNext ==
  \/ \E c \in Owners : PutCommitment(c) \/ Poll(c) \/ ClearRefusal(c)
  \/ \E kind \in Kinds, c \in Owners : DamageRow(kind, c)
  \/ StoreWrite \/ Fault \/ Dispatch

CommitSpec == CommitInit /\ [][CommitNext]_commitVars

(* A call runs to its end, and dispatches come with a later block and with a
   later clock, however often the module runs in between: fuel bounds every
   dispatch, so none keeps the next one away. *)
CommitFairness ==
  /\ WF_commitVars(StoreWrite)
  /\ SF_commitVars(Dispatch /\ tick'.block > tick.block)
  /\ SF_commitVars(Dispatch /\ tick'.epoch > tick.epoch)

---------------------------------------------------------------------------
(* No gate and no refusal outlives its commitment, whichever write of a call
   failed or was never made: a commitment registered again starts with none
   of the old one's gates and with its full grace. *)
NoOrphan ==
  \A c \in Owners : ~Registered(c) =>
    \A kind \in Kinds : rows[<<kind, c>>] = Unset

(* DropOnRepeat removes a commitment only when it was refused at an earlier
   block than this one and not cleared since: a second refusal in the same
   block never costs the retry it was granted. *)
GraceGranted ==
  [][\A c \in gone' \ gone : \E b \in asked[c] : b < tick.block]_commitVars

(* A registered commitment is ready again and again until it is removed: no
   gate, saturated or damaged, holds it for good. *)
NeverWedged == \A c \in Owners : []<>(~Registered(c) \/ IsReady(c))
============================================================================
