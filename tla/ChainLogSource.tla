-------------------------- MODULE ChainLogSource --------------------------
(***************************************************************************)
(* The task of one event source, reconnecting_chain_log_task: read the      *)
(* head, probe the delivered tail, choose the start, backfill the final     *)
(* part in bulk, open the poller, pump its batches, and begin again when    *)
(* the poller ends.  The chain grows and reorganises between any two steps. *)
(*                                                                         *)
(* The poller is alloy's watch_canonical_logs_from, modelled from how it is *)
(* used: it reports blocks in order from its start, withdraws the ones a    *)
(* reorg replaced, newest first, and ends with an error at any time and     *)
(* when a reorg is deeper than the blocks it retains.                       *)
(***************************************************************************)
EXTENDS Integers, Sequences, FiniteSets

CONSTANTS Depth,        \* MAX_REORG_DEPTH and REVALIDATE_DEPTH
          ChunkBlocks,  \* max_log_range_blocks
          AbandonAfter, \* BULK_ABANDON_ATTEMPTS
          Lookbacks,    \* the values max_lookback may have, None if unset
          MaxHead,      \* bound on the chain's height
          MaxForks,     \* bound on the reorgs
          MaxDepth      \* the deepest reorg, in blocks below the highest head

None == -1

ASSUME SourceAssumption ==
  /\ Depth \in Nat /\ ChunkBlocks \in Nat \ {0} /\ AbandonAfter \in Nat \ {0}
  /\ Lookbacks \subseteq Nat \cup {None}
  /\ MaxHead \in Nat /\ MaxForks \in Nat /\ MaxDepth \in Nat

VARIABLES
  chain,    \* the canonical chain: the block at height h is chain[h + 1]
  peak,     \* the highest head so far
  forks,    \* reorgs so far; a block's fork stands for its hash
  deepest,  \* history: the deepest reorg, below the highest head
  lookback, \* the trigger's max_lookback
  pc,       \* where the task is
  head,     \* the head it last read: head, then bulk_head
  boot,     \* boot_resume
  resume,   \* resume_from
  tail,     \* the last delivered block with logs
  invalid,  \* the probe found that the tail left the chain
  start,    \* start_block
  handoff,  \* the end of the bulk pass
  next,     \* the next block of the bulk pass, then of the poller
  failures, \* consecutive failures of a chunk
  window,   \* the blocks the poller retains, oldest first
  view,     \* history: the logs delivered and not withdrawn
  scanned,  \* history: the heights delivered and not withdrawn
  skipped,  \* history: the heights max_lookback skipped
  origin,   \* history: the first height of the first scan
  bulked,   \* history: the heights the bulk phase delivered
  owed,     \* history: retracted tails not restated yet
  blind     \* history: delivered heights replaced unseen, until delivered anew

givenVars == <<chain, peak, forks, deepest, lookback>>
planVars == <<head, boot, resume, tail, invalid, start, handoff, next, failures>>
pollerVars == <<window>>
historyVars == <<view, scanned, skipped, origin, bulked, owed, blind>>
vars == <<givenVars, pc, planVars, pollerVars, historyVars>>

Heights == 0..MaxHead
NoTail == [number |-> None, fork |-> 0]

Tip == Len(chain) - 1
At(h) == chain[h + 1]
LogOf(h) == IF At(h).logs THEN {[number |-> h, fork |-> At(h).fork]} ELSE {}

\* A delivered block is still on the chain.
Canonical(b) == b.number \in 0..Tip /\ At(b.number).fork = b.fork

\* saturating_sub
Minus(a, b) == IF a > b THEN a - b ELSE 0
Larger(a, b) == IF a > b THEN a ELSE b
Smaller(a, b) == IF a < b THEN a ELSE b

\* The task starts beside a chain of some length; the boot cursor is the stored
\* one or start_block, and may lie past the head.
SourceInit ==
  /\ \E n \in 1..MaxHead + 1 : chain \in [1..n -> [fork : {0}, logs : BOOLEAN]]
  /\ peak = Tip /\ forks = 0 /\ deepest = 0
  /\ lookback \in Lookbacks
  /\ pc = "head" /\ head = 0
  /\ boot \in Heights \cup {None}
  /\ resume = None /\ tail = NoTail /\ invalid = FALSE
  /\ start = 0 /\ handoff = 0 /\ next = 0 /\ failures = 0
  /\ window = <<>>
  /\ view = {} /\ scanned = {} /\ skipped = {} /\ origin = None /\ bulked = {}
  /\ owed = {} /\ blind = {}

----------------------------------------------------------------------------
(* The chain. *)

Grow ==
  /\ Tip < MaxHead
  /\ \E b \in BOOLEAN : chain' = Append(chain, [fork |-> forks, logs |-> b])
  /\ peak' = Larger(peak, Tip + 1)
  /\ UNCHANGED <<forks, deepest, lookback, pc, planVars, pollerVars, historyVars>>

\* Delivered heights whose replacement the task notices: the poller's window, and
\* the tail until it is probed.
Watched ==
  IF pc = "pump" THEN {window[i].number : i \in 1..Len(window)}
  ELSE IF pc \in {"head", "probe"} \/ invalid THEN {tail.number} ELSE {}

\* The blocks from g up are replaced by one or more others.
Reorg ==
  /\ forks < MaxForks
  /\ \E g \in Larger(1, peak - MaxDepth + 1)..Tip :
       /\ \E n \in 1..Smaller(Tip - g + 2, MaxHead - g + 1) :
            \E bs \in [1..n -> [fork : {forks + 1}, logs : BOOLEAN]] :
              /\ chain' = SubSeq(chain, 1, g) \o bs
              /\ peak' = Larger(peak, g + n - 1)
       /\ deepest' = Larger(deepest, peak - g + 1)
       /\ blind' = blind \cup {h \in scanned \ Watched : h >= g}
  /\ forks' = forks + 1
  /\ UNCHANGED <<lookback, pc, planVars, pollerVars, view, scanned, skipped, origin, bulked,
                 owed>>

----------------------------------------------------------------------------
(* Choosing the start. *)

\* head_number; a failure backs off and asks again.
ReadHead ==
  /\ pc = "head"
  /\ head' = Tip /\ pc' = "probe"
  /\ UNCHANGED <<givenVars, boot, resume, tail, invalid, start, handoff, next,
                 failures, pollerVars, historyVars>>

Capped == lookback # None
Floor == IF Capped THEN Minus(head, lookback) ELSE 0

\* poller_start_block
PollerStart(inv) ==
  LET basis == IF resume # None THEN resume ELSE head
      bound == Minus(Larger(basis, Floor), Depth)
  IN  IF boot # None THEN [block |-> Smaller(boot, head), restates |-> FALSE]
      ELSE IF inv THEN [block |-> Larger(tail.number, bound),
                        restates |-> tail.number >= bound]
      ELSE [block |-> basis, restates |-> FALSE]

\* The max_lookback clamp.
Clamp(s) ==
  IF Capped /\ ~s.restates THEN Larger(s.block, Floor) ELSE s.block

\* The probe answered: a tail that cannot be restated is terminal, a pending
\* retraction skips the bulk phase.
Plan(inv) ==
  LET s == PollerStart(inv)
  IN  /\ invalid' = inv
      /\ start' = Clamp(s)
      /\ pc' = IF inv /\ ~s.restates THEN "terminal" ELSE IF inv THEN "open" ELSE "bulk"
      /\ skipped' = skipped \cup {h \in s.block..Clamp(s) - 1 : h <= MaxHead}
      /\ origin' = IF origin = None THEN Clamp(s) ELSE origin

\* Mutant: a height the node does not know counts as a confirmed tail.
ProbeAcceptsUnknown ==
  /\ pc = "probe"
  /\ Plan(tail.number \in 0..Tip /\ ~Canonical(tail))
  /\ UNCHANGED <<givenVars, head, boot, resume, tail, handoff, next, failures,
                 pollerVars, view, scanned, bulked, owed, blind>>

\* The tail's hash on the chain as it is now; a failed or unknown height opens
\* nothing.
Probe ==
  /\ pc = "probe"
  /\ \/ /\ tail = NoTail \/ tail.number <= Tip
        /\ Plan(tail # NoTail /\ ~Canonical(tail))
     \/ /\ tail # NoTail
        /\ pc' = "head" /\ UNCHANGED <<invalid, start, skipped, origin>>
  /\ UNCHANGED <<givenVars, head, boot, resume, tail, handoff, next, failures,
                 pollerVars, view, scanned, bulked, owed, blind>>

----------------------------------------------------------------------------
(* Bulk backfill. *)

\* Mutant: the bulk phase runs up to the head.
HandoffAtHead == head

\* bulk_backfill_bounds: below the handoff every block is final.
Handoff == Minus(head, Depth)

\* Enter a bulk pass, or go on to the poller.
BulkBounds ==
  /\ pc = "bulk"
  /\ IF Handoff > start
     THEN pc' = "chunk" /\ handoff' = Handoff /\ next' = start /\ failures' = 0
     ELSE pc' = "open" /\ UNCHANGED <<handoff, next, failures>>
  /\ UNCHANGED <<givenVars, head, boot, resume, tail, invalid, start, pollerVars, historyVars>>

\* The pass ends at block `at`: a pass that made progress moves the basis.
LeaveBulk(at, then) ==
  /\ pc' = IF at > start THEN then ELSE "open"
  /\ IF at > start THEN boot' = None /\ resume' = at /\ start' = at
     ELSE UNCHANGED <<boot, resume, start>>

\* The last block of the next chunk.
ChunkEnd == Smaller(next + ChunkBlocks - 1, handoff - 1)

\* The inclusive range of one eth_getLogs.
Fetched == next..ChunkEnd

\* Of the heights delivered again, those where the view holds no log of a block
\* that was replaced unseen.
Healed(hs) == {h \in hs : h <= Tip /\ \A l \in view : l.number = h => l \in LogOf(h)}

\* logs_in_range answers: the logs go down the channel, then the frontier, the
\* block after the chunk.
ChunkFetched ==
  /\ pc = "chunk"
  /\ view' = view \cup UNION {LogOf(h) : h \in {k \in Fetched : k <= Tip}}
  /\ scanned' = scanned \cup Fetched /\ bulked' = bulked \cup Fetched
  /\ blind' = (blind \ Healed(Fetched)) \cup {h \in Fetched : h > Tip}
  /\ owed' = owed \ Fetched
  /\ next' = ChunkEnd + 1 /\ failures' = 0
  /\ IF ChunkEnd + 1 < handoff THEN UNCHANGED <<pc, boot, resume, start>>
     ELSE LeaveBulk(ChunkEnd + 1, "reread")
  /\ UNCHANGED <<givenVars, head, tail, invalid, handoff, pollerVars, skipped, origin>>

\* The failure at hand is the last one allowed.
Abandons == failures + 1 >= AbandonAfter

\* A chunk fails: retry after a back-off, and abandon the pass after too many.
ChunkFailed ==
  /\ pc = "chunk"
  /\ IF Abandons
     THEN LeaveBulk(next, "open") /\ UNCHANGED failures
     ELSE failures' = failures + 1 /\ UNCHANGED <<pc, boot, resume, start>>
  /\ UNCHANGED <<givenVars, head, tail, invalid, handoff, next, pollerVars, historyVars>>

\* The head is read again for another pass; if that fails the poller opens.
RereadHead ==
  /\ pc = "reread"
  /\ \/ head' = Tip /\ pc' = "bulk"
     \/ pc' = "open" /\ UNCHANGED head
  /\ UNCHANGED <<givenVars, boot, resume, tail, invalid, start, handoff, next,
                 failures, pollerVars, historyVars>>

----------------------------------------------------------------------------
(* The poller. *)

\* The view without the logs of a block.
Without(l) == {m \in view : m.number # l.number \/ m.fork # l.fork}

\* open_event_source, which cannot fail on a chain whose head was just read.  A
\* reorged tail is withdrawn before the first batch.
Open ==
  /\ pc = "open"
  /\ pc' = "pump" /\ boot' = None /\ resume' = start /\ next' = start /\ window' = <<>>
  /\ IF invalid
     THEN /\ tail' = NoTail
          /\ view' = Without(tail)
          /\ scanned' = scanned \ {tail.number}
          /\ owed' = owed \cup {tail.number}
     ELSE UNCHANGED <<tail, view, scanned, owed>>
  /\ UNCHANGED <<givenVars, head, invalid, start, handoff, failures, skipped, origin,
                 bulked, blind>>

\* The newest block the poller reported has left the chain.
Detached == window # <<>> /\ ~Canonical(window[Len(window)])

Retain(w) == IF Len(w) > Depth THEN SubSeq(w, 2, Len(w)) ELSE w

\* Mutant: a batch without logs does not move the resume basis.
BasisAfterLogs(h) == IF At(h).logs THEN Larger(resume, h + 1) ELSE resume

\* Empty batches advance the basis too.
BasisAfter(h) == Larger(resume, h + 1)

\* A batch: the next canonical block, with or without logs.  A poller that has
\* rolled back all it retained goes on only from its own start.
PumpAdded ==
  /\ pc = "pump" /\ ~Detached /\ next <= Tip
  /\ window # <<>> \/ next = start
  /\ window' = Retain(Append(window, [number |-> next, fork |-> At(next).fork,
                                      logs |-> At(next).logs]))
  /\ view' = view \cup LogOf(next)
  /\ scanned' = scanned \cup {next}
  /\ owed' = owed \ {next} /\ blind' = blind \ Healed({next})
  /\ resume' = BasisAfter(next) /\ next' = next + 1
  /\ tail' = IF At(next).logs THEN [number |-> next, fork |-> At(next).fork] ELSE tail
  /\ UNCHANGED <<givenVars, pc, head, boot, invalid, start, handoff, failures, skipped,
                 origin, bulked>>

\* Mutant: a rollback leaves the resume basis where it was.
BasisRolledBackNot(h) == resume

\* A rollback un-scans the height.
BasisRolledBack(h) == Smaller(resume, h)

\* A removed batch: the logs the poller had reported for its newest block.
PumpRemoved ==
  /\ pc = "pump" /\ Detached
  /\ LET last == window[Len(window)]
     IN  /\ view' = Without(last)
         /\ scanned' = scanned \ {last.number}
         /\ resume' = BasisRolledBack(last.number) /\ next' = last.number
         /\ tail' = IF tail.number >= last.number THEN NoTail ELSE tail
  /\ window' = SubSeq(window, 1, Len(window) - 1)
  /\ UNCHANGED <<givenVars, pc, head, boot, invalid, start, handoff, failures, skipped,
                 origin, bulked, owed, blind>>

\* The stream ends: an error of the provider, or a reorg past what the poller
\* retains.  Either way the task opens again from a fresh head; of the blocks
\* the poller had yet to withdraw only the tail is remembered.
PumpEnds ==
  /\ pc = "pump"
  /\ pc' = "head" /\ window' = <<>> /\ invalid' = FALSE
  /\ LET gone == {i \in 1..Len(window) : ~Canonical(window[i])}
     IN  blind' = blind \cup ({window[i].number : i \in gone} \ {tail.number})
  /\ UNCHANGED <<givenVars, head, boot, resume, tail, start, handoff, next, failures,
                 view, scanned, skipped, origin, bulked, owed>>

----------------------------------------------------------------------------
ChainStep == Grow \/ Reorg
SourceStep ==
  \/ ReadHead \/ Probe \/ BulkBounds \/ ChunkFetched \/ ChunkFailed \/ RereadHead
  \/ Open \/ PumpAdded \/ PumpRemoved \/ PumpEnds

SourceNext == ChainStep \/ SourceStep

SourceSpec == SourceInit /\ [][SourceNext]_vars

\* The chain keeps growing, back-offs end, and a provider asked often enough
\* answers a probe and delivers a batch.  A chunk need never succeed.
SourceFairness ==
  /\ WF_vars(Grow)
  /\ WF_vars(ReadHead) /\ WF_vars(BulkBounds) /\ WF_vars(RereadHead) /\ WF_vars(Open)
  /\ WF_vars(ChunkFetched \/ ChunkFailed)
  /\ WF_vars(PumpRemoved) /\ SF_vars(PumpAdded)
  /\ SF_vars(Probe /\ pc' # "head")
  /\ WF_vars(pc = "pump" /\ window = <<>> /\ next # start /\ PumpEnds)

SourceLiveSpec == SourceSpec /\ SourceFairness

----------------------------------------------------------------------------
\* The next height of the scan: the durable frontier during a bulk pass, the
\* resume basis otherwise.
Position == IF pc = "chunk" THEN next ELSE resume

\* No height is passed over: whatever the interruptions, rollbacks, hand-offs and
\* re-opens, every height behind the scan has been delivered and not withdrawn,
\* or was skipped by max_lookback ("backfilled in full (never skipped)").
GaplessScan ==
  origin # None => \A h \in origin..Position - 1 : h \in scanned \cup skipped

\* The poller has reported the chain as it is.
Synced == pc = "pump" /\ next = Tip + 1 /\ ~Detached /\ window # <<>>

\* Once the poller is level with the chain the module's view of a delivered
\* height is the canonical one: no log of a replaced block is left, none is
\* missing.  Except where a block was replaced with nothing looking at it: a
\* delivered block, other than the tail, while no poller was open or deeper than
\* the poller retains.
ViewExact ==
  Synced => \A h \in scanned \ blind : {l \in view : l.number = h} = LogOf(h)

\* With reorgs no deeper than MAX_REORG_DEPTH a block the bulk phase delivered,
\* which nothing revalidates, is never replaced ("below the handoff every block
\* is final"), though the head it was planned from is old by then.
BulkIsFinal == deepest <= Depth => blind \cap bulked = {}

\* A retracted tail is not left behind: no poller is ahead of a height whose logs
\* were withdrawn at an open and not restated since ("nothing would restate the
\* retracted logs if the clamp raised the start above them").
RetractedIsRestated == pc = "pump" => \A h \in owed : h >= next

\* The source catches up with the chain again and again, or ends terminally: no
\* sequence of failed probes, abandoned passes and dropped streams holds it.
CatchesUp == []<>(pc = "terminal" \/ (pc = "pump" /\ next > Tip /\ ~Detached))
============================================================================
