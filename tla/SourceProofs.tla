---------------------------- MODULE SourceProofs ----------------------------
(***************************************************************************)
(* The inductive invariant of an event source, and the steps that deliver  *)
(* nothing: the chain grows or is reorganised, the source reads its head,  *)
(* plans a bulk pass and probes its tail.                                  *)
(***************************************************************************)
EXTENDS ChainLogSource, TLAPS

\* A leaf that names no prover is tried with each of these in turn.
USE SMT, Zenon, Z3T(30), SMTT(30)

Block == [fork : Nat, logs : BOOLEAN]
Polled == [number : Nat, fork : Nat, logs : BOOLEAN]
Log == [number : Nat, fork : Nat]
Planned == {"bulk", "chunk", "reread", "open"}
Pcs == {"head", "probe", "pump", "terminal"} \cup Planned

ChainTypes ==
  /\ chain \in Seq(Block) /\ Len(chain) \in Nat \ {0}
  /\ peak \in Nat /\ forks \in Nat /\ deepest \in Nat /\ lookback \in Nat \cup {None}

PlanTypes ==
  /\ pc \in Pcs /\ head \in Nat /\ boot \in Nat \cup {None} /\ resume \in Nat \cup {None}
  /\ tail \in Log \cup {NoTail} /\ invalid \in BOOLEAN
  /\ start \in Nat /\ handoff \in Nat /\ next \in Nat /\ failures \in Nat

HistoryTypes ==
  /\ window \in Seq(Polled) /\ view \subseteq Log
  /\ scanned \subseteq Nat /\ skipped \subseteq Nat /\ bulked \subseteq Nat /\ blind \subseteq Nat
  /\ origin \in Nat \cup {None}

\* The chain is within Depth of its peak while no reorg was deeper, and what the
\* bulk phase plans for or has delivered is further down.
Settled ==
  /\ Tip <= MaxHead /\ Tip <= peak /\ peak - Tip <= deepest
  /\ head <= peak /\ head <= MaxHead
  /\ pc = "chunk" => handoff + Depth <= peak
  /\ \A h \in bulked : h + Depth < peak

\* Where the scan goes on from.  Until the first open or bulk pass there is no
\* basis; after it the start chosen from the basis is never past a gap.
NoBasis ==
  resume = None =>
    /\ tail = NoTail /\ ~invalid /\ pc \notin {"pump", "reread", "terminal"}
    /\ origin = IF pc \in {"head", "probe"} THEN None ELSE start

Basis ==
  /\ boot # None => resume = None
  /\ resume # None => origin # None /\ tail.number < resume

Start ==
  pc \in Planned =>
    /\ \A h \in origin..start - 1 : h \in scanned \cup skipped
    /\ IF invalid THEN pc = "open" /\ tail.number = start
                  ELSE tail.number < start /\ resume <= start

Running ==
  /\ pc = "chunk" => start <= next /\ next < handoff
  /\ pc = "pump" => /\ resume = next /\ tail.number < next
                    /\ \A i \in 1..Len(window) : window[i].number + Len(window) - i + 1 = next
  /\ pc # "pump" => window = <<>>

ScanInv == NoBasis /\ Basis /\ Start /\ Running /\ GaplessScan

\* A fork names the blocks it brought: a delivered block is told from the one
\* that replaced it, and a canonical one stands on canonical ones.
Known(b) ==
  /\ b.fork <= forks
  /\ b.fork = forks => Canonical(b)

Forked ==
  /\ \A i \in 1..Len(chain) : chain[i].fork <= forks
  /\ \A i \in 1..Len(window) :
       /\ Known(window[i])
       /\ Canonical(window[i]) => At(window[i].number).logs = window[i].logs
       /\ \A j \in 1..i : Canonical(window[i]) => Canonical(window[j])
  /\ tail # NoTail => Known(tail) /\ (Canonical(tail) => At(tail.number).logs)
  /\ \A i \in 1..Len(window) :
       window[i].number = tail.number => window[i].fork = tail.fork /\ window[i].logs

\* The logs the view holds for a height, and those of a delivered block.
Shown(h) == {l \in view : l.number = h}
LogsOf(b) == IF b.logs THEN {[number |-> b.number, fork |-> b.fork]} ELSE {}

InWindow(h) == \E i \in 1..Len(window) : window[i].number = h
TailWatched == pc \in {"head", "probe"} \/ (invalid /\ pc # "pump")
Looked(h) == InWindow(h) \/ (TailWatched /\ h = tail.number)

\* The view of a delivered height is that of the block that was delivered where
\* something will notice its replacement, and the canonical one elsewhere.
ViewHeld ==
  /\ \A l \in view : l.number \in scanned \cup blind
  /\ \A h \in scanned \ blind :
       /\ \A i \in 1..Len(window) : window[i].number = h => Shown(h) = LogsOf(window[i])
       /\ TailWatched /\ h = tail.number => Shown(h) = {tail}
       /\ ~Looked(h) => /\ h <= Tip /\ Shown(h) = LogOf(h)
                        /\ h = tail.number => Canonical(tail)

\* Nothing replaces a block the bulk phase delivered, in the window or below it.
BulkHeld ==
  deepest <= Depth =>
    \A i \in 1..Len(window) : window[i].number \in bulked => Canonical(window[i])

\* From the tail up, or from where the scan goes on when there is no tail, the
\* view holds only logs of the bulk phase; a block of the window may have found
\* such logs at its height.
BulkAbove ==
  /\ \A l \in view : IF tail = NoTail THEN l.number >= resume => l.number \in bulked
                     ELSE l.number >= tail.number => l = tail \/ l.number \in bulked
  /\ \A i \in 1..Len(window) : \A l \in view :
       l.number = window[i].number => l.fork = window[i].fork \/ l.number \in bulked

SourceInv ==
  /\ ChainTypes /\ PlanTypes /\ HistoryTypes
  /\ Settled /\ ScanInv /\ Forked /\ ViewHeld /\ BulkAbove /\ BulkHeld /\ BulkIsFinal

-----------------------------------------------------------------------------
(* The chain moves. *)

\* What is assumed of the constants, and the number that stands for none.
LEMMA SourceConstants ==
  /\ Depth \in Nat /\ ChunkBlocks \in Nat \ {0} /\ AbandonAfter \in Nat \ {0}
  /\ MaxHead \in Nat /\ MaxForks \in Nat /\ MaxDepth \in Nat /\ None = -1
BY SourceAssumption DEF None

\* The blocks of the chain by their height.
LEMMA ChainFacts ==
  ASSUME ChainTypes
  PROVE  /\ Tip \in Nat /\ Len(chain) = Tip + 1
         /\ \A h \in 0..Tip : /\ At(h) = chain[h + 1] /\ At(h) \in Block
                              /\ At(h).fork \in Nat /\ At(h).logs \in BOOLEAN
<1>1. Tip \in Nat /\ Len(chain) = Tip + 1
  BY DEF ChainTypes, Tip
<1>2. ASSUME NEW h \in 0..Tip PROVE At(h) = chain[h + 1] /\ At(h) \in Block
  <2>1. h + 1 \in 1..Len(chain)
    BY <1>1
  <2>. QED
    BY <2>1 DEF At, ChainTypes
<1>. QED
  BY <1>1, <1>2 DEF Block

\* What growing and a reorg have in common: the blocks below height g stay, those
\* above belong to the current fork.
Moves(g) ==
  /\ g \in 1..Len(chain) /\ chain' \in Seq(Block) /\ Len(chain') \in Nat /\ Len(chain') > g
  /\ \A i \in 1..g : chain'[i] = chain[i]
  /\ \A i \in (g + 1)..Len(chain') : chain'[i].fork = forks'
  /\ Len(chain') - 1 <= MaxHead
  /\ peak' = Larger(peak, Len(chain') - 1)
  /\ \/ g = Len(chain) /\ forks' = forks /\ deepest' = deepest /\ blind' = blind
     \/ /\ forks' = forks + 1 /\ deepest' = Larger(deepest, peak - g + 1)
        /\ blind' = blind \cup {h \in scanned \ Watched : h >= g}

Still == UNCHANGED <<lookback, pc, planVars, pollerVars, view, scanned, skipped, origin, bulked>>

\* A new block is a move of the chain that replaces nothing.
LEMMA GrowMoves ==
  ASSUME ChainTypes, Grow
  PROVE  Moves(Len(chain)) /\ Still
<1>1. PICK b \in BOOLEAN : chain' = Append(chain, [fork |-> forks, logs |-> b])
  BY Zenon DEF Grow
<1>2. [fork |-> forks, logs |-> b] \in Block
  BY DEF ChainTypes, Block
<1>3. /\ chain' \in Seq(Block) /\ Len(chain') = Len(chain) + 1
      /\ \A i \in 1..Len(chain) : chain'[i] = chain[i]
      /\ chain'[Len(chain) + 1] = [fork |-> forks, logs |-> b]
  BY <1>1, <1>2 DEF ChainTypes
<1>4. /\ forks' = forks /\ deepest' = deepest /\ blind' = blind
      /\ peak' = Larger(peak, Tip + 1) /\ Tip < MaxHead
  BY DEF Grow, historyVars
<1>5. Moves(Len(chain))
  BY <1>3, <1>4, SourceConstants DEF Moves, ChainTypes, Tip
<1>6. Still
  BY Zenon DEF Grow, Still, historyVars
<1>. QED
  BY Zenon, <1>5, <1>6

\* The elements of two sequences, one after the other.
LEMMA Joined ==
  ASSUME NEW S, NEW s \in Seq(S), NEW t \in Seq(S)
  PROVE  /\ s \o t \in Seq(S) /\ Len(s \o t) = Len(s) + Len(t)
         /\ \A i \in 1..Len(s) : (s \o t)[i] = s[i]
         /\ \A i \in Len(s) + 1..Len(s) + Len(t) : (s \o t)[i] = t[i - Len(s)]
OBVIOUS

\* A reorg is a move of the chain from some height above the first on.
LEMMA ReorgMoves ==
  ASSUME ChainTypes, Reorg
  PROVE  (\E g \in 1..Tip : Moves(g) /\ forks' = forks + 1) /\ Still
<1>1. PICK g \in Larger(1, peak - MaxDepth + 1)..Tip :
        /\ \E n \in 1..Smaller(Tip - g + 2, MaxHead - g + 1) :
             \E bs \in [1..n -> [fork : {forks + 1}, logs : BOOLEAN]] :
               /\ chain' = SubSeq(chain, 1, g) \o bs
               /\ peak' = Larger(peak, g + n - 1)
        /\ deepest' = Larger(deepest, peak - g + 1)
        /\ blind' = blind \cup {h \in scanned \ Watched : h >= g}
  BY Zenon DEF Reorg
<1>0. PICK n \in 1..Smaller(Tip - g + 2, MaxHead - g + 1) :
        \E bs \in [1..n -> [fork : {forks + 1}, logs : BOOLEAN]] :
          /\ chain' = SubSeq(chain, 1, g) \o bs
          /\ peak' = Larger(peak, g + n - 1)
  BY Zenon, <1>1
<1>b. PICK bs \in [1..n -> [fork : {forks + 1}, logs : BOOLEAN]] :
        /\ chain' = SubSeq(chain, 1, g) \o bs
        /\ peak' = Larger(peak, g + n - 1)
  BY Zenon, <1>0
<1>2. /\ g \in 1..Tip /\ n \in Nat \ {0} /\ g + n - 1 <= MaxHead
      /\ peak \in Nat /\ forks \in Nat /\ Len(chain) = Tip + 1 /\ Tip \in Nat
  <2>1. peak \in Nat /\ forks \in Nat /\ Len(chain) = Tip + 1 /\ Tip \in Nat
    BY ChainFacts DEF ChainTypes
  <2>2. g \in 1..Tip
    BY <2>1, SourceConstants DEF Larger
  <2>. QED
    BY <2>1, <2>2, SourceConstants DEF Smaller
<1>3. bs \in Seq(Block) /\ Len(bs) = n /\ \A i \in 1..n : bs[i].fork = forks + 1
  <2>1. n \in Nat /\ DOMAIN bs = 1..n
    BY <1>2
  <2>2. \A i \in 1..n : bs[i] \in [fork : {forks + 1}, logs : BOOLEAN]
    OBVIOUS
  <2>3. \A i \in 1..n : bs[i] \in Block /\ bs[i].fork = forks + 1
    BY <1>2, <2>2 DEF Block
  <2>4. bs \in [1..n -> Block]
    BY <2>3
  <2>5. bs \in Seq(Block)
    BY <2>1, <2>4
  <2>6. Len(bs) = n
    BY <2>1, <2>5
  <2>. QED
    BY <2>3, <2>5, <2>6
<1>4. /\ SubSeq(chain, 1, g) \in Seq(Block) /\ Len(SubSeq(chain, 1, g)) = g
      /\ \A i \in 1..g : SubSeq(chain, 1, g)[i] = chain[i]
  BY <1>2 DEF ChainTypes
<1>5. /\ chain' \in Seq(Block) /\ Len(chain') = g + n
      /\ \A i \in 1..g : chain'[i] = chain[i]
      /\ \A i \in (g + 1)..Len(chain') : chain'[i] = bs[i - g]
  <2>. DEFINE s == SubSeq(chain, 1, g)
  <2>1. /\ s \o bs \in Seq(Block) /\ Len(s \o bs) = Len(s) + Len(bs)
        /\ \A i \in 1..Len(s) : (s \o bs)[i] = s[i]
        /\ \A i \in Len(s) + 1..Len(s) + Len(bs) : (s \o bs)[i] = bs[i - Len(s)]
    BY Zenon, <1>3, <1>4, Joined
  <2>2. chain' = s \o bs /\ Len(s) = g /\ Len(bs) = n /\ \A i \in 1..g : s[i] = chain[i]
    BY Zenon, <1>b, <1>3, <1>4
  <2>. HIDE DEF s
  <2>. QED
    BY Zenon, <2>1, <2>2
<1>6. \A i \in (g + 1)..Len(chain') : chain'[i].fork = forks + 1
  BY <1>2, <1>3, <1>5
<1>7. forks' = forks + 1 /\ Still
  BY Zenon DEF Reorg, Still
<1>8. Moves(g)
  <2>1. g \in 1..Len(chain) /\ g + n \in Nat /\ g + n > g /\ (g + n) - 1 <= MaxHead
    BY <1>2, SourceConstants
  <2>2. /\ Len(chain') \in Nat /\ Len(chain') > g /\ Len(chain') - 1 <= MaxHead
        /\ peak' = Larger(peak, Len(chain') - 1)
    <3>0. g + (n - 1) = (g + n) - 1
      BY <1>2
    <3>1. Len(chain') = g + n /\ peak' = Larger(peak, (g + n) - 1)
      BY Zenon, <1>b, <1>5, <3>0
    <3>. QED
      BY Zenon, <2>1, <3>1
  <2>. QED
    BY Zenon, <1>1, <1>5, <1>6, <1>7, <2>1, <2>2 DEF Moves
<1>. QED
  BY Zenon, <1>2, <1>7, <1>8

\* A delivered block stays canonical if its height is below the cut, and a block
\* that was replaced does not come back.
CanonicalNext(b) ==
  b.number \in 0..Len(chain') - 1 /\ chain'[b.number + 1].fork = b.fork

\* A known block is canonical after a move if it was and lies below the cut.
LEMMA StaysCanonical ==
  ASSUME ChainTypes, NEW g, Moves(g), NEW b, b.number \in Nat, b.fork \in Nat, Known(b)
  PROVE  /\ CanonicalNext(b) <=> Canonical(b) /\ b.number < g
         /\ b.number < g => chain'[b.number + 1] = chain[b.number + 1]
         /\ b.fork <= forks' /\ (b.fork = forks' => CanonicalNext(b))
<1>1. /\ g \in 1..Len(chain) /\ Len(chain) \in Nat /\ Len(chain') \in Nat /\ Len(chain') > g
      /\ forks \in Nat /\ b.fork <= forks /\ (b.fork = forks => Canonical(b))
      /\ forks' = forks + 1 \/ (forks' = forks /\ g = Len(chain))
  BY DEF Moves, ChainTypes, Known
<1>2. ASSUME b.number < g
      PROVE  /\ b.number \in 0..Len(chain') - 1 /\ b.number \in 0..Tip
             /\ chain'[b.number + 1] = chain[b.number + 1]
  BY <1>1, <1>2 DEF Moves, Tip
<1>3. ASSUME b.number >= g, b.number \in 0..Len(chain') - 1
      PROVE  chain'[b.number + 1].fork = forks'
  BY <1>1, <1>3 DEF Moves
<1>4. Canonical(b) => b.number < Len(chain)
  BY <1>1 DEF Canonical, Tip
<1>5. CASE b.number < g
  BY <1>1, <1>2, <1>5 DEF Canonical, CanonicalNext, At
<1>6. CASE b.number >= g
  BY <1>1, <1>3, <1>4, <1>6 DEF CanonicalNext
<1>. QED
  BY <1>1, <1>5, <1>6

\* A move keeps the chain within its depth of the peak, and the bulk phase below
\* it.
LEMMA MoveSettles ==
  ASSUME ChainTypes, Settled, HistoryTypes, head \in Nat, handoff \in Nat, NEW g, Moves(g), Still
  PROVE  ChainTypes' /\ Settled' /\ peak <= peak' /\ deepest <= deepest'
<1>1. /\ g \in 1..Len(chain) /\ Len(chain) \in Nat /\ Len(chain') \in Nat /\ Len(chain') > g
      /\ chain' \in Seq(Block) /\ Len(chain') - 1 <= MaxHead
      /\ forks \in Nat /\ peak \in Nat /\ deepest \in Nat /\ lookback \in Nat \cup {None}
      /\ peak' = Larger(peak, Len(chain') - 1)
  BY DEF Moves, ChainTypes
<1>2. \/ g = Len(chain) /\ forks' = forks /\ deepest' = deepest
      \/ forks' = forks + 1 /\ deepest' = Larger(deepest, peak - g + 1)
  BY DEF Moves
<1>3. lookback' = lookback /\ head' = head /\ pc' = pc /\ handoff' = handoff /\ bulked' = bulked
  BY DEF Still, planVars
<1>4. peak' \in Nat /\ peak <= peak' /\ Len(chain') - 1 <= peak'
  BY <1>1 DEF Larger
<1>5. forks' \in Nat /\ deepest' \in Nat /\ deepest <= deepest' /\ Len(chain') \in Nat \ {0}
  BY <1>1, <1>2 DEF Larger
<1>6. ChainTypes'
  BY <1>1, <1>3, <1>4, <1>5 DEF ChainTypes
<1>7. peak' - (Len(chain') - 1) <= deepest'
  <2>1. CASE g = Len(chain) /\ deepest' = deepest
    BY <1>1, <2>1 DEF Settled, Tip, Larger
  <2>2. CASE deepest' = Larger(deepest, peak - g + 1)
    BY <1>1, <2>2 DEF Larger
  <2>. QED
    BY <1>2, <2>1, <2>2
<1>8. Settled'
  <2>1. /\ head' <= peak' /\ head' <= MaxHead
        /\ pc' = "chunk" => handoff' + Depth <= peak'
    BY <1>1, <1>3, <1>4, SourceConstants DEF Settled
  <2>2. \A h \in bulked' : h + Depth < peak'
    BY <1>1, <1>3, <1>4, SourceConstants DEF Settled, HistoryTypes
  <2>. QED
    BY <1>1, <1>4, <1>7, <2>1, <2>2 DEF Settled, Tip
<1>. QED
  BY <1>4, <1>5, <1>6, <1>8

\* A move of the chain is not seen by the scan.
LEMMA StillScans ==
  ASSUME ScanInv, PlanTypes, Still
  PROVE  ScanInv' /\ PlanTypes'
<1>1. /\ pc' = pc /\ head' = head /\ boot' = boot /\ resume' = resume /\ tail' = tail
      /\ invalid' = invalid /\ start' = start /\ handoff' = handoff /\ next' = next
      /\ failures' = failures /\ window' = window
      /\ scanned' = scanned /\ skipped' = skipped /\ origin' = origin
  BY DEF Still, planVars, pollerVars
<1>2. PlanTypes'
  BY Zenon, <1>1 DEF PlanTypes, NoTail, None, Log
<1>3. NoBasis' /\ Basis'
  BY Zenon, <1>1 DEF ScanInv, NoBasis, Basis, NoTail
<1>4. Start' /\ Running'
  BY Zenon, <1>1 DEF ScanInv, Start, Running
<1>5. GaplessScan'
  BY Zenon, <1>1 DEF ScanInv, GaplessScan, Position
<1>. QED
  BY Zenon, <1>2, <1>3, <1>4, <1>5 DEF ScanInv

\* The blocks the poller or the task remembers, before and after the chain moves.
LEMMA Remembered ==
  ASSUME HistoryTypes, PlanTypes, Forked
  PROVE  /\ \A i \in 1..Len(window) : /\ window[i] \in Polled /\ window[i].number \in Nat
                                      /\ window[i].fork \in Nat /\ Known(window[i])
         /\ tail # NoTail => tail.number \in Nat /\ tail.fork \in Nat /\ Known(tail)
         /\ tail.number \in Nat => tail # NoTail
         /\ tail.number \in Nat \cup {None}
<1>1. \A i \in 1..Len(window) : window[i] \in Polled
  BY DEF HistoryTypes
<1>2. \A b \in Polled : b.number \in Nat /\ b.fork \in Nat
  BY DEF Polled
<1>3. tail # NoTail => tail.number \in Nat /\ tail.fork \in Nat
  BY DEF PlanTypes, Log
<1>4. NoTail.number = None /\ None \notin Nat
  BY DEF NoTail, None
<1>. QED
  BY <1>1, <1>2, <1>3, <1>4 DEF Forked

\* The window is a run of heights that ends below the next one.
LEMMA Ascending ==
  ASSUME HistoryTypes, PlanTypes, Running
  PROVE  /\ Len(window) \in Nat
         /\ \A i \in 1..Len(window) :
              /\ window[i].number < next
              /\ \A j \in 1..i : /\ j \in 1..Len(window)
                                 /\ window[j].number <= window[i].number
                                 /\ window[j].number = window[i].number => j = i
<1>0. Len(window) \in Nat /\ next \in Nat /\ \A i \in 1..Len(window) : window[i] \in Polled
  BY DEF HistoryTypes, PlanTypes
<1>1. \A i \in 1..Len(window) : window[i].number \in Nat
  BY <1>0 DEF Polled
<1>2. \A i \in 1..Len(window) : window[i].number + Len(window) - i + 1 = next
  BY DEF Running
<1>3. \A i \in 1..Len(window) : \A j \in 1..i : j \in 1..Len(window)
  BY <1>0
<1>4. \A i \in 1..Len(window) : window[i].number < next
  BY <1>0, <1>1, <1>2
<1>5. ASSUME NEW i \in 1..Len(window), NEW j \in 1..i
      PROVE  /\ window[j].number <= window[i].number
             /\ window[j].number = window[i].number => j = i
  <2>1. /\ window[i].number \in Nat /\ window[i].number + Len(window) - i + 1 = next
        /\ window[j].number \in Nat /\ window[j].number + Len(window) - j + 1 = next
    BY Zenon, <1>1, <1>2, <1>3
  <2>. QED
    BY <1>0, <2>1
<1>. QED
  BY Zenon, <1>0, <1>3, <1>4, <1>5

\* After a move the canonical blocks of the window are still those at its lower
\* end.
LEMMA MoveForked ==
  ASSUME ChainTypes, PlanTypes, HistoryTypes, Running, Forked, NEW g, Moves(g), Still
  PROVE  Forked'
<1>1. /\ window' = window /\ tail' = tail /\ forks \in Nat
      /\ Len(chain) \in Nat /\ g \in 1..Len(chain)
      /\ Len(chain') \in Nat /\ (forks' = forks \/ forks' = forks + 1)
  BY DEF Still, planVars, pollerVars, Moves, ChainTypes
<1>2. \A i \in 1..Len(chain') : chain'[i].fork <= forks'
  <2>1. ASSUME NEW i \in 1..Len(chain'), i <= g PROVE chain'[i].fork <= forks'
    <3>1. chain'[i] = chain[i] /\ chain[i].fork <= forks
      BY <1>1, <2>1 DEF Moves, Forked
    <3>2. chain[i].fork \in Nat
      <4>1. i - 1 \in 0..Tip /\ (i - 1) + 1 = i
        BY <1>1, <2>1, ChainFacts
      <4>. QED
        BY <4>1, ChainFacts DEF At
    <3>. QED
      BY <1>1, <3>1, <3>2
  <2>2. ASSUME NEW i \in 1..Len(chain'), i > g PROVE chain'[i].fork <= forks'
    BY <1>1, <2>2 DEF Moves
  <2>. QED
    BY <1>1, <2>1, <2>2
<1>3. ASSUME NEW i \in 1..Len(window)
      PROVE  /\ CanonicalNext(window[i]) <=> Canonical(window[i]) /\ window[i].number < g
             /\ window[i].number < g =>
                  chain'[window[i].number + 1] = chain[window[i].number + 1]
             /\ window[i].fork <= forks' /\ (window[i].fork = forks' => CanonicalNext(window[i]))
  BY Zenon, Remembered, StaysCanonical
<1>4. ASSUME tail # NoTail
      PROVE  /\ CanonicalNext(tail) <=> Canonical(tail) /\ tail.number < g
             /\ tail.number < g => chain'[tail.number + 1] = chain[tail.number + 1]
             /\ tail.fork <= forks' /\ (tail.fork = forks' => CanonicalNext(tail))
  BY Zenon, <1>4, Remembered, StaysCanonical
<1>5. \A i \in 1..Len(window) : Canonical(window[i])' <=> CanonicalNext(window[i])
  BY <1>1 DEF Canonical, CanonicalNext, At, Tip
<1>6. Canonical(tail)' <=> CanonicalNext(tail)
  BY <1>1 DEF Canonical, CanonicalNext, At, Tip
<1>7. \A i \in 1..Len(window') : Known(window[i])'
  BY <1>1, <1>3, <1>5 DEF Known
<1>8. \A i \in 1..Len(window') :
        Canonical(window[i])' => At(window[i].number)'.logs = window'[i].logs
  BY <1>1, <1>3, <1>5 DEF Forked, At
<1>9. \A i \in 1..Len(window') : \A j \in 1..i :
        Canonical(window[i])' => Canonical(window[j])'
  <2>. SUFFICES ASSUME NEW i \in 1..Len(window), NEW j \in 1..i, Canonical(window[i])'
                PROVE  Canonical(window[j])'
    BY <1>1
  <2>1. j \in 1..Len(window) /\ window[j].number <= window[i].number
    BY Zenon, Ascending
  <2>2. Canonical(window[j]) /\ window[i].number < g
    BY Zenon, <1>3, <1>5 DEF Forked
  <2>3. window[j].number < g
    BY <1>1, <2>1, <2>2, Remembered
  <2>. QED
    BY Zenon, <1>3, <1>5, <2>1, <2>2, <2>3
<1>10. tail' # NoTail => Known(tail)' /\ (Canonical(tail)' => At(tail.number)'.logs)
  BY <1>1, <1>4, <1>6 DEF Forked, Known, At
<1>11. \A i \in 1..Len(window') :
         window'[i].number = tail'.number => window'[i].fork = tail'.fork /\ window'[i].logs
  BY <1>1 DEF Forked
<1>. QED
  BY <1>2, <1>7, <1>8, <1>9, <1>10, <1>11 DEF Forked, NoTail

\* What a reorg counts as watched is what the invariant looks at.
LEMMA WatchedIsLooked ==
  ASSUME Running, NEW h
  PROVE  h \in Watched <=> Looked(h)
<1>1. CASE pc = "pump"
  BY <1>1 DEF Watched, Looked, InWindow, TailWatched
<1>2. CASE pc # "pump"
  <2>1. Len(window) = 0 /\ ~InWindow(h)
    BY <1>2 DEF Running, InWindow
  <2>. QED
    BY <1>2, <2>1 DEF Watched, Looked, TailWatched
<1>. QED
  BY <1>1, <1>2

\* After a move the view is as it was, and unseen replacements are recorded as
\* blind.
LEMMA MoveView ==
  ASSUME ChainTypes, PlanTypes, HistoryTypes, Running, Forked, ViewHeld, NEW g, Moves(g), Still
  PROVE  ViewHeld' /\ HistoryTypes'
<1>1. /\ window' = window /\ tail' = tail /\ pc' = pc /\ invalid' = invalid
      /\ view' = view /\ scanned' = scanned
  BY DEF Still, planVars, pollerVars
<1>2. \/ g = Len(chain) /\ blind' = blind
      \/ blind' = blind \cup {h \in scanned \ Watched : h >= g}
  BY Zenon DEF Moves
<1>3. HistoryTypes'
  <2>1. blind' \subseteq Nat
    BY Zenon, <1>2 DEF HistoryTypes
  <2>2. bulked' = bulked /\ skipped' = skipped /\ origin' = origin
    BY DEF Still
  <2>. QED
    BY <1>1, <2>1, <2>2 DEF HistoryTypes
<1>4. TailWatched' = TailWatched /\ \A h : Looked(h)' = Looked(h) /\ Shown(h)' = Shown(h)
  BY Zenon, <1>1 DEF TailWatched, Looked, InWindow, Shown
<1>5. \A i \in 1..Len(window) : LogsOf(window[i])' = LogsOf(window[i])
  BY Zenon, <1>1 DEF LogsOf
<1>6. ASSUME NEW h \in scanned \ blind', ~Looked(h)
      PROVE  /\ h \in Nat /\ h < g /\ h <= Tip' /\ chain'[h + 1] = chain[h + 1]
             /\ h \notin blind /\ Shown(h) = LogOf(h) /\ (h = tail.number => Canonical(tail))
  <2>1. h \in Nat /\ h \notin blind /\ h \notin Watched
    BY <1>2, <1>6, WatchedIsLooked DEF HistoryTypes
  <2>2. h <= Tip /\ Shown(h) = LogOf(h) /\ (h = tail.number => Canonical(tail))
    BY Zenon, <1>6, <2>1 DEF ViewHeld
  <2>3. /\ Len(chain) \in Nat /\ g \in 1..Len(chain) /\ Len(chain') \in Nat /\ Len(chain') > g
        /\ \A i \in 1..g : chain'[i] = chain[i]
    BY DEF Moves, ChainTypes
  <2>4. h < g
    BY <1>2, <2>1, <2>2, <2>3 DEF Tip
  <2>. QED
    BY <2>1, <2>2, <2>3, <2>4 DEF Tip
<1>7. ASSUME NEW h \in scanned \ blind', ~Looked(h)
      PROVE  LogOf(h)' = LogOf(h) /\ (h = tail.number => Canonical(tail)')
  <2>1. LogOf(h)' = LogOf(h)
    BY Zenon, <1>6, <1>7 DEF LogOf, At
  <2>2. ASSUME h = tail.number PROVE CanonicalNext(tail)
    <3>1. tail # NoTail
      BY <1>6, <1>7, <2>2, Remembered
    <3>. QED
      BY <1>6, <1>7, <2>2, <3>1, Remembered, StaysCanonical
  <2>. QED
    BY <1>1, <2>1, <2>2 DEF Canonical, CanonicalNext, At, Tip
<1>8. \A l \in view' : l.number \in scanned' \cup blind'
  BY <1>1, <1>2 DEF ViewHeld
<1>9. ASSUME NEW h \in scanned' \ blind'
      PROVE  /\ \A i \in 1..Len(window') : window'[i].number = h => Shown(h)' = LogsOf(window[i])'
             /\ TailWatched' /\ h = tail'.number => Shown(h)' = {tail'}
             /\ ~Looked(h)' => /\ h <= Tip' /\ Shown(h)' = LogOf(h)'
                               /\ h = tail'.number => Canonical(tail)'
  <2>1. h \in scanned \ blind' /\ h \in scanned \ blind
    BY <1>1, <1>2
  <2>2. /\ \A i \in 1..Len(window) : window[i].number = h => Shown(h) = LogsOf(window[i])
        /\ TailWatched /\ h = tail.number => Shown(h) = {tail}
    BY Zenon, <2>1 DEF ViewHeld
  <2>. QED
    BY Zenon, <1>1, <1>4, <1>5, <1>6, <1>7, <2>1, <2>2
<1>. QED
  BY Zenon, <1>3, <1>8, <1>9 DEF ViewHeld

\* A move no deeper than the retained depth replaces nothing of the bulk phase.
LEMMA MoveBulk ==
  ASSUME ChainTypes, PlanTypes, HistoryTypes, Settled, Running, Forked, BulkHeld, BulkIsFinal,
         NEW g, Moves(g), Still
  PROVE  BulkHeld' /\ BulkIsFinal'
<1>. SUFFICES ASSUME deepest' <= Depth
              PROVE  /\ \A i \in 1..Len(window') : window'[i].number \in bulked' => Canonical(window[i])'
                     /\ blind' \cap bulked' = {}
  BY DEF BulkHeld, BulkIsFinal
<1>1. /\ window' = window /\ bulked' = bulked /\ bulked \subseteq Nat
      /\ peak \in Nat /\ deepest \in Nat /\ deepest' \in Nat /\ deepest <= deepest'
      /\ Len(chain) \in Nat /\ g \in 1..Len(chain) /\ Depth \in Nat
  BY Zenon, MoveSettles, SourceConstants
     DEF Still, pollerVars, PlanTypes, ChainTypes, HistoryTypes, Moves
<1>2. deepest <= Depth
  BY <1>1
<1>3. blind \cap bulked = {} /\ \A i \in 1..Len(window) : window[i].number \in bulked => Canonical(window[i])
  BY <1>2 DEF BulkHeld, BulkIsFinal
<1>4. \/ g = Len(chain) /\ blind' = blind
      \/ /\ \A h \in bulked : h < g
         /\ blind' = blind \cup {h \in scanned \ Watched : h >= g}
  <2>1. CASE g = Len(chain) /\ blind' = blind
    BY Zenon, <2>1
  <2>2. CASE deepest' = Larger(deepest, peak - g + 1)
             /\ blind' = blind \cup {h \in scanned \ Watched : h >= g}
    <3>1. peak - g + 1 <= Depth
      BY <1>1, <2>2 DEF Larger
    <3>2. \A h \in bulked : h < g
      BY <1>1, <3>1 DEF Settled
    <3>. QED
      BY Zenon, <2>2, <3>2
  <2>. QED
    BY Zenon, <2>1, <2>2 DEF Moves
<1>5. blind' \cap bulked' = {}
  <2>1. ASSUME NEW h \in bulked PROVE h \notin blind'
    <3>1. h \notin blind /\ h \in Nat /\ g \in Nat
      BY <1>1, <1>3
    <3>. QED
      BY <1>4, <3>1
  <2>. QED
    BY Zenon, <1>1, <2>1
<1>6. ASSUME NEW i \in 1..Len(window), window[i].number \in bulked
      PROVE  CanonicalNext(window[i])
  <2>1. Canonical(window[i]) /\ window[i].number \in 0..Tip
    BY <1>3, <1>6 DEF Canonical
  <2>2. window[i].number < g
    BY <1>1, <1>4, <1>6, <2>1 DEF Tip
  <2>. QED
    BY <2>1, <2>2, Remembered, StaysCanonical
<1>7. \A i \in 1..Len(window) : CanonicalNext(window[i]) => Canonical(window[i])'
  BY <1>1 DEF Canonical, CanonicalNext, At, Tip
<1>. QED
  BY <1>1, <1>5, <1>6, <1>7

\* The chain grows or is reorganised, at any moment of the source.
LEMMA ChainStepKeeps ==
  ASSUME SourceInv, ChainStep
  PROVE  SourceInv'
<1>1. PICK g : Moves(g) /\ Still
  <2>1. ChainTypes
    BY DEF SourceInv
  <2>. QED
    BY Zenon, <2>1, GrowMoves, ReorgMoves DEF ChainStep
<1>2. /\ ChainTypes /\ PlanTypes /\ HistoryTypes /\ Settled /\ ScanInv /\ Running /\ Forked
      /\ ViewHeld /\ BulkHeld /\ BulkIsFinal /\ head \in Nat /\ handoff \in Nat
  BY Zenon DEF SourceInv, ScanInv, PlanTypes
<1>3. ChainTypes' /\ Settled' /\ ScanInv' /\ PlanTypes'
  BY Zenon, <1>1, <1>2, MoveSettles, StillScans
<1>4. Forked' /\ ViewHeld' /\ HistoryTypes'
  BY Zenon, <1>1, <1>2, MoveForked, MoveView
<1>5. BulkHeld' /\ BulkIsFinal'
  BY Zenon, <1>1, <1>2, MoveBulk
<1>6. BulkAbove'
  <2>1. view' = view /\ tail' = tail /\ resume' = resume /\ bulked' = bulked /\ window' = window
    BY <1>1 DEF Still, planVars, pollerVars
  <2>. QED
    BY Zenon, <2>1 DEF SourceInv, BulkAbove, NoTail
<1>. QED
  BY Zenon, <1>3, <1>4, <1>5, <1>6 DEF SourceInv

-----------------------------------------------------------------------------
(* The task chooses its start. *)

\* The numbers the plan works with; a missing one is None, which is -1.
LEMMA PlanNumbers ==
  ASSUME PlanTypes, HistoryTypes
  PROVE  /\ head \in Nat /\ start \in Nat /\ handoff \in Nat /\ next \in Nat
         /\ resume \in Int /\ (resume # None => resume \in Nat)
         /\ origin \in Int /\ (origin # None => origin \in Nat)
         /\ tail.number \in Int /\ tail.number >= -1 /\ None = -1
         /\ tail = NoTail => tail.number = -1
         /\ tail # NoTail => tail.number \in Nat /\ tail.fork \in Nat
<1>1. tail # NoTail => tail.number \in Nat /\ tail.fork \in Nat
  BY DEF PlanTypes, Log
<1>2. tail = NoTail => tail.number = -1
  BY DEF NoTail, None
<1>3. tail.number \in Int /\ tail.number >= -1
  BY <1>1, <1>2
<1>. QED
  BY <1>1, <1>2, <1>3 DEF PlanTypes, HistoryTypes, None

\* The chain stands still while the task takes a step.
LEMMA SameChain ==
  ASSUME UNCHANGED givenVars
  PROVE  /\ chain' = chain /\ peak' = peak /\ forks' = forks /\ deepest' = deepest
         /\ lookback' = lookback /\ Tip' = Tip
         /\ (ChainTypes => ChainTypes')
         /\ \A h : At(h)' = At(h) /\ LogOf(h)' = LogOf(h)
<1>1. chain' = chain /\ peak' = peak /\ forks' = forks /\ deepest' = deepest /\ lookback' = lookback
  BY DEF givenVars
<1>2. Tip' = Tip /\ \A h : At(h)' = At(h) /\ LogOf(h)' = LogOf(h)
  BY <1>1 DEF Tip, At, LogOf
<1>3. ChainTypes => ChainTypes'
  BY Zenon, <1>1 DEF ChainTypes, Block, None
<1>. QED
  BY <1>1, <1>2, <1>3

\* A step that leaves chain, window and tail alone leaves canonical what was.
LEMMA ForkedStays ==
  ASSUME Forked, UNCHANGED givenVars, window' = window, tail' = tail
  PROVE  /\ Forked' /\ Canonical(tail)' = Canonical(tail)
         /\ \A i \in 1..Len(window) : Canonical(window[i])' = Canonical(window[i])
<1>1. chain' = chain /\ forks' = forks /\ Tip' = Tip
  BY SameChain
<1>2. /\ Canonical(tail)' = Canonical(tail) /\ At(tail.number)' = At(tail.number)
      /\ \A i \in 1..Len(window) : /\ Canonical(window[i])' = Canonical(window[i])
                                   /\ At(window[i].number)' = At(window[i].number)
  BY <1>1 DEF Canonical, At
<1>3. Known(tail)' = Known(tail) /\ \A i \in 1..Len(window) : Known(window[i])' = Known(window[i])
  BY Zenon, <1>1, <1>2 DEF Known
<1>4. Forked'
  BY <1>1, <1>2, <1>3 DEF Forked, NoTail
<1>. QED
  BY Zenon, <1>2, <1>4

\* The tail is looked at as before, or was found canonical just now.
Probed ==
  \/ TailWatched' = TailWatched
  \/ TailWatched /\ ~TailWatched' /\ (tail # NoTail => Canonical(tail))

\* A step that delivers and withdraws nothing.
LEMMA QuietStep ==
  ASSUME SourceInv, UNCHANGED <<givenVars, window, tail, view, scanned, bulked, blind>>,
         resume' \in Int, resume' >= resume, Probed,
         PlanTypes', origin' \in Nat \cup {None}, skipped' \subseteq Nat, ScanInv', Settled'
  PROVE  SourceInv'
<1>1. /\ window' = window /\ tail' = tail /\ view' = view /\ scanned' = scanned
      /\ bulked' = bulked /\ blind' = blind /\ UNCHANGED givenVars
  OBVIOUS
<1>2. /\ chain' = chain /\ forks' = forks /\ deepest' = deepest /\ Tip' = Tip
      /\ \A h : At(h)' = At(h) /\ LogOf(h)' = LogOf(h)
  BY Zenon, <1>1, SameChain
<1>3. ChainTypes' /\ HistoryTypes'
  BY Zenon, <1>1, SameChain DEF SourceInv, HistoryTypes, Polled, Log, None
<1>4. /\ Forked' /\ Canonical(tail)' = Canonical(tail)
      /\ \A i \in 1..Len(window) : Canonical(window[i])' = Canonical(window[i])
  BY Zenon, <1>1, ForkedStays DEF SourceInv
<1>5. ViewHeld'
  <2>1. \A h : Shown(h)' = Shown(h) /\ InWindow(h)' = InWindow(h)
    BY Zenon, <1>1 DEF Shown, InWindow
  <2>2. \A i \in 1..Len(window) : LogsOf(window[i])' = LogsOf(window[i])
    BY Zenon, <1>1 DEF LogsOf
  <2>3. CASE TailWatched' = TailWatched
    <3>1. \A h : Looked(h)' = Looked(h)
      BY Zenon, <1>1, <2>1, <2>3 DEF Looked
    <3>. QED
      BY Zenon, <1>1, <1>2, <1>4, <2>1, <2>2, <2>3, <3>1 DEF SourceInv, ViewHeld
  <2>4. CASE TailWatched /\ ~TailWatched' /\ (tail # NoTail => Canonical(tail))
    <3>1. ASSUME NEW h \in scanned \ blind, ~InWindow(h)
          PROVE  h <= Tip /\ Shown(h) = LogOf(h) /\ (h = tail.number => Canonical(tail))
      <4>1. CASE h # tail.number
        BY Zenon, <2>4, <3>1, <4>1 DEF SourceInv, ViewHeld, Looked
      <4>2. CASE h = tail.number
        <5>1. tail # NoTail /\ tail \in Log /\ h \in Nat
          BY <4>2, PlanNumbers DEF SourceInv, HistoryTypes, PlanTypes
        <5>2. Canonical(tail) /\ At(h).logs /\ Shown(h) = {tail}
          BY Zenon, <2>4, <4>2, <5>1 DEF SourceInv, Forked, ViewHeld
        <5>3. tail = [number |-> h, fork |-> At(h).fork] /\ h \in 0..Tip
          BY <4>2, <5>1, <5>2 DEF Canonical, Log
        <5>4. h <= Tip
          BY <5>1, <5>3, ChainFacts DEF SourceInv
        <5>. QED
          BY <5>2, <5>3, <5>4 DEF LogOf
      <4>. QED
        BY Zenon, <4>1, <4>2
    <3>2. \A h : Looked(h)' <=> InWindow(h)
      BY Zenon, <2>1, <2>4 DEF Looked
    <3>. QED
      BY Zenon, <1>1, <1>2, <1>4, <2>1, <2>2, <2>4, <3>1, <3>2 DEF SourceInv, ViewHeld
  <2>. QED
    BY Zenon, <2>3, <2>4 DEF Probed
<1>6. BulkAbove'
  <2>1. resume \in Int /\ \A l \in view : l.number \in Nat
    BY PlanNumbers DEF SourceInv, HistoryTypes, Log
  <2>2. \A l \in view : l.number >= resume' => l.number >= resume
    BY <2>1
  <2>. QED
    BY Zenon, <1>1, <2>2 DEF SourceInv, BulkAbove, NoTail
<1>7. BulkHeld' /\ BulkIsFinal'
  BY Zenon, <1>1, <1>2, <1>4 DEF SourceInv, BulkHeld, BulkIsFinal
<1>. QED
  BY Zenon, <1>3, <1>4, <1>5, <1>6, <1>7 DEF SourceInv

\* The source reads the head it plans from.
LEMMA ReadHeadKeeps ==
  ASSUME SourceInv, ReadHead
  PROVE  SourceInv'
<1>1. /\ pc = "head" /\ pc' = "probe" /\ head' = Tip /\ UNCHANGED givenVars
      /\ boot' = boot /\ resume' = resume /\ tail' = tail /\ invalid' = invalid /\ start' = start
      /\ handoff' = handoff /\ next' = next /\ failures' = failures /\ window' = window
      /\ view' = view /\ scanned' = scanned /\ skipped' = skipped /\ origin' = origin
      /\ bulked' = bulked /\ blind' = blind
  BY DEF ReadHead, pollerVars, historyVars
<1>2. /\ ChainTypes /\ PlanTypes /\ HistoryTypes /\ Settled /\ NoBasis /\ Basis /\ Running
      /\ GaplessScan
  BY Zenon DEF SourceInv, ScanInv
<1>3. PlanTypes'
  BY <1>1, <1>2, ChainFacts DEF PlanTypes, Pcs
<1>4. Settled'
  BY <1>1, <1>2, SameChain DEF Settled
<1>5. ScanInv'
  <2>1. NoBasis' /\ Basis'
    BY <1>1, <1>2 DEF NoBasis, Basis, NoTail, None
  <2>2. Start' /\ Running'
    BY <1>1, <1>2 DEF Start, Running, Planned
  <2>3. GaplessScan'
    BY <1>1, <1>2 DEF GaplessScan, Position, None
  <2>. QED
    BY Zenon, <2>1, <2>2, <2>3 DEF ScanInv
<1>6. Probed
  BY <1>1 DEF TailWatched, Probed
<1>7. resume \in Int /\ origin \in Nat \cup {None} /\ skipped \subseteq Nat
  BY <1>2, PlanNumbers DEF HistoryTypes
<1>. QED
  BY <1>1, <1>3, <1>4, <1>5, <1>6, <1>7, QuietStep

\* The source plans a bulk pass, or finds none is needed.
LEMMA BulkBoundsKeeps ==
  ASSUME SourceInv, BulkBounds
  PROVE  SourceInv'
<1>1. /\ pc = "bulk" /\ UNCHANGED givenVars
      /\ head' = head /\ boot' = boot /\ resume' = resume /\ tail' = tail /\ invalid' = invalid
      /\ start' = start /\ window' = window
      /\ view' = view /\ scanned' = scanned /\ skipped' = skipped /\ origin' = origin
      /\ bulked' = bulked /\ blind' = blind
  BY DEF BulkBounds, pollerVars, historyVars
<1>2. \/ /\ Handoff > start /\ pc' = "chunk" /\ handoff' = Handoff /\ next' = start
         /\ failures' = 0
      \/ pc' = "open" /\ handoff' = handoff /\ next' = next /\ failures' = failures
  BY DEF BulkBounds
<1>3. /\ ChainTypes /\ PlanTypes /\ HistoryTypes /\ Settled /\ NoBasis /\ Basis /\ Start
      /\ Running /\ GaplessScan
  BY Zenon DEF SourceInv, ScanInv
<1>4. Handoff \in Nat /\ (Handoff > 0 => Handoff + Depth = head)
  BY <1>3, PlanNumbers, SourceConstants DEF Handoff, Minus
<1>5. PlanTypes'
  BY <1>1, <1>2, <1>3, <1>4 DEF PlanTypes, Pcs, Planned
<1>6. Settled'
  <2>1. pc' = "chunk" => handoff' + Depth <= peak'
    BY <1>1, <1>2, <1>3, <1>4, PlanNumbers, SameChain DEF Settled
  <2>. QED
    BY <1>1, <1>3, <2>1, SameChain DEF Settled
<1>7. ScanInv'
  <2>1. NoBasis' /\ Basis'
    BY <1>1, <1>2, <1>3 DEF NoBasis, Basis, NoTail, None
  <2>2. Start'
    BY <1>1, <1>2, <1>3 DEF Start, Planned
  <2>3. Running'
    BY <1>1, <1>2, <1>3, PlanNumbers DEF Running
  <2>4. GaplessScan'
    BY <1>1, <1>2, <1>3 DEF GaplessScan, Start, Planned, Position, None
  <2>. QED
    BY Zenon, <2>1, <2>2, <2>3, <2>4 DEF ScanInv
<1>8. Probed
  BY <1>1, <1>2 DEF TailWatched, Probed
<1>9. resume \in Int /\ origin \in Nat \cup {None} /\ skipped \subseteq Nat
  BY <1>3, PlanNumbers DEF HistoryTypes
<1>. QED
  BY <1>1, <1>5, <1>6, <1>7, <1>8, <1>9, QuietStep

\* After a bulk pass the source reads the head again and plans anew.
LEMMA RereadHeadKeeps ==
  ASSUME SourceInv, RereadHead
  PROVE  SourceInv'
<1>1. /\ pc = "reread" /\ UNCHANGED givenVars
      /\ (head' = Tip /\ pc' = "bulk") \/ (head' = head /\ pc' = "open")
      /\ boot' = boot /\ resume' = resume /\ tail' = tail /\ invalid' = invalid /\ start' = start
      /\ handoff' = handoff /\ next' = next /\ failures' = failures /\ window' = window
      /\ view' = view /\ scanned' = scanned /\ skipped' = skipped /\ origin' = origin
      /\ bulked' = bulked /\ blind' = blind
  BY DEF RereadHead, pollerVars, historyVars
<1>2. /\ ChainTypes /\ PlanTypes /\ HistoryTypes /\ Settled /\ NoBasis /\ Basis /\ Start
      /\ Running /\ GaplessScan
  BY Zenon DEF SourceInv, ScanInv
<1>3. PlanTypes'
  BY <1>1, <1>2, ChainFacts DEF PlanTypes, Pcs, Planned
<1>4. Settled'
  BY <1>1, <1>2, SameChain DEF Settled
<1>5. ScanInv'
  <2>1. NoBasis' /\ Basis'
    BY <1>1, <1>2 DEF NoBasis, Basis, NoTail, None
  <2>2. Start' /\ Running'
    BY <1>1, <1>2 DEF Start, Running, Planned
  <2>3. GaplessScan'
    BY <1>1, <1>2 DEF GaplessScan, Position, None
  <2>. QED
    BY Zenon, <2>1, <2>2, <2>3 DEF ScanInv
<1>6. Probed
  BY <1>1 DEF TailWatched, Probed
<1>7. resume \in Int /\ origin \in Nat \cup {None} /\ skipped \subseteq Nat
  BY <1>2, PlanNumbers DEF HistoryTypes
<1>. QED
  BY <1>1, <1>3, <1>4, <1>5, <1>6, <1>7, QuietStep

\* A bulk pass is under way: nothing is looked at, and the scan is level with it.
LEMMA InChunk ==
  ASSUME SourceInv, pc = "chunk"
  PROVE  /\ head \in Nat /\ start \in Nat /\ next \in Nat /\ handoff \in Nat
         /\ resume \in Int /\ tail.number \in Int
         /\ start <= next /\ next < handoff /\ ~invalid /\ tail.number < start /\ resume <= start
         /\ origin # None /\ origin \in Nat
         /\ \A h \in origin..next - 1 : h \in scanned \cup skipped
         /\ window = <<>> /\ ~TailWatched
<1>1. PlanTypes /\ HistoryTypes /\ NoBasis /\ Basis /\ Start /\ Running /\ GaplessScan
  BY Zenon DEF SourceInv, ScanInv
<1>2. /\ head \in Nat /\ start \in Nat /\ next \in Nat /\ handoff \in Nat /\ resume \in Int
      /\ tail.number \in Int /\ start <= next /\ next < handoff
      /\ ~invalid /\ tail.number < start /\ resume <= start /\ window = <<>>
  BY <1>1, PlanNumbers DEF Start, Planned, Running
<1>3. origin # None /\ origin \in Nat
  BY <1>1, <1>2, PlanNumbers DEF NoBasis, Basis
<1>4. \A h \in origin..next - 1 : h \in scanned \cup skipped
  BY <1>1, <1>3 DEF GaplessScan, Position
<1>5. ~TailWatched
  BY <1>2 DEF TailWatched
<1>. QED
  BY <1>2, <1>3, <1>4, <1>5

\* A chunk fails: it is tried again, or the pass is abandoned where it stands.
LEMMA ChunkFailedKeeps ==
  ASSUME SourceInv, ChunkFailed
  PROVE  SourceInv'
<1>1. /\ pc = "chunk" /\ UNCHANGED givenVars
      /\ head' = head /\ tail' = tail /\ invalid' = invalid /\ handoff' = handoff
      /\ next' = next /\ window' = window
      /\ view' = view /\ scanned' = scanned /\ skipped' = skipped /\ origin' = origin
      /\ bulked' = bulked /\ blind' = blind
  BY DEF ChunkFailed, pollerVars, historyVars
<1>2. /\ ChainTypes /\ PlanTypes /\ HistoryTypes /\ Settled /\ NoBasis /\ Basis /\ Start
      /\ Running /\ GaplessScan
  BY Zenon DEF SourceInv, ScanInv
<1>3. /\ head \in Nat /\ start \in Nat /\ next \in Nat /\ resume \in Int /\ tail.number \in Int
      /\ start <= next /\ ~invalid /\ tail.number < start /\ resume <= start
      /\ origin # None /\ \A h \in origin..next - 1 : h \in scanned \cup skipped
  BY <1>1, InChunk
<1>4. \/ /\ next > start /\ pc' = "open" /\ boot' = None /\ resume' = next /\ start' = next
         /\ failures' = failures
      \/ /\ pc' = "open" /\ boot' = boot /\ resume' = resume /\ start' = start
         /\ failures' = failures
      \/ /\ pc' = "chunk" /\ boot' = boot /\ resume' = resume /\ start' = start
         /\ failures' = failures + 1
  BY <1>1 DEF ChunkFailed, LeaveBulk
<1>5. resume' \in Int /\ resume' >= resume /\ start' >= start /\ start' <= next /\ start' \in Nat
  BY <1>3, <1>4
<1>6. PlanTypes'
  BY <1>1, <1>2, <1>3, <1>4 DEF PlanTypes, Pcs, Planned
<1>7. Settled'
  BY <1>1, <1>2, <1>4, SameChain DEF Settled
<1>8. ScanInv'
  <2>1. NoBasis' /\ Basis'
    BY <1>1, <1>2, <1>3, <1>4 DEF NoBasis, Basis, NoTail, None
  <2>2. Start'
    BY <1>1, <1>2, <1>3, <1>4 DEF Start, Planned
  <2>3. Running'
    BY <1>1, <1>2, <1>4 DEF Running
  <2>4. GaplessScan'
    BY <1>1, <1>2, <1>3, <1>4, PlanNumbers DEF GaplessScan, Position, None
  <2>. QED
    BY Zenon, <2>1, <2>2, <2>3, <2>4 DEF ScanInv
<1>9. Probed
  BY <1>1, <1>4 DEF TailWatched, Probed
<1>10. origin \in Nat \cup {None} /\ skipped \subseteq Nat
  BY <1>2 DEF HistoryTypes
<1>. QED
  BY <1>1, <1>5, <1>6, <1>7, <1>8, <1>9, <1>10, QuietStep

\* What poller_start_block and the max_lookback clamp choose: the basis or, past
\* heights that are skipped, the floor; the tail if it is to be restated.
LEMMA StartChosen ==
  ASSUME PlanTypes, HistoryTypes, Settled, NoBasis, Basis, lookback \in Nat \cup {None},
         NEW inv \in BOOLEAN, inv => tail # NoTail
  PROVE  /\ PollerStart(inv).block \in Nat /\ Clamp(PollerStart(inv)) \in Nat
         /\ ~inv => /\ ~PollerStart(inv).restates
                    /\ resume # None => PollerStart(inv).block = resume
                    /\ Clamp(PollerStart(inv)) >= PollerStart(inv).block
                    /\ \A h \in PollerStart(inv).block..Clamp(PollerStart(inv)) - 1 : h <= MaxHead
         /\ inv /\ PollerStart(inv).restates => Clamp(PollerStart(inv)) = tail.number
<1>1. /\ head \in Nat /\ head <= MaxHead /\ MaxHead \in Nat /\ Depth \in Nat /\ None = -1
      /\ resume \in Int /\ (resume # None => resume \in Nat /\ boot = None)
      /\ boot # None => boot \in Nat
      /\ inv => tail.number \in Nat /\ resume # None
  BY PlanNumbers, SourceConstants DEF Settled, NoBasis, Basis, PlanTypes
<1>2. Floor \in Nat /\ Floor <= head
  BY <1>1 DEF Floor, Capped, Minus
<1>3. CASE boot # None
  <2>1. /\ PollerStart(inv) = [block |-> Smaller(boot, head), restates |-> FALSE] /\ ~inv
        /\ resume = None
    BY <1>1, <1>3 DEF PollerStart
  <2>2. Smaller(boot, head) \in Nat
    BY <1>1, <1>3 DEF Smaller
  <2>. QED
    BY <1>1, <1>2, <2>1, <2>2 DEF Clamp, Larger
<1>4. CASE boot = None /\ ~inv
  <2>. DEFINE basis == IF resume # None THEN resume ELSE head
  <2>1. PollerStart(inv) = [block |-> basis, restates |-> FALSE]
    BY <1>4 DEF PollerStart
  <2>2. basis \in Nat
    BY <1>1
  <2>. QED
    BY <1>1, <1>2, <1>4, <2>1, <2>2 DEF Clamp, Larger
<1>5. CASE boot = None /\ inv
  <2>. DEFINE bound == Minus(Larger(resume, Floor), Depth)
  <2>1. PollerStart(inv) = [block |-> Larger(tail.number, bound), restates |-> tail.number >= bound]
    BY <1>1, <1>5 DEF PollerStart
  <2>2. bound \in Nat
    BY <1>1, <1>2, <1>5 DEF Minus, Larger
  <2>3. Larger(tail.number, bound) \in Nat /\ (tail.number >= bound => Larger(tail.number, bound) = tail.number)
    BY <1>1, <1>5, <2>2 DEF Larger
  <2>. HIDE DEF bound
  <2>4. PollerStart(inv).block = Larger(tail.number, bound)
    BY <2>1
  <2>5. PollerStart(inv).restates <=> tail.number >= bound
    <3>. DEFINE r == tail.number >= bound
    <3>1. r \in BOOLEAN /\ PollerStart(inv) = [block |-> Larger(tail.number, bound), restates |-> r]
      BY <2>1
    <3>. HIDE DEF r
    <3>2. PollerStart(inv).restates = r
      BY <3>1
    <3>. QED
      BY Zenon, <3>1, <3>2 DEF r
  <2>6. Clamp(PollerStart(inv)) \in Nat
    BY <1>2, <2>3, <2>4 DEF Clamp, Larger
  <2>7. PollerStart(inv).restates => Clamp(PollerStart(inv)) = tail.number
    BY Zenon, <2>3, <2>4, <2>5 DEF Clamp
  <2>. QED
    BY Zenon, <1>5, <2>3, <2>4, <2>6, <2>7
<1>. QED
  BY <1>3, <1>4, <1>5

\* The probe of the tail finds it canonical, replaced or unknown.
LEMMA ProbeKeeps ==
  ASSUME SourceInv, Probe
  PROVE  SourceInv'
<1>1. /\ pc = "probe" /\ UNCHANGED givenVars /\ head' = head /\ boot' = boot /\ resume' = resume
      /\ tail' = tail /\ handoff' = handoff /\ next' = next /\ failures' = failures
      /\ window' = window /\ view' = view /\ scanned' = scanned /\ bulked' = bulked
      /\ blind' = blind
  BY DEF Probe, pollerVars
<1>2. /\ ChainTypes /\ PlanTypes /\ HistoryTypes /\ Settled /\ NoBasis /\ Basis /\ Start
      /\ Running /\ GaplessScan
  BY Zenon DEF SourceInv, ScanInv
<1>3. resume' \in Int /\ resume' >= resume
  BY <1>1, <1>2, PlanNumbers
<1>4. CASE pc' = "head" /\ UNCHANGED <<invalid, start, skipped, origin>>
  <2>1. /\ invalid' = invalid /\ start' = start /\ skipped' = skipped /\ origin' = origin
        /\ pc' = "head"
    BY <1>4
  <2>2. PlanTypes'
    BY <1>1, <1>2, <2>1 DEF PlanTypes, Pcs
  <2>3. Settled'
    BY <1>1, <1>2, <2>1, SameChain DEF Settled
  <2>4. NoBasis' /\ Basis'
    BY <1>1, <1>2, <2>1 DEF NoBasis, Basis, NoTail, None
  <2>5. Start' /\ Running'
    BY <1>1, <1>2, <2>1 DEF Start, Running, Planned
  <2>6. GaplessScan'
    BY <1>1, <1>2, <2>1 DEF GaplessScan, Position, None
  <2>7. ScanInv' /\ Probed
    BY <1>1, <2>1, <2>4, <2>5, <2>6 DEF ScanInv, Probed, TailWatched
  <2>8. origin' \in Nat \cup {None} /\ skipped' \subseteq Nat
    BY <1>2, <2>1 DEF HistoryTypes
  <2>. QED
    BY <1>1, <1>3, <2>2, <2>3, <2>7, <2>8, QuietStep
<1>5. CASE Plan(tail # NoTail /\ ~Canonical(tail))
  <2>. DEFINE inv == tail # NoTail /\ ~Canonical(tail)
              s == PollerStart(inv)
  <2>1. /\ invalid' = inv /\ start' = Clamp(s)
        /\ pc' = IF inv /\ ~s.restates THEN "terminal" ELSE IF inv THEN "open" ELSE "bulk"
        /\ skipped' = skipped \cup {h \in s.block..Clamp(s) - 1 : h <= MaxHead}
        /\ origin' = IF origin = None THEN Clamp(s) ELSE origin
    BY <1>5 DEF Plan
  <2>2. inv \in BOOLEAN /\ (inv => tail # NoTail) /\ (~inv /\ tail # NoTail => Canonical(tail))
    OBVIOUS
  <2>. HIDE DEF inv
  <2>3. /\ s.block \in Nat /\ Clamp(s) \in Nat
        /\ ~inv => /\ ~s.restates /\ (resume # None => s.block = resume) /\ Clamp(s) >= s.block
                   /\ \A h \in s.block..Clamp(s) - 1 : h <= MaxHead
        /\ inv /\ s.restates => Clamp(s) = tail.number
    BY <1>2, <2>2, StartChosen DEF ChainTypes
  <2>. HIDE DEF s
  <2>4. /\ pc' \in {"terminal", "open", "bulk"} /\ (pc' = "terminal" => inv)
        /\ pc' = "open" => inv /\ start' = tail.number
        /\ pc' = "bulk" => ~inv
    BY <2>1, <2>3
  <2>5. /\ resume \in Int /\ (resume # None => resume \in Nat /\ origin # None)
        /\ tail.number \in Int /\ None = -1 /\ (tail = NoTail => tail.number = -1)
        /\ origin \in Int /\ (resume # None => tail.number < resume)
        /\ resume = None => tail = NoTail /\ origin = None /\ ~inv
    BY <1>1, <1>2, <2>2, PlanNumbers DEF NoBasis, Basis
  <2>6. PlanTypes'
    BY <1>1, <1>2, <2>1, <2>2, <2>3, <2>4 DEF PlanTypes, Pcs, Planned
  <2>7. Settled'
    BY <1>1, <1>2, <2>4, SameChain DEF Settled
  <2>8. NoBasis' /\ Basis'
    <3>1. NoBasis'
      BY <1>1, <2>1, <2>4, <2>5 DEF NoBasis, NoTail
    <3>2. Basis'
      BY <1>1, <1>2, <2>1, <2>5 DEF Basis
    <3>. QED
      BY <3>1, <3>2
  <2>9. Start' /\ Running'
    <3>1. ASSUME NEW h \in origin'..start' - 1, pc' # "terminal" PROVE h \in scanned' \cup skipped'
      <4>1. resume # None /\ origin' = origin
        BY <2>1, <2>3, <2>5, <3>1
      <4>2. CASE h < resume
        BY <1>1, <1>2, <2>1, <2>5, <3>1, <4>1, <4>2 DEF GaplessScan, Position
      <4>3. CASE h >= resume
        <5>1. ~inv
          BY <2>1, <2>3, <2>4, <2>5, <3>1, <4>1, <4>3
        <5>2. h \in s.block..Clamp(s) - 1
          BY <2>1, <2>3, <2>5, <3>1, <4>1, <4>3, <5>1
        <5>. QED
          BY <2>1, <2>3, <5>1, <5>2
      <4>. QED
        BY <2>3, <2>5, <3>1, <4>1, <4>2, <4>3
    <3>2. Start'
      <4>1. CASE inv
        BY <1>1, <2>1, <2>4, <3>1, <4>1 DEF Start, Planned
      <4>2. CASE ~inv
        <5>1. tail.number < start' /\ resume <= start'
          BY <2>1, <2>3, <2>5, <4>2
        <5>. QED
          BY <1>1, <2>1, <2>4, <3>1, <4>2, <5>1 DEF Start
      <4>. QED
        BY <4>1, <4>2
    <3>3. Running'
      BY <1>1, <1>2, <2>4 DEF Running
    <3>. QED
      BY <3>2, <3>3
  <2>10. GaplessScan'
    BY <1>1, <1>2, <2>1, <2>3, <2>4, <2>5 DEF GaplessScan, Position
  <2>11. Probed
    BY <1>1, <2>1, <2>2, <2>4 DEF Probed, TailWatched
  <2>12. origin' \in Nat \cup {None} /\ skipped' \subseteq Nat
    <3>1. s.block..Clamp(s) - 1 \subseteq Nat
      BY <2>3
    <3>2. origin \in Nat \cup {None} /\ skipped \subseteq Nat
      BY <1>2 DEF HistoryTypes
    <3>. QED
      BY Zenon, <2>1, <2>3, <3>1, <3>2
  <2>13. ScanInv'
    BY Zenon, <2>8, <2>9, <2>10 DEF ScanInv
  <2>. QED
    BY <1>1, <1>3, <2>6, <2>7, <2>11, <2>12, <2>13, QuietStep
<1>. QED
  BY Zenon, <1>4, <1>5 DEF Probe
=============================================================================
