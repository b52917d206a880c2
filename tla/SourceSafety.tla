---------------------------- MODULE SourceSafety ----------------------------
(***************************************************************************)
(* What an event source guarantees for any chain, any reorgs, any reorg    *)
(* depth the poller retains, any chunk size and any lookback: the scan has *)
(* no gaps, the view of what was delivered is exact once the poller is     *)
(* level with the chain, and what the bulk phase delivered is final.       *)
(***************************************************************************)
EXTENDS SourceProofs

\* A leaf that names no prover is tried with each of these in turn.
USE SMT, Zenon, Z3T(30), SMTT(30)

-----------------------------------------------------------------------------
(* Logs are delivered and withdrawn. *)

\* A canonical height's log carries its number.
LEMMA LogFacts ==
  ASSUME ChainTypes
  PROVE  /\ \A h : \A l \in LogOf(h) : l.number = h
         /\ \A h \in 0..Tip : LogOf(h) \subseteq Log
<1>1. \A h : \A l \in LogOf(h) : l.number = h
  BY DEF LogOf
<1>2. ASSUME NEW h \in 0..Tip PROVE LogOf(h) \subseteq Log
  <2>1. h \in Nat /\ At(h).fork \in Nat
    BY ChainFacts
  <2>. QED
    BY <2>1 DEF LogOf, Log
<1>. QED
  BY <1>1, <1>2

\* A chunk is delivered with its frontier, up to the end of the pass or not.
LEMMA ChunkFetchedKeeps ==
  ASSUME SourceInv, ChunkFetched
  PROVE  SourceInv'
<1>. DEFINE e == ChunkEnd
            Got == {h \in Fetched : h <= Tip}
<1>1. /\ pc = "chunk" /\ UNCHANGED givenVars
      /\ head' = head /\ tail' = tail /\ invalid' = invalid /\ handoff' = handoff
      /\ window' = window /\ skipped' = skipped /\ origin' = origin
      /\ view' = view \cup UNION {LogOf(h) : h \in Got}
      /\ scanned' = scanned \cup Fetched /\ bulked' = bulked \cup Fetched
      /\ blind' = (blind \ Healed(Fetched)) \cup {h \in Fetched : h > Tip}
      /\ next' = e + 1 /\ failures' = 0
  BY DEF ChunkFetched, pollerVars
<1>2. /\ ChainTypes /\ PlanTypes /\ HistoryTypes /\ Settled /\ NoBasis /\ Basis /\ Start
      /\ Running /\ GaplessScan /\ Forked /\ ViewHeld /\ BulkAbove /\ BulkIsFinal
  BY Zenon DEF SourceInv, ScanInv
<1>3. /\ head \in Nat /\ start \in Nat /\ next \in Nat /\ handoff \in Nat
      /\ resume \in Int /\ tail.number \in Int
      /\ start <= next /\ next < handoff /\ ~invalid /\ tail.number < start /\ resume <= start
      /\ origin # None /\ origin \in Nat
      /\ \A h \in origin..next - 1 : h \in scanned \cup skipped
      /\ window = <<>> /\ ~TailWatched
  BY <1>1, InChunk
<1>4. e \in Nat /\ next <= e /\ e < handoff /\ Fetched = next..e
  BY <1>3, SourceConstants DEF ChunkEnd, Smaller, Fetched
<1>5. \A h \in Fetched : h \in Nat /\ h >= next /\ h <= e /\ h >= start /\ h # tail.number
  BY <1>3, <1>4
<1>6. Tip \in Nat /\ peak \in Nat /\ deepest \in Nat /\ Depth \in Nat
      /\ chain' = chain /\ peak' = peak /\ deepest' = deepest /\ Tip' = Tip /\ ChainTypes'
      /\ \A h : LogOf(h)' = LogOf(h)
  BY <1>1, <1>2, ChainFacts, SameChain, SourceConstants DEF ChainTypes
<1>7. \/ /\ e + 1 < handoff
         /\ pc' = "chunk" /\ boot' = boot /\ resume' = resume /\ start' = start
      \/ e + 1 = handoff /\ pc' = "reread" /\ boot' = None /\ resume' = e + 1 /\ start' = e + 1
  BY <1>1, <1>3, <1>4 DEF ChunkFetched, LeaveBulk
<1>. HIDE DEF e
<1>8. PlanTypes'
  BY <1>1, <1>2, <1>4, <1>7 DEF PlanTypes, Pcs, Planned, None
<1>9. Settled'
  <2>1. \A h \in Fetched : h + Depth < peak
    BY <1>1, <1>2, <1>3, <1>4, <1>5, <1>6 DEF Settled
  <2>. QED
    BY <1>1, <1>2, <1>6, <1>7, <2>1 DEF Settled
<1>10. ScanInv'
  <2>1. NoBasis' /\ Basis'
    BY <1>1, <1>2, <1>3, <1>4, <1>7 DEF NoBasis, Basis, NoTail, None
  <2>2. \A h \in origin..e : h \in scanned' \cup skipped'
    BY <1>1, <1>3, <1>4
  <2>3. Start'
    BY <1>1, <1>2, <1>3, <1>4, <1>7, <2>2 DEF Start, Planned
  <2>4. Running'
    BY <1>1, <1>3, <1>4, <1>7 DEF Running
  <2>5. GaplessScan'
    BY <1>1, <1>4, <1>7, <2>2 DEF GaplessScan, Position
  <2>. QED
    BY Zenon, <2>1, <2>3, <2>4, <2>5 DEF ScanInv
<1>11. Forked' /\ Canonical(tail)' = Canonical(tail)
  BY Zenon, <1>1, <1>2, ForkedStays
<1>12. \A l : l \in view' <=> l \in view \/ (l.number \in Got /\ l \in LogOf(l.number))
  BY Zenon, <1>1, <1>2, LogFacts
<1>13. HistoryTypes'
  <2>1. \A h \in Got : LogOf(h) \subseteq Log
    BY <1>2, <1>5, <1>6, LogFacts
  <2>2. view' \subseteq Log
    BY Zenon, <1>2, <1>12, <2>1 DEF HistoryTypes
  <2>3. Fetched \subseteq Nat
    BY Zenon, <1>5
  <2>4. scanned' \subseteq Nat /\ bulked' \subseteq Nat /\ blind' \subseteq Nat
    BY Zenon, <1>1, <1>2, <2>3 DEF HistoryTypes
  <2>. QED
    BY <1>1, <1>2, <2>2, <2>4 DEF HistoryTypes
<1>14. Len(window) = 0 /\ \A h : ~InWindow(h) /\ ~Looked(h) /\ ~Looked(h)'
  <2>1. Len(window) = 0 /\ ~TailWatched'
    BY <1>1, <1>3, <1>7 DEF TailWatched
  <2>. QED
    BY <1>1, <1>3, <2>1 DEF InWindow, Looked
<1>15. ViewHeld'
  <2>1. \A l \in view' : l.number \in scanned' \cup blind'
    BY <1>1, <1>2, <1>12 DEF ViewHeld, Healed
  <2>2. ASSUME NEW h \in scanned' \ blind'
        PROVE  h <= Tip /\ Shown(h)' = LogOf(h) /\ (h = tail.number => Canonical(tail))
    <3>1. CASE h \in Fetched
      <4>1. h <= Tip /\ h \in Got /\ h # tail.number
        BY <1>1, <1>5, <1>6, <2>2, <3>1
      <4>2. Shown(h) \subseteq LogOf(h)
        <5>1. CASE h \in blind
          BY <1>1, <2>2, <5>1 DEF Healed, Shown
        <5>2. CASE h \notin blind /\ h \in scanned
          BY Zenon, <1>2, <1>14, <5>2 DEF ViewHeld
        <5>3. CASE h \notin blind /\ h \notin scanned
          BY Zenon, <1>2, <5>3 DEF ViewHeld, Shown
        <5>. QED
          BY Zenon, <5>1, <5>2, <5>3
      <4>3. Shown(h)' = Shown(h) \cup LogOf(h)
        <5>1. \A l : l \in Shown(h)' <=> l \in Shown(h) \/ (l.number = h /\ l \in LogOf(h))
          BY Zenon, <1>12, <4>1 DEF Shown
        <5>2. \A l \in LogOf(h) : l.number = h
          BY Zenon, <1>2, LogFacts
        <5>. QED
          BY Zenon, <5>1, <5>2
      <4>. QED
        BY <4>1, <4>2, <4>3
    <3>2. CASE h \notin Fetched
      <4>1. h \in scanned \ blind
        BY <1>1, <2>2, <3>2 DEF Healed
      <4>2. Shown(h)' = Shown(h)
        BY Zenon, <1>12, <3>2 DEF Shown
      <4>. QED
        BY Zenon, <1>2, <1>14, <4>1, <4>2 DEF ViewHeld
    <3>. QED
      BY Zenon, <3>1, <3>2
  <2>3. ~TailWatched' /\ Len(window') = 0
    BY <1>1, <1>3, <1>7 DEF TailWatched
  <2>4. \A i \in 1..Len(window') : FALSE
    BY <2>3
  <2>. QED
    BY Zenon, <1>1, <1>6, <1>11, <2>1, <2>2, <2>3, <2>4 DEF ViewHeld
<1>16. BulkAbove'
  <2>1. resume' \in Int /\ resume' >= resume /\ \A l \in view : l.number \in Nat
    BY <1>2, <1>3, <1>4, <1>7 DEF HistoryTypes, Log
  <2>2. \A l \in view : l.number >= resume' => l.number >= resume
    BY <1>3, <2>1
  <2>3. \A i \in 1..Len(window') : FALSE
    BY <1>1, <1>14
  <2>. QED
    BY Zenon, <1>1, <1>2, <1>12, <2>2, <2>3 DEF BulkAbove, NoTail
<1>17. BulkHeld' /\ BulkIsFinal'
  <2>. SUFFICES ASSUME deepest <= Depth PROVE blind' \cap bulked' = {}
    BY <1>1, <1>6, <1>14 DEF BulkHeld, BulkIsFinal
  <2>1. \A h \in Fetched : h <= Tip
    BY <1>1, <1>2, <1>3, <1>4, <1>5, <1>6 DEF Settled
  <2>2. blind \cap bulked = {}
    BY <1>2 DEF BulkIsFinal
  <2>3. ASSUME NEW h \in Fetched, h \in blind PROVE h \in Healed(Fetched)
    <3>1. ASSUME NEW l \in view, l.number = h PROVE FALSE
      <4>1. l.number >= resume /\ l.number >= tail.number /\ l # tail
        BY <1>3, <1>5, <2>3, <3>1
      <4>2. l.number \in bulked
        BY Zenon, <1>2, <4>1 DEF BulkAbove
      <4>. QED
        BY <2>2, <2>3, <3>1, <4>2
    <3>. QED
      BY <2>1, <2>3, <3>1 DEF Healed
  <2>. QED
    BY <1>1, <1>5, <1>6, <2>1, <2>2, <2>3
<1>. QED
  BY Zenon, <1>6, <1>8, <1>9, <1>10, <1>11, <1>13, <1>15, <1>16, <1>17 DEF SourceInv

\* A step that leaves the chain alone and forgets the tail or keeps it, with a
\* window that is empty afterwards.
LEMMA EmptyWindow ==
  ASSUME Forked, UNCHANGED givenVars, Len(window') = 0, tail' = tail \/ tail' = NoTail
  PROVE  /\ Forked' /\ BulkHeld' /\ (tail' = tail => Canonical(tail)' = Canonical(tail))
         /\ \A h : ~InWindow(h)'
<1>1. chain' = chain /\ forks' = forks /\ Tip' = Tip /\ \A i \in 1..Len(window') : FALSE
  BY SameChain
<1>2. tail' = tail => Canonical(tail)' = Canonical(tail) /\ At(tail.number)' = At(tail.number)
  BY <1>1 DEF Canonical, At
<1>3. tail' = tail => Known(tail)' = Known(tail)
  BY Zenon, <1>1, <1>2 DEF Known
<1>4. Forked'
  BY Zenon, <1>1, <1>2, <1>3 DEF Forked, NoTail
<1>. QED
  BY Zenon, <1>1, <1>2, <1>4 DEF BulkHeld, InWindow

\* The poller opens, and retracts a tail that was found replaced.
LEMMA OpenKeeps ==
  ASSUME SourceInv, Open
  PROVE  SourceInv'
<1>1. /\ pc = "open" /\ pc' = "pump" /\ boot' = None /\ resume' = start /\ next' = start
      /\ window' = <<>> /\ Len(window') = 0 /\ UNCHANGED givenVars
      /\ head' = head /\ invalid' = invalid /\ start' = start /\ handoff' = handoff
      /\ failures' = failures /\ skipped' = skipped /\ origin' = origin /\ bulked' = bulked
      /\ blind' = blind
  BY DEF Open
<1>2. \/ /\ invalid /\ tail' = NoTail /\ view' = Without(tail)
         /\ scanned' = scanned \ {tail.number}
      \/ ~invalid /\ tail' = tail /\ view' = view /\ scanned' = scanned
  BY DEF Open
<1>3. /\ ChainTypes /\ PlanTypes /\ HistoryTypes /\ Settled /\ NoBasis /\ Basis /\ Start
      /\ Running /\ GaplessScan /\ Forked /\ ViewHeld /\ BulkAbove /\ BulkIsFinal
  BY Zenon DEF SourceInv, ScanInv
<1>4. /\ start \in Nat /\ resume \in Int /\ None = -1 /\ tail.number \in Int
      /\ origin # None /\ origin \in Nat
      /\ \A h \in origin..start - 1 : h \in scanned \cup skipped
      /\ invalid => tail.number = start /\ tail # NoTail
      /\ ~invalid => tail.number < start /\ resume <= start
      /\ window = <<>> /\ Len(window) = 0
  <2>1. /\ start \in Nat /\ resume \in Int /\ None = -1 /\ tail.number \in Int /\ window = <<>>
        /\ \A h \in origin..start - 1 : h \in scanned \cup skipped
        /\ invalid => tail.number = start /\ tail # NoTail
        /\ ~invalid => tail.number < start /\ resume <= start
    BY <1>1, <1>3, PlanNumbers DEF Start, Planned, Running
  <2>2. origin # None /\ origin \in Nat
    BY <1>1, <1>3, <2>1, PlanNumbers DEF NoBasis, Basis
  <2>. QED
    BY <2>1, <2>2
<1>5. /\ chain' = chain /\ peak' = peak /\ deepest' = deepest /\ Tip' = Tip /\ ChainTypes'
      /\ \A h : LogOf(h)' = LogOf(h)
  BY <1>1, <1>3, SameChain
<1>6. /\ Forked' /\ BulkHeld' /\ (tail' = tail => Canonical(tail)' = Canonical(tail))
      /\ \A h : ~InWindow(h)'
  BY Zenon, <1>1, <1>2, <1>3, EmptyWindow
<1>7. tail'.number \in Int /\ tail'.number < start
  BY <1>2, <1>4 DEF NoTail
<1>8. PlanTypes' /\ Settled'
  <2>1. PlanTypes'
    BY <1>1, <1>2, <1>3 DEF PlanTypes, Pcs
  <2>. QED
    BY <1>1, <1>3, <1>5, <2>1 DEF Settled
<1>9. HistoryTypes'
  <2>1. view' \subseteq view /\ scanned' \subseteq scanned
    BY <1>2 DEF Without
  <2>2. window' \in Seq(Polled)
    BY <1>1
  <2>. QED
    BY <1>1, <1>3, <2>1, <2>2 DEF HistoryTypes
<1>10. ScanInv'
  <2>1. NoBasis' /\ Basis'
    BY <1>1, <1>4, <1>7 DEF NoBasis, Basis
  <2>2. Start' /\ Running'
    BY <1>1, <1>7 DEF Start, Planned, Running
  <2>3. GaplessScan'
    BY <1>1, <1>2, <1>4 DEF GaplessScan, Position
  <2>. QED
    BY Zenon, <2>1, <2>2, <2>3 DEF ScanInv
<1>11. /\ TailWatched <=> invalid
       /\ ~TailWatched'
       /\ \A h : ~InWindow(h) /\ ~Looked(h)'
  BY <1>1, <1>4, <1>6 DEF TailWatched, InWindow, Looked
<1>12. ViewHeld'
  <2>1. ASSUME NEW h \in scanned' \ blind'
        PROVE  /\ h <= Tip /\ Shown(h)' = LogOf(h)
               /\ h = tail'.number => tail' = tail /\ Canonical(tail)
    <3>1. h \in scanned \ blind /\ h \in Nat /\ (invalid => h # tail.number)
      BY ZenonT(40), <1>1, <1>2, <1>3, <2>1 DEF HistoryTypes
    <3>2. ~Looked(h)
      BY Zenon, <1>11, <3>1 DEF Looked
    <3>3. h <= Tip /\ Shown(h) = LogOf(h) /\ (h = tail.number => Canonical(tail))
      BY Zenon, <1>3, <3>1, <3>2 DEF ViewHeld
    <3>4. Shown(h)' = Shown(h)
      BY <1>2, <3>1 DEF Shown, Without
    <3>5. h = tail'.number => tail' = tail
      BY <1>2, <3>1 DEF NoTail, None
    <3>. QED
      BY Zenon, <3>3, <3>4, <3>5
  <2>2. ASSUME NEW l \in view' PROVE l.number \in scanned' \cup blind'
    <3>1. l \in view /\ l.number \in scanned \cup blind
      BY <1>2, <1>3, <2>2 DEF ViewHeld, Without
    <3>2. CASE invalid /\ l.number = tail.number
      <4>1. l \in Shown(tail.number) /\ l # tail
        BY <1>2, <2>2, <3>1, <3>2 DEF Shown, Without
      <4>2. tail.number \in scanned \ blind => Shown(tail.number) = {tail}
        BY Zenon, <1>3, <1>11, <3>2 DEF ViewHeld
      <4>. QED
        BY <1>1, <3>1, <3>2, <4>1, <4>2
    <3>. QED
      BY <1>1, <1>2, <3>1, <3>2
  <2>3. \A i \in 1..Len(window') : FALSE
    BY <1>1
  <2>. QED
    BY Zenon, <1>5, <1>6, <1>11, <2>1, <2>2, <2>3 DEF ViewHeld
<1>13. BulkAbove'
  <2>1. \A i \in 1..Len(window') : FALSE
    BY <1>1
  <2>2. \A l \in view : l.number \in Nat
    BY <1>3 DEF HistoryTypes, Log
  <2>3. CASE invalid
    <3>1. ASSUME NEW l \in view', l.number >= start PROVE l.number \in bulked
      <4>1. l \in view /\ l # tail /\ l.number >= tail.number
        BY <1>2, <1>4, <2>3, <3>1 DEF Without
      <4>. QED
        BY Zenon, <1>3, <1>4, <2>3, <4>1 DEF BulkAbove
    <3>. QED
      BY Zenon, <1>1, <1>2, <2>1, <2>3, <3>1 DEF BulkAbove, NoTail
  <2>4. CASE ~invalid
    <3>1. \A l \in view : l.number >= start => l.number >= resume
      BY <1>4, <2>2, <2>4
    <3>. QED
      BY Zenon, <1>1, <1>2, <1>3, <2>1, <2>4, <3>1 DEF BulkAbove, NoTail
  <2>. QED
    BY <2>3, <2>4
<1>14. BulkIsFinal'
  BY <1>1, <1>3, <1>5 DEF BulkIsFinal
<1>. QED
  BY Zenon, <1>5, <1>6, <1>8, <1>9, <1>10, <1>12, <1>13, <1>14 DEF SourceInv

\* A poller is open: it looks at its window and nothing else.
LEMMA InPump ==
  ASSUME SourceInv, pc = "pump"
  PROVE  /\ next \in Nat /\ resume = next /\ boot = None /\ None = -1
         /\ tail.number \in Int /\ tail.number < next
         /\ origin # None /\ origin \in Nat
         /\ \A h \in origin..next - 1 : h \in scanned \cup skipped
         /\ \A h \in scanned \ blind : ~InWindow(h) =>
              h <= Tip /\ Shown(h) = LogOf(h) /\ (h = tail.number => Canonical(tail))
<1>1. /\ PlanTypes /\ HistoryTypes /\ Basis /\ Running /\ GaplessScan /\ ViewHeld
  BY Zenon DEF SourceInv, ScanInv
<1>2. /\ next \in Nat /\ resume = next /\ None = -1 /\ tail.number \in Int /\ tail.number < next
  BY <1>1, PlanNumbers DEF Running
<1>3. boot = None /\ origin # None /\ origin \in Nat
  BY <1>1, <1>2, PlanNumbers DEF Basis
<1>4. \A h \in origin..next - 1 : h \in scanned \cup skipped
  BY <1>1, <1>2, <1>3 DEF GaplessScan, Position
<1>5. \A h : Looked(h) <=> InWindow(h)
  <2>1. ~TailWatched
    BY DEF TailWatched
  <2>. QED
    BY Zenon, <2>1 DEF Looked
<1>6. \A h \in scanned \ blind : ~InWindow(h) =>
        h <= Tip /\ Shown(h) = LogOf(h) /\ (h = tail.number => Canonical(tail))
  BY Zenon, <1>1, <1>5 DEF ViewHeld
<1>. QED
  BY <1>2, <1>3, <1>4, <1>6

\* The view of a canonical block of the window, and of the tail, is the chain's.
LEMMA CanonicalView ==
  ASSUME ChainTypes, PlanTypes, HistoryTypes, Forked
  PROVE  /\ \A i \in 1..Len(window) : Canonical(window[i]) =>
              /\ window[i].number <= Tip /\ LogsOf(window[i]) = LogOf(window[i].number)
              /\ window[i].number = tail.number => Canonical(tail)
         /\ \A i \in 1..Len(window) :
              window[i].number = tail.number => LogsOf(window[i]) = {tail}
         /\ tail # NoTail /\ Canonical(tail) => LogOf(tail.number) = {tail}
<1>1. ASSUME NEW i \in 1..Len(window), Canonical(window[i])
      PROVE  /\ window[i].number <= Tip /\ LogsOf(window[i]) = LogOf(window[i].number)
             /\ window[i].number = tail.number => Canonical(tail)
  <2>1. /\ window[i].number \in 0..Tip /\ At(window[i].number).fork = window[i].fork
        /\ Tip \in Nat /\ At(window[i].number).logs = window[i].logs
        /\ window[i].number = tail.number => window[i].fork = tail.fork
    BY Zenon, <1>1, ChainFacts DEF Canonical, Forked
  <2>. QED
    BY <2>1 DEF LogsOf, LogOf, Canonical
<1>2. tail # NoTail => tail = [number |-> tail.number, fork |-> tail.fork]
  BY DEF PlanTypes, Log
<1>3. ASSUME NEW i \in 1..Len(window), window[i].number = tail.number
      PROVE  LogsOf(window[i]) = {tail}
  <2>1. tail # NoTail /\ window[i].fork = tail.fork /\ window[i].logs
    BY Zenon, <1>3, Remembered DEF Forked
  <2>. QED
    BY Zenon, <1>2, <1>3, <2>1 DEF LogsOf
<1>4. ASSUME tail # NoTail, Canonical(tail) PROVE LogOf(tail.number) = {tail}
  <2>1. At(tail.number).logs /\ At(tail.number).fork = tail.fork
    BY Zenon, <1>4 DEF Forked, Canonical
  <2>. QED
    BY Zenon, <1>2, <1>4, <2>1 DEF LogOf
<1>. QED
  BY Zenon, <1>1, <1>3, <1>4

\* The stream ends with some of its blocks not withdrawn.
LEMMA PumpEndsKeeps ==
  ASSUME SourceInv, PumpEnds
  PROVE  SourceInv'
<1>. DEFINE gone == {i \in 1..Len(window) : ~Canonical(window[i])}
<1>1. /\ pc = "pump" /\ pc' = "head" /\ window' = <<>> /\ Len(window') = 0 /\ invalid' = FALSE
      /\ blind' = blind \cup ({window[i].number : i \in gone} \ {tail.number})
      /\ UNCHANGED givenVars /\ head' = head /\ boot' = boot /\ resume' = resume /\ tail' = tail
      /\ start' = start /\ handoff' = handoff /\ next' = next /\ failures' = failures
      /\ view' = view /\ scanned' = scanned /\ skipped' = skipped /\ origin' = origin
      /\ bulked' = bulked
  BY DEF PumpEnds
<1>2. /\ ChainTypes /\ PlanTypes /\ HistoryTypes /\ Settled /\ NoBasis /\ Basis /\ Running
      /\ GaplessScan /\ Forked /\ ViewHeld /\ BulkAbove /\ BulkHeld /\ BulkIsFinal
  BY Zenon DEF SourceInv, ScanInv
<1>3. /\ next \in Nat /\ resume = next /\ boot = None /\ None = -1 /\ tail.number \in Int
      /\ \A h \in scanned \ blind : ~InWindow(h) =>
           h <= Tip /\ Shown(h) = LogOf(h) /\ (h = tail.number => Canonical(tail))
  BY <1>1, InPump
<1>4. /\ peak' = peak /\ deepest' = deepest /\ Tip' = Tip /\ ChainTypes'
      /\ \A h : LogOf(h)' = LogOf(h)
  BY <1>1, <1>2, SameChain
<1>5. Forked' /\ BulkHeld' /\ \A h : ~InWindow(h)'
  BY Zenon, <1>1, <1>2, EmptyWindow
<1>6. PlanTypes' /\ Settled'
  <2>1. PlanTypes'
    BY ZenonT(40), <1>1, <1>2 DEF PlanTypes, Pcs
  <2>. QED
    BY <1>1, <1>2, <1>4, <2>1 DEF Settled
<1>7. HistoryTypes'
  <2>0. \A i \in gone : window[i].number \in Nat
    BY Zenon, <1>2, Remembered
  <2>1. {window[i].number : i \in gone} \subseteq Nat
    BY Zenon, <2>0
  <2>2. window' \in Seq(Polled)
    BY <1>1
  <2>3. blind' \subseteq Nat
    BY Zenon, <1>1, <1>2, <2>1 DEF HistoryTypes
  <2>. QED
    BY <1>1, <1>2, <2>2, <2>3 DEF HistoryTypes
<1>8. ScanInv'
  <2>1. NoBasis' /\ Basis'
    BY <1>1, <1>2, <1>3 DEF NoBasis, Basis
  <2>2. Start' /\ Running'
    BY Zenon, <1>1 DEF Start, Planned, Running
  <2>3. GaplessScan'
    BY <1>1, <1>2 DEF GaplessScan, Position
  <2>. QED
    BY Zenon, <2>1, <2>2, <2>3 DEF ScanInv
<1>9. TailWatched' /\ \A h : Looked(h)' <=> h = tail.number
  <2>1. TailWatched'
    BY <1>1 DEF TailWatched
  <2>. QED
    BY Zenon, <1>1, <1>5, <2>1 DEF Looked
<1>10. ViewHeld'
  <2>1. \A h : Shown(h)' = Shown(h)
    BY Zenon, <1>1 DEF Shown
  <2>2. ASSUME NEW h \in scanned' \ blind'
        PROVE  /\ h = tail.number => Shown(h) = {tail}
               /\ h # tail.number => h <= Tip /\ Shown(h) = LogOf(h)
    <3>1. h \in scanned \ blind /\ h \in Nat
      BY <1>1, <1>2, <2>2 DEF HistoryTypes
    <3>2. CASE InWindow(h)
      <4>1. PICK i \in 1..Len(window) : window[i].number = h
        BY <3>2 DEF InWindow
      <4>2. Shown(h) = LogsOf(window[i])
        BY Zenon, <1>2, <3>1, <4>1 DEF ViewHeld
      <4>3. h # tail.number => Canonical(window[i])
        BY <1>1, <2>2, <4>1
      <4>. QED
        BY Zenon, <1>2, <4>1, <4>2, <4>3, CanonicalView
    <3>3. CASE ~InWindow(h)
      <4>1. h = tail.number => tail # NoTail
        BY <1>2, <3>1, PlanNumbers
      <4>. QED
        BY Zenon, <1>2, <1>3, <3>1, <3>3, <4>1, CanonicalView
    <3>. QED
      BY Zenon, <3>2, <3>3
  <2>3. \A l \in view' : l.number \in scanned' \cup blind'
    BY <1>1, <1>2 DEF ViewHeld
  <2>4. \A i \in 1..Len(window') : FALSE
    BY <1>1
  <2>. QED
    BY Zenon, <1>1, <1>4, <1>9, <2>1, <2>2, <2>3, <2>4 DEF ViewHeld
<1>11. BulkAbove'
  <2>1. \A i \in 1..Len(window') : FALSE
    BY <1>1
  <2>. QED
    BY Zenon, <1>1, <1>2, <2>1 DEF BulkAbove, NoTail
<1>12. BulkIsFinal'
  BY <1>1, <1>2, <1>4 DEF BulkIsFinal, BulkHeld
<1>. QED
  BY Zenon, <1>4, <1>5, <1>6, <1>7, <1>8, <1>10, <1>11, <1>12 DEF SourceInv

\* The window after a step keeps blocks it had: what holds of each of them stays.
LEMMA WindowShrinks ==
  ASSUME ChainTypes, HistoryTypes, PlanTypes, Forked, UNCHANGED givenVars, tail' = tail \/ tail' = NoTail,
         Len(window') \in Nat, Len(window') <= Len(window),
         \A i \in 1..Len(window') : window'[i] = window[i]
  PROVE  /\ Forked' /\ \A i \in 1..Len(window') : Canonical(window[i])' = Canonical(window[i])
         /\ tail' = tail => Canonical(tail)' = Canonical(tail)
<1>0. /\ chain' = chain /\ forks' = forks /\ Tip' = Tip
      /\ \A i \in 1..Len(window') : i \in 1..Len(window) /\ window[i].number \in Nat
  <2>1. Len(window) \in Nat
    BY DEF HistoryTypes
  <2>. QED
    BY <2>1, SameChain, Remembered
<1>1. /\ tail' = tail => Canonical(tail)' = Canonical(tail) /\ At(tail.number)' = At(tail.number)
      /\ \A i \in 1..Len(window') : /\ Canonical(window[i])' = Canonical(window[i])
                                    /\ At(window[i].number)' = At(window[i].number)
  BY <1>0 DEF Canonical, At
<1>2. /\ tail' = tail => Known(tail)' = Known(tail)
      /\ \A i \in 1..Len(window') : Known(window[i])' = Known(window[i])
  BY <1>0, <1>1 DEF Known
<1>3. tail' # NoTail => Known(tail)' /\ (Canonical(tail)' => At(tail.number)'.logs)
  BY ZenonT(40), <1>1, <1>2 DEF Forked
<1>4. \A i \in 1..Len(window') :
        window'[i].number = tail'.number => window'[i].fork = tail'.fork /\ window'[i].logs
  BY <1>0 DEF Forked, NoTail, None
<1>5. \A i \in 1..Len(window') :
        /\ Known(window[i])'
        /\ Canonical(window[i])' => At(window[i].number)'.logs = window'[i].logs
        /\ \A j \in 1..i : Canonical(window[i])' => Canonical(window[j])'
  <2>1. \A i \in 1..Len(window') : \A j \in 1..i : j \in 1..Len(window')
    OBVIOUS
  <2>. QED
    BY Zenon, <1>0, <1>1, <1>2, <2>1 DEF Forked
<1>6. \A i \in 1..Len(chain') : chain'[i].fork <= forks'
  BY Zenon, <1>0 DEF Forked
<1>. QED
  BY Zenon, <1>1, <1>3, <1>4, <1>5, <1>6 DEF Forked, NoTail

\* A sequence without its last, and without its first, element.
LEMMA Shorter ==
  ASSUME NEW S, NEW w \in Seq(S), Len(w) >= 1
  PROVE  /\ SubSeq(w, 1, Len(w) - 1) \in Seq(S) /\ Len(SubSeq(w, 1, Len(w) - 1)) = Len(w) - 1
         /\ \A i \in 1..Len(w) - 1 : i \in 1..Len(w) /\ SubSeq(w, 1, Len(w) - 1)[i] = w[i]
         /\ SubSeq(w, 2, Len(w)) \in Seq(S) /\ Len(SubSeq(w, 2, Len(w))) = Len(w) - 1
         /\ \A i \in 1..Len(w) - 1 : i + 1 \in 1..Len(w) /\ SubSeq(w, 2, Len(w))[i] = w[i + 1]
<1>. DEFINE n == Len(w)
<1>1. n \in Nat /\ n >= 1 /\ \A i \in 1..n : w[i] \in S
  OBVIOUS
<1>. HIDE DEF n
<1>2. /\ Len(SubSeq(w, 1, n - 1)) = n - 1
      /\ \A i \in 1..n - 1 : i \in 1..n /\ SubSeq(w, 1, n - 1)[i] = w[i]
  BY <1>1
<1>3. SubSeq(w, 1, n - 1) \in Seq(S)
  BY <1>1 DEF n
<1>4. /\ Len(SubSeq(w, 2, n)) = n - 1
      /\ \A i \in 1..n - 1 : i + 1 \in 1..n /\ SubSeq(w, 2, n)[i] = w[i + 1]
  BY <1>1
<1>5. SubSeq(w, 2, n) \in Seq(S)
  BY <1>1 DEF n
<1>. QED
  BY <1>2, <1>3, <1>4, <1>5 DEF n

\* The poller withdraws its newest block, which has left the chain.
LEMMA PumpRemovedKeeps ==
  ASSUME SourceInv, PumpRemoved
  PROVE  SourceInv'
<1>. DEFINE n == Len(window)
            last == window[n]
<1>1. /\ pc = "pump" /\ pc' = "pump" /\ window # <<>>
      /\ view' = Without(last) /\ scanned' = scanned \ {last.number}
      /\ resume' = Smaller(resume, last.number) /\ next' = last.number
      /\ tail' = IF tail.number >= last.number THEN NoTail ELSE tail
      /\ window' = SubSeq(window, 1, n - 1)
      /\ UNCHANGED givenVars /\ head' = head /\ boot' = boot /\ invalid' = invalid
      /\ start' = start /\ handoff' = handoff /\ failures' = failures /\ skipped' = skipped
      /\ origin' = origin /\ bulked' = bulked /\ blind' = blind
  BY DEF PumpRemoved, Detached, BasisRolledBack
<1>2. /\ ChainTypes /\ PlanTypes /\ HistoryTypes /\ Settled /\ Running
      /\ Forked /\ ViewHeld /\ BulkAbove /\ BulkHeld /\ BulkIsFinal
  BY Zenon DEF SourceInv, ScanInv
<1>3. /\ next \in Nat /\ resume = next /\ boot = None /\ None = -1 /\ tail.number \in Int
      /\ tail.number < next /\ origin # None /\ origin \in Nat
      /\ \A h \in origin..next - 1 : h \in scanned \cup skipped
      /\ \A h \in scanned \ blind : ~InWindow(h) =>
           h <= Tip /\ Shown(h) = LogOf(h) /\ (h = tail.number => Canonical(tail))
  BY <1>1, InPump
<1>4. n \in Nat /\ n >= 1 /\ n \in 1..n
  BY <1>1, <1>2 DEF HistoryTypes
<1>5. last.number \in Nat /\ last.number = next - 1 /\ last.fork \in Nat
  <2>1. last.number \in Nat /\ last.fork \in Nat
    BY Zenon, <1>2, <1>4, Remembered
  <2>2. last.number + n - n + 1 = next
    BY Zenon, <1>1, <1>2, <1>4 DEF Running
  <2>. QED
    BY <1>3, <1>4, <2>1, <2>2
<1>6. /\ Len(window') = n - 1 /\ window' \in Seq(Polled)
      /\ \A i \in 1..n - 1 : i \in 1..n /\ window'[i] = window[i] /\ window[i].number # last.number
  <2>1. /\ Len(window') = n - 1 /\ window' \in Seq(Polled)
        /\ \A i \in 1..n - 1 : i \in 1..n /\ window'[i] = window[i]
    BY <1>1, <1>2, <1>4, Shorter DEF HistoryTypes
  <2>2. \A i \in 1..n - 1 : i # n /\ i \in 1..n
    BY <1>4
  <2>3. \A j \in 1..n : window[j].number = last.number => j = n
    BY Zenon, <1>2, <1>4, Ascending
  <2>. QED
    BY Zenon, <2>1, <2>2, <2>3
<1>7. /\ peak' = peak /\ deepest' = deepest /\ Tip' = Tip /\ ChainTypes'
      /\ \A h : LogOf(h)' = LogOf(h)
  BY <1>1, <1>2, SameChain
<1>8. /\ Forked' /\ \A i \in 1..n - 1 : Canonical(window[i])' = Canonical(window[i])
      /\ tail' = tail => Canonical(tail)' = Canonical(tail)
  <2>1. Len(window') \in Nat /\ Len(window') <= n
    BY <1>4, <1>6
  <2>2. tail' = tail \/ tail' = NoTail
    BY <1>1
  <2>. QED
    BY <1>1, <1>2, <1>6, <2>1, <2>2, WindowShrinks
<1>9. resume' = last.number /\ tail'.number \in Int /\ tail'.number < last.number
  BY <1>1, <1>3, <1>5 DEF Smaller, NoTail
<1>. HIDE DEF n, last
<1>10. PlanTypes' /\ Settled'
  <2>1. PlanTypes'
    BY <1>1, <1>2, <1>5, <1>9 DEF PlanTypes
  <2>. QED
    BY <1>1, <1>2, <1>7, <2>1 DEF Settled
<1>11. HistoryTypes'
  <2>1. view' \subseteq view /\ scanned' \subseteq scanned
    BY <1>1 DEF Without
  <2>. QED
    BY ZenonT(40), <1>1, <1>2, <1>6, <2>1 DEF HistoryTypes
<1>12. ScanInv'
  <2>1. NoBasis' /\ Basis'
    BY <1>1, <1>3, <1>5, <1>9 DEF NoBasis, Basis
  <2>2. \A i \in 1..Len(window') : window'[i].number + Len(window') - i + 1 = next'
    <3>1. \A i \in 1..n - 1 : window[i].number \in Nat /\ window[i].number + n - i + 1 = next
      BY Zenon, <1>1, <1>2, <1>6, Remembered DEF Running, n
    <3>2. \A i \in 1..n - 1 : window[i].number + (n - 1) - i + 1 = next - 1
      BY <1>3, <1>4, <3>1
    <3>3. next' = next - 1
      BY <1>1, <1>5
    <3>. QED
      BY Zenon, <1>6, <3>2, <3>3
  <2>3. Start' /\ Running'
    BY Zenon, <1>1, <1>9, <2>2 DEF Start, Planned, Running
  <2>4. GaplessScan'
    BY <1>1, <1>3, <1>5, <1>9 DEF GaplessScan, Position
  <2>. QED
    BY Zenon, <2>1, <2>3, <2>4 DEF ScanInv
<1>13. ~TailWatched' /\ \A h : Looked(h)' <=> InWindow(h)'
  <2>1. ~TailWatched'
    BY <1>1 DEF TailWatched
  <2>. QED
    BY Zenon, <2>1 DEF Looked
<1>14. ViewHeld'
  <2>1. ASSUME NEW h, h # last.number
        PROVE  Shown(h)' = Shown(h) /\ (InWindow(h)' <=> InWindow(h))
    <3>1. Shown(h)' = Shown(h)
      BY <1>1, <2>1 DEF Shown, Without
    <3>2. InWindow(h)' => InWindow(h)
      BY Zenon, <1>6 DEF InWindow, n
    <3>3. ASSUME NEW i \in 1..n, window[i].number = h PROVE i \in 1..n - 1
      BY <1>4, <2>1, <3>3 DEF last
    <3>4. InWindow(h) => InWindow(h)'
      BY Zenon, <1>6, <3>3 DEF InWindow, n
    <3>. QED
      BY <3>1, <3>2, <3>4
  <2>2. ASSUME NEW h \in scanned' \ blind'
        PROVE  /\ \A i \in 1..Len(window') : window'[i].number = h => Shown(h)' = LogsOf(window[i])'
               /\ ~InWindow(h)' => /\ h <= Tip /\ Shown(h)' = LogOf(h)
                                   /\ h = tail'.number => Canonical(tail)'
    <3>1. h \in scanned \ blind /\ h # last.number /\ h \in Nat
      BY <1>1, <1>2, <2>2 DEF HistoryTypes
    <3>2. Shown(h)' = Shown(h) /\ (InWindow(h)' <=> InWindow(h))
      BY Zenon, <2>1, <3>1
    <3>3. ASSUME NEW i \in 1..n - 1, window[i].number = h PROVE Shown(h)' = LogsOf(window[i])'
      <4>1. LogsOf(window[i])' = LogsOf(window[i])
        BY Zenon, <1>6 DEF LogsOf
      <4>. QED
        BY Zenon, <1>2, <1>6, <3>1, <3>2, <3>3, <4>1 DEF ViewHeld, n
    <3>4. h = tail'.number => tail' = tail
      BY <1>1, <3>1 DEF NoTail, None
    <3>. QED
      BY Zenon, <1>3, <1>6, <1>8, <3>1, <3>2, <3>3, <3>4
  <2>3. ASSUME NEW l \in view' PROVE l.number \in scanned' \cup blind'
    <3>1. l \in view /\ l.number \in scanned \cup blind /\ (l.number # last.number \/ l.fork # last.fork)
      BY ZenonT(40), <1>1, <1>2, <2>3 DEF ViewHeld, Without
    <3>2. CASE l.number = last.number
      <4>1. last.number \in scanned \ blind => Shown(last.number) = LogsOf(last)
        BY Zenon, <1>2, <1>4 DEF ViewHeld, n, last
      <4>2. l \in Shown(last.number)
        BY <3>1, <3>2 DEF Shown
      <4>3. \A m \in LogsOf(last) : m.fork = last.fork
        BY DEF LogsOf
      <4>. QED
        BY <1>1, <3>1, <3>2, <4>1, <4>2, <4>3
    <3>. QED
      BY <1>1, <3>1, <3>2
  <2>. QED
    BY Zenon, <1>7, <1>13, <2>2, <2>3 DEF ViewHeld
<1>15. BulkAbove'
  <2>1. ASSUME NEW l \in view'
        PROVE  IF tail' = NoTail THEN l.number >= resume' => l.number \in bulked'
               ELSE l.number >= tail'.number => l = tail' \/ l.number \in bulked'
    <3>1. l \in view /\ l.number \in Nat /\ (l.number # last.number \/ l.fork # last.fork)
      BY <1>1, <1>2, <2>1 DEF Without, HistoryTypes, Log
    <3>2. CASE tail' = tail /\ tail # NoTail
      BY Zenon, <1>1, <1>2, <3>1, <3>2 DEF BulkAbove
    <3>3. ASSUME tail' = NoTail, l.number >= last.number PROVE l.number \in bulked
      <4>1. CASE l.number = last.number
        BY Zenon, <1>2, <1>4, <3>1, <4>1 DEF BulkAbove, n, last
      <4>2. CASE l.number # last.number
        <5>1. l.number >= next /\ l.number > tail.number
          BY <1>3, <1>5, <3>1, <3>3, <4>2
        <5>2. l.number >= tail.number /\ l # tail
          BY <1>3, <3>1, <5>1
        <5>. QED
          BY Zenon, <1>2, <1>3, <3>1, <5>1, <5>2 DEF BulkAbove
      <4>. QED
        BY <4>1, <4>2
    <3>. QED
      BY Zenon, <1>1, <1>9, <3>2, <3>3
  <2>2. ASSUME NEW i \in 1..Len(window'), NEW l \in view', l.number = window'[i].number
        PROVE  l.fork = window'[i].fork \/ l.number \in bulked'
    <3>1. l \in view /\ i \in 1..n /\ window'[i] = window[i]
      BY Zenon, <1>1, <1>6, <2>2 DEF Without
    <3>. QED
      BY Zenon, <1>1, <1>2, <2>2, <3>1 DEF BulkAbove, n
  <2>. QED
    BY Zenon, <2>1, <2>2 DEF BulkAbove, NoTail
<1>16. BulkHeld' /\ BulkIsFinal'
  <2>1. BulkHeld'
    BY Zenon, <1>1, <1>2, <1>6, <1>7, <1>8 DEF BulkHeld, n
  <2>. QED
    BY <1>1, <1>2, <1>7, <2>1 DEF BulkIsFinal
<1>. QED
  BY Zenon, <1>7, <1>8, <1>10, <1>11, <1>12, <1>14, <1>15, <1>16 DEF SourceInv

\* The block a batch adds, and the window with it: without its oldest block, which
\* is k = 1, when it is full.
Added == [number |-> next, fork |-> At(next).fork, logs |-> At(next).logs]

\* The poller's window with a block more, its oldest one dropped when it is
\* full.
LEMMA WindowGrows ==
  ASSUME ChainTypes, HistoryTypes, next \in 0..Tip, window' = Retain(Append(window, Added))
  PROVE  \E k \in {0, 1} :
           /\ window' \in Seq(Polled) /\ Len(window') = Len(window) + 1 - k
           /\ \A i \in 1..Len(window') :
                \/ i + k \in 1..Len(window) /\ window'[i] = window[i + k]
                \/ i + k = Len(window) + 1 /\ window'[i] = Added
<1>. DEFINE w == Append(window, Added)
<1>1. Added \in Polled
  <2>1. next \in Nat /\ At(next).fork \in Nat /\ At(next).logs \in BOOLEAN
    BY ChainFacts
  <2>. QED
    BY <2>1 DEF Added, Polled
<1>2. /\ w \in Seq(Polled) /\ Len(window) \in Nat /\ Len(w) = Len(window) + 1
      /\ \A i \in 1..Len(w) : \/ i \in 1..Len(window) /\ w[i] = window[i]
                              \/ i = Len(window) + 1 /\ w[i] = Added
  <2>1. window \in Seq(Polled)
    BY DEF HistoryTypes
  <2>. QED
    BY <1>1, <2>1
<1>3. window' = IF Len(w) > Depth THEN SubSeq(w, 2, Len(w)) ELSE w
  BY DEF Retain
<1>. HIDE DEF w
<1>4. CASE window' = w
  <2>1. \A i \in 1..Len(w) : i + 0 = i
    BY <1>2
  <2>. QED
    BY <1>2, <1>4, <2>1
<1>5. CASE window' = SubSeq(w, 2, Len(w))
  <2>1. /\ window' \in Seq(Polled) /\ Len(window') = Len(window)
        /\ \A i \in 1..Len(window) : i + 1 \in 1..Len(w) /\ window'[i] = w[i + 1]
    BY <1>2, <1>5, Shorter
  <2>. QED
    BY <1>2, <2>1
<1>. QED
  BY Zenon, <1>3, <1>4, <1>5

\* The poller delivers the next block.
LEMMA PumpAddedKeeps ==
  ASSUME SourceInv, PumpAdded
  PROVE  SourceInv'
<1>. DEFINE n == Len(window)
            kept == At(next).logs
<1>1. /\ pc = "pump" /\ pc' = "pump" /\ ~Detached /\ next <= Tip
      /\ window' = Retain(Append(window, Added))
      /\ view' = view \cup LogOf(next) /\ scanned' = scanned \cup {next}
      /\ blind' = blind \ Healed({next})
      /\ resume' = Larger(resume, next + 1) /\ next' = next + 1
      /\ tail' = IF kept THEN [number |-> next, fork |-> At(next).fork] ELSE tail
      /\ UNCHANGED givenVars /\ head' = head /\ boot' = boot /\ invalid' = invalid
      /\ start' = start /\ handoff' = handoff /\ failures' = failures /\ skipped' = skipped
      /\ origin' = origin /\ bulked' = bulked
  BY DEF PumpAdded, BasisAfter, Added
<1>2. /\ ChainTypes /\ PlanTypes /\ HistoryTypes /\ Settled /\ Running
      /\ Forked /\ ViewHeld /\ BulkAbove /\ BulkHeld /\ BulkIsFinal
  BY Zenon DEF SourceInv, ScanInv
<1>3. /\ next \in Nat /\ resume = next /\ boot = None /\ None = -1 /\ tail.number \in Int
      /\ tail.number < next /\ origin # None /\ origin \in Nat
      /\ \A h \in origin..next - 1 : h \in scanned \cup skipped
      /\ \A h \in scanned \ blind : ~InWindow(h) =>
           h <= Tip /\ Shown(h) = LogOf(h) /\ (h = tail.number => Canonical(tail))
  BY <1>1, InPump
<1>4. /\ Tip \in Nat /\ next \in 0..Tip /\ At(next).fork \in Nat /\ At(next).logs \in BOOLEAN
      /\ peak' = peak /\ deepest' = deepest /\ forks' = forks /\ chain' = chain /\ Tip' = Tip
      /\ ChainTypes' /\ \A h : LogOf(h)' = LogOf(h)
  BY <1>1, <1>2, <1>3, ChainFacts, SameChain
<1>5. PICK k \in {0, 1} :
        /\ window' \in Seq(Polled) /\ Len(window') = n + 1 - k
        /\ \A i \in 1..Len(window') : \/ i + k \in 1..n /\ window'[i] = window[i + k]
                                      \/ i + k = n + 1 /\ window'[i] = Added
  BY Zenon, <1>1, <1>2, <1>4, WindowGrows
<1>6. n \in Nat /\ \A i \in 1..n : /\ window[i].number \in Nat /\ window[i].number < next
                                   /\ window[i].number + n - i + 1 = next
  BY Zenon, <1>1, <1>2, Ascending, Remembered DEF Running
<1>7. \A i \in 1..n : Canonical(window[i])
  <2>1. CASE n = 0
    BY <2>1
  <2>2. CASE n # 0
    <3>1. n \in 1..n /\ window # <<>>
      BY <1>6, <2>2
    <3>2. Canonical(window[n])
      BY Zenon, <1>1, <3>1 DEF Detached
    <3>. QED
      BY Zenon, <1>2, <3>1, <3>2 DEF Forked
  <2>. QED
    BY <2>1, <2>2
<1>8. /\ Added.number = next /\ Added.fork = At(next).fork /\ Added.logs = kept
      /\ Canonical(Added) /\ LogsOf(Added) = LogOf(next)
  BY ZenonT(40), <1>4 DEF Added, Canonical, LogsOf, LogOf
<1>9. tail'.number \in Int /\ tail'.number < next + 1
  BY <1>1, <1>3
<1>10. resume' = next + 1
  BY <1>1, <1>3 DEF Larger
<1>. HIDE DEF n
<1>11. PlanTypes' /\ Settled'
  <2>1. [number |-> next, fork |-> At(next).fork] \in Log
    BY Zenon, <1>3, <1>4 DEF Log
  <2>2. tail' \in Log \cup {NoTail}
    BY Zenon, <1>1, <1>2, <2>1 DEF PlanTypes
  <2>3. PlanTypes'
    BY <1>1, <1>2, <1>3, <1>10, <2>2 DEF PlanTypes
  <2>. QED
    BY <1>1, <1>2, <1>4, <2>3 DEF Settled
<1>12. HistoryTypes'
  <2>1. view' \subseteq Log
    BY Zenon, <1>1, <1>2, <1>4, LogFacts DEF HistoryTypes
  <2>2. scanned' \subseteq Nat /\ blind' \subseteq Nat
    BY Zenon, <1>1, <1>2, <1>3 DEF HistoryTypes
  <2>. QED
    BY Zenon, <1>1, <1>2, <1>5, <2>1, <2>2 DEF HistoryTypes
<1>13. ScanInv'
  <2>1. NoBasis' /\ Basis'
    BY <1>1, <1>3, <1>9, <1>10 DEF NoBasis, Basis
  <2>2. \A i \in 1..Len(window') : window'[i].number + Len(window') - i + 1 = next'
    <3>. SUFFICES ASSUME NEW i \in 1..Len(window')
                  PROVE  window'[i].number + Len(window') - i + 1 = next'
      OBVIOUS
    <3>0. i \in Int /\ k \in Int /\ Len(window') = n + 1 - k /\ next' = next + 1
      BY <1>1, <1>5, <1>6
    <3>1. CASE i + k \in 1..n /\ window'[i] = window[i + k]
      <4>1. window'[i].number \in Nat /\ window'[i].number + n - (i + k) + 1 = next
        BY Zenon, <1>6, <3>1
      <4>. QED
        BY <1>3, <1>6, <3>0, <4>1
    <3>2. CASE i + k = n + 1 /\ window'[i] = Added
      BY <1>3, <1>6, <1>8, <3>0, <3>2
    <3>. QED
      BY Zenon, <1>5, <3>1, <3>2
  <2>3. Start' /\ Running'
    BY ZenonT(40), <1>1, <1>9, <1>10, <2>2 DEF Start, Planned, Running
  <2>4. GaplessScan'
    BY <1>1, <1>3, <1>10 DEF GaplessScan, Position
  <2>. QED
    BY Zenon, <2>1, <2>3, <2>4 DEF ScanInv
<1>14. /\ \A i \in 1..Len(window') :
            /\ window'[i].number \in Nat /\ window'[i].fork \in Nat
            /\ Canonical(window'[i]) /\ window'[i].fork <= forks
            /\ At(window'[i].number).logs = window'[i].logs
       /\ tail' # NoTail /\ tail'.number = next => Canonical(tail') /\ kept /\ tail'.fork = Added.fork
       /\ tail'.number # next => tail' = tail
  <2>1. Added.fork <= forks
    BY <1>2, <1>4, <1>8, ChainFacts DEF Forked
  <2>2. \A i \in 1..n : /\ window[i].number \in Nat /\ window[i].fork \in Nat
                         /\ window[i].fork <= forks
                         /\ At(window[i].number).logs = window[i].logs
    BY Zenon, <1>2, <1>7, Remembered DEF Forked, Known, n
  <2>3. tail'.number = next => Canonical(tail') /\ kept /\ tail'.fork = Added.fork
    BY <1>1, <1>3, <1>4, <1>8 DEF Canonical
  <2>4. tail'.number # next => tail' = tail
    BY <1>1
  <2>. QED
    BY Zenon, <1>3, <1>4, <1>5, <1>7, <1>8, <2>1, <2>2, <2>3, <2>4 DEF n
<1>15. /\ \A i \in 1..Len(window') : Canonical(window[i])' <=> Canonical(window'[i])
       /\ Canonical(tail)' <=> Canonical(tail')
       /\ \A h : At(h)' = At(h)
  <2>1. \A h : At(h)' = At(h)
    BY <1>4 DEF At
  <2>. QED
    BY Zenon, <1>4, <2>1 DEF Canonical
<1>16. Forked'
  <2>1. \A i \in 1..Len(chain') : chain'[i].fork <= forks'
    BY Zenon, <1>2, <1>4 DEF Forked
  <2>2. \A i \in 1..Len(window') : /\ Known(window[i])' /\ Canonical(window[i])'
                                   /\ At(window[i].number)'.logs = window'[i].logs
    BY Zenon, <1>4, <1>14, <1>15 DEF Known
  <2>3. \A i \in 1..Len(window') : \A j \in 1..i : j \in 1..Len(window')
    BY <1>5, <1>6
  <2>4. tail' # NoTail => Known(tail)' /\ (Canonical(tail)' => At(tail.number)'.logs)
    <3>1. CASE tail'.number = next
      <4>1. Added.fork <= forks
        BY <1>2, <1>4, <1>8, ChainFacts DEF Forked
      <4>. QED
        BY Zenon, <1>4, <1>14, <1>15, <3>1, <4>1 DEF Known
    <3>2. CASE tail'.number # next
      BY Zenon, <1>2, <1>4, <1>14, <1>15, <3>2 DEF Known, Forked
    <3>. QED
      BY <3>1, <3>2
  <2>5. ASSUME NEW i \in 1..Len(window'), window'[i].number = tail'.number
        PROVE  window'[i].fork = tail'.fork /\ window'[i].logs
    <3>0. tail' # NoTail
      BY <1>3, <1>14, <2>5 DEF NoTail
    <3>1. CASE i + k \in 1..n /\ window'[i] = window[i + k]
      <4>1. tail'.number # next
        BY <1>3, <1>6, <2>5, <3>1
      <4>. QED
        BY Zenon, <1>2, <1>14, <2>5, <3>1, <4>1 DEF Forked, n
    <3>2. CASE window'[i] = Added
      BY Zenon, <1>8, <1>14, <2>5, <3>0, <3>2
    <3>. QED
      BY Zenon, <1>5, <3>1, <3>2
  <2>. QED
    BY Zenon, <2>1, <2>2, <2>3, <2>4, <2>5 DEF Forked, NoTail
<1>17. \A l \in view : l.number \in Nat /\ (l.number >= next => l.number \in bulked)
  <2>. SUFFICES ASSUME NEW l \in view PROVE l.number \in Nat /\ (l.number >= next => l.number \in bulked)
    OBVIOUS
  <2>1. l.number \in Nat
    BY <1>2 DEF HistoryTypes, Log
  <2>2. l.number >= next => l.number >= resume /\ l.number >= tail.number /\ l # tail
    BY <1>3, <2>1
  <2>. QED
    BY Zenon, <1>2, <2>1, <2>2 DEF BulkAbove
<1>18. \A l \in LogOf(next) : kept /\ l = [number |-> next, fork |-> Added.fork]
  BY Zenon, <1>8 DEF LogOf
<1>19. BulkAbove'
  <2>1. ASSUME NEW l \in view'
        PROVE  IF tail' = NoTail THEN l.number >= resume' => l.number \in bulked'
               ELSE l.number >= tail'.number => l = tail' \/ l.number \in bulked'
    <3>1. CASE l \in LogOf(next)
      <4>1. kept /\ l = [number |-> next, fork |-> Added.fork]
        BY Zenon, <1>18, <3>1
      <4>2. tail' = l /\ tail' # NoTail
        BY <1>1, <1>3, <1>8, <4>1 DEF NoTail
      <4>. QED
        BY Zenon, <4>2
    <3>2. CASE l \in view /\ tail'.number = next
      <4>1. tail' # NoTail
        BY <1>3, <3>2 DEF NoTail
      <4>. QED
        BY Zenon, <1>1, <1>17, <3>2, <4>1
    <3>3. CASE l \in view /\ tail'.number # next
      <4>1. l.number >= resume' => l.number >= next
        BY <1>3, <1>10, <1>17, <3>3
      <4>. QED
        BY Zenon, <1>1, <1>2, <1>14, <1>17, <3>3, <4>1 DEF BulkAbove
    <3>. QED
      BY Zenon, <1>1, <3>1, <3>2, <3>3
  <2>2. ASSUME NEW i \in 1..Len(window'), NEW l \in view', l.number = window'[i].number
        PROVE  l.fork = window'[i].fork \/ l.number \in bulked'
    <3>1. CASE i + k \in 1..n /\ window'[i] = window[i + k]
      <4>1. l.number # next
        BY <1>3, <1>6, <2>2, <3>1
      <4>2. l \in view
        BY <1>1, <1>18, <4>1
      <4>. QED
        BY Zenon, <1>1, <1>2, <2>2, <3>1, <4>2 DEF BulkAbove, n
    <3>2. CASE window'[i] = Added
      <4>1. l.number = next
        BY <1>8, <2>2, <3>2
      <4>2. l \in view => l.number \in bulked
        BY <1>3, <1>17, <4>1
      <4>. QED
        BY <1>1, <1>18, <3>2, <4>2
    <3>. QED
      BY Zenon, <1>5, <3>1, <3>2
  <2>. QED
    BY Zenon, <2>1, <2>2 DEF BulkAbove, NoTail
<1>20. BulkHeld' /\ BulkIsFinal'
  <2>1. BulkHeld'
    BY Zenon, <1>14, <1>15 DEF BulkHeld
  <2>2. blind' \subseteq blind
    BY <1>1
  <2>. QED
    BY <1>1, <1>2, <1>4, <2>1, <2>2 DEF BulkIsFinal
<1>21. ~TailWatched' /\ \A h : Looked(h)' <=> InWindow(h)'
  <2>1. ~TailWatched'
    BY <1>1 DEF TailWatched
  <2>. QED
    BY Zenon, <2>1 DEF Looked
<1>22. ASSUME NEW h \in scanned' \ blind', h = next PROVE Shown(h)' = LogOf(next)
  <2>1. \A l \in view : l.number = next => l \in LogOf(next)
    <3>1. CASE next \in blind
      BY <1>1, <1>22, <3>1 DEF Healed
    <3>2. CASE next \in scanned \ blind
      <4>1. ~InWindow(next)
        BY <1>3, <1>6 DEF InWindow, n
      <4>2. Shown(next) = LogOf(next)
        BY Zenon, <1>3, <3>2, <4>1
      <4>. QED
        BY <4>2 DEF Shown
    <3>3. CASE next \notin scanned \cup blind
      BY <1>2, <3>3 DEF ViewHeld
    <3>. QED
      BY <3>1, <3>2, <3>3
  <2>2. ASSUME NEW l PROVE l \in Shown(h)' <=> l \in LogOf(next)
    BY <1>1, <1>18, <1>22, <2>1 DEF Shown
  <2>. QED
    BY Zenon, <2>2
<1>23. ASSUME NEW h \in scanned' \ blind', h # next
       PROVE  /\ h \in scanned \ blind /\ h \in Nat /\ Shown(h)' = Shown(h)
              /\ InWindow(h)' => InWindow(h)
  <2>1. h \in scanned \ blind /\ h \in Nat
    BY <1>1, <1>2, <1>23 DEF HistoryTypes, Healed
  <2>2. ASSUME NEW l PROVE l \in Shown(h)' <=> l \in Shown(h)
    BY <1>1, <1>18, <1>23 DEF Shown
  <2>3. InWindow(h)' => InWindow(h)
    BY Zenon, <1>5, <1>8, <1>23 DEF InWindow, n
  <2>. QED
    BY Zenon, <2>1, <2>2, <2>3
<1>24. ViewHeld'
  <2>1. ASSUME NEW l \in view' PROVE l.number \in scanned' \cup blind'
    <3>1. CASE l \in LogOf(next)
      BY <1>1, <1>18, <3>1
    <3>2. CASE l \in view
      BY Zenon, <1>1, <1>2, <3>2 DEF ViewHeld, Healed
    <3>. QED
      BY <1>1, <3>1, <3>2
  <2>2. ASSUME NEW h \in scanned' \ blind', NEW i \in 1..Len(window'), window'[i].number = h
        PROVE  Shown(h)' = LogsOf(window[i])'
    <3>0. LogsOf(window[i])' = LogsOf(window'[i])
      BY Zenon DEF LogsOf
    <3>1. CASE i + k \in 1..n /\ window'[i] = window[i + k]
      <4>1. h # next
        BY <1>3, <1>6, <2>2, <3>1
      <4>. QED
        BY Zenon, <1>2, <1>23, <2>2, <3>0, <3>1, <4>1 DEF ViewHeld, n
    <3>2. CASE window'[i] = Added
      BY Zenon, <1>8, <1>22, <2>2, <3>0, <3>2
    <3>. QED
      BY Zenon, <1>5, <3>1, <3>2
  <2>3. ASSUME NEW h \in scanned' \ blind', ~InWindow(h)'
        PROVE  h <= Tip /\ Shown(h)' = LogOf(h) /\ (h = tail'.number => Canonical(tail)')
    <3>1. CASE h = next
      <4>1. h = tail'.number => tail' # NoTail
        BY <1>3, <3>1 DEF NoTail
      <4>. QED
        BY Zenon, <1>1, <1>14, <1>15, <1>22, <2>3, <3>1, <4>1
    <3>2. CASE h # next
      <4>1. h \in scanned \ blind /\ Shown(h)' = Shown(h) /\ (h = tail'.number => tail' = tail)
        BY Zenon, <1>14, <1>23, <2>3, <3>2
      <4>2. h <= Tip /\ Shown(h) = LogOf(h) /\ (h = tail.number => Canonical(tail))
        <5>1. CASE ~InWindow(h)
          BY Zenon, <1>3, <4>1, <5>1
        <5>2. ASSUME NEW i \in 1..n, window[i].number = h
              PROVE  h <= Tip /\ Shown(h) = LogOf(h) /\ (h = tail.number => Canonical(tail))
          BY Zenon, <1>2, <1>7, <4>1, <5>2, CanonicalView DEF ViewHeld, n
        <5>. QED
          BY Zenon, <5>1, <5>2 DEF InWindow, n
      <4>. QED
        BY Zenon, <1>15, <4>1, <4>2
    <3>. QED
      BY <3>1, <3>2
  <2>. QED
    BY Zenon, <1>4, <1>21, <2>1, <2>2, <2>3 DEF ViewHeld
<1>. QED
  BY Zenon, <1>4, <1>11, <1>12, <1>13, <1>16, <1>19, <1>20, <1>24 DEF SourceInv

-----------------------------------------------------------------------------
(* Every run. *)

\* A source begins with nothing delivered and nothing planned.
LEMMA SourceStarts ==
  ASSUME SourceInit
  PROVE  SourceInv
<1>0. None = -1 /\ MaxHead \in Nat /\ Depth \in Nat /\ NoTail.number = -1
  BY SourceConstants DEF NoTail
<1>1. PICK n \in 1..MaxHead + 1 : chain \in [1..n -> [fork : {0}, logs : BOOLEAN]]
  BY Zenon DEF SourceInit
<1>2. n \in Nat /\ n >= 1 /\ n <= MaxHead + 1
  BY <1>0, <1>1
<1>3. \A i \in 1..n : chain[i] \in Block /\ chain[i].fork = 0
  <2>1. [fork : {0}, logs : BOOLEAN] \subseteq Block
    BY DEF Block
  <2>2. \A i \in 1..n : chain[i] \in [fork : {0}, logs : BOOLEAN]
    BY Zenon, <1>1
  <2>3. \A b \in [fork : {0}, logs : BOOLEAN] : b.fork = 0
    OBVIOUS
  <2>. QED
    BY Zenon, <2>1, <2>2, <2>3
<1>4. chain \in Seq(Block) /\ Len(chain) = n
  <2>1. chain \in [1..n -> Block]
    BY Zenon, <1>1, <1>3
  <2>. QED
    BY <1>2, <2>1
<1>5. ChainTypes
  <2>1. peak \in Nat
    BY <1>2, <1>4 DEF SourceInit, Tip
  <2>2. lookback \in Nat \cup {None}
    BY SourceAssumption DEF SourceInit
  <2>. QED
    BY <1>2, <1>4, <2>1, <2>2 DEF ChainTypes, SourceInit
<1>6. PlanTypes
  <2>1. pc \in Pcs /\ tail \in Log \cup {NoTail} /\ resume \in Nat \cup {None} /\ invalid \in BOOLEAN
    BY Zenon DEF SourceInit, Pcs
  <2>2. boot \in Nat \cup {None}
    BY <1>0 DEF SourceInit, Heights
  <2>. QED
    BY <2>1, <2>2 DEF SourceInit, PlanTypes
<1>7. HistoryTypes
  BY DEF SourceInit, HistoryTypes
<1>8. Settled
  <2>1. Tip \in Nat /\ Tip <= MaxHead
    BY <1>0, <1>2, <1>4 DEF Tip
  <2>. QED
    BY <1>0, <2>1 DEF SourceInit, Settled
<1>9. ScanInv
  BY <1>0 DEF SourceInit, ScanInv, NoBasis, Basis, Start, Planned, Running, GaplessScan
<1>10. Forked
  BY <1>0, <1>2, <1>3, <1>4 DEF SourceInit, Forked
<1>11. ViewHeld /\ BulkAbove /\ BulkHeld /\ BulkIsFinal
  BY ZenonT(40) DEF SourceInit, ViewHeld, BulkAbove, BulkHeld, BulkIsFinal
<1>. QED
  BY <1>5, <1>6, <1>7, <1>8, <1>9, <1>10, <1>11 DEF SourceInv

\* The invariant holds in every state of the source, whatever the chain does.
LEMMA SourceInvariant == SourceSpec => []SourceInv
<1>1. SourceInit => SourceInv
  BY SourceStarts
<1>2. SourceInv /\ [SourceNext]_vars => SourceInv'
  <2>. SUFFICES ASSUME SourceInv, [SourceNext]_vars PROVE SourceInv'
    OBVIOUS
  <2>1. CASE ChainStep
    BY <2>1, ChainStepKeeps
  <2>2. CASE ReadHead
    BY <2>2, ReadHeadKeeps
  <2>3. CASE Probe
    BY <2>3, ProbeKeeps
  <2>4. CASE BulkBounds
    BY <2>4, BulkBoundsKeeps
  <2>5. CASE ChunkFetched
    BY <2>5, ChunkFetchedKeeps
  <2>6. CASE ChunkFailed
    BY <2>6, ChunkFailedKeeps
  <2>7. CASE RereadHead
    BY <2>7, RereadHeadKeeps
  <2>8. CASE Open
    BY <2>8, OpenKeeps
  <2>9. CASE PumpAdded
    BY <2>9, PumpAddedKeeps
  <2>10. CASE PumpRemoved
    BY <2>10, PumpRemovedKeeps
  <2>11. CASE PumpEnds
    BY <2>11, PumpEndsKeeps
  <2>12. CASE UNCHANGED vars
    <3>1. /\ chain' = chain /\ peak' = peak /\ forks' = forks /\ deepest' = deepest
          /\ lookback' = lookback /\ pc' = pc /\ head' = head /\ boot' = boot /\ resume' = resume
          /\ tail' = tail /\ invalid' = invalid /\ start' = start /\ handoff' = handoff
          /\ next' = next /\ failures' = failures /\ window' = window /\ view' = view
          /\ scanned' = scanned /\ skipped' = skipped /\ origin' = origin /\ bulked' = bulked
          /\ blind' = blind
      BY <2>12 DEF vars, givenVars, planVars, pollerVars, historyVars
    <3>2. ChainTypes' /\ PlanTypes' /\ HistoryTypes' /\ Settled'
      BY Zenon, <3>1 DEF SourceInv, ChainTypes, PlanTypes, HistoryTypes, Settled, Tip, NoTail, None
    <3>3. ScanInv'
      BY Zenon, <3>1 DEF SourceInv, ScanInv, NoBasis, Basis, Start, Running, GaplessScan, Position,
        NoTail, None
    <3>4. Forked'
      BY Zenon, <3>1 DEF SourceInv, Forked, Known, Canonical, At, Tip, NoTail, None
    <3>5. ViewHeld'
      <4>1. \A h : Shown(h)' = Shown(h) /\ (Looked(h)' <=> Looked(h)) /\ LogOf(h)' = LogOf(h)
        BY Zenon, <3>1 DEF Shown, Looked, InWindow, TailWatched, LogOf, At
      <4>2. \A i : LogsOf(window[i])' = LogsOf(window[i])
        BY Zenon, <3>1 DEF LogsOf
      <4>3. (TailWatched' <=> TailWatched) /\ (Canonical(tail)' <=> Canonical(tail)) /\ Tip' = Tip
        BY Zenon, <3>1 DEF TailWatched, Canonical, At, Tip
      <4>. QED
        BY Zenon, <3>1, <4>1, <4>2, <4>3 DEF SourceInv, ViewHeld
    <3>6. BulkAbove' /\ BulkHeld' /\ BulkIsFinal'
      BY Zenon, <3>1 DEF SourceInv, BulkAbove, BulkHeld, BulkIsFinal, Canonical, At, Tip, NoTail, None
    <3>. QED
      BY Zenon, <3>2, <3>3, <3>4, <3>5, <3>6 DEF SourceInv
  <2>. QED
    BY Zenon, <2>1, <2>2, <2>3, <2>4, <2>5, <2>6, <2>7, <2>8, <2>9, <2>10, <2>11, <2>12
       DEF SourceNext, SourceStep
<1>. QED
  BY <1>1, <1>2, PTL DEF SourceSpec

\* No height is ever passed over between the first height of the scan and where it
\* stands, whatever order the bulk chunks, their failures, the hand-off, the
\* poller's rollbacks, the broken streams and the re-opens come in
\* (scan_and_follow, bulk_backfill and follow_logs).
THEOREM ScanHasNoGaps == SourceSpec => []GaplessScan
<1>1. SourceInv => GaplessScan
  BY DEF SourceInv, ScanInv
<1>. QED
  BY <1>1, SourceInvariant, PTL

\* Once the poller is level with the chain, what the module was told of a
\* delivered height, the retracted logs taken back, is what the chain holds there:
\* for any reorgs, those that hit the tail while no poller was open included.
THEOREM ViewIsExact == SourceSpec => []ViewExact
<1>1. ASSUME SourceInv PROVE ViewExact
  <2>. SUFFICES ASSUME Synced, NEW h \in scanned \ blind
                PROVE  {l \in view : l.number = h} = LogOf(h)
    BY Zenon DEF ViewExact
  <2>1. /\ ChainTypes /\ PlanTypes /\ HistoryTypes /\ Forked /\ ViewHeld /\ pc = "pump"
        /\ window # <<>> /\ Canonical(window[Len(window)])
    BY Zenon, <1>1 DEF SourceInv, Synced, Detached
  <2>2. Len(window) \in 1..Len(window) /\ \A i \in 1..Len(window) : i \in 1..Len(window)
    BY <2>1 DEF HistoryTypes
  <2>3. \A i \in 1..Len(window) : Canonical(window[i])
    BY Zenon, <2>1, <2>2 DEF Forked
  <2>4. CASE ~InWindow(h)
    BY Zenon, <1>1, <2>1, <2>4, InPump DEF Shown
  <2>5. ASSUME NEW i \in 1..Len(window), window[i].number = h PROVE Shown(h) = LogOf(h)
    BY Zenon, <2>1, <2>3, <2>5, CanonicalView DEF ViewHeld
  <2>. QED
    BY Zenon, <2>4, <2>5 DEF InWindow, Shown
<1>. QED
  BY <1>1, SourceInvariant, PTL

\* While no reorg is deeper than the poller's retained depth, nothing replaces a
\* block the bulk phase delivered, though the bulk phase delivers without looking
\* back and its plan was made from an earlier head (bulk_bounds keeps the
\* hand-off MAX_REORG_DEPTH below it).
THEOREM BulkStaysFinal == SourceSpec => []BulkIsFinal
<1>1. SourceInv => BulkIsFinal
  BY DEF SourceInv
<1>. QED
  BY <1>1, SourceInvariant, PTL
=============================================================================
