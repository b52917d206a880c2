------------------------------ MODULE RunLogs ------------------------------
(***************************************************************************)
(* The log pipeline of one module (nexum-runtime-logs) across its runs.    *)
(* A guest writes records through the logging interface and bytes through  *)
(* its stdout; a run's filter and its bucket decide what is kept; the      *)
(* store holds a byte-bounded ring for each of the newest runs; a pager    *)
(* follows one ring with a cursor. A restart mints a run and initialises   *)
(* it while the dead run's store is still held: dropping a store flushes   *)
(* the last partial line of its run.                                       *)
(*                                                                         *)
(* Text is its length in bytes. Levels are numbers, lower is more severe.  *)
(***************************************************************************)
EXTENDS Integers, Sequences, SequencesExt, FiniteSetsExt

CONSTANTS Records,        \* what the guest may log: [level, target, msg, file, fields]
          Chunks,         \* what it may write: lengths of the newline-separated pieces
          Console, Retain, TargetConsole, StdoutLevel, \* the filter's floors
          RecordCap, TargetAllowance, Marker, MaxSlack, \* max_record_bytes and truncation
          RecordOverhead, FieldOverhead, \* fixed retention charges
          Burst,          \* tokens of a fresh bucket
          RingBytes, RunsRetained,       \* [limits.logs]
          MaxAppends, MaxWritten, MaxRuns \* bounds

ASSUME RunLogsAssumption ==
  /\ {RecordCap, Burst, RingBytes, RunsRetained} \subseteq Nat \ {0}
  /\ {TargetAllowance, Marker, MaxSlack, RecordOverhead, FieldOverhead} \subseteq Nat

VARIABLES kept,   \* the retention store: order of runs, a ring for each, appends so far
          stores, \* run -> its capture state, for every run minted
          guest,  \* the live run, the run being initialised, and the phase
          pager   \* a follower of one run: cursor and what it was given

logsVars == <<kept, stores, guest, pager>>

Shorter(a, b) == IF a < b THEN a ELSE b
SumOf(seq) == FoldLeft(LAMBDA a, b : a + b, 0, seq)

-----------------------------------------------------------------------------
(* Admission: the filter, then the bucket, then the byte cap. *)

Verdict(rec) ==
  IF rec.level <= (IF rec.target > 0 THEN TargetConsole ELSE Console) THEN "emit"
  ELSE IF rec.level <= Retain THEN "retain" ELSE "drop"

\* Bytes the cap measures: a field renders with "=" and a separator.
WireBytes(rec) == rec.msg + rec.target + rec.file + SumOf(rec.fields) + 2 * Len(rec.fields)

\* Bytes the ring is charged.
Cost(rec) ==
  RecordOverhead + rec.msg + rec.target + rec.file
    + SumOf(rec.fields) + FieldOverhead * Len(rec.fields)

\* The cut moves back to a character boundary; a budget below the marker
\* keeps nothing.
TruncateTo(len, budget, slack) ==
  IF len <= budget THEN len
  ELSE IF budget >= Marker THEN (IF budget - Marker > slack THEN budget - slack ELSE Marker)
  ELSE 0

DropFields(rec) ==
  LET n == Max({k \in 0 .. Len(rec.fields) :
                  k = 0 \/ WireBytes([rec EXCEPT !.fields = SubSeq(@, 1, k)]) <= RecordCap})
  IN  [rec EXCEPT !.fields = SubSeq(@, 1, n)]

DropFile(rec) == IF WireBytes(rec) > RecordCap THEN [rec EXCEPT !.file = 0] ELSE rec

ShortenText(rec, slack) ==
  IF WireBytes(rec) <= RecordCap THEN rec
  ELSE LET reserved == Shorter(Shorter(rec.target, TargetAllowance), RecordCap)
           msg      == TruncateTo(rec.msg, RecordCap - reserved, slack)
           spare    == Shorter(RecordCap - msg, TargetAllowance)
       IN  [rec EXCEPT !.msg = msg, !.target = TruncateTo(@, spare, slack)]

Fitted(rec, slack) == ShortenText(DropFile(DropFields(rec)), slack)

-----------------------------------------------------------------------------
(* Retention. *)

EmptyRing(born) == [records |-> <<>>, bytes |-> 0, appended |-> 0, born |-> born]

\* Ring.push: evict the oldest while over budget, never the sole record.
Push(ring, entry) ==
  LET all   == Append(ring.records, entry)
      bytes == ring.bytes + entry.cost
      Gone(k) == SumOf([i \in 1 .. k |-> all[i].cost])
      drop  == Min({k \in 0 .. Len(all) - 1 : bytes - Gone(k) <= RingBytes \/ k = Len(all) - 1})
  IN  [ring EXCEPT !.records = SubSeq(all, drop + 1, Len(all)),
                   !.bytes = bytes - Gone(drop), !.appended = @ + 1]

\* Mutant: one run too many is kept
AppendKeepingOne(k, run, rec, gated) ==
  LET known == run \in DOMAIN k.rings
      all   == IF known THEN k.order ELSE Append(k.order, run)
      order == SubSeq(all, 1 + (IF Len(all) > RunsRetained + 1 THEN 1 ELSE 0), Len(all))
      Entry(ring) == [n |-> ring.appended, id |-> k.appends, cost |-> Cost(rec),
                      wire |-> WireBytes(rec), gated |-> gated]
  IN  [order |-> order, appends |-> k.appends + 1,
       rings |-> [r \in ToSet(order) |->
                    LET ring == IF r \in DOMAIN k.rings THEN k.rings[r] ELSE EmptyRing(k.appends)
                    IN  IF r # run THEN ring ELSE Push(ring, Entry(ring))]]

\* append: register the run on first sighting, evicting the oldest runs.
AppendTo(k, run, rec, gated) ==
  LET known == run \in DOMAIN k.rings
      all   == IF known THEN k.order ELSE Append(k.order, run)
      order == SubSeq(all, 1 + (IF Len(all) > RunsRetained THEN Len(all) - RunsRetained ELSE 0), Len(all))
      Entry(ring) == [n |-> ring.appended, id |-> k.appends, cost |-> Cost(rec),
                      wire |-> WireBytes(rec), gated |-> gated]
      Grown(ring) == Push(ring, Entry(ring))
  IN  [order |-> order, appends |-> k.appends + 1,
       rings |-> [r \in ToSet(order) |->
                    IF r # run THEN k.rings[r]
                    ELSE Grown(IF known THEN k.rings[r] ELSE EmptyRing(k.appends))]]

\* SharedLogFilter::route on w, the pair of the store and one run's capture
\* state: a filtered record spends no token.
Route(w, run, rec, slack) ==
  IF Verdict(rec) = "drop" \/ w.cap.tokens = 0 THEN w
  ELSE [cap  |-> [w.cap EXCEPT !.tokens = @ - 1],
        kept |-> AppendTo(w.kept, run, Fitted(rec, slack), TRUE)]

Line(len) == [level |-> StdoutLevel, target |-> 0, msg |-> len, file |-> 0, fields |-> <<>>]

\* LineWriter::route: an empty line makes no record. `out` counts the bytes
\* that left the buffer, the newline included.
RouteLine(w, run, len, ended, slack) ==
  LET taken == [w EXCEPT !.cap.out = @ + len + ended]
  IN  IF len = 0 THEN taken ELSE Route(taken, run, Line(len), slack)

Landed(w, run) ==
  /\ kept' = w.kept
  /\ stores' = [stores EXCEPT ![run] = w.cap]

Pair(run) == [kept |-> kept, cap |-> stores[run]]

\* flush_remainder: the buffered partial line, once.
Flushed(run, slack) ==
  IF stores[run].buf = 0 THEN Pair(run)
  ELSE RouteLine([Pair(run) EXCEPT !.cap.buf = 0], run, stores[run].buf, 0, slack)

-----------------------------------------------------------------------------
(* The guest and the supervisor. *)

NoRun == -1
Running == IF guest.phase = "up" THEN {guest.live}
           ELSE IF guest.phase = "init" THEN {guest.trial} ELSE {}
Room(n) == kept.appends + n <= MaxAppends

\* A log or log-event call.
Log ==
  \E run \in Running, rec \in Records, slack \in 0 .. MaxSlack :
    /\ Room(1)
    /\ Landed(Route(Pair(run), run, rec, slack), run)
    /\ UNCHANGED <<guest, pager>>

\* poll_write: buffer the bytes, route each complete line, then force-flush a
\* remainder past the cap.
WriteChunk ==
  \E run \in Running, chunk \in Chunks, slack \in 0 .. MaxSlack :
    LET cap    == stores[run]
        pieces == [chunk EXCEPT ![1] = @ + cap.buf]
        n      == Len(pieces)
        bytes  == SumOf(chunk) + n - 1
        start  == [Pair(run) EXCEPT !.cap.buf = 0, !.cap.wrote = @ + bytes]
        lines  == FoldLeft(LAMBDA w, len : RouteLine(w, run, len, 1, slack),
                           start, SubSeq(pieces, 1, n - 1))
    IN  /\ Room(n) /\ cap.wrote + bytes <= MaxWritten
        /\ Landed(IF pieces[n] > RecordCap THEN RouteLine(lines, run, pieces[n], 0, slack)
                  ELSE [lines EXCEPT !.cap.buf = pieces[n]], run)
        /\ UNCHANGED <<guest, pager>>

\* poll_shutdown: the guest closes its stream.
ShutdownStream ==
  \E run \in Running, slack \in 0 .. MaxSlack :
    /\ stores[run].buf > 0 /\ Room(1)
    /\ Landed(Flushed(run, slack), run)
    /\ UNCHANGED <<guest, pager>>

\* Time refills a bucket.
RefillTokens ==
  \E run \in Running :
    /\ stores[run].tokens < Burst
    /\ stores' = [stores EXCEPT ![run].tokens = Burst]
    /\ UNCHANGED <<kept, guest, pager>>

\* The death record of the live run: neither filtered nor bounded.
Die ==
  /\ guest.phase = "up" /\ Room(1)
  /\ kept' = AppendTo(kept, guest.live, Line(RecordCap + 1), FALSE)
  /\ guest' = [guest EXCEPT !.phase = "dead"]
  /\ UNCHANGED <<stores, pager>>

FreshStore(seq) == [seq |-> seq, buf |-> 0, tokens |-> Burst, wrote |-> 0, out |-> 0]

\* revive: mint the next run and start its init.
StartRevive ==
  /\ guest.phase = "dead" /\ Len(stores) < MaxRuns
  /\ stores' = Append(stores, FreshStore(stores[guest.live].seq + 1))
  /\ guest' = [guest EXCEPT !.phase = "init", !.trial = Len(stores) + 1]
  /\ UNCHANGED <<kept, pager>>

\* The store of the run that lost is dropped, which flushes its stream: the
\* dead run's when init succeeded, the new run's when it failed.
Replace ==
  /\ guest.phase = "init" /\ Room(1)
  /\ \E ok \in BOOLEAN, slack \in 0 .. MaxSlack :
       LET lost == IF ok THEN guest.live ELSE guest.trial
       IN  /\ Landed(Flushed(lost, slack), lost)
           /\ guest' = [live |-> IF ok THEN guest.trial ELSE guest.live,
                        phase |-> IF ok THEN "up" ELSE "dead", trial |-> NoRun]
  /\ UNCHANGED pager

-----------------------------------------------------------------------------
(* Readers. *)

\* A reader picks a listed run and starts at cursor 0.
Follow ==
  /\ pager.run = NoRun
  /\ \E run \in ToSet(kept.order) :
       pager' = [run |-> run, cursor |-> 0, got |-> {}, born |-> kept.rings[run].born]
  /\ UNCHANGED <<kept, stores, guest>>

PageFrom(ring, cursor) == {r.id : r \in {q \in ToSet(ring.records) : q.n >= cursor}}

\* Mutant: the cursor counts the records retained, not those appended
ReadPageRetained ==
  /\ pager.run # NoRun
  /\ pager' = IF pager.run \in DOMAIN kept.rings
              THEN LET ring == kept.rings[pager.run]
                   IN  [pager EXCEPT !.cursor = Len(ring.records), !.born = ring.born,
                                     !.got = @ \union PageFrom(ring, pager.cursor)]
              ELSE [pager EXCEPT !.cursor = 0]
  /\ UNCHANGED <<kept, stores, guest>>

\* read: an unknown or evicted run gives an empty page and cursor 0.
ReadPage ==
  /\ pager.run # NoRun
  /\ pager' = IF pager.run \in DOMAIN kept.rings
              THEN LET ring == kept.rings[pager.run]
                   IN  [pager EXCEPT !.cursor = ring.appended, !.born = ring.born,
                                     !.got = @ \union PageFrom(ring, pager.cursor)]
              ELSE [pager EXCEPT !.cursor = 0]
  /\ UNCHANGED <<kept, stores, guest>>

LogsInit ==
  /\ kept = [order |-> <<>>, rings |-> <<>>, appends |-> 0]
  /\ stores = <<FreshStore(0)>>
  /\ guest = [live |-> 1, phase |-> "up", trial |-> NoRun]
  /\ pager = [run |-> NoRun, cursor |-> 0, got |-> {}, born |-> 0]

LogsNext ==
  \/ Log \/ WriteChunk \/ ShutdownStream \/ RefillTokens \/ Die \/ StartRevive \/ Replace
  \/ Follow \/ ReadPage

LogsSpec == LogsInit /\ [][LogsNext]_logsVars

-----------------------------------------------------------------------------
(* Properties. *)

\* A ring's byte count is the exact sum of what it retains, within the budget
\* unless one record alone exceeds it, and what it retains is the unbroken
\* newest part of what was appended.
RingExact(ring) ==
  LET n == Len(ring.records)
  IN  /\ ring.bytes = SumOf([i \in 1 .. n |-> ring.records[i].cost])
      /\ ring.bytes <= RingBytes \/ n = 1
      /\ \A i \in 1 .. n : ring.records[i].n = ring.appended - n + i - 1

\* The representation invariant: each listed run has a ring, no more of them
\* than retained, each exact; no admitted record is wider than the cap,
\* whatever mix of parts it came with; the bytes a run wrote are those routed
\* and those buffered, and a run whose store is gone has none buffered.
LogsTypeOK ==
  /\ ToSet(kept.order) = DOMAIN kept.rings /\ Len(kept.order) <= RunsRetained
  /\ \A run \in DOMAIN kept.rings :
       /\ RingExact(kept.rings[run])
       /\ \A r \in ToSet(kept.rings[run].records) : r.gated => r.wire <= RecordCap
  /\ \A i \in DOMAIN stores :
       /\ stores[i].tokens \in 0 .. Burst /\ stores[i].buf \in 0 .. RecordCap
       /\ stores[i].wrote = stores[i].out + stores[i].buf
       /\ i \notin {guest.live, guest.trial} => stores[i].buf = 0
  /\ guest.phase \in {"up", "dead", "init"}

\* A pager that passes next_cursor back is given every retained record it has
\* not seen and never one it has, as long as its run was not evicted and
\* registered anew since it last read.
PageExactlyOnce ==
  [][pager.run # NoRun /\ pager.run = pager'.run /\ pager'.got # pager.got =>
       LET ring == kept.rings[pager.run]
           all  == PageFrom(ring, 0)
           page == PageFrom(ring, pager.cursor)
       IN  /\ page \intersect pager.got = {}
           /\ ring.born = pager.born => all \subseteq pager'.got]_logsVars
=============================================================================
