---------------------------- MODULE EventReplay ----------------------------
(***************************************************************************)
(* Delivery of logs across restarts: the supervisor, the source of one     *)
(* resume = true event trigger (module Mod on chain Chain), the channel    *)
(* between them and the cursor that outlives the process.                  *)
(*                                                                         *)
(* The source scans a chain whose blocks are final, one block at a time    *)
(* (the poller) or in chunks followed by their frontier (bulk backfill).   *)
(* It sends one item at a time: every send is an await.  Where it opens    *)
(* depends on the stored cursor, the trigger's start_block and             *)
(* max_lookback, each of which may be absent, and on the head it finds.    *)
(* A process dies at any step; a stop ends the loop, and a new process     *)
(* boots from the stored cursor.  Only the store survives.                 *)
(***************************************************************************)
EXTENDS Supervisor

CONSTANTS Mod, Chain,
          Tip,          \* bound on the height of the chain
          LogsAt,       \* how many logs each block carries
          Triggers,     \* what the manifest may say: start_block, max_lookback
          ChunkBlocks,  \* the chain's max_log_range_blocks
          ChannelBuf,   \* RECONNECT_CHANNEL_BUF
          MaxRestarts   \* bound on the restarts

ASSUME ReplayAssumption ==
  /\ Keyed = {Mod} /\ Chain \in Chains
  /\ Tip \in Nat /\ Heights = 0..(Tip + 1)
  /\ Triggers \subseteq [start : Nat \cup {None}, lookback : Nat \cup {None}]
  /\ LogsAt \in [Heights -> Nat]
  /\ ChunkBlocks \in Nat \ {0} /\ ChannelBuf \in Nat \ {0} /\ MaxRestarts \in Nat

VARIABLES
  trigger,    \* the manifest's start_block and max_lookback, None when absent
  head,       \* the height of the chain
  pos,        \* the block the source scans
  sent,       \* how many of its logs have been sent
  chunk,      \* the last block of the bulk chunk in progress, None when polling
  channel,    \* logs and frontiers on their way to the loop
  taken,      \* the log the loop is dispatching
  accepted,   \* history: the logs the module ever accepted
  missed,     \* history: the logs this process dropped or failed
  failed,     \* history: the logs some process failed and went on
  unread,     \* history: the logs passed over by an open that had no cursor
  dropped,    \* history: the logs passed over by one that had
  restarts

openVars == <<trigger, head, unread, dropped, restarts>>
replayVars == <<pos, sent, chunk, channel, taken, accepted, missed, failed, openVars>>
allVars == <<vars, replayVars>>

Logs == UNION {{[height |-> h, index |-> i] : i \in 1..LogsAt[h]} : h \in 0..Tip}
NoLog == [height |-> None, index |-> 0]

LogItem(log) == [frontier |-> FALSE, log |-> log, block |-> log.height]
FrontierItem(block) == [frontier |-> TRUE, log |-> NoLog, block |-> block]

\* Mutant: start_block applies again at every boot.
SeedWins(cursor) == IF trigger.start # None THEN trigger.start ELSE cursor

\* The cursor read at boot, else start_block, if there is one.
Seed(cursor) == IF cursor # None THEN cursor ELSE trigger.start

\* Where max_lookback ends, counted from the head: nothing below it is scanned.
Floor ==
  IF trigger.lookback = None \/ trigger.lookback > head THEN 0 ELSE head - trigger.lookback

Clamp(start) == IF start < Floor THEN Floor ELSE start

\* The first block of a boot's scan: its seed, at most the head, else the head;
\* raised to the floor.
ResumeAt(cursor) ==
  LET seed == Seed(cursor)
  IN  Clamp(IF seed = None \/ seed > head THEN head ELSE seed)

\* The logs from one block up to another, and those of a set below a block.
Between(from, to) == {log \in Logs : from <= log.height /\ log.height < to}
Below(logs, to) == {log \in logs : log.height < to}

ReplayInit ==
  /\ Init
  /\ trigger \in Triggers /\ head \in 0..Tip
  /\ pos = ResumeAt(None) /\ sent = 0 /\ chunk = None
  /\ channel = <<>> /\ taken = NoLog
  /\ accepted = {} /\ missed = {} /\ failed = {}
  /\ unread = Below(Logs, pos) /\ dropped = {}
  /\ restarts = 0

(***************************************************************************)
(* The source                                                              *)
(***************************************************************************)
\* Mutant: the block at the head waits for the one after it.
ScanningBehind == job.pc # "done" /\ pos < head

\* The loop still holds the receiver and there is a block to scan.
Scanning == job.pc # "done" /\ pos <= head

\* A send waits while the bounded channel is full.
Send(item) ==
  /\ Len(channel) < ChannelBuf
  /\ channel' = Append(channel, item)

\* Mutant: the frontier is sent ahead of the chunk's logs.
FrontierFirst ==
  /\ Scanning /\ sent = 0 /\ chunk = None
  /\ \E to \in pos..(pos + ChunkBlocks - 1) :
       to <= head /\ chunk' = to /\ Send(FrontierItem(to + 1))
  /\ UNCHANGED <<vars, pos, sent, taken, accepted, missed, failed, openVars>>

\* The logs of a bulk chunk have been fetched.
OpenChunk ==
  /\ Scanning /\ sent = 0 /\ chunk = None
  /\ \E to \in pos..(pos + ChunkBlocks - 1) : to <= head /\ chunk' = to
  /\ UNCHANGED <<vars, pos, sent, channel, taken, accepted, missed, failed, openVars>>

\* The next log of the block goes down the channel.
SendLog ==
  /\ Scanning /\ sent < LogsAt[pos]
  /\ sent' = sent + 1
  /\ Send(LogItem([height |-> pos, index |-> sent']))
  /\ UNCHANGED <<vars, pos, chunk, taken, accepted, missed, failed, openVars>>

\* All its logs are sent: the source moves on, after the last block of a chunk
\* with the first block past it as the frontier.
EndBlock ==
  /\ Scanning /\ sent = LogsAt[pos]
  /\ pos' = pos + 1 /\ sent' = 0
  /\ IF chunk = pos
     THEN Send(FrontierItem(pos')) /\ chunk' = None
     ELSE UNCHANGED <<channel, chunk>>
  /\ UNCHANGED <<vars, taken, accepted, missed, failed, openVars>>

Source == OpenChunk \/ SendLog \/ EndBlock

\* The source opens again between two blocks: it goes on where it was, or at the
\* floor if the chain has left it too far behind.
Reopen ==
  /\ job.pc # "done" /\ sent = 0 /\ chunk = None
  /\ pos < Floor
  /\ pos' = Floor
  /\ dropped' = dropped \cup Between(pos, pos')
  /\ UNCHANGED <<vars, sent, chunk, channel, taken, accepted, missed, failed,
                 trigger, head, unread, restarts>>

\* External: a block is added to the chain.
NewBlock ==
  /\ head < Tip
  /\ head' = head + 1
  /\ UNCHANGED <<vars, pos, sent, chunk, channel, taken, accepted, missed, failed,
                 trigger, unread, dropped, restarts>>

(***************************************************************************)
(* The loop takes the next item of the channel                             *)
(***************************************************************************)
\* A log is not accepted; a process that is stopping takes no other after it.
Miss(log) ==
  /\ missed' = missed \cup {log}
  /\ failed' = IF stop THEN failed ELSE failed \cup {log}

TakeLog ==
  /\ channel # <<>> /\ ~channel[1].frontier
  /\ BeginEvent(Mod, Chain, channel[1].block, FALSE)
  /\ channel' = Tail(channel)
  /\ IF job'.pc = "top"
     THEN Miss(channel[1].log) /\ UNCHANGED taken
     ELSE taken' = channel[1].log /\ UNCHANGED <<missed, failed>>
  /\ UNCHANGED <<pos, sent, chunk, accepted, openVars>>

TakeFrontier ==
  /\ channel # <<>> /\ channel[1].frontier
  /\ FrontierCommit(Mod, channel[1].block)
  /\ channel' = Tail(channel)
  /\ UNCHANGED <<pos, sent, chunk, taken, accepted, missed, failed, openVars>>

\* A step of the job in progress: its log is accepted, missed, or still taken.
ReplayJobStep ==
  /\ JobStep
  /\ CASE CallOk /\ job.kind = "event" ->
            /\ accepted' = accepted \cup {taken}
            /\ taken' = NoLog /\ UNCHANGED <<missed, failed>>
       [] ~CallOk /\ job.kind = "event" /\ job'.kind = "none" ->
            /\ Miss(taken)
            /\ taken' = NoLog /\ UNCHANGED accepted
       [] OTHER -> UNCHANGED <<accepted, missed, failed, taken>>
  /\ UNCHANGED <<pos, sent, chunk, channel, openVars>>

(***************************************************************************)
(* Death and restart of the process                                        *)
(***************************************************************************)
\* The process dies at any step, or has returned after a stop; the next one
\* reads the cursor (a read may fail) and opens the source there.  A log it
\* scans again is not passed over any more.
Restart ==
  /\ restarts < MaxRestarts
  /\ restarts' = restarts + 1
  /\ stop' = FALSE
  /\ health' \in BootHealth
  /\ live' = BootLive(now)
  /\ frontier' = [c \in Chains |-> None]
  /\ cursors' = [m \in Mods |-> FreshCursor(cursors[m].stored)]
  /\ published' = [m \in Mods |-> "unpublished"]
  /\ job' = Idle("top")
  /\ deaths' = [m \in Mods |-> <<>>] /\ lost' = {}
  /\ \E r \in StoreOutcomes :
       LET cursor == ReadCursor(cursors[Mod], r)
           over   == Between(cursors[Mod].stored, pos')
       IN  /\ pos' = ResumeAt(cursor)
           /\ unread' = Below(unread, pos') \cup (IF cursor = None THEN over ELSE {})
           /\ dropped' = Below(dropped, pos') \cup (IF cursor = None THEN {} ELSE over)
  /\ sent' = 0 /\ chunk' = None
  /\ channel' = <<>> /\ taken' = NoLog /\ missed' = {}
  /\ UNCHANGED <<now, accepted, failed, trigger, head>>

\* The clock and the stop signal; the loop's own exit.
Ambient ==
  /\ Tick \/ FireStop \/ LoopExit
  /\ UNCHANGED replayVars

\* Everything is delivered or the process is down for good.
Quiescent ==
  /\ job.pc = "done" \/ (job.pc = "ready" /\ channel = <<>> /\ pos > Tip)
  /\ UNCHANGED allVars

ReplayNext ==
  \/ Source \/ Reopen \/ NewBlock \/ TakeLog \/ TakeFrontier
  \/ ReplayJobStep \/ Restart \/ Ambient \/ Quiescent

ReplaySpec == ReplayInit /\ [][ReplayNext]_allVars

\* The chain grows, the source keeps sending, the loop keeps taking and finishing
\* jobs and returns after a stop.  Nothing forces a restart or a re-open.
ReplayFairness ==
  /\ WF_allVars(NewBlock)
  /\ WF_allVars(Source)
  /\ WF_allVars(TakeLog \/ TakeFrontier)
  /\ WF_allVars(ReplayJobStep)
  /\ WF_allVars(LoopExit /\ UNCHANGED replayVars)

FairReplaySpec == ReplaySpec /\ ReplayFairness

(***************************************************************************)
(* Properties                                                              *)
(***************************************************************************)

\* No log is skipped: whenever the process may die, every log below the cursor
\* it would resume from has been accepted ("a dropped or failed dispatch is
\* re-delivered on the next boot rather than skipped").
NoLogSkipped ==
  \A log \in Logs : log.height < cursors[Mod].stored => log \in accepted

\* The logs below which some open began its scan, and that none scanned since.
PassedOver == unread \cup dropped

\* Wherever a death, a stop, a failed write of the store or a lost channel
\* strikes, a log below the cursor the next process would resume from was
\* accepted, or was dispatched and failed by a process that went on, or lies where
\* an open began the scan above it (commit_chain_log_cursor after the dispatch,
\* the frontier behind its logs).
OnlyFailedSkipped ==
  \A log \in Logs :
    log.height < cursors[Mod].stored => log \in accepted \cup failed \cup PassedOver

\* What an open may begin above.  One that has a cursor passes over nothing but
\* what max_lookback leaves behind ("the stored cursor wins", whatever
\* start_block says).  One that has none, on the first boot or because nothing was
\* stored or the read failed, also passes over the logs below start_block; and
\* everything below the head, where the trigger has no start_block.
PassesOverOnly ==
  /\ \A log \in dropped : log.height < Floor
  /\ \A log \in unread :
       log.height < Floor \/ trigger.start = None \/ log.height < trigger.start

\* A bulk frontier never moves the stored cursor past a log this process missed
\* and no process has accepted: the step that passes one is the commit of a log
\* that was accepted at the cursor's new height.
FrontierNeverPassesMiss ==
  [][\A log \in missed \ accepted :
       cursors[Mod].stored <= log.height /\ log.height < cursors'[Mod].stored =>
         \E other \in accepted' : other.height = cursors'[Mod].stored]_allVars

\* A process that is not stopped delivers every log at or above the place its
\* source was opened, however often processes before it died and wherever: each
\* is accepted, or failed when it was its turn.
EveryLogDelivered ==
  <>[](job.pc # "done") => <>(Logs \subseteq accepted \cup failed \cup PassedOver)
=============================================================================
