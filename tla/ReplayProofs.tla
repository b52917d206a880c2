---------------------------- MODULE ReplayProofs ----------------------------
(***************************************************************************)
(* No death, stop or failed write of the store makes the next process      *)
(* resume past a log nobody answered for, whatever the chain, the chunks,  *)
(* the channel and the number of restarts; and what an open passes over is *)
(* what start_block, max_lookback or the lack of a cursor makes it.        *)
(*                                                                         *)
(* Every log behind the scan is somewhere: accepted, failed, missed, being *)
(* dispatched, still in the channel, or passed over at an open.  The       *)
(* channel keeps the order of the chain, so a commit of the log or of the  *)
(* frontier at its head passes only logs that have left it; and a process  *)
(* that has missed a log commits no frontier.                              *)
(***************************************************************************)
EXTENDS EventReplay, SupervisorProofs

\* A leaf that names no prover is tried with each of these in turn.
USE SMTT(20), ZenonT(40), Z3T(40), SMTT(40)

\* The log is behind the scan.
SentBefore(log) == log.height < pos \/ (log.height = pos /\ log.index <= sent)

InChannel(log) == \E i \in 1..Len(channel) : channel[i] = LogItem(log)

Items == {LogItem(log) : log \in Logs} \cup {FrontierItem(h) : h \in Heights}

ReplayTypes ==
  /\ pos \in Heights /\ sent \in Nat
  /\ channel \in Seq(Items)
  /\ taken \in Logs \cup {NoLog}
  /\ cursors[Mod].stored \in Heights \cup {None}
  /\ accepted \subseteq Logs /\ missed \subseteq Logs /\ failed \subseteq Logs

OpenTypes ==
  /\ trigger \in Triggers /\ head \in 0..Tip
  /\ unread \subseteq Logs /\ dropped \subseteq Logs

\* What was passed over lies below the head, since an open never begins above it.
BelowHead == \A log \in PassedOver : log.height < head

\* The jobs are dispatches of the log taken, and nothing else.
JobIsTaken ==
  /\ job.kind \in {"event", "none"}
  /\ job.kind = "event" <=> job.pc \in {"init", "probe", "call"}
  /\ job.kind = "event" =>
       /\ taken \in Logs /\ job.height = taken.height
       /\ job.mod = Mod /\ job.removed = FALSE
  /\ job.kind = "none" => taken = NoLog

\* The channel is in the order of the chain, behind the log taken and up to the
\* block being scanned.
ChannelOrdered ==
  /\ \A i, j \in 1..Len(channel) :
       i <= j => channel[i].block <= channel[j].block
  /\ \A i \in 1..Len(channel) :
       channel[i].block <= pos /\ (taken # NoLog => taken.height <= channel[i].block)
  /\ taken # NoLog => taken.height <= pos

\* Every log behind the scan is answered for, passed over or on its way.
Accounted ==
  \A log \in Logs : SentBefore(log) =>
    log \in accepted \cup failed \cup missed \cup PassedOver \/ log = taken \/ InChannel(log)

\* A miss that is not counted as a failure is the last thing a stopping process
\* does, and every miss withholds the frontiers.
MissesHold ==
  /\ missed \subseteq failed \/ (stop /\ job.pc \in {"top", "done"})
  /\ missed # {} => cursors[Mod].held

ReplayInv ==
  /\ TypeOK /\ JobOK /\ ReplayTypes /\ OpenTypes /\ JobIsTaken /\ ChannelOrdered
  /\ Accounted /\ MissesHold /\ OnlyFailedSkipped /\ PassesOverOnly /\ BelowHead

(***************************************************************************)
(* The operators                                                           *)
(***************************************************************************)
LEMMA ReplayConstants ==
  /\ Tip \in Nat /\ Heights = 0..(Tip + 1)
  /\ Keyed = {Mod} /\ Mod \in Mods /\ Mod \in EventModules /\ Chain \in Chains
BY ReplayAssumption, SupervisorAssumption

\* A log lies on the chain, at a place its block has.
LEMMA LogFacts ==
  ASSUME NEW log \in Logs
  PROVE  /\ log.height \in Heights /\ log.height \in Nat
         /\ log.height <= Tip
         /\ log.index \in Nat \ {0} /\ log.index <= LogsAt[log.height]
         /\ log # NoLog
<1>1. PICK h \in 0..Tip : log \in {[height |-> h, index |-> i] : i \in 1..LogsAt[h]}
  BY DEF Logs
<1>2. PICK i \in 1..LogsAt[h] : log = [height |-> h, index |-> i]
  BY <1>1
<1>3. log.height = h /\ log.index = i /\ h \in Heights /\ LogsAt[h] \in Nat
  BY <1>2, ReplayConstants, ReplayAssumption
<1>4. log # NoLog
  <2>1. log.height # NoLog.height
    BY <1>3, ReplayConstants DEF NoLog, None
  <2>. QED
    BY <2>1
<1>. QED
  BY <1>3, <1>4, ReplayConstants

\* A log that may be sent is one of the chain's.
LEMMA IsLog ==
  ASSUME NEW h \in Heights, h <= Tip, NEW i \in Nat \ {0}, i <= LogsAt[h]
  PROVE  [height |-> h, index |-> i] \in Logs
<1>1. LogsAt[h] \in Nat /\ h \in 0..Tip
  BY ReplayConstants, ReplayAssumption
<1>2. i \in 1..LogsAt[h]
  BY <1>1
<1>. QED
  BY <1>1, <1>2 DEF Logs

\* An item of the channel is a log at its height or a frontier.
LEMMA ItemFacts ==
  ASSUME NEW item \in Items
  PROVE  /\ item.block \in Heights /\ item.block \in Nat
         /\ item.frontier \in BOOLEAN
         /\ ~item.frontier => /\ item.log \in Logs /\ item.block = item.log.height
                              /\ item = LogItem(item.log)
         /\ item.frontier => \A log \in Logs : item # LogItem(log)
<1>1. CASE \E log \in Logs : item = LogItem(log)
  <2>1. PICK log \in Logs : item = LogItem(log)
    BY <1>1
  <2>2. item.block = log.height /\ item.frontier = FALSE /\ item.log = log
    BY <2>1 DEF LogItem
  <2>. QED
    BY ZenonT(40), <2>1, <2>2, LogFacts
<1>2. CASE \E h \in Heights : item = FrontierItem(h)
  <2>1. PICK h \in Heights : item = FrontierItem(h)
    BY <1>2
  <2>2. item.block = h /\ item.frontier = TRUE
    BY <2>1 DEF FrontierItem
  <2>3. \A log \in Logs : LogItem(log).frontier = FALSE
    BY DEF LogItem
  <2>4. \A log \in Logs : item # LogItem(log)
    BY <2>2, <2>3
  <2>5. item.block \in Heights /\ item.block \in Nat
    BY <2>2, ReplayConstants
  <2>. QED
    BY <2>2, <2>4, <2>5, ZenonT(40)
<1>. QED
  BY <1>1, <1>2 DEF Items

\* A log, as the source sends it.
LEMMA LogItemIsItem ==
  ASSUME NEW log \in Logs
  PROVE  /\ LogItem(log) \in Items /\ LogItem(log).block = log.height
         /\ LogItem(log).frontier = FALSE /\ LogItem(log).log = log
BY ZenonT(40) DEF Items, LogItem

\* A frontier, as the source sends it after a chunk.
LEMMA FrontierIsItem ==
  ASSUME NEW h \in Heights
  PROVE  FrontierItem(h) \in Items /\ FrontierItem(h).block = h
BY ZenonT(40) DEF Items, FrontierItem

\* A commit leaves the store as it was or moves it to the block committed.
LEMMA CommitStored ==
  ASSUME NEW c \in Cursor, NEW b \in Nat, NEW r \in BOOLEAN, NEW w \in BOOLEAN
  PROVE  /\ Commit(c, b, FALSE, r, w).stored \in {c.stored, b}
         /\ Commit(c, b, FALSE, r, w).held = c.held
<1> DEFINE current == Current(c, r)
           next    == Moved(current, b, FALSE)
<1>1. current \in Nat \cup {None}
  BY DEF Current, ReadCursor, Cursor
<1>2. next = current \/ next = b
  <2>. HIDE DEF current
  <2>. QED
    BY <1>1 DEF Moved, None
<1>. HIDE DEF next, current
<1>3. Commit(c, b, FALSE, r, w)
        = [c EXCEPT !.mirror = next,
                    !.stored = IF next # current /\ w THEN next ELSE c.stored]
  BY DEF Commit, next, current
<1>. QED
  BY ZenonT(40), <1>2, <1>3 DEF Cursor

(***************************************************************************)
(* The channel                                                             *)
(***************************************************************************)
LEMMA SentItems ==
  ASSUME channel \in Seq(Items), NEW item \in Items, channel' = Append(channel, item)
  PROVE  /\ channel' \in Seq(Items) /\ Len(channel') = Len(channel) + 1
         /\ \A i \in 1..Len(channel) : channel'[i] = channel[i]
         /\ channel'[Len(channel) + 1] = item
BY Appended

\* The loop takes the first item and the others move up.
LEMMA TakenItem ==
  ASSUME channel \in Seq(Items), channel # <<>>, channel' = Tail(channel)
  PROVE  /\ channel' \in Seq(Items) /\ Len(channel) \in Nat \ {0}
         /\ Len(channel') = Len(channel) - 1
         /\ \A i \in 1..Len(channel') : channel'[i] = channel[i + 1]
         /\ channel[1] \in Items
OBVIOUS

\* Sending an item of the block scanned, or of the one after it, keeps the order.
LEMMA SendKeepsOrder ==
  ASSUME ReplayTypes, ChannelOrdered, NEW item \in Items, channel' = Append(channel, item),
         pos <= item.block, item.block <= pos', taken' = taken, pos' \in Nat, pos <= pos'
  PROVE  ChannelOrdered'
<1>1. /\ channel' \in Seq(Items) /\ Len(channel') = Len(channel) + 1
      /\ \A i \in 1..Len(channel) : channel'[i] = channel[i]
      /\ channel'[Len(channel) + 1] = item /\ Len(channel) \in Nat
  BY SentItems DEF ReplayTypes
<1>2. item.block \in Nat /\ pos \in Nat
  BY ItemFacts, ReplayConstants DEF ReplayTypes
<1>3. \A i \in 1..Len(channel) : channel[i].block \in Nat
  BY ItemFacts DEF ReplayTypes
<1>4. taken # NoLog => taken.height \in Nat
  BY LogFacts DEF ReplayTypes
<1>5. ASSUME NEW i \in 1..Len(channel')
      PROVE  /\ channel'[i].block \in Nat /\ channel'[i].block <= item.block
             /\ i # Len(channel) + 1 => i \in 1..Len(channel) /\ channel'[i] = channel[i]
  BY <1>1, <1>2, <1>3 DEF ChannelOrdered
<1>6. ASSUME NEW i \in 1..Len(channel'), NEW j \in 1..Len(channel'), i <= j
      PROVE  channel'[i].block <= channel'[j].block
  <2>1. CASE j = Len(channel) + 1
    BY <1>1, <1>5, <2>1
  <2>2. CASE j # Len(channel) + 1
    <3>1. i \in 1..Len(channel) /\ j \in 1..Len(channel)
      BY <1>1, <1>6, <2>2
    <3>. QED
      BY <1>1, <1>6, <3>1 DEF ChannelOrdered
  <2>. QED
    BY <2>1, <2>2
<1>7. ASSUME NEW i \in 1..Len(channel')
      PROVE  channel'[i].block <= pos' /\ (taken' # NoLog => taken'.height <= channel'[i].block)
  <2>1. channel'[i].block <= pos'
    BY <1>2, <1>5, <1>7
  <2>2. CASE i = Len(channel) + 1
    BY <1>1, <1>2, <1>4, <2>1, <2>2 DEF ChannelOrdered
  <2>3. CASE i # Len(channel) + 1
    BY <1>5, <2>1, <2>3 DEF ChannelOrdered
  <2>. QED
    BY <2>2, <2>3
<1>. QED
  BY <1>2, <1>4, <1>6, <1>7 DEF ChannelOrdered

\* So does taking the head, which then lies before everything left.
LEMMA TakeKeepsOrder ==
  ASSUME ReplayTypes, ChannelOrdered, channel # <<>>, channel' = Tail(channel),
         pos' = pos, taken' # NoLog => taken'.height = channel[1].block
  PROVE  /\ ChannelOrdered'
         /\ \A i \in 1..Len(channel') : channel[1].block <= channel'[i].block
<1>1. /\ channel' \in Seq(Items) /\ Len(channel') = Len(channel) - 1 /\ Len(channel) \in Nat \ {0}
      /\ \A i \in 1..Len(channel') : channel'[i] = channel[i + 1]
  BY TakenItem DEF ReplayTypes
<1>2. ASSUME NEW i \in 1..Len(channel')
      PROVE  i + 1 \in 1..Len(channel) /\ channel'[i] = channel[i + 1]
             /\ 1 \in 1..Len(channel) /\ 1 <= i + 1
  BY <1>1
<1>3. \A i \in 1..Len(channel') : channel[1].block <= channel'[i].block
  BY <1>2 DEF ChannelOrdered
<1>4. \A i, j \in 1..Len(channel') : i <= j => channel'[i].block <= channel'[j].block
  BY <1>2 DEF ChannelOrdered
<1>5. \A i \in 1..Len(channel') : channel'[i].block <= pos'
  BY <1>2 DEF ChannelOrdered
<1>6. channel[1].block <= pos
  BY <1>1 DEF ChannelOrdered
<1>. QED
  BY <1>3, <1>4, <1>5, <1>6 DEF ChannelOrdered

(***************************************************************************)
(* Where an open begins                                                    *)
(***************************************************************************)
LEMMA FloorType ==
  ASSUME trigger \in Triggers, head \in 0..Tip
  PROVE  Floor \in 0..head /\ head \in Nat
<1>1. trigger.lookback \in Nat \cup {None} /\ head \in Nat
  BY ReplayAssumption
<1>. QED
  BY <1>1 DEF Floor, None

\* The floor rises with the chain.
LEMMA FloorRises ==
  ASSUME trigger \in Triggers, head \in 0..Tip, trigger' = trigger, head' = head + 1
  PROVE  Floor \in Nat /\ Floor' \in Nat /\ Floor <= Floor'
<1>1. trigger.lookback \in Nat \cup {None} /\ head \in Nat
  BY ReplayAssumption
<1>. QED
  BY <1>1 DEF Floor, None

\* A boot opens at the head or below it, not below the floor, and above its seed
\* only at the floor.
LEMMA ResumeType ==
  ASSUME trigger \in Triggers, head \in 0..Tip, NEW cursor \in Nat \cup {None}
  PROVE  /\ ResumeAt(cursor) \in Floor..head
         /\ Seed(cursor) \in Nat \cup {None}
         /\ Seed(cursor) = None => ResumeAt(cursor) = head
         /\ Seed(cursor) # None => \/ ResumeAt(cursor) = Floor
                                   \/ ResumeAt(cursor) = head /\ head <= Seed(cursor)
                                   \/ ResumeAt(cursor) = Seed(cursor)
         /\ Seed(cursor) # None => \/ Seed(cursor) <= ResumeAt(cursor)
                                   \/ ResumeAt(cursor) = head
<1>1. Seed(cursor) \in Nat \cup {None}
  BY ReplayAssumption DEF Seed
<1>2. Floor \in 0..head /\ head \in Nat
  BY FloorType
<1>. HIDE DEF Seed, Floor
<1>. QED
  BY <1>1, <1>2 DEF ResumeAt, Clamp, None

\* Only an open or a new block touches what the opens depend on.
LEMMA OpensUntouched ==
  ASSUME Source \/ TakeLog \/ TakeFrontier \/ ReplayJobStep \/ Ambient \/ UNCHANGED allVars
  PROVE  UNCHANGED <<trigger, head, unread, dropped>> /\ PassedOver' = PassedOver
<1>1. UNCHANGED openVars
  BY ZenonT(40)
     DEF Source, OpenChunk, SendLog, EndBlock, TakeLog, TakeFrontier, ReplayJobStep, Ambient,
         allVars, replayVars
<1>. QED
  BY <1>1 DEF openVars, PassedOver

(***************************************************************************)
(* The supervisor beneath                                                  *)
(***************************************************************************)
\* A step of a process is a step of its supervisor, or leaves it alone.
LEMMA ProcessStep ==
  ASSUME ReplayTypes,
         Source \/ TakeLog \/ TakeFrontier \/ ReplayJobStep \/ Ambient \/ UNCHANGED allVars
  PROVE  [Next]_vars
<1>1. CASE Source \/ UNCHANGED allVars
  BY <1>1 DEF Source, OpenChunk, SendLog, EndBlock, allVars
<1>2. CASE TakeLog
  <2>1. channel[1] \in Items
    BY <1>2 DEF TakeLog, ReplayTypes
  <2>2. channel[1].block \in Heights
    BY <2>1, ItemFacts
  <2>3. BeginEvent(Mod, Chain, channel[1].block, FALSE)
    BY ZenonT(40), <1>2 DEF TakeLog
  <2>. QED
    BY ZenonT(40), <2>2, <2>3, ReplayConstants DEF Next, Begin
<1>3. CASE TakeFrontier
  <2>1. channel[1] \in Items
    BY <1>3 DEF TakeFrontier, ReplayTypes
  <2>2. channel[1].block \in Heights
    BY <2>1, ItemFacts
  <2>3. FrontierCommit(Mod, channel[1].block)
    BY <1>3 DEF TakeFrontier
  <2>. QED
    BY <2>2, <2>3, ReplayConstants DEF Next, Begin
<1>4. CASE ReplayJobStep
  BY <1>4 DEF ReplayJobStep, Next
<1>5. CASE Ambient
  BY <1>5 DEF Ambient, Next
<1>. QED
  BY <1>1, <1>2, <1>3, <1>4, <1>5

\* Only the stored cursor survives a death.
LEMMA RestartStored ==
  ASSUME Restart
  PROVE  cursors'[Mod].stored = cursors[Mod].stored
<1>1. cursors' = [m \in Mods |-> FreshCursor(cursors[m].stored)]
  BY ZenonT(40) DEF Restart
<1>. QED
  BY <1>1, ReplayConstants DEF FreshCursor

\* A new process boots into a well-typed state.
LEMMA RestartTypes ==
  ASSUME TypeOK, Restart
  PROVE  TypeOK' /\ JobOK'
<1>1. health' \in [Mods -> Health]
  <2>1. \A ok \in BOOLEAN : FromInit(ok) \in Health
    BY DEF FromInit, Health, States
  <2>. QED
    BY ZenonT(40), <2>1 DEF Restart, BootHealth
<1>2. live' \in [Mods -> [tainted : BOOLEAN, bucket : Bucket]]
  BY NewBucketType DEF Restart, BootLive, TypeOK
<1>3. job' \in Job /\ JobOK'
  <2>1. Idle("top") \in Job
    BY IdleType DEF PCs
  <2>. QED
    BY <2>1 DEF Restart, Idle, JobOK, Fanouts
<1>4. cursors' \in [Mods -> Cursor]
  <2>1. \A m \in Mods : FreshCursor(cursors[m].stored) \in Cursor
    BY DEF TypeOK, FreshCursor, Cursor
  <2>. QED
    BY <2>1 DEF Restart
<1>5. /\ now' \in Nat /\ stop' \in BOOLEAN /\ lost' \subseteq Mods
      /\ frontier' \in [Chains -> Heights \cup {None}]
      /\ published' \in [Mods -> States \cup {"unpublished"}]
  BY ZenonT(40) DEF Restart, TypeOK
<1>6. deaths' \in [Mods -> Seq(Nat)]
  BY DEF Restart
<1>. QED
  BY <1>1, <1>2, <1>3, <1>4, <1>5, <1>6 DEF TypeOK

\* The open of a new process: where it begins, and what it passes over.
LEMMA RestartOpens ==
  ASSUME Restart, cursors[Mod] \in Cursor
  PROVE  \E cursor \in Nat \cup {None} :
           /\ cursor \in {None, cursors[Mod].stored} /\ pos' = ResumeAt(cursor)
           /\ unread' = Below(unread, pos') \cup
                (IF cursor = None THEN Between(cursors[Mod].stored, pos') ELSE {})
           /\ dropped' = Below(dropped, pos') \cup
                (IF cursor = None THEN {} ELSE Between(cursors[Mod].stored, pos'))
<1>1. PICK r \in StoreOutcomes :
        LET cursor == ReadCursor(cursors[Mod], r)
        IN  /\ pos' = ResumeAt(cursor)
            /\ unread' = Below(unread, pos') \cup
                 (IF cursor = None THEN Between(cursors[Mod].stored, pos') ELSE {})
            /\ dropped' = Below(dropped, pos') \cup
                 (IF cursor = None THEN {} ELSE Between(cursors[Mod].stored, pos'))
  BY ZenonT(40) DEF Restart
<1>2. /\ ReadCursor(cursors[Mod], r) \in {None, cursors[Mod].stored}
      /\ ReadCursor(cursors[Mod], r) \in Nat \cup {None}
  BY DEF ReadCursor, Cursor
<1>. QED
  BY ZenonT(40), <1>1, <1>2

\* A log passed over that lies below the stored cursor stays below every start of
\* a new process: it was passed over for a reason that still holds.
LEMMA StaysPassed ==
  ASSUME OpenTypes, PassesOverOnly, BelowHead, NEW log \in PassedOver,
         NEW stored \in Nat \cup {None}, log.height < stored,
         NEW cursor \in {None, stored}
  PROVE  log.height < ResumeAt(cursor)
<1>1. log.height \in Nat /\ log.height < head
  BY LogFacts DEF OpenTypes, PassedOver, BelowHead
<1>2. Floor \in 0..head /\ head \in Nat /\ trigger.start \in Nat \cup {None}
  BY FloorType, ReplayAssumption DEF OpenTypes
<1>3. /\ ResumeAt(cursor) \in Floor..head
      /\ Seed(cursor) \in Nat \cup {None}
      /\ Seed(cursor) = None => ResumeAt(cursor) = head
      /\ Seed(cursor) # None => Seed(cursor) <= ResumeAt(cursor) \/ ResumeAt(cursor) = head
  BY ZenonT(40), ResumeType DEF OpenTypes
<1>4. CASE log.height < Floor
  BY <1>1, <1>2, <1>3, <1>4
<1>5. CASE ~(log.height < Floor)
  <2>1. trigger.start = None \/ log.height < trigger.start
    BY <1>5 DEF PassesOverOnly, PassedOver
  <2>2. Seed(cursor) = None \/ log.height < Seed(cursor)
    BY <1>1, <1>2, <2>1 DEF Seed, None
  <2>. QED
    BY <1>1, <1>2, <1>3, <2>2 DEF None
<1>. QED
  BY <1>4, <1>5

\* What a step of the job does when the job dispatches the log taken.
LEMMA JobCases ==
  ASSUME TypeOK, JobOK, JobIsTaken, ReplayJobStep
  PROVE  \/ /\ job.kind = "none" /\ job.pc = "top" /\ UNCHANGED <<cursors, stop>>
            /\ job' = Idle(IF stop THEN "done" ELSE "ready")
            /\ UNCHANGED <<accepted, missed, failed, taken>>
         \/ /\ job.kind = "event" /\ UNCHANGED stop /\ job' = Idle("top")
            /\ \E r, w \in BOOLEAN :
                 cursors' = [cursors EXCEPT ![Mod] = Commit(@, taken.height, FALSE, r, w)]
            /\ accepted' = accepted \cup {taken} /\ taken' = NoLog
            /\ UNCHANGED <<missed, failed>> /\ job.pc = "call"
         \/ /\ job.kind = "event" /\ UNCHANGED stop /\ job' = Idle("top")
            /\ cursors' = [cursors EXCEPT ![Mod] = Hold(@)]
            /\ Miss(taken) /\ taken' = NoLog /\ UNCHANGED accepted
         \/ /\ job.kind = "event" /\ UNCHANGED <<stop, cursors>>
            /\ job'.kind = "event" /\ job'.pc \in {"probe", "call"}
            /\ job'.height = job.height /\ job'.mod = job.mod /\ job'.removed = job.removed
            /\ UNCHANGED <<accepted, missed, failed, taken>>
<1>t. job \in Job /\ Fanouts = {"block", "extension"} /\ StoreOutcomes \subseteq BOOLEAN
  BY ZenonT(40), SupervisorAssumption DEF TypeOK, Fanouts, StoreOutcomes
<1>n. \A pc : Idle(pc).kind = "none"
  BY DEF Idle
<1>1. CASE CallOk /\ job.kind = "event"
  <2>1. accepted' = accepted \cup {taken} /\ taken' = NoLog /\ UNCHANGED <<missed, failed>>
    BY <1>1 DEF ReplayJobStep
  <2>2. /\ job.height = taken.height /\ taken.height # None /\ job.mod = Mod
        /\ job.removed = FALSE
    <3>1. taken \in Logs /\ job.height = taken.height /\ job.mod = Mod /\ job.removed = FALSE
      BY <1>1 DEF JobIsTaken
    <3>2. taken.height \in Nat
      BY <3>1, LogFacts
    <3>. QED
      BY <3>1, <3>2 DEF None
  <2>3. PICK r, w \in StoreOutcomes :
          cursors' = [cursors EXCEPT ![Mod] = Commit(@, taken.height, FALSE, r, w)]
    <3>1. job.kind = "event" /\ job.height # None /\ job.mod \in Keyed
      BY <1>1, <2>2, ReplayConstants
    <3>2. \E r, w \in StoreOutcomes : cursors' = [cursors EXCEPT
            ![job.mod] = Commit(@, job.height, job.removed, r, w)]
      BY <1>1, <3>1, ZenonT(40) DEF CallOk
    <3>. QED
      BY ZenonT(40), <2>2, <3>2
  <2>4. job' = Idle("top") /\ UNCHANGED stop /\ job.pc = "call"
    BY <1>1, <1>t DEF CallOk, AfterCall
  <2>. QED
    BY ZenonT(40), <1>1, <1>t, <2>1, <2>3, <2>4
<1>2. CASE ~(CallOk /\ job.kind = "event") /\ job.kind = "none"
  <2>1. job.pc \notin {"init", "probe", "call"} /\ job.kind \notin Fanouts
    BY <1>2, <1>t DEF JobIsTaken
  <2>2. UNCHANGED <<accepted, missed, failed, taken>>
    BY <1>2 DEF ReplayJobStep
  <2>3. Publish
    <3>1. ~CallOk /\ ~CallFault /\ ~CallTrap /\ ~ReviveOk /\ ~ReviveFailed /\ ~ProbeDirect
      BY ZenonT(40), <2>1 DEF CallOk, CallFault, CallTrap, ReviveOk, ReviveFailed, ProbeDirect
    <3>2. ~SweepItem /\ ~FanoutNext /\ ~FanoutEnd
      BY <2>1 DEF SweepItem, FanoutNext, FanoutEnd, JobOK
    <3>. QED
      BY <3>1, <3>2 DEF ReplayJobStep, JobStep
  <2>. QED
    BY <1>2, <2>2, <2>3 DEF Publish
<1>3. CASE ~CallOk /\ job.kind = "event"
  <2>1. job.pc \in {"init", "probe", "call"} /\ job.mod = Mod
    BY <1>3 DEF JobIsTaken
  <2>2. ReviveOk \/ ReviveFailed \/ ProbeDirect \/ CallFault \/ CallTrap
    BY <1>3, <2>1 DEF ReplayJobStep, JobStep, Publish, SweepItem, FanoutNext, FanoutEnd
  <2>3. HoldIfKeyed(job.kind, job.mod) => cursors' = [cursors EXCEPT ![Mod] = Hold(@)]
    BY <1>3, <2>1, ReplayConstants DEF HoldIfKeyed
  <2>4. AfterCall(FALSE) = Idle("top")
    BY <1>3, <1>t DEF AfterCall
  <2>5. \/ /\ UNCHANGED <<stop, cursors>> /\ job'.kind = "event"
           /\ job'.pc \in {"probe", "call"}
           /\ job'.height = job.height /\ job'.mod = job.mod /\ job'.removed = job.removed
        \/ UNCHANGED stop /\ HoldIfKeyed(job.kind, job.mod) /\ job' = Idle("top")
    <3>1. \A pc \in PCs : LET j == [job EXCEPT !.pc = pc] IN
            /\ j.pc = pc /\ j.kind = job.kind /\ j.height = job.height
            /\ j.mod = job.mod /\ j.removed = job.removed
      BY <1>t DEF Job
    <3>2. CASE ReviveOk \/ ReviveFailed
      <4>1. job' = [job EXCEPT !.pc = "probe"] /\ UNCHANGED <<stop, cursors>>
        BY <1>3, <1>t, <3>2 DEF ReviveOk, ReviveFailed, AfterRevive
      <4>. QED
        BY <1>3, <3>1, <4>1 DEF PCs
    <3>3. CASE ProbeDirect
      <4>1. \/ job' = [job EXCEPT !.pc = "call"] /\ UNCHANGED <<stop, cursors>>
            \/ UNCHANGED stop /\ HoldIfKeyed(job.kind, job.mod) /\ job' = Idle("top")
        BY <3>3 DEF ProbeDirect
      <4>. QED
        BY ZenonT(40), <1>3, <3>1, <4>1 DEF PCs
    <3>4. CASE CallFault \/ CallTrap
      BY ZenonT(40), <2>4, <3>4 DEF CallFault, CallTrap
    <3>. QED
      BY <2>2, <3>2, <3>3, <3>4
  <2>6. job'.kind = "event" => UNCHANGED <<accepted, missed, failed, taken>>
    BY <1>3 DEF ReplayJobStep
  <2>7. job'.kind = "none" => Miss(taken) /\ taken' = NoLog /\ UNCHANGED accepted
    BY <1>3 DEF ReplayJobStep
  <2>. QED
    BY ZenonT(40), <1>3, <1>n, <2>3, <2>5, <2>6, <2>7
<1>. QED
  BY ZenonT(40), <1>1, <1>2, <1>3 DEF JobIsTaken

(***************************************************************************)
(* The invariant                                                           *)
(***************************************************************************)
LEMMA ReplayInitHolds == ReplayInit => ReplayInv
<1> SUFFICES ASSUME ReplayInit PROVE ReplayInv
  OBVIOUS
<1>1. TypeOK /\ JobOK
  BY InitType DEF ReplayInit
<1>2. OpenTypes /\ pos \in Nat /\ pos \in Heights /\ PassesOverOnly /\ BelowHead
  <2>1. /\ trigger \in Triggers /\ head \in 0..Tip /\ pos = ResumeAt(None)
        /\ unread = Below(Logs, pos) /\ dropped = {}
    BY DEF ReplayInit
  <2>2. Floor \in 0..head /\ head \in Nat /\ pos \in Floor..head
    BY ZenonT(40), <2>1, FloorType, ResumeType
  <2>3. Seed(None) = trigger.start
    BY DEF Seed
  <2>4. trigger.start # None => pos = Floor \/ pos <= trigger.start
    <3>0. Seed(None) # None => \/ ResumeAt(None) = Floor
                               \/ ResumeAt(None) = head /\ head <= Seed(None)
                               \/ ResumeAt(None) = Seed(None)
      BY ZenonT(40), <2>1, ResumeType
    <3>1. trigger.start # None => \/ pos = Floor
                                  \/ pos = head /\ head <= trigger.start
                                  \/ pos = trigger.start
      BY ZenonT(40), <2>1, <2>3, <3>0
    <3>2. trigger.start \in Nat \cup {None}
      BY <2>1, ReplayAssumption
    <3>. HIDE DEF Floor
    <3>. QED
      BY <2>2, <3>1, <3>2
  <2>5. \A log \in unread : log \in Logs /\ log.height < pos /\ log.height \in Nat
    BY <2>1, LogFacts DEF Below
  <2>6. OpenTypes /\ pos \in Nat /\ pos \in Heights
    BY <2>1, <2>2, <2>5, ReplayConstants DEF OpenTypes
  <2>7. PassesOverOnly /\ BelowHead
    <3>1. trigger.start \in Nat \cup {None}
      BY <2>1, ReplayAssumption
    <3>. HIDE DEF Floor
    <3>. QED
      BY <2>1, <2>2, <2>4, <2>5, <3>1 DEF PassesOverOnly, BelowHead, PassedOver, None
  <2>. QED
    BY <2>6, <2>7
<1>3. ReplayTypes /\ ChannelOrdered
  BY <1>2, ReplayConstants DEF ReplayInit, Init, FreshCursor, ReplayTypes, ChannelOrdered
<1>4. JobIsTaken /\ MissesHold
  BY DEF ReplayInit, Init, Idle, JobIsTaken, MissesHold
<1>5. ASSUME NEW log \in Logs
      PROVE  /\ SentBefore(log) => log \in PassedOver
             /\ ~(log.height < cursors[Mod].stored)
  <2>1. log.height \in Nat /\ log.index \in Nat \ {0}
    BY LogFacts
  <2>2. unread = Below(Logs, pos) /\ sent = 0
    BY DEF ReplayInit
  <2>3. cursors[Mod].stored = -1
    BY ReplayConstants DEF ReplayInit, Init, FreshCursor, None
  <2>. QED
    BY <1>2, <2>1, <2>2, <2>3 DEF SentBefore, PassedOver, Below
<1>6. Accounted /\ OnlyFailedSkipped
  BY <1>5 DEF Accounted, OnlyFailedSkipped
<1>. QED
  BY <1>1, <1>2, <1>3, <1>4, <1>6 DEF ReplayInv

\* The source only adds to the channel what it counts as sent.
LEMMA SourceKeeps ==
  ASSUME ReplayInv, Source
  PROVE  /\ ReplayTypes' /\ JobIsTaken' /\ ChannelOrdered'
         /\ Accounted' /\ MissesHold' /\ OnlyFailedSkipped'
<1>p. PassedOver' = PassedOver /\ head \in Nat /\ head <= Tip
  BY OpensUntouched, ReplayConstants DEF ReplayInv, OpenTypes
<1>t. /\ pos \in Heights /\ pos \in Nat /\ sent \in Nat /\ channel \in Seq(Items)
      /\ ReplayTypes /\ ChannelOrdered /\ Accounted
  BY ReplayConstants DEF ReplayInv, ReplayTypes
<1>u. UNCHANGED <<vars, taken, accepted, missed, failed>>
  BY DEF Source, OpenChunk, SendLog, EndBlock
<1>v. UNCHANGED <<stop, job, cursors, taken, accepted, missed, failed>>
  BY <1>u DEF vars
<1>1. JobIsTaken' /\ MissesHold' /\ OnlyFailedSkipped'
  BY <1>p, <1>v DEF ReplayInv, JobIsTaken, MissesHold, OnlyFailedSkipped
<1>2. CASE OpenChunk
  <2>1. UNCHANGED <<pos, sent, channel>>
    BY <1>2 DEF OpenChunk
  <2>. QED
    BY <1>p, <1>1, <1>t, <1>v, <2>1
       DEF ReplayTypes, ChannelOrdered, Accounted, SentBefore, InChannel
<1>3. CASE SendLog
  <2> DEFINE log == [height |-> pos, index |-> sent + 1]
  <2>1. /\ sent' = sent + 1 /\ channel' = Append(channel, LogItem(log)) /\ pos' = pos
        /\ pos <= Tip /\ sent < LogsAt[pos]
    BY <1>p, <1>t, <1>3, ReplayConstants DEF SendLog, Send, Scanning
  <2>2. log \in Logs
    <3>1. LogsAt[pos] \in Nat
      BY <1>t, ReplayAssumption
    <3>2. sent + 1 \in Nat \ {0} /\ sent + 1 <= LogsAt[pos]
      BY <1>t, <2>1, <3>1
    <3>. QED
      BY <1>t, <2>1, <3>2, IsLog
  <2>i. log.height = pos /\ log.index = sent + 1
    OBVIOUS
  <2>3. LogItem(log) \in Items /\ LogItem(log).block = pos
    BY ZenonT(40), <2>2, <2>i, LogItemIsItem
  <2>u. \A other \in Logs : other.height = pos /\ other.index = sent + 1 => other = log
    BY DEF Logs
  <2> HIDE DEF log
  <2>4. /\ channel' \in Seq(Items) /\ Len(channel') = Len(channel) + 1 /\ Len(channel) \in Nat
        /\ \A i \in 1..Len(channel) : channel'[i] = channel[i]
        /\ channel'[Len(channel) + 1] = LogItem(log)
    BY <1>t, <2>1, <2>3, SentItems
  <2>5. ChannelOrdered'
    BY <1>t, <1>v, <2>1, <2>3, SendKeepsOrder
  <2>6. ReplayTypes'
    BY <1>t, <1>v, <2>1, <2>4 DEF ReplayTypes
  <2>7. \A other \in Logs : InChannel(other) => InChannel(other)'
    BY <2>4 DEF InChannel
  <2>8. \A other \in Logs : other = log => InChannel(other)'
    BY <2>4 DEF InChannel
  <2>9. ASSUME NEW other \in Logs, SentBefore(other)'
        PROVE  SentBefore(other) \/ other = log
    <3>1. other.height \in Nat /\ other.index \in Nat
      BY LogFacts
    <3>. QED
      BY <1>t, <2>1, <2>9, <2>u, <3>1 DEF SentBefore
  <2>10. Accounted'
    BY <1>p, <1>t, <1>v, <2>7, <2>8, <2>9 DEF Accounted
  <2>. QED
    BY <1>1, <2>5, <2>6, <2>10
<1>4. CASE EndBlock
  <2>1. pos' = pos + 1 /\ sent' = 0 /\ pos <= Tip /\ sent = LogsAt[pos]
    BY <1>p, <1>t, <1>4, ReplayConstants DEF EndBlock, Scanning
  <2>2. pos + 1 \in Heights
    BY <1>t, <2>1, ReplayConstants
  <2>3. FrontierItem(pos + 1) \in Items /\ FrontierItem(pos + 1).block = pos + 1
    BY <2>2, FrontierIsItem
  <2>4. channel' = channel \/ channel' = Append(channel, FrontierItem(pos + 1))
    BY <1>4, <2>1 DEF EndBlock, Send
  <2>5. ChannelOrdered' /\ channel' \in Seq(Items)
        /\ \A other \in Logs : InChannel(other) => InChannel(other)'
    <3>1. CASE channel' = channel
      <4>1. \A i \in 1..Len(channel) : channel[i].block \in Nat
        BY <1>t, ItemFacts
      <4>2. taken # NoLog => taken.height \in Nat
        BY <1>t, LogFacts DEF ReplayTypes
      <4>. QED
        BY <1>t, <1>v, <2>1, <3>1, <4>1, <4>2 DEF ChannelOrdered, InChannel
    <3>2. CASE channel' = Append(channel, FrontierItem(pos + 1))
      <4>1. /\ channel' \in Seq(Items) /\ Len(channel') = Len(channel) + 1
            /\ \A i \in 1..Len(channel) : channel'[i] = channel[i]
            /\ Len(channel) \in Nat
        BY <1>t, <2>3, <3>2, SentItems
      <4>2. ChannelOrdered'
        BY <1>t, <1>v, <2>1, <2>3, <3>2, SendKeepsOrder
      <4>. QED
        BY <4>1, <4>2 DEF InChannel
    <3>. QED
      BY <2>4, <3>1, <3>2
  <2>6. ReplayTypes'
    BY <1>t, <1>v, <2>1, <2>2, <2>5 DEF ReplayTypes
  <2>7. ASSUME NEW other \in Logs, SentBefore(other)'
        PROVE  SentBefore(other)
    <3>1. /\ other.height \in Nat /\ other.index \in Nat \ {0}
          /\ other.index <= LogsAt[other.height]
      BY LogFacts
    <3>. QED
      BY <1>t, <2>1, <2>7, <3>1 DEF SentBefore
  <2>8. Accounted'
    BY <1>p, <1>t, <1>v, <2>5, <2>7 DEF Accounted
  <2>. QED
    BY <1>1, <2>5, <2>6, <2>8
<1>. QED
  BY <1>2, <1>3, <1>4 DEF Source

\* A log below everything that is taken or on its way has been answered for.
LEMMA Passed ==
  ASSUME ReplayInv, NEW log \in Logs, NEW h \in Nat, log.height < h, h <= pos,
         \A i \in 1..Len(channel) : h <= channel[i].block,
         taken # NoLog => taken.height >= h
  PROVE  log \in accepted \cup failed \cup missed \cup PassedOver
<1>1. log.height \in Nat /\ pos \in Nat /\ channel \in Seq(Items) /\ log # NoLog
  BY LogFacts, ReplayConstants DEF ReplayInv, ReplayTypes
<1>2. SentBefore(log)
  BY <1>1 DEF SentBefore
<1>3. log # taken
  BY <1>1
<1>4. ~InChannel(log)
  <2>1. ASSUME NEW i \in 1..Len(channel), channel[i] = LogItem(log) PROVE FALSE
    <3>1. channel[i].block = log.height
      BY <2>1 DEF LogItem
    <3>. QED
      BY <1>1, <3>1
  <2>. QED
    BY <2>1 DEF InChannel
<1>. QED
  BY <1>2, <1>3, <1>4 DEF ReplayInv, Accounted

\* A log at the head of the channel is dispatched, or missed on the spot.
LEMMA TakeLogKeeps ==
  ASSUME ReplayInv, TakeLog
  PROVE  /\ ReplayTypes' /\ JobIsTaken' /\ ChannelOrdered'
         /\ Accounted' /\ MissesHold' /\ OnlyFailedSkipped'
<1> DEFINE log == channel[1].log
<1>p. PassedOver' = PassedOver /\ head \in Nat /\ head <= Tip
  BY OpensUntouched, ReplayConstants DEF ReplayInv, OpenTypes
<1>t. /\ pos \in Heights /\ sent \in Nat /\ channel \in Seq(Items)
      /\ ReplayTypes /\ ChannelOrdered /\ Accounted /\ cursors \in [Mods -> Cursor]
      /\ JobIsTaken /\ MissesHold /\ OnlyFailedSkipped
  BY DEF ReplayInv, ReplayTypes, TypeOK
<1>1. /\ channel # <<>> /\ ~channel[1].frontier /\ channel' = Tail(channel)
      /\ UNCHANGED <<pos, sent, chunk, accepted, stop>> /\ job.pc = "ready"
  BY DEF TakeLog, BeginEvent, BeginDirect
<1>2. /\ channel' \in Seq(Items) /\ Len(channel) \in Nat \ {0}
      /\ Len(channel') = Len(channel) - 1
      /\ \A i \in 1..Len(channel') : channel'[i] = channel[i + 1]
      /\ channel[1] \in Items
  BY <1>t, <1>1, TakenItem
<1>3. log \in Logs /\ channel[1].block = log.height /\ channel[1] = LogItem(log)
  BY <1>1, <1>2, ItemFacts
<1>4. taken = NoLog /\ missed \subseteq failed /\ job.kind = "none"
  BY <1>1, <1>t DEF JobIsTaken, MissesHold
<1>5. ASSUME NEW other \in Logs, InChannel(other)
      PROVE  InChannel(other)' \/ other = log
  <2>1. PICK i \in 1..Len(channel) : channel[i] = LogItem(other)
    BY <1>5 DEF InChannel
  <2>2. CASE i = 1
    BY ZenonT(40), <1>3, <2>1, <2>2, LogItemIsItem
  <2>3. CASE i # 1
    <3>1. i - 1 \in 1..Len(channel') /\ channel'[i - 1] = channel[i]
      BY <1>2, <2>3
    <3>. QED
      BY <2>1, <3>1 DEF InChannel
  <2>. QED
    BY <2>2, <2>3
<1>. HIDE DEF log
<1>6. CASE stop \/ IsPoisoned(health[Mod])
  <2>1. HoldIfKeyed("event", Mod) /\ job' = Idle("top")
    BY ZenonT(40), <1>6 DEF TakeLog, BeginEvent, BeginDirect
  <2>2. Miss(log) /\ taken' = NoLog
    BY <2>1, <1>4 DEF TakeLog, Idle, log
  <2>3. cursors' = [cursors EXCEPT ![Mod] = Hold(@)]
    BY <2>1, ReplayConstants DEF HoldIfKeyed
  <2>4. cursors'[Mod].held = TRUE /\ cursors'[Mod].stored = cursors[Mod].stored
    BY <1>t, <2>3, ReplayConstants DEF Hold, Cursor
  <2>5. missed' = missed \cup {log} /\ failed \subseteq failed' /\ failed' \subseteq failed \cup {log}
        /\ (~stop => log \in failed')
    BY <2>2 DEF Miss
  <2>6. ReplayTypes'
    BY <1>t, <1>1, <1>2, <1>3, <2>2, <2>4, <2>5 DEF ReplayTypes
  <2>7. JobIsTaken'
    BY <2>1, <2>2 DEF JobIsTaken, Idle
  <2>8. ChannelOrdered'
    BY ZenonT(40), <1>t, <1>1, <2>2, TakeKeepsOrder
  <2>9. MissesHold'
    BY ZenonT(40), <1>1, <1>4, <2>1, <2>4, <2>5 DEF MissesHold, Idle
  <2>10. OnlyFailedSkipped'
    BY <1>p, <1>t, <1>1, <2>4, <2>5 DEF OnlyFailedSkipped
  <2>11. Accounted'
    <3>1. ASSUME NEW other \in Logs, SentBefore(other)'
          PROVE  other \in (accepted \cup failed \cup missed \cup PassedOver)' \/ InChannel(other)'
      <4>1. other \in accepted \cup failed \cup missed \cup PassedOver \/ InChannel(other)
        BY <1>p, <1>t, <1>1, <1>4, <3>1, LogFacts DEF Accounted, SentBefore
      <4>. QED
        BY <1>p, <1>1, <1>5, <2>5, <4>1
    <3>. QED
      BY <1>p, <3>1 DEF Accounted
  <2>. QED
    BY <2>6, <2>7, <2>8, <2>9, <2>10, <2>11
<1>7. CASE ~(stop \/ IsPoisoned(health[Mod]))
  <2>1. /\ \E pc \in {"init", "probe"} :
             job' = JobOf(pc, "event", Mod, Chain, channel[1].block, FALSE)
        /\ UNCHANGED cursors
    BY <1>7, ZenonT(40) DEF TakeLog, BeginEvent, BeginDirect
  <2>2. /\ job'.pc \in {"init", "probe"} /\ job'.kind = "event" /\ job'.mod = Mod
        /\ job'.height = channel[1].block /\ job'.removed = FALSE
    BY <2>1 DEF JobOf
  <2>3. taken' = log /\ UNCHANGED <<missed, failed>>
    BY <2>2 DEF TakeLog, log
  <2>4. ReplayTypes'
    BY ZenonT(40), <1>t, <1>1, <1>2, <1>3, <2>1, <2>3 DEF ReplayTypes
  <2>5. JobIsTaken'
    BY <1>3, <2>2, <2>3 DEF JobIsTaken
  <2>6. ChannelOrdered'
    BY <1>t, <1>1, <1>3, <2>3, TakeKeepsOrder
  <2>7. MissesHold' /\ OnlyFailedSkipped'
    BY ZenonT(40), <1>p, <1>t, <1>1, <1>4, <2>1, <2>3 DEF MissesHold, OnlyFailedSkipped
  <2>8. Accounted'
    <3>1. ASSUME NEW other \in Logs, SentBefore(other)'
          PROVE  other \in (accepted \cup failed \cup missed \cup PassedOver)' \/ other = taken'
                 \/ InChannel(other)'
      <4>1. other \in accepted \cup failed \cup missed \cup PassedOver \/ InChannel(other)
        BY <1>p, <1>t, <1>1, <1>4, <3>1, LogFacts DEF Accounted, SentBefore
      <4>. QED
        BY <1>p, <1>1, <1>5, <2>3, <4>1
    <3>. QED
      BY <1>p, <3>1 DEF Accounted
  <2>. QED
    BY <2>4, <2>5, <2>6, <2>7, <2>8
<1>. QED
  BY <1>6, <1>7

\* What the frontier at the head of the channel does to the stored cursor: it
\* moves it only to its own block, and only if nothing was missed.
LEMMA FrontierStored ==
  ASSUME ReplayInv, TakeFrontier
  PROVE  /\ cursors'[Mod].held = cursors[Mod].held
         /\ \/ cursors'[Mod].stored = cursors[Mod].stored
            \/ cursors'[Mod].stored = channel[1].block /\ missed = {}
<1>1. channel[1] \in Items
  BY DEF ReplayInv, ReplayTypes, TakeFrontier
<1>2. channel[1].block \in Nat /\ cursors[Mod] \in Cursor
  BY ZenonT(40), <1>1, ItemFacts, ReplayConstants DEF ReplayInv, TypeOK
<1>3. PICK r, w \in StoreOutcomes :
        cursors' = [cursors EXCEPT ![Mod] = CommitFrontier(@, channel[1].block, r, w)]
  BY ZenonT(40) DEF TakeFrontier, FrontierCommit
<1>4. r \in BOOLEAN /\ w \in BOOLEAN
  BY ZenonT(40), SupervisorAssumption DEF StoreOutcomes
<1>5. cursors'[Mod] = CommitFrontier(cursors[Mod], channel[1].block, r, w)
  BY <1>3, ReplayConstants DEF ReplayInv, TypeOK
<1>6. CASE cursors[Mod].held
  BY ZenonT(40), <1>5, <1>6 DEF CommitFrontier
<1>7. CASE ~cursors[Mod].held
  <2>1. missed = {}
    BY <1>7 DEF ReplayInv, MissesHold
  <2>2. cursors'[Mod] = Commit(cursors[Mod], channel[1].block, FALSE, r, w)
    BY <1>5, <1>7 DEF CommitFrontier
  <2>3. /\ Commit(cursors[Mod], channel[1].block, FALSE, r, w).stored
             \in {cursors[Mod].stored, channel[1].block}
        /\ Commit(cursors[Mod], channel[1].block, FALSE, r, w).held = cursors[Mod].held
    BY <1>2, <1>4, CommitStored, ZenonT(40)
  <2>. QED
    BY ZenonT(40), <2>1, <2>2, <2>3
<1>. QED
  BY <1>6, <1>7

\* A frontier is committed, or held back behind a miss.
LEMMA TakeFrontierKeeps ==
  ASSUME ReplayInv, TakeFrontier
  PROVE  /\ ReplayTypes' /\ JobIsTaken' /\ ChannelOrdered'
         /\ Accounted' /\ MissesHold' /\ OnlyFailedSkipped'
<1>p. PassedOver' = PassedOver /\ head \in Nat /\ head <= Tip
  BY OpensUntouched, ReplayConstants DEF ReplayInv, OpenTypes
<1>t. /\ pos \in Heights /\ pos \in Nat /\ channel \in Seq(Items)
      /\ ReplayTypes /\ ChannelOrdered /\ Accounted
      /\ JobIsTaken /\ MissesHold /\ OnlyFailedSkipped
  BY ReplayConstants DEF ReplayInv, ReplayTypes
<1>1. /\ channel # <<>> /\ channel[1].frontier /\ channel' = Tail(channel)
      /\ UNCHANGED <<pos, sent, taken, accepted, missed, failed, stop>>
      /\ job.pc = "ready" /\ job' = Idle("top")
  BY DEF TakeFrontier, FrontierCommit
<1>2. /\ channel' \in Seq(Items) /\ Len(channel) \in Nat \ {0}
      /\ Len(channel') = Len(channel) - 1
      /\ \A i \in 1..Len(channel') : channel'[i] = channel[i + 1]
      /\ channel[1] \in Items
  BY <1>t, <1>1, TakenItem
<1>3. /\ channel[1].block \in Nat /\ channel[1].block <= pos
      /\ \A other \in Logs : channel[1] # LogItem(other)
      /\ \A i \in 1..Len(channel) : channel[1].block <= channel[i].block
  BY <1>t, <1>1, <1>2, ItemFacts DEF ChannelOrdered
<1>4. taken = NoLog /\ missed \subseteq failed
  BY <1>1, <1>t DEF JobIsTaken, MissesHold
<1>5. ReplayTypes' /\ JobIsTaken'
  <2>1. cursors'[Mod].stored \in Heights \cup {None}
    BY <1>t, <1>2, ItemFacts, FrontierStored DEF ReplayTypes
  <2>. QED
    BY ZenonT(40), <1>t, <1>1, <1>2, <1>4, <2>1 DEF ReplayTypes, JobIsTaken, Idle
<1>6. ChannelOrdered'
  BY <1>t, <1>1, <1>4, TakeKeepsOrder
<1>7. MissesHold'
  BY <1>t, <1>1, <1>4, FrontierStored DEF MissesHold
<1>8. OnlyFailedSkipped'
  <2>1. CASE cursors'[Mod].stored = cursors[Mod].stored
    BY ZenonT(40), <1>p, <1>t, <1>1, <2>1 DEF OnlyFailedSkipped
  <2>2. CASE cursors'[Mod].stored = channel[1].block
    <3>1. ASSUME NEW log \in Logs, log.height < channel[1].block
          PROVE  log \in accepted \cup failed \cup PassedOver
      BY <1>3, <1>4, <3>1, Passed
    <3>. QED
      BY <1>p, <1>1, <2>2, <3>1 DEF OnlyFailedSkipped
  <2>. QED
    BY <2>1, <2>2, FrontierStored
<1>9. Accounted'
  <2>1. ASSUME NEW other \in Logs, InChannel(other)
        PROVE  InChannel(other)'
    <3>1. PICK i \in 1..Len(channel) : channel[i] = LogItem(other)
      BY <2>1 DEF InChannel
    <3>2. i # 1
      BY <1>3, <3>1
    <3>3. i - 1 \in 1..Len(channel') /\ channel'[i - 1] = channel[i]
      BY <1>2, <3>2
    <3>. QED
      BY ZenonT(40), <3>1, <3>3 DEF InChannel
  <2>. QED
    BY <1>p, <1>t, <1>1, <2>1 DEF Accounted, SentBefore
<1>. QED
  BY <1>5, <1>6, <1>7, <1>8, <1>9

\* The end of a dispatch: accepted, it commits a height below which everything
\* was answered for; missed, it withholds the frontiers from then on.
LEMMA JobKeeps ==
  ASSUME ReplayInv, ReplayJobStep
  PROVE  /\ ReplayTypes' /\ JobIsTaken' /\ ChannelOrdered'
         /\ Accounted' /\ MissesHold' /\ OnlyFailedSkipped'
<1>p. PassedOver' = PassedOver /\ head \in Nat /\ head <= Tip
  BY OpensUntouched, ReplayConstants DEF ReplayInv, OpenTypes
<1>t. /\ pos \in Heights /\ pos \in Nat /\ channel \in Seq(Items)
      /\ ReplayTypes /\ ChannelOrdered /\ Accounted /\ TypeOK /\ JobOK
      /\ JobIsTaken /\ MissesHold /\ OnlyFailedSkipped /\ cursors \in [Mods -> Cursor]
  BY ReplayConstants DEF ReplayInv, ReplayTypes, TypeOK
<1>u. UNCHANGED <<pos, sent, channel>>
  BY DEF ReplayJobStep
<1>1. CASE /\ job.kind = "none" /\ job.pc = "top" /\ UNCHANGED <<cursors, stop>>
           /\ job' = Idle(IF stop THEN "done" ELSE "ready")
           /\ UNCHANGED <<accepted, missed, failed, taken>>
  <2>1. ReplayTypes' /\ ChannelOrdered' /\ Accounted' /\ OnlyFailedSkipped'
    BY <1>p, <1>t, <1>u, <1>1
       DEF ReplayTypes, ChannelOrdered, Accounted, OnlyFailedSkipped, SentBefore, InChannel
  <2>2. job'.kind = "none" /\ job'.pc = IF stop THEN "done" ELSE "ready"
    BY <1>1 DEF Idle
  <2>. QED
    BY <1>t, <1>1, <2>1, <2>2 DEF JobIsTaken, MissesHold
<1>2. CASE /\ job.kind = "event" /\ UNCHANGED stop /\ job' = Idle("top")
           /\ \E r, w \in BOOLEAN :
                cursors' = [cursors EXCEPT ![Mod] = Commit(@, taken.height, FALSE, r, w)]
           /\ accepted' = accepted \cup {taken} /\ taken' = NoLog
           /\ UNCHANGED <<missed, failed>> /\ job.pc = "call"
  <2>1. taken \in Logs /\ taken.height \in Nat /\ taken # NoLog
    BY <1>2, <1>t, LogFacts DEF JobIsTaken
  <2>2. PICK r, w \in BOOLEAN :
          cursors' = [cursors EXCEPT ![Mod] = Commit(@, taken.height, FALSE, r, w)]
    BY ZenonT(40), <1>2
  <2>3. cursors'[Mod] = Commit(cursors[Mod], taken.height, FALSE, r, w) /\ cursors[Mod] \in Cursor
    BY <1>t, <2>2, ReplayConstants
  <2>4. /\ cursors'[Mod].stored \in {cursors[Mod].stored, taken.height}
        /\ cursors'[Mod].held = cursors[Mod].held
    <3>1. /\ Commit(cursors[Mod], taken.height, FALSE, r, w).stored
               \in {cursors[Mod].stored, taken.height}
          /\ Commit(cursors[Mod], taken.height, FALSE, r, w).held = cursors[Mod].held
      BY <2>1, <2>3, CommitStored, ZenonT(40)
    <3>. QED
      BY ZenonT(40), <2>3, <3>1
  <2>5. missed \subseteq failed
    BY <1>2, <1>t DEF MissesHold
  <2>6. ReplayTypes' /\ JobIsTaken' /\ ChannelOrdered'
    <3>1. taken.height \in Heights
      BY <2>1, LogFacts
    <3>. QED
      BY ZenonT(40), <1>t, <1>u, <1>2, <2>1, <2>4, <3>1
         DEF ReplayTypes, JobIsTaken, ChannelOrdered, Idle
  <2>7. MissesHold'
    BY ZenonT(40), <1>t, <1>2, <2>4, <2>5 DEF MissesHold
  <2>8. Accounted'
    BY <1>p, <1>t, <1>u, <1>2 DEF Accounted, SentBefore, InChannel
  <2>9. ASSUME NEW log \in Logs, log.height < taken.height
        PROVE  log \in accepted \cup failed \cup PassedOver
    <3>1. /\ taken.height <= pos
          /\ \A i \in 1..Len(channel) : taken.height <= channel[i].block
      BY ZenonT(40), <1>t, <2>1 DEF ChannelOrdered
    <3>. QED
      BY <2>1, <2>5, <2>9, <3>1, Passed
  <2>10. OnlyFailedSkipped'
    <3>1. ASSUME NEW log \in Logs, log.height < cursors'[Mod].stored
          PROVE  log \in accepted \cup failed \cup PassedOver
      BY ZenonT(40), <1>p, <1>t, <2>4, <2>9, <3>1 DEF OnlyFailedSkipped
    <3>. QED
      BY ZenonT(40), <1>p, <1>2, <3>1 DEF OnlyFailedSkipped
  <2>. QED
    BY <2>6, <2>7, <2>8, <2>10
<1>3. CASE /\ job.kind = "event" /\ UNCHANGED stop /\ job' = Idle("top")
           /\ cursors' = [cursors EXCEPT ![Mod] = Hold(@)]
           /\ Miss(taken) /\ taken' = NoLog /\ UNCHANGED accepted
  <2>1. taken \in Logs /\ job.pc \in {"init", "probe", "call"}
    BY <1>3, <1>t DEF JobIsTaken
  <2>2. cursors'[Mod].held = TRUE /\ cursors'[Mod].stored = cursors[Mod].stored
    BY <1>t, <1>3, ReplayConstants DEF Hold, Cursor
  <2>3. /\ missed' = missed \cup {taken} /\ failed \subseteq failed'
        /\ failed' \subseteq failed \cup {taken} /\ (~stop => taken \in failed')
    BY <1>3 DEF Miss
  <2>4. ReplayTypes' /\ JobIsTaken' /\ ChannelOrdered'
    BY ZenonT(40), <1>t, <1>u, <1>3, <2>1, <2>2, <2>3
       DEF ReplayTypes, JobIsTaken, ChannelOrdered, Idle
  <2>5. missed \subseteq failed
    BY <1>t, <2>1 DEF MissesHold
  <2>6. MissesHold'
    <3>1. job'.pc = "top"
      BY <1>3 DEF Idle
    <3>. QED
      BY <1>3, <2>2, <2>3, <2>5, <3>1 DEF MissesHold
  <2>7. Accounted'
    BY <1>p, <1>t, <1>u, <1>3, <2>3 DEF Accounted, SentBefore, InChannel
  <2>8. OnlyFailedSkipped'
    BY <1>p, <1>t, <1>3, <2>2, <2>3 DEF OnlyFailedSkipped
  <2>. QED
    BY <2>4, <2>6, <2>7, <2>8
<1>4. CASE /\ job.kind = "event" /\ UNCHANGED <<stop, cursors>>
           /\ job'.kind = "event" /\ job'.pc \in {"probe", "call"}
           /\ job'.height = job.height /\ job'.mod = job.mod /\ job'.removed = job.removed
           /\ UNCHANGED <<accepted, missed, failed, taken>>
  <2>1. ReplayTypes' /\ ChannelOrdered' /\ Accounted' /\ OnlyFailedSkipped'
    BY ZenonT(40), <1>p, <1>t, <1>u, <1>4
       DEF ReplayTypes, ChannelOrdered, Accounted, OnlyFailedSkipped, SentBefore, InChannel
  <2>. QED
    BY ZenonT(40), <1>t, <1>4, <2>1 DEF JobIsTaken, MissesHold
<1>. QED
  BY ZenonT(40), <1>t, <1>1, <1>2, <1>3, <1>4, JobCases

\* Between two blocks everything below the block scanned has been sent, and what
\* lies from there up to the floor is passed over.
LEMMA ReopenKeeps ==
  ASSUME ReplayInv, Reopen
  PROVE  /\ ReplayTypes' /\ JobIsTaken' /\ ChannelOrdered'
         /\ Accounted' /\ MissesHold' /\ OnlyFailedSkipped'
<1>t. /\ ReplayTypes /\ OpenTypes /\ JobIsTaken /\ ChannelOrdered /\ Accounted /\ MissesHold
      /\ OnlyFailedSkipped /\ pos \in Nat /\ channel \in Seq(Items)
  BY ReplayConstants DEF ReplayInv, ReplayTypes
<1>f. Floor \in 0..head /\ head \in Nat /\ head <= Tip
  BY <1>t, FloorType, ReplayConstants DEF OpenTypes
<1>1. /\ sent = 0 /\ pos < Floor /\ pos' = Floor /\ dropped' = dropped \cup Between(pos, pos')
      /\ UNCHANGED <<vars, sent, channel, taken, accepted, missed, failed, trigger, head, unread>>
  BY DEF Reopen
<1>2. UNCHANGED <<stop, job, cursors>>
  BY <1>1 DEF vars
<1>. HIDE DEF Floor
<1>3. pos' \in Heights /\ pos' \in Nat
  BY <1>1, <1>f, ReplayConstants
<1>4. PassedOver \subseteq PassedOver' /\ Between(pos, pos') \subseteq PassedOver'
  BY <1>1 DEF PassedOver
<1>5. ReplayTypes'
  BY <1>t, <1>1, <1>2, <1>3 DEF ReplayTypes
<1>6. JobIsTaken' /\ MissesHold'
  BY <1>t, <1>1, <1>2 DEF JobIsTaken, MissesHold
<1>7. OnlyFailedSkipped'
  BY <1>t, <1>1, <1>2, <1>4 DEF OnlyFailedSkipped
<1>8. ChannelOrdered'
  <2>1. \A i \in 1..Len(channel) : channel[i].block \in Nat
    BY <1>t, ItemFacts
  <2>2. taken # NoLog => taken.height \in Nat
    BY <1>t, LogFacts DEF ReplayTypes
  <2>. QED
    BY <1>t, <1>f, <1>1, <1>3, <2>1, <2>2 DEF ChannelOrdered
<1>9. Accounted'
  <2>1. ASSUME NEW log \in Logs, SentBefore(log)'
        PROVE  SentBefore(log) \/ log \in Between(pos, pos')
    <3>1. log.height \in Nat /\ log.index \in Nat \ {0}
      BY LogFacts
    <3>. QED
      BY <1>t, <1>1, <1>3, <2>1, <3>1 DEF SentBefore, Between
  <2>2. \A log \in Logs : InChannel(log)' = InChannel(log)
    BY <1>1 DEF InChannel
  <2>. QED
    BY <1>t, <1>1, <1>4, <2>1, <2>2 DEF Accounted
<1>. QED
  BY <1>5, <1>6, <1>7, <1>8, <1>9

\* A new process passes over what lies from the stored cursor up to its start;
\* below that everything was answered for.  Whatever was missed, taken or in the
\* channel is forgotten.
LEMMA RestartKeeps ==
  ASSUME ReplayInv, Restart
  PROVE  /\ ReplayTypes' /\ JobIsTaken' /\ ChannelOrdered'
         /\ Accounted' /\ MissesHold' /\ OnlyFailedSkipped'
<1>t. /\ ReplayTypes /\ OpenTypes /\ OnlyFailedSkipped /\ cursors[Mod] \in Cursor
      /\ PassesOverOnly /\ BelowHead
  BY ReplayConstants DEF ReplayInv, TypeOK
<1>1. /\ job' = Idle("top") /\ sent' = 0 /\ channel' = <<>> /\ taken' = NoLog
      /\ missed' = {} /\ UNCHANGED <<accepted, failed, trigger, head>>
  BY DEF Restart
<1>2. cursors'[Mod].stored = cursors[Mod].stored
  BY ZenonT(40), RestartStored
<1>3. PICK cursor \in Nat \cup {None} :
        /\ cursor \in {None, cursors[Mod].stored} /\ pos' = ResumeAt(cursor)
        /\ unread' \cup dropped' = Below(unread, pos') \cup Below(dropped, pos')
                                     \cup Between(cursors[Mod].stored, pos')
  <2>1. PICK cursor \in Nat \cup {None} :
           /\ cursor \in {None, cursors[Mod].stored} /\ pos' = ResumeAt(cursor)
           /\ unread' = Below(unread, pos') \cup
                (IF cursor = None THEN Between(cursors[Mod].stored, pos') ELSE {})
           /\ dropped' = Below(dropped, pos') \cup
                (IF cursor = None THEN {} ELSE Between(cursors[Mod].stored, pos'))
    BY ZenonT(40), <1>t, RestartOpens
  <2>2. unread' \cup dropped' = Below(unread, pos') \cup Below(dropped, pos')
                                  \cup Between(cursors[Mod].stored, pos')
    BY ZenonT(40), <2>1
  <2>. QED
    BY ZenonT(40), <2>1, <2>2
<1>4. cursors[Mod].stored \in Nat \cup {None}
  BY ZenonT(40), <1>t DEF Cursor
<1>5. pos' \in Heights /\ pos' \in Nat
  <2>1. Floor \in 0..head /\ head \in Nat /\ head <= Tip /\ ResumeAt(cursor) \in Floor..head
    <3>1. trigger \in Triggers /\ head \in 0..Tip
      BY <1>t DEF OpenTypes
    <3>2. head <= Tip
      BY <3>1, ReplayConstants
    <3>. QED
      BY ZenonT(40), <3>1, <3>2, FloorType, ResumeType
  <2>2. pos' = ResumeAt(cursor)
    BY ZenonT(40), <1>3
  <2>. HIDE DEF Floor
  <2>. QED
    BY <2>1, <2>2, ReplayConstants
<1>6. ReplayTypes' /\ JobIsTaken' /\ ChannelOrdered'
  <2>1. ReplayTypes'
    BY <1>t, <1>1, <1>2, <1>5 DEF ReplayTypes
  <2>2. JobIsTaken'
    BY ZenonT(40), <1>1 DEF JobIsTaken, Idle
  <2>3. ChannelOrdered'
    BY <1>1 DEF ChannelOrdered
  <2>. QED
    BY ZenonT(40), <2>1, <2>2, <2>3
<1>7. ASSUME NEW log \in Logs, log.height < pos'
      PROVE  log \in accepted \cup failed \cup PassedOver'
  <2>1. log.height \in Nat
    BY LogFacts
  <2>2. CASE log.height < cursors[Mod].stored
    <3>1. log \in accepted \cup failed \cup PassedOver
      BY <1>t, <2>2 DEF OnlyFailedSkipped
    <3>. QED
      BY ZenonT(40), <1>3, <1>7, <3>1 DEF PassedOver, Below
  <2>3. CASE ~(log.height < cursors[Mod].stored)
    <3>1. log \in Between(cursors[Mod].stored, pos')
      BY <1>4, <1>7, <2>1, <2>3 DEF Between, None
    <3>. QED
      BY <1>3, <3>1 DEF PassedOver
  <2>. QED
    BY <2>2, <2>3
<1>8. MissesHold'
  BY ZenonT(40), <1>1 DEF MissesHold
<1>9. OnlyFailedSkipped'
  <2>1. ASSUME NEW log \in Logs, log.height < cursors[Mod].stored
        PROVE  log \in accepted \cup failed \cup PassedOver'
    <3>1. CASE log.height < pos'
      BY <1>7, <3>1
    <3>2. CASE log \notin PassedOver
      BY <1>t, <2>1, <3>2 DEF OnlyFailedSkipped
    <3>3. CASE log \in PassedOver
      BY <1>t, <1>3, <1>4, <1>7, <2>1, <3>3, StaysPassed
    <3>. QED
      BY <3>1, <3>2, <3>3
  <2>. QED
    BY ZenonT(40), <1>1, <1>2, <2>1 DEF OnlyFailedSkipped
<1>10. Accounted'
  <2>1. ASSUME NEW log \in Logs, SentBefore(log)'
        PROVE  log.height < pos'
    <3>1. log.height \in Nat /\ log.index \in Nat \ {0}
      BY LogFacts
    <3>. QED
      BY <1>1, <2>1, <3>1 DEF SentBefore
  <2>. QED
    BY <1>1, <1>7, <2>1 DEF Accounted
<1>. QED
  BY <1>6, <1>8, <1>9, <1>10

\* Whatever begins, grows the chain or goes on: what has been passed over was
\* below the floor, or passed over without a cursor below start_block or the head.
LEMMA OpensKeep ==
  ASSUME ReplayInv, [ReplayNext]_allVars
  PROVE  OpenTypes' /\ PassesOverOnly' /\ BelowHead'
<1>t. /\ OpenTypes /\ PassesOverOnly /\ BelowHead /\ cursors[Mod] \in Cursor
      /\ pos \in Nat /\ trigger.start \in Nat \cup {None}
  BY ReplayConstants, ReplayAssumption DEF ReplayInv, TypeOK, ReplayTypes, OpenTypes
<1>f. Floor \in 0..head /\ head \in Nat /\ head <= Tip /\ Tip \in Nat
  BY <1>t, FloorType, ReplayConstants DEF OpenTypes
<1>h. \A log \in Logs : log.height \in Nat
  BY LogFacts
<1>1. CASE NewBlock
  <2>1. head < Tip /\ head' = head + 1 /\ UNCHANGED <<trigger, unread, dropped>>
    BY <1>1 DEF NewBlock
  <2>2. Floor' \in Nat /\ Floor <= Floor'
    BY <1>t, <2>1, FloorRises DEF OpenTypes
  <2>. HIDE DEF Floor
  <2>. QED
    BY <1>t, <1>f, <1>h, <2>1, <2>2 DEF OpenTypes, PassesOverOnly, BelowHead, PassedOver
<1>2. CASE Reopen
  <2>1. /\ pos' = Floor /\ dropped' = dropped \cup Between(pos, pos')
        /\ UNCHANGED <<trigger, head, unread>>
    BY <1>2 DEF Reopen
  <2>2. Floor' = Floor
    BY <2>1 DEF Floor
  <2>. HIDE DEF Floor
  <2>. QED
    BY <1>t, <1>f, <1>h, <2>1, <2>2
       DEF OpenTypes, PassesOverOnly, BelowHead, PassedOver, Between
<1>3. CASE Restart
  <2>1. UNCHANGED <<trigger, head>>
    BY <1>3 DEF Restart
  <2>2. Floor' = Floor
    BY <2>1 DEF Floor
  <2>3. PICK cursor \in Nat \cup {None} :
          /\ cursor \in {None, cursors[Mod].stored} /\ pos' = ResumeAt(cursor)
          /\ unread' = Below(unread, pos') \cup
               (IF cursor = None THEN Between(cursors[Mod].stored, pos') ELSE {})
          /\ dropped' = Below(dropped, pos') \cup
               (IF cursor = None THEN {} ELSE Between(cursors[Mod].stored, pos'))
    BY ZenonT(40), <1>t, <1>3, RestartOpens
  <2>r. /\ ResumeAt(cursor) \in Floor..head
        /\ Seed(cursor) \in Nat \cup {None}
        /\ Seed(cursor) # None => \/ ResumeAt(cursor) = Floor
                                  \/ ResumeAt(cursor) = head /\ head <= Seed(cursor)
                                  \/ ResumeAt(cursor) = Seed(cursor)
    <3>1. trigger \in Triggers /\ head \in 0..Tip
      BY <1>t DEF OpenTypes
    <3>. QED
      BY <3>1, ResumeType
  <2>p. pos' = ResumeAt(cursor)
    BY ZenonT(40), <2>3
  <2>4. pos' \in Floor..head /\ pos' \in Nat
    <3>. HIDE DEF Floor
    <3>. QED
      BY <1>f, <2>r, <2>p
  <2>5. Seed(cursor) = None \/ pos' = Floor \/ pos' <= Seed(cursor)
    <3>. HIDE DEF Floor, Seed
    <3>. QED
      BY <1>f, <2>r, <2>p, <2>4
  <2>6. ASSUME NEW log \in Between(cursors[Mod].stored, pos')
        PROVE  /\ log \in Logs /\ log.height < head
               /\ cursor # None => log.height < Floor
               /\ cursor = None => \/ log.height < Floor \/ trigger.start = None
                                   \/ log.height < trigger.start
    <3>1. log \in Logs /\ cursors[Mod].stored <= log.height /\ log.height < pos'
      BY DEF Between
    <3>2. CASE cursor = None
      <4>1. Seed(cursor) = trigger.start
        BY <3>2 DEF Seed
      <4>. HIDE DEF Floor
      <4>. QED
        BY <1>t, <1>f, <1>h, <2>4, <2>5, <3>1, <3>2, <4>1 DEF None
    <3>3. CASE cursor # None
      <4>1. Seed(cursor) = cursor /\ cursor = cursors[Mod].stored /\ cursor \in Nat
        BY <2>3, <3>3 DEF Seed
      <4>. HIDE DEF Floor
      <4>. QED
        BY <1>f, <1>h, <2>4, <2>5, <3>1, <3>3, <4>1 DEF None
    <3>. QED
      BY <3>2, <3>3
  <2>. HIDE DEF Floor
  <2>7. /\ unread' \subseteq unread \cup Between(cursors[Mod].stored, pos')
        /\ dropped' \subseteq dropped \cup Between(cursors[Mod].stored, pos')
        /\ cursor # None => unread' \subseteq unread
        /\ cursor = None => dropped' \subseteq dropped
    BY <2>3 DEF Below
  <2>8. OpenTypes' /\ BelowHead'
    BY <1>t, <2>1, <2>6, <2>7 DEF OpenTypes, BelowHead, PassedOver
  <2>9. PassesOverOnly'
    BY <1>t, <2>1, <2>2, <2>6, <2>7 DEF PassesOverOnly
  <2>. QED
    BY <2>8, <2>9
<1>4. CASE Source \/ TakeLog \/ TakeFrontier \/ ReplayJobStep \/ Ambient \/ UNCHANGED allVars
  <2>1. UNCHANGED <<trigger, head, unread, dropped>> /\ PassedOver' = PassedOver
    BY <1>4, OpensUntouched
  <2>. QED
    BY <1>t, <2>1 DEF OpenTypes, PassesOverOnly, BelowHead, Floor
<1>. QED
  BY <1>1, <1>2, <1>3, <1>4 DEF ReplayNext, Quiescent

\* A step that touches neither scan nor channel nor cursor leaves the account as
\* it is.
LEMMA Untouched ==
  ASSUME ReplayInv,
         UNCHANGED <<pos, sent, chunk, channel, taken, accepted, missed, failed, PassedOver>>,
         UNCHANGED cursors
  PROVE  ReplayTypes' /\ ChannelOrdered' /\ Accounted' /\ OnlyFailedSkipped'
<1>t. ReplayTypes /\ ChannelOrdered /\ Accounted /\ OnlyFailedSkipped
  BY ZenonT(40) DEF ReplayInv
<1>u. /\ pos' = pos /\ sent' = sent /\ channel' = channel /\ taken' = taken
      /\ accepted' = accepted /\ missed' = missed /\ failed' = failed
      /\ PassedOver' = PassedOver /\ cursors' = cursors
  OBVIOUS
<1>1. ReplayTypes'
  BY <1>t, <1>u DEF ReplayTypes
<1>2. ChannelOrdered'
  BY <1>t, <1>u DEF ChannelOrdered
<1>3. Accounted'
  <2>1. \A log \in Logs : SentBefore(log)' = SentBefore(log) /\ InChannel(log)' = InChannel(log)
    BY <1>u DEF SentBefore, InChannel
  <2>. QED
    BY <1>t, <1>u, <2>1 DEF Accounted
<1>4. OnlyFailedSkipped'
  BY ZenonT(40), <1>t, <1>u DEF OnlyFailedSkipped
<1>. QED
  BY <1>1, <1>2, <1>3, <1>4

\* Every step of source, loop, supervisor and operating system keeps the
\* invariant.
LEMMA ReplayStepKeeps == ReplayInv /\ [ReplayNext]_allVars => ReplayInv'
<1> SUFFICES ASSUME ReplayInv, [ReplayNext]_allVars PROVE ReplayInv'
  OBVIOUS
<1>t. TypeOK /\ JobOK /\ ReplayTypes
  BY DEF ReplayInv
<1>o. OpenTypes' /\ PassesOverOnly' /\ BelowHead'
  BY OpensKeep
<1>1. CASE Restart
  BY <1>1, <1>o, <1>t, RestartTypes, RestartKeeps DEF ReplayInv
<1>2. CASE Source \/ TakeLog \/ TakeFrontier \/ ReplayJobStep
  <2>1. TypeOK' /\ JobOK'
    BY <1>2, <1>t, ProcessStep, TypeStep
  <2>. QED
    BY <1>2, <1>o, <2>1, SourceKeeps, TakeLogKeeps, TakeFrontierKeeps, JobKeeps DEF ReplayInv
<1>3. CASE Ambient \/ Quiescent \/ UNCHANGED allVars
  <2>1. TypeOK' /\ JobOK'
    <3>1. Ambient \/ UNCHANGED allVars
      BY <1>3 DEF Quiescent
    <3>. QED
      BY <3>1, <1>t, ProcessStep, TypeStep
  <2>2. UNCHANGED replayVars /\ UNCHANGED cursors
    BY <1>3 DEF Ambient, Quiescent, allVars, vars, Tick, FireStop, LoopExit
  <2>3. \/ UNCHANGED job /\ (stop => stop')
        \/ job.pc = "ready" /\ UNCHANGED stop /\ job' = Idle("done")
    BY <1>3 DEF Ambient, Quiescent, allVars, vars, Tick, FireStop, LoopExit
  <2>4. UNCHANGED <<pos, sent, chunk, channel, taken, accepted, missed, failed, PassedOver>>
    BY <2>2 DEF replayVars, openVars, PassedOver
  <2>5. ReplayTypes' /\ ChannelOrdered' /\ Accounted' /\ OnlyFailedSkipped'
    BY <2>2, <2>4, Untouched
  <2>6. JobIsTaken'
    <3>t. JobIsTaken /\ taken' = taken
      BY ZenonT(40), <2>4 DEF ReplayInv
    <3>1. CASE job' = job
      BY <3>t, <3>1 DEF JobIsTaken
    <3>2. CASE job.pc = "ready" /\ job' = Idle("done")
      BY ZenonT(40), <3>t, <3>2 DEF JobIsTaken, Idle
    <3>. QED
      BY <2>3, <3>1, <3>2
  <2>7. MissesHold'
    BY <2>2, <2>3, <2>4 DEF ReplayInv, MissesHold, Idle
  <2>. QED
    BY <1>o, <2>1, <2>5, <2>6, <2>7 DEF ReplayInv
<1>4. CASE Reopen
  <2>1. UNCHANGED vars
    BY <1>4 DEF Reopen
  <2>2. TypeOK' /\ JobOK'
    BY <1>t, <2>1, TypeStep
  <2>. QED
    BY <1>4, <1>o, <2>2, ReopenKeeps DEF ReplayInv
<1>5. CASE NewBlock
  <2>1. UNCHANGED <<pos, sent, chunk, channel, taken, accepted, missed, failed, PassedOver>>
    BY <1>5 DEF NewBlock, PassedOver
  <2>2. UNCHANGED vars
    BY <1>5 DEF NewBlock
  <2>3. TypeOK' /\ JobOK'
    BY <1>t, <2>2, TypeStep
  <2>4. UNCHANGED <<stop, job, cursors>>
    BY <2>2 DEF vars
  <2>5. ReplayTypes' /\ ChannelOrdered' /\ Accounted' /\ OnlyFailedSkipped'
    BY <2>1, <2>4, Untouched
  <2>6. JobIsTaken' /\ MissesHold'
    BY ZenonT(40), <2>1, <2>4 DEF ReplayInv, JobIsTaken, MissesHold
  <2>. QED
    BY <1>o, <2>3, <2>5, <2>6 DEF ReplayInv
<1>. QED
  BY <1>1, <1>2, <1>3, <1>4, <1>5 DEF ReplayNext

\* The invariant holds across any number of deaths and restarts.
LEMMA ReplayInvariant == ReplaySpec => []ReplayInv
BY ReplayInitHolds, ReplayStepKeeps, PTL DEF ReplaySpec

\* Wherever a process dies or stops, and whichever reads and writes of the store
\* fail, the cursor the next one reads lies past no log but those accepted, those
\* a running process dispatched and failed, and those an open passed over.
THEOREM ReplaySkipsOnlyFailures == ReplaySpec => []OnlyFailedSkipped
<1>1. ReplayInv => OnlyFailedSkipped
  BY DEF ReplayInv
<1>. QED
  BY <1>1, ReplayInvariant, PTL

\* What an open passes over: with a cursor only what max_lookback leaves behind;
\* without one also what lies below start_block, or below the head where the
\* trigger has no start_block.
THEOREM OpensPassOverOnly == ReplaySpec => []PassesOverOnly
<1>1. ReplayInv => PassesOverOnly
  BY DEF ReplayInv
<1>. QED
  BY <1>1, ReplayInvariant, PTL

\* After a miss only the commit of a later accepted log moves the stored cursor
\* past it: the frontiers of the bulk backfill are withheld.
THEOREM FrontiersWaitForMisses == ReplaySpec => FrontierNeverPassesMiss
<1> DEFINE Passes ==
      \A log \in missed \ accepted :
        cursors[Mod].stored <= log.height /\ log.height < cursors'[Mod].stored =>
          \E other \in accepted' : other.height = cursors'[Mod].stored
<1>1. ReplayInv /\ [ReplayNext]_allVars => Passes
  <2> SUFFICES ASSUME ReplayInv, [ReplayNext]_allVars, NEW log \in missed \ accepted,
                      cursors[Mod].stored <= log.height, log.height < cursors'[Mod].stored
               PROVE  \E other \in accepted' : other.height = cursors'[Mod].stored
    OBVIOUS
  <2>t. /\ TypeOK /\ JobOK /\ JobIsTaken /\ cursors[Mod] \in Cursor
        /\ cursors \in [Mods -> Cursor] /\ log \in Logs
    BY ZenonT(40), ReplayConstants DEF ReplayInv, TypeOK, ReplayTypes
  <2>1. cursors[Mod].stored \in Int /\ log.height \in Nat
    BY <2>t, LogFacts DEF Cursor, None
  <2>2. cursors'[Mod].stored # cursors[Mod].stored
    BY <2>1
  <2>3. ~TakeFrontier
    BY ZenonT(40), <2>2, FrontierStored
  <2>4. cursors' # cursors
    BY <2>2
  <2>5. cursors' # [cursors EXCEPT ![Mod] = Hold(@)]
    BY <2>t, <2>2, ReplayConstants DEF Hold, Cursor
  <2>6. ~TakeLog
    <3>1. ~HoldIfKeyed("event", Mod)
      BY <2>5, ReplayConstants DEF HoldIfKeyed
    <3>. QED
      BY ZenonT(40), <2>4, <3>1 DEF TakeLog, BeginEvent, BeginDirect
  <2>7. ~Restart
    BY ZenonT(40), <2>2, RestartStored
  <2>8. ReplayJobStep
    BY ZenonT(40), <2>3, <2>4, <2>6, <2>7
       DEF ReplayNext, Source, OpenChunk, SendLog, EndBlock, Reopen, NewBlock, Ambient,
           Quiescent, allVars, vars, Tick, FireStop, LoopExit
  <2>9. /\ \E r, w \in BOOLEAN :
             cursors' = [cursors EXCEPT ![Mod] = Commit(@, taken.height, FALSE, r, w)]
        /\ accepted' = accepted \cup {taken} /\ taken \in Logs
    BY ZenonT(40), <2>t, <2>4, <2>5, <2>8, JobCases DEF JobIsTaken
  <2>10. PICK r, w \in BOOLEAN :
           cursors' = [cursors EXCEPT ![Mod] = Commit(@, taken.height, FALSE, r, w)]
    BY ZenonT(40), <2>9
  <2>11. taken.height \in Nat
    BY <2>9, LogFacts
  <2>12. Commit(cursors[Mod], taken.height, FALSE, r, w).stored
           \in {cursors[Mod].stored, taken.height}
    BY <2>t, <2>11, CommitStored, ZenonT(40)
  <2>13. cursors'[Mod] = Commit(cursors[Mod], taken.height, FALSE, r, w)
    BY <2>t, <2>10, ReplayConstants
  <2>14. cursors'[Mod].stored = taken.height
    BY ZenonT(40), <2>2, <2>12, <2>13
  <2>. QED
    BY ZenonT(40), <2>9, <2>14
<1>. QED
  BY <1>1, ReplayInvariant, PTL DEF ReplaySpec, FrontierNeverPassesMiss
=============================================================================
