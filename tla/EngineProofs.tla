---------------------------- MODULE EngineProofs ----------------------------
(***************************************************************************)
(* What the engine's loop and what runs beside it guarantee.  The task     *)
(* manager's drain and the event loop: for any finite number of graceful   *)
(* tasks, any size of the wake-up queue and any sources.  A schedule       *)
(* source: for any period and any clock.  The HTTP gate: for any hosts,    *)
(* lists, rules, timeouts and caps.                                        *)
(***************************************************************************)
EXTENDS EventLoop, Schedule, HttpExchange, FiniteSetTheorems, TLAPS

\* A leaf that names no prover is tried with each of these in turn.
USE SMT, Zenon, Z3T(30), SMTT(30)

-----------------------------------------------------------------------------
(* A schedule source. *)

ScheduleTypes ==
  /\ wall \in 0 .. MaxWall /\ open \in BOOLEAN
  /\ timer \in [at : {"arm", "sleep", "gone"}, due : Nat, left : 0 .. Recheck]
  /\ ticks \in [last : Int, first : Int]
  /\ slot \in {<<>>} \cup {<<t>> : t \in Int}

\* The last tick is not in the clock's future, and a task that sleeps sleeps
\* towards a minute after it: what arming from the clock, rather than from the
\* minute that was due, is for.
ArmedAhead ==
  /\ -1 <= ticks.last /\ ticks.last <= wall
  /\ timer.at = "sleep" => timer.due > ticks.last

ScheduleInv == ScheduleTypes /\ ArmedAhead /\ FirstTickWaits

\* The next matching minute is after the one it is asked for.
LEMMA NextIsLater ==
  ASSUME NEW t \in Nat
  PROVE  NextAfter(t) \in Nat /\ NextAfter(t) > t
<1>1. Period \in Nat /\ Period > 0
  BY ScheduleAssumption
<1>2. t \div Period \in Nat /\ t % Period \in 0 .. (Period - 1)
  BY <1>1
<1>3. t = Period * (t \div Period) + (t % Period)
  BY <1>1
<1>4. (t \div Period + 1) * Period = Period * (t \div Period) + Period
  BY <1>1, <1>2
<1> QED
  BY <1>1, <1>2, <1>3, <1>4 DEF NextAfter

\* The lesser of a bound and what is left: how long a pass sleeps.
LEMMA LesserType ==
  ASSUME NEW a \in Nat, NEW b \in Nat
  PROVE  Lesser(a, b) \in Nat /\ Lesser(a, b) <= b /\ Lesser(a, b) <= a
BY DEF Lesser

\* A schedule task begins with nothing armed and an empty slot.
LEMMA ScheduleInit_Inv == ScheduleInit => ScheduleInv
BY ScheduleAssumption
   DEF ScheduleInit, ScheduleInv, ScheduleTypes, ArmedAhead, FirstTickWaits

\* Every pass of the schedule task, and every move of the clock, keeps the
\* invariant.
LEMMA ScheduleStep ==
  ASSUME ScheduleInv, [ScheduleNext]_scheduleVars
  PROVE  ScheduleInv'
<1> USE ScheduleAssumption
<1>0. /\ ScheduleTypes /\ ArmedAhead /\ FirstTickWaits
      /\ wall \in Nat /\ wall <= MaxWall
      /\ timer \in [at : {"arm", "sleep", "gone"}, due : Nat, left : 0 .. Recheck]
      /\ ticks \in [last : Int, first : Int]
      /\ ticks.last \in Int /\ ticks.first \in Int
  BY DEF ScheduleInv, ScheduleTypes
<1>1. CASE Arm
  <2>1. NextAfter(wall) \in Nat /\ NextAfter(wall) > wall
    BY <1>0, NextIsLater
  <2>2. Lesser(NextAfter(wall) - wall, Recheck) \in 0 .. Recheck
    <3>1. NextAfter(wall) - wall \in Nat
      BY <1>0, <2>1
    <3> QED
      BY <3>1, LesserType
  <2>3. /\ timer' = [at |-> "sleep", due |-> NextAfter(wall),
                     left |-> Lesser(NextAfter(wall) - wall, Recheck)]
        /\ wall' = wall /\ slot' = slot /\ open' = open /\ ticks' = ticks
    BY <1>1 DEF Arm
  <2>4. ScheduleTypes'
    BY <1>0, <2>1, <2>2, <2>3 DEF ScheduleTypes
  <2>5. ArmedAhead'
    BY <1>0, <2>1, <2>3 DEF ArmedAhead
  <2> QED
    BY <1>0, <2>3, <2>4, <2>5 DEF ScheduleInv, FirstTickWaits
<1>2. CASE Wake
  <2>1. CASE wall < timer.due
    BY <1>0, <1>2, <2>1
       DEF Wake, ScheduleInv, ScheduleTypes, ArmedAhead, FirstTickWaits
  <2>2. CASE ~(wall < timer.due) /\ open
    <3>1. /\ timer' = [timer EXCEPT !.at = "arm"] /\ slot' = SendTick(slot, wall)
          /\ ticks' = [last |-> wall, first |-> IF slot = <<>> THEN wall ELSE ticks.first]
          /\ wall' = wall /\ open' = open
      BY <1>2, <2>2 DEF Wake
    <3>2. CASE slot = <<>>
      <4>1. slot' = <<wall>> /\ ticks' = [last |-> wall, first |-> wall]
        BY <3>1, <3>2 DEF SendTick
      <4> QED
        BY <1>0, <3>1, <4>1 DEF ScheduleInv, ScheduleTypes, ArmedAhead, FirstTickWaits
    <3>3. CASE slot # <<>>
      <4>1. slot' = slot /\ ticks' = [last |-> wall, first |-> ticks.first]
        BY <3>1, <3>3 DEF SendTick
      <4> QED
        BY <1>0, <3>1, <4>1 DEF ScheduleInv, ScheduleTypes, ArmedAhead, FirstTickWaits
    <3> QED
      BY <3>2, <3>3
  <2>3. CASE ~(wall < timer.due) /\ ~open
    BY <1>0, <1>2, <2>3
       DEF Wake, ScheduleInv, ScheduleTypes, ArmedAhead, FirstTickWaits
  <2> QED
    BY <2>1, <2>2, <2>3
<1>3. CASE Closed
  BY <1>0, <1>3 DEF Closed, ScheduleInv, ScheduleTypes, ArmedAhead, FirstTickWaits
<1>4. CASE Receive
  BY <1>0, <1>4 DEF Receive, ScheduleInv, ScheduleTypes, ArmedAhead, FirstTickWaits
<1>5. CASE DropStream
  BY Zenon, <1>0, <1>5 DEF DropStream, ScheduleInv, ScheduleTypes, ArmedAhead, FirstTickWaits
<1>6. CASE ClockRuns
  <2>1. wall' \in 0 .. MaxWall /\ wall' >= wall
    BY <1>0, <1>6 DEF ClockRuns, Lesser
  <2>2. /\ timer' \in [at : {"arm", "sleep", "gone"}, due : Nat, left : 0 .. Recheck]
        /\ timer'.at = timer.at /\ timer'.due = timer.due
    BY <1>0, <1>6 DEF ClockRuns
  <2>3. slot' = slot /\ open' = open /\ ticks' = ticks
    BY <1>6 DEF ClockRuns
  <2> QED
    BY <1>0, <2>1, <2>2, <2>3
       DEF ScheduleInv, ScheduleTypes, ArmedAhead, FirstTickWaits
<1>7. CASE ClockSteps
  <2>1. /\ wall' \in 0 .. MaxWall /\ timer' = timer /\ slot' = slot /\ open' = open
        /\ ticks' = IF wall' < wall THEN [ticks EXCEPT !.last = -1] ELSE ticks
    BY <1>7 DEF ClockSteps
  <2>2. /\ ticks' \in [last : Int, first : Int] /\ ticks'.first = ticks.first
        /\ ticks'.last = IF wall' < wall THEN -1 ELSE ticks.last
    BY <1>0, <2>1
  <2>3. timer.due \in Nat
    BY <1>0
  <2>4. ArmedAhead'
    BY <1>0, <2>1, <2>2, <2>3 DEF ArmedAhead
  <2> QED
    BY <1>0, <2>1, <2>2, <2>4 DEF ScheduleInv, ScheduleTypes, FirstTickWaits
<1>8. CASE UNCHANGED scheduleVars
  BY <1>0, <1>8 DEF scheduleVars, ScheduleInv, ScheduleTypes, ArmedAhead, FirstTickWaits
<1> QED
  BY <1>1, <1>2, <1>3, <1>4, <1>5, <1>6, <1>7, <1>8 DEF ScheduleNext

\* For any period and any steps of the clock: a tick is for a minute after the
\* reading the last tick was generated at, so no backlog ever fires.
THEOREM NeverBursts == ScheduleSpec => NoBurst
<1>1. ScheduleInv /\ [ScheduleNext]_scheduleVars =>
        [ticks'.last # ticks.last /\ wall' = wall => timer.due > ticks.last]_scheduleVars
  <2> SUFFICES ASSUME ScheduleInv, ScheduleNext, ticks'.last # ticks.last, wall' = wall
               PROVE  timer.due > ticks.last
    OBVIOUS
  <2>1. ticks' # ticks
    OBVIOUS
  <2>2. wall \in Nat
    BY DEF ScheduleInv, ScheduleTypes
  <2>3. ~ClockSteps
    BY <2>1, <2>2 DEF ClockSteps
  <2>4. Wake
    BY <2>1, <2>3 DEF ScheduleNext, Arm, Closed, Receive, DropStream, ClockRuns
  <2> QED
    BY <2>4 DEF Wake, ScheduleInv, ArmedAhead
<1> QED
  BY <1>1, ScheduleInit_Inv, ScheduleStep, PTL DEF ScheduleSpec, NoBurst

\* For any period and any steps of the clock: the tick that waits is the first
\* since the slot was empty.
THEOREM WaitingIsFirst == ScheduleSpec => []FirstTickWaits
<1>1. ScheduleInv => FirstTickWaits
  BY DEF ScheduleInv
<1> QED
  BY <1>1, ScheduleInit_Inv, ScheduleStep, PTL DEF ScheduleSpec

-----------------------------------------------------------------------------
(* The HTTP gate. *)

Hosts == Names \union DOMAIN Literals \union {NoHost}
Found == Addresses \union {Literals[h] : h \in DOMAIN Literals}
UnderWay == {"check", "connect", "head"}

Calls ==
  [phase : {"refuse", "answered"} \union UnderWay, host : Hosts,
   code : {"admitted", "denied", "uri_invalid", "destination", "transport", "timeout", "ok"},
   operator : OperatorAllow, connect : {Clamp(t, ConnectMax) : t \in Timeouts},
   first : {Clamp(t, FirstByteMax) : t \in Timeouts},
   deadline : Nat, since : Nat, seen : SUBSET Found]

Sockets == [at : {"none", "open", "closed"}, to : Found \union {<<0, 0>>}]

\* Field by field: what a frame is, and how long a body, is left open.
ReplyFields ==
  /\ reply = [sent |-> reply.sent, got |-> reply.got, left |-> reply.left,
              ended |-> reply.ended, error |-> reply.error]

HttpTypes ==
  /\ call = [phase |-> "new"] \/ call \in Calls
  /\ upload \in {"open", "ended", "failed"}
  /\ ReplyFields
  /\ socket \in Sockets
  /\ clock \in Nat

\* Past the lists, a request carries a host both admit; past the destination
\* check, addresses none of which the rules refuse.
Admitted == Admit(call.host, call.operator)
Judged == \A a \in call.seen : ~RefusedAddress(a)

Gated ==
  /\ call.phase = "new" => socket.at = "none"
  /\ call.phase \in UnderWay => call.code = "admitted" /\ Admitted
  /\ call.phase = "refuse" => call.code \in {"denied", "uri_invalid"}
  /\ call.phase \in {"refuse", "check", "connect"} => socket.at = "none"
  /\ call.phase = "connect" => Judged
  /\ call.phase = "head" => socket.at = "open"
  /\ Streaming => socket.at # "none"
  /\ socket.at # "none" => Admitted /\ Judged

HttpInv == HttpTypes /\ Gated /\ RefusalHeard

\* An exchange begins before its request is looked at, without a socket.
LEMMA HttpInit_Inv == HttpInit => HttpInv
<1> SUFFICES ASSUME HttpInit PROVE HttpInv
  OBVIOUS
<1>1. /\ call = [phase |-> "new"] /\ call.phase = "new" /\ upload = "open"
      /\ reply = Quiet /\ clock = 0
      /\ socket = [at |-> "none", to |-> <<0, 0>>] /\ socket.at = "none"
  BY DEF HttpInit
<1>2. HttpTypes
  BY <1>1 DEF HttpTypes, ReplyFields, Quiet, Sockets
<1>3. Gated /\ RefusalHeard
  BY <1>1 DEF Gated, RefusalHeard, Streaming, UnderWay
<1> QED
  BY <1>2, <1>3 DEF HttpInv

\* What a step that answers a pending call does to it.
LEMMA AnsweredFields ==
  ASSUME call \in Calls, NEW code \in {"destination", "transport", "timeout", "ok"}
  PROVE  /\ Answered(code) \in Calls
         /\ Answered(code).phase = "answered" /\ Answered(code).code = code
         /\ Answered(code).host = call.host /\ Answered(code).operator = call.operator
         /\ Answered(code).seen = call.seen /\ Answered(code).deadline = call.deadline
BY Zenon DEF Calls, Answered, UnderWay

\* Once the request was looked at, the call has all its fields.
LEMMA CallMade ==
  ASSUME HttpTypes, call.phase # "new"
  PROVE  call \in Calls
BY DEF HttpTypes

\* Every step of guest, gate, resolver, server and clock keeps the invariant.
LEMMA HttpStep ==
  ASSUME HttpInv, [HttpNext]_httpVars
  PROVE  HttpInv'
<1>0. HttpTypes /\ Gated /\ RefusalHeard
  BY DEF HttpInv
<1>a. /\ upload \in {"open", "ended", "failed"} /\ ReplyFields
      /\ socket \in Sockets /\ clock \in Nat
  BY <1>0 DEF HttpTypes
<1>1. CASE SendRequest
  <2>1. PICK host \in Hosts, operator \in OperatorAllow, t \in Timeouts :
          LET verdict == IF host = NoHost THEN "uri_invalid"
                         ELSE IF Admit(host, operator) THEN "admitted" ELSE "denied"
          IN  call' = [phase |-> IF verdict = "admitted" THEN "check" ELSE "refuse",
                       host |-> host, code |-> verdict, operator |-> operator,
                       connect |-> Clamp(t, ConnectMax), first |-> Clamp(t, FirstByteMax),
                       deadline |-> clock + Total, since |-> clock, seen |-> {}]
    BY Zenon, <1>1 DEF SendRequest, Hosts
  <2>2. /\ call.phase = "new" /\ upload' = upload /\ reply' = reply
        /\ socket' = socket /\ clock' = clock
    BY <1>1 DEF SendRequest
  <2>3. clock + Total \in Nat
    BY <1>a, HttpAssumption
  <2>4. call' \in Calls
    BY <1>a, <2>1, <2>3 DEF Calls, UnderWay
  <2>5. /\ socket'.at = "none"
        /\ call'.phase \in {"check", "refuse"}
        /\ call'.phase = "check" =>
             call'.code = "admitted" /\ Admit(call'.host, call'.operator)
        /\ call'.phase = "refuse" => call'.code \in {"denied", "uri_invalid"}
    BY <1>0, <2>1, <2>2 DEF Gated
  <2>6. HttpTypes'
    BY <1>a, <2>2, <2>4 DEF HttpTypes, ReplyFields
  <2>7. Gated' /\ RefusalHeard'
    BY <2>5 DEF Gated, RefusalHeard, Streaming, UnderWay, Admitted
  <2> QED
    BY <2>6, <2>7 DEF HttpInv
<1>2. CASE EndUpload
  <2>1. /\ upload' \in {"ended", "failed"} /\ call' = call /\ reply' = reply
        /\ socket' = socket /\ clock' = clock
    BY <1>2 DEF EndUpload
  <2>2. HttpTypes'
    BY <1>0, <2>1 DEF HttpTypes, ReplyFields
  <2> QED
    BY <1>0, <2>1, <2>2
       DEF HttpInv, Gated, RefusalHeard, Streaming, Admitted, Judged, Expired
<1>3. CASE Refuse
  <2>1. /\ call.phase = "refuse" /\ (upload # "open" \/ Expired)
        /\ call' = [call EXCEPT !.phase = "answered"]
        /\ upload' = upload /\ reply' = reply /\ socket' = socket /\ clock' = clock
    BY <1>3 DEF Refuse
  <2>2. call \in Calls
    BY <1>0, <2>1, CallMade
  <2>3. /\ call' \in Calls /\ call'.phase = "answered" /\ call'.code = call.code
        /\ call'.deadline = call.deadline
    BY <2>1, <2>2 DEF Calls
  <2>4. socket'.at = "none" /\ call'.code \in {"denied", "uri_invalid"}
    BY <1>0, <2>1, <2>3 DEF Gated
  <2>5. HttpTypes'
    BY <1>a, <2>1, <2>3 DEF HttpTypes, ReplyFields
  <2>6. Gated' /\ RefusalHeard'
    BY <2>1, <2>3, <2>4 DEF Gated, RefusalHeard, Streaming, UnderWay, Expired
  <2> QED
    BY <2>5, <2>6 DEF HttpInv
<1>4. CASE CheckDestination
  <2>1. /\ call.phase = "check" /\ upload' = upload /\ reply' = reply
        /\ socket' = socket /\ clock' = clock
    BY <1>4 DEF CheckDestination
  <2>2. PICK addrs \in SUBSET Found :
          call' = IF \E a \in addrs : RefusedAddress(a)
                  THEN [Answered("destination") EXCEPT !.seen = addrs]
                  ELSE [call EXCEPT !.phase = "connect", !.since = clock, !.seen = addrs]
    BY ZenonT(40), <1>4 DEF CheckDestination, Found
  <2>3. call \in Calls
    BY <1>0, <2>1, CallMade
  <2>4. socket'.at = "none" /\ call.code = "admitted" /\ Admitted
    BY <1>0, <2>1 DEF Gated, UnderWay
  <2>5. CASE \E a \in addrs : RefusedAddress(a)
    <3>1. Answered("destination") \in Calls
      BY <2>3, AnsweredFields
    <3>2. call' \in Calls /\ call'.phase = "answered" /\ call'.code = "destination"
      BY <2>2, <2>3, <2>5, <3>1, AnsweredFields DEF Calls
    <3>3. HttpTypes'
      BY <1>a, <2>1, <3>2 DEF HttpTypes, ReplyFields
    <3>4. Gated' /\ RefusalHeard'
      BY <2>4, <3>2 DEF Gated, RefusalHeard, Streaming, UnderWay
    <3> QED
      BY <3>3, <3>4 DEF HttpInv
  <2>6. CASE ~\E a \in addrs : RefusedAddress(a)
    <3>1. call' = [call EXCEPT !.phase = "connect", !.since = clock, !.seen = addrs]
      BY <2>2, <2>6
    <3>2. /\ call' \in Calls /\ call'.phase = "connect" /\ call'.code = call.code
          /\ call'.host = call.host /\ call'.operator = call.operator /\ call'.seen = addrs
      BY Zenon, <1>a, <2>3, <3>1 DEF Calls, UnderWay
    <3>3. HttpTypes'
      BY <1>a, <2>1, <3>2 DEF HttpTypes, ReplyFields
    <3>4. Admitted' /\ Judged'
      BY <2>4, <2>6, <3>2 DEF Admitted, Judged
    <3>5. Gated' /\ RefusalHeard'
      BY <2>4, <3>2, <3>4 DEF Gated, RefusalHeard, Streaming, UnderWay
    <3> QED
      BY <3>3, <3>5 DEF HttpInv
  <2> QED
    BY <2>5, <2>6
<1>5. CASE Connect
  <2>1. call.phase = "connect" /\ upload' = upload /\ reply' = reply /\ clock' = clock
    BY <1>5 DEF Connect
  <2>2. call \in Calls
    BY <1>0, <2>1, CallMade
  <2>3. socket.at = "none" /\ call.code = "admitted" /\ Admitted /\ Judged
    BY <1>0, <2>1 DEF Gated, UnderWay
  <2>4. CASE \E a \in Found :
               socket' = [at |-> "open", to |-> a]
               /\ call' = [call EXCEPT !.phase = "head", !.since = clock]
    <3>1. socket' \in Sockets /\ socket'.at = "open"
      BY <2>4 DEF Sockets
    <3>2. /\ call' \in Calls /\ call'.phase = "head" /\ call'.code = call.code
          /\ call'.host = call.host /\ call'.operator = call.operator /\ call'.seen = call.seen
      BY Zenon, <1>a, <2>2, <2>4 DEF Calls, UnderWay
    <3>3. HttpTypes'
      BY <1>a, <2>1, <3>1, <3>2 DEF HttpTypes, ReplyFields
    <3>4. Admitted' /\ Judged'
      BY <2>3, <3>2 DEF Admitted, Judged
    <3>5. Gated' /\ RefusalHeard'
      BY <2>3, <3>1, <3>2, <3>4 DEF Gated, RefusalHeard, Streaming, UnderWay
    <3> QED
      BY <3>3, <3>5 DEF HttpInv
  <2>5. CASE call' = Answered("transport") /\ socket' = socket
    <3>1. call' \in Calls /\ call'.phase = "answered" /\ call'.code = "transport"
      BY <2>2, <2>5, AnsweredFields
    <3>2. HttpTypes'
      BY <1>a, <2>1, <2>5, <3>1 DEF HttpTypes, ReplyFields
    <3>3. Gated' /\ RefusalHeard'
      BY <2>3, <2>5, <3>1 DEF Gated, RefusalHeard, Streaming, UnderWay
    <3> QED
      BY <3>2, <3>3 DEF HttpInv
  <2>6. \/ call' = Answered("transport") /\ socket' = socket
        \/ \E a \in Found : socket' = [at |-> "open", to |-> a]
                            /\ call' = [call EXCEPT !.phase = "head", !.since = clock]
    BY <1>5 DEF Connect, Found
  <2> QED
    BY <2>4, <2>5, <2>6
<1>6. CASE ReceiveHead
  <2>1. call.phase = "head" /\ upload' = upload /\ reply' = reply /\ clock' = clock
    BY <1>6 DEF ReceiveHead
  <2>2. call \in Calls
    BY <1>0, <2>1, CallMade
  <2>3. socket.at = "open" /\ Admitted /\ Judged
    BY <1>0, <2>1 DEF Gated
  <2>4. \/ call' = Answered("ok") /\ socket' = socket
        \/ call' = Answered("transport") /\ socket' = [socket EXCEPT !.at = "closed"]
    BY <1>6 DEF ReceiveHead
  <2>5. /\ call' \in Calls /\ call'.phase = "answered" /\ call'.code \in {"ok", "transport"}
        /\ call'.host = call.host /\ call'.operator = call.operator /\ call'.seen = call.seen
    BY <2>2, <2>4, AnsweredFields
  <2>6. socket' \in Sockets /\ socket'.at # "none"
    BY <1>a, <2>3, <2>4 DEF Sockets
  <2>7. HttpTypes'
    BY <1>a, <2>1, <2>5, <2>6 DEF HttpTypes, ReplyFields
  <2>8. Admitted' /\ Judged'
    BY <2>3, <2>5 DEF Admitted, Judged
  <2>9. Gated' /\ RefusalHeard'
    BY <2>5, <2>6, <2>8 DEF Gated, RefusalHeard, Streaming, UnderWay
  <2> QED
    BY <2>7, <2>9 DEF HttpInv
<1>7. CASE SendExpires
  <2>1. /\ call.phase \in UnderWay /\ call' = Answered("timeout")
        /\ socket' = IF socket.at = "open" THEN [socket EXCEPT !.at = "closed"] ELSE socket
        /\ upload' = upload /\ reply' = reply /\ clock' = clock
    BY <1>7 DEF SendExpires, UnderWay
  <2>2. call \in Calls
    BY <1>0, <2>1, CallMade DEF UnderWay
  <2>3. /\ call' \in Calls /\ call'.phase = "answered" /\ call'.code = "timeout"
        /\ call'.host = call.host /\ call'.operator = call.operator /\ call'.seen = call.seen
    BY <2>1, <2>2, AnsweredFields
  <2>4. socket' \in Sockets /\ (socket'.at # "none" => socket.at # "none")
    BY <1>a, <2>1 DEF Sockets
  <2>5. HttpTypes'
    BY <1>a, <2>1, <2>3, <2>4 DEF HttpTypes, ReplyFields
  <2>6. socket'.at # "none" => Admitted' /\ Judged'
    BY <1>0, <2>3, <2>4 DEF Gated, Admitted, Judged
  <2>7. Gated' /\ RefusalHeard'
    BY <2>3, <2>6 DEF Gated, RefusalHeard, Streaming, UnderWay
  <2> QED
    BY <2>5, <2>7 DEF HttpInv
<1>8. CASE ServerSends \/ PollFrame
  <2>1. call' = call /\ upload' = upload /\ socket' = socket /\ clock' = clock
    BY <1>8 DEF ServerSends, PollFrame
  <2>2. ReplyFields'
    BY Zenon, <1>a, <1>8 DEF ServerSends, PollFrame, ReplyFields
  <2>3. HttpTypes'
    BY <1>0, <2>1, <2>2 DEF HttpTypes
  <2> QED
    BY <1>0, <2>1, <2>3
       DEF HttpInv, Gated, RefusalHeard, Streaming, Admitted, Judged, Expired
<1>9. CASE DriverEnds \/ GuestDrops
  <2>1. /\ Streaming /\ socket' = [socket EXCEPT !.at = "closed"]
        /\ call' = call /\ upload' = upload /\ clock' = clock
    BY <1>9 DEF DriverEnds, GuestDrops
  <2>2. ReplyFields'
    BY <1>a, <1>9 DEF DriverEnds, GuestDrops, ReplyFields
  <2>3. socket' \in Sockets /\ socket'.at = "closed" /\ socket.at # "none"
    BY <1>0, <1>a, <2>1 DEF Sockets, Gated
  <2>4. HttpTypes'
    BY <1>0, <2>1, <2>2, <2>3 DEF HttpTypes
  <2>5. /\ call'.phase = "answered" /\ Admitted' /\ Judged'
    BY <1>0, <2>1, <2>3 DEF Gated, Admitted, Judged, Streaming
  <2>6. Gated' /\ RefusalHeard'
    BY <1>0, <2>1, <2>3, <2>5 DEF Gated, RefusalHeard, Streaming, UnderWay, Expired
  <2> QED
    BY <2>4, <2>6 DEF HttpInv
<1>10. CASE TimePasses
  <2>1. /\ call.phase # "new" /\ clock' = clock + 1 /\ clock' \in Nat
        /\ call' = call /\ upload' = upload /\ reply' = reply /\ socket' = socket
    BY <1>a, <1>10 DEF TimePasses
  <2>2. call \in Calls /\ call.deadline \in Nat
    BY <1>0, <2>1, CallMade DEF Calls
  <2>3. HttpTypes'
    BY <1>0, <2>1 DEF HttpTypes, ReplyFields
  <2>4. Expired => Expired'
    BY <1>a, <2>1, <2>2 DEF Expired
  <2>5. Gated' /\ RefusalHeard'
    BY <1>0, <2>1, <2>4 DEF Gated, RefusalHeard, Streaming, Admitted, Judged
  <2> QED
    BY <2>3, <2>5 DEF HttpInv
<1>11. CASE UNCHANGED httpVars
  BY <1>0, <1>11
     DEF httpVars, HttpInv, HttpTypes, ReplyFields, Gated, RefusalHeard, Streaming, Admitted,
         Judged, Expired
<1> QED
  BY <1>1, <1>2, <1>3, <1>4, <1>5, <1>6, <1>7, <1>8, <1>9, <1>10, <1>11 DEF HttpNext

\* For any lists and any address rules: a socket belongs to a host the author's
\* list admits and the operator's does not exclude, an empty list excluding all
\* of them, and an address the check was shown passes the rules in both
\* spellings.
THEOREM GateIsKept == HttpSpec => []GateHolds
<1>1. HttpInv => GateHolds
  <2> SUFFICES ASSUME HttpInv, socket.at # "none" PROVE GateHolds
    BY DEF GateHolds
  <2>1. Admitted /\ Judged
    BY DEF HttpInv, Gated
  <2>2. /\ HostAllowed(call.host, AuthorAllow)
        /\ \A allow \in call.operator : HostAllowed(call.host, allow)
    BY <2>1 DEF Admitted, Admit
  <2>3. ASSUME NEW s \in Spellings(socket.to), socket.to \in call.seen
        PROVE  s \notin Denied /\ (s \in Prohibited => socket.to \in Permitted)
    <3>1. ~RefusedAddress(socket.to)
      BY <2>1, <2>3 DEF Judged
    <3> QED
      BY <2>3, <3>1 DEF RefusedAddress, InDenied, IsProhibited
  <2> QED
    BY <2>2, <2>3 DEF GateHolds
<1> QED
  BY <1>1, HttpInit_Inv, HttpStep, PTL DEF HttpSpec

\* For any timeouts: a guest refused by the lists, or for its URI, is never
\* answered over an unfinished upload before the deadline.
THEOREM RefusalIsHeard == HttpSpec => []RefusalHeard
<1>1. HttpInv => RefusalHeard
  BY DEF HttpInv
<1> QED
  BY <1>1, HttpInit_Inv, HttpStep, PTL DEF HttpSpec

\* For any deadline and any frames: a frame is handed over before the
\* deadline or not at all.
THEOREM FramesInTime == HttpSpec => NoLateFrame
<1>1. HttpInv /\ [HttpNext]_httpVars =>
        [reply'.got # reply.got => clock < call.deadline]_httpVars
  <2> SUFFICES ASSUME HttpInv, HttpNext, reply'.got # reply.got
               PROVE  clock < call.deadline
    OBVIOUS
  <2>1. ReplyFields /\ clock \in Nat
    BY DEF HttpInv, HttpTypes
  <2>2. reply' # reply
    OBVIOUS
  <2>3. ~ServerSends /\ ~GuestDrops
    BY <2>1 DEF ServerSends, GuestDrops, ReplyFields
  <2>4. PollFrame
    BY Zenon, <2>2, <2>3
       DEF HttpNext, SendRequest, EndUpload, Refuse, CheckDestination, Connect, ReceiveHead,
           SendExpires, DriverEnds, TimePasses
  <2>5. ~Expired
    BY <2>1, <2>4 DEF PollFrame, ReplyFields
  <2>6. call.deadline \in Nat
    BY <2>4, CallMade DEF HttpInv, PollFrame, Streaming, Calls
  <2> QED
    BY <2>1, <2>5, <2>6 DEF Expired
<1> QED
  BY <1>1, HttpInit_Inv, HttpStep, PTL DEF HttpSpec, NoLateFrame

-----------------------------------------------------------------------------
(* The task manager and the event loop. *)

\* The count is the number of guards held.  Neither property is inductive
\* without it: that the drain saw a zero says something of the tasks only
\* because of it.
CountExact == outstanding = Cardinality(Holding)

\* Every task the drain covers has been spawned.
CoveredSpawned == \A t \in covered : task[t] # "unspawned"

TaskInv == TaskTypeOK /\ CountExact /\ CoveredSpawned /\ DrainCoversFlush /\ NoLostWakeup

\* The guards held are finitely many, so that they can be counted.
LEMMA HoldingFinite == IsFiniteSet(Holding) /\ Cardinality(Holding) \in Nat
<1>1. Holding \subseteq Graceful
  BY DEF Holding
<1>2. IsFiniteSet(Holding)
  BY <1>1, TaskAssumption, FS_Subset
<1> QED
  BY <1>2, FS_CardinalityType

\* Counting in a task that did not hold a guard.
LEMMA HoldingGains ==
  ASSUME TaskTypeOK, NEW t \in Graceful, task[t] = "unspawned",
         task' = [task EXCEPT ![t] = "running"]
  PROVE  Cardinality(Holding') = Cardinality(Holding) + 1
<1>1. Holding' = Holding \cup {t} /\ t \notin Holding
  BY Zenon DEF Holding, TaskTypeOK, TaskStates
<1> QED
  BY <1>1, HoldingFinite, FS_AddElement

\* Counting out a task that held one.
LEMMA HoldingLoses ==
  ASSUME TaskTypeOK, NEW t \in Graceful, task[t] \in {"running", "flushing"},
         task' = [task EXCEPT ![t] = "releasing"]
  PROVE  Cardinality(Holding') = Cardinality(Holding) - 1
<1>1. Holding' = Holding \ {t} /\ t \in Holding
  BY Zenon DEF Holding, TaskTypeOK, TaskStates
<1> QED
  BY <1>1, HoldingFinite, FS_RemoveElement

\* A task that moves between two states on the same side of its guard.
LEMMA HoldingKept ==
  ASSUME TaskTypeOK, NEW t \in Graceful, NEW x,
         task' = [task EXCEPT ![t] = x],
         (task[t] \in {"running", "flushing"}) <=> (x \in {"running", "flushing"})
  PROVE  Holding' = Holding
BY Zenon DEF Holding, TaskTypeOK

\* A zero count means that no guard is held.
LEMMA ZeroMeansNone ==
  ASSUME CountExact, outstanding = 0
  PROVE  Holding = {}
BY Zenon, HoldingFinite, FS_EmptySet DEF CountExact

\* While a guard is held the count is positive.
LEMMA HeldMeansPositive ==
  ASSUME CountExact, NEW t \in Holding
  PROVE  outstanding \in Nat /\ outstanding > 0
<1>1. outstanding \in Nat /\ outstanding # 0
  BY HoldingFinite, FS_EmptySet DEF CountExact
<1> QED
  BY <1>1

\* The task manager begins with no task, no guard and no drain.
LEMMA InitHolds == TaskInit => TaskInv
<1> SUFFICES ASSUME TaskInit PROVE TaskInv
  OBVIOUS
<1>1. TaskTypeOK
  <2>1. task \in [Graceful -> TaskStates]
    BY DEF TaskInit, TaskStates
  <2>2. wake \in 0..WakeBuf /\ outstanding \in Nat
    BY TaskAssumption DEF TaskInit
  <2> QED
    BY Zenon, <2>1, <2>2 DEF TaskInit, TaskTypeOK
<1>2. CountExact
  <2>1. Holding = {}
    BY DEF TaskInit, Holding
  <2> QED
    BY <2>1, FS_EmptySet DEF TaskInit, CountExact
<1>3. CoveredSpawned /\ DrainCoversFlush /\ NoLostWakeup
  BY DEF TaskInit, CoveredSpawned, DrainCoversFlush, NoLostWakeup
<1> QED
  BY <1>1, <1>2, <1>3 DEF TaskInv

\* The guard's drop: the count follows the task, and the drain is left with a
\* wake-up whenever it may be asleep.
LEMMA DropGuardKeeps ==
  ASSUME TaskInv, NEW t \in Graceful, DropGuard(t)
  PROVE  TaskInv'
<1> USE DEF TaskInv
<1>1. CASE /\ task[t] \in {"running", "flushing"}
           /\ task' = [task EXCEPT ![t] = "releasing"]
           /\ outstanding' = outstanding - 1 /\ UNCHANGED wake
  <2>1. t \in Holding
    BY <1>1 DEF Holding
  <2>2. outstanding \in Nat /\ outstanding > 0
    BY <2>1, HeldMeansPositive
  <2>3. outstanding' \in Nat
    BY <1>1, <2>2
  <2>4. TaskTypeOK'
    <3>1. task' \in [Graceful -> TaskStates]
      BY Zenon, <1>1 DEF TaskTypeOK, TaskStates
    <3> QED
      BY Zenon, <1>1, <2>3, <3>1 DEF DropGuard, TaskTypeOK
  <2>5. CountExact'
    <3>1. Cardinality(Holding') = Cardinality(Holding) - 1
      BY Zenon, <1>1, HoldingLoses
    <3> QED
      BY <1>1, <3>1 DEF CountExact
  <2>6. CoveredSpawned' /\ DrainCoversFlush'
    BY Zenon, <1>1 DEF DropGuard, CoveredSpawned, DrainCoversFlush, TaskTypeOK
  <2>7. NoLostWakeup'
    BY Zenon, <1>1 DEF NoLostWakeup, TaskTypeOK
  <2> QED
    BY <2>4, <2>5, <2>6, <2>7
<1>2. CASE /\ task[t] = "releasing"
           /\ task' = [task EXCEPT ![t] = "ended"]
           /\ wake' = Queued /\ UNCHANGED outstanding
  <2>1. wake' \in 0..WakeBuf /\ wake' > 0
    <3>1. wake \in 0..WakeBuf /\ wake' = IF wake < WakeBuf THEN wake + 1 ELSE wake
      BY Zenon, <1>2 DEF Queued, TaskTypeOK
    <3> QED
      BY <3>1, TaskAssumption
  <2>2. TaskTypeOK'
    <3>1. task' \in [Graceful -> TaskStates]
      BY Zenon, <1>2 DEF TaskTypeOK, TaskStates
    <3> QED
      BY Zenon, <1>2, <2>1, <3>1 DEF DropGuard, TaskTypeOK
  <2>3. CountExact'
    <3>1. Holding' = Holding
      BY Zenon, <1>2, HoldingKept
    <3> QED
      BY <1>2, <3>1 DEF CountExact
  <2>4. CoveredSpawned' /\ DrainCoversFlush'
    BY Zenon, <1>2 DEF DropGuard, CoveredSpawned, DrainCoversFlush, TaskTypeOK
  <2>5. NoLostWakeup'
    BY <2>1 DEF NoLostWakeup
  <2> QED
    BY <2>2, <2>3, <2>4, <2>5
<1> QED
  BY <1>1, <1>2 DEF DropGuard

\* Spawning, resolving, dropping a guard, firing and draining keep the
\* invariant.
LEMMA StepKeeps == TaskInv /\ [TaskNext]_taskVars => TaskInv'
<1> SUFFICES ASSUME TaskInv, [TaskNext]_taskVars PROVE TaskInv'
  OBVIOUS
<1> USE DEF TaskInv
<1>1. CASE UNCHANGED taskVars
  <2>1. Holding' = Holding
    BY <1>1 DEF Holding, taskVars
  <2> QED
    BY Zenon, <1>1, <2>1 DEF taskVars, TaskTypeOK, CountExact, CoveredSpawned,
                      DrainCoversFlush, NoLostWakeup
<1>2. CASE Fire
  <2>1. Holding' = Holding
    BY <1>2 DEF Holding, Fire
  <2> QED
    BY Zenon, <1>2, <2>1 DEF Fire, TaskTypeOK, CountExact, CoveredSpawned,
                      DrainCoversFlush, NoLostWakeup
<1>3. CASE BeginDrain
  <2>1. Holding' = Holding /\ Holding \subseteq Graceful
    BY <1>3 DEF Holding, BeginDrain
  <2>2. TaskTypeOK' /\ CountExact'
    BY <1>3, <2>1 DEF BeginDrain, TaskTypeOK, CountExact
  <2>3. CoveredSpawned'
    BY <1>3 DEF BeginDrain, CoveredSpawned, Holding
  <2>4. DrainCoversFlush' /\ NoLostWakeup'
    BY <1>3 DEF BeginDrain, DrainCoversFlush, NoLostWakeup
  <2> QED
    BY <2>2, <2>3, <2>4
<1>4. CASE DrainCheck
  <2>1. Holding' = Holding
    BY <1>4 DEF Holding, DrainCheck
  <2>2. TaskTypeOK' /\ CountExact' /\ CoveredSpawned'
    BY <1>4, <2>1 DEF DrainCheck, TaskTypeOK, CountExact, CoveredSpawned
  <2>3. DrainCoversFlush'
    <3>1. CASE outstanding = 0
      <4>1. Holding = {}
        BY <3>1, ZeroMeansNone
      <4> QED
        BY <1>4, <4>1 DEF DrainCheck, DrainCoversFlush, CoveredSpawned, Holding,
                          TaskTypeOK, TaskStates
    <3>2. CASE outstanding # 0
      BY <1>4, <3>2 DEF DrainCheck, DrainCoversFlush
    <3> QED
      BY <3>1, <3>2
  <2>4. NoLostWakeup'
    BY <1>4 DEF DrainCheck, NoLostWakeup
  <2> QED
    BY <2>2, <2>3, <2>4
<1>5. CASE DrainWake
  <2>1. Holding' = Holding
    BY <1>5 DEF Holding, DrainWake
  <2>2. TaskTypeOK'
    BY <1>5, TaskAssumption DEF DrainWake, TaskTypeOK
  <2> QED
    BY <1>5, <2>1, <2>2 DEF DrainWake, CountExact, CoveredSpawned,
                            DrainCoversFlush, NoLostWakeup
<1>6. CASE DrainTimeout
  <2>1. Holding' = Holding
    BY Zenon, <1>6 DEF Holding, DrainTimeout
  <2> QED
    BY Zenon, <1>6, <2>1 DEF DrainTimeout, TaskTypeOK, CountExact, CoveredSpawned,
                      DrainCoversFlush, NoLostWakeup
<1>7. ASSUME NEW t \in Graceful, SpawnGraceful(t)
      PROVE  TaskInv'
  <2>1. TaskTypeOK'
    <3>1. task' \in [Graceful -> TaskStates]
      BY Zenon, <1>7 DEF SpawnGraceful, TaskTypeOK, TaskStates
    <3>2. outstanding \in Nat /\ outstanding' = outstanding + 1
      BY Zenon, <1>7 DEF SpawnGraceful, TaskTypeOK
    <3>3. outstanding' \in Nat
      BY <3>2
    <3> QED
      BY Zenon, <1>7, <3>1, <3>3 DEF SpawnGraceful, TaskTypeOK
  <2>2. CountExact'
    BY Zenon, <1>7, HoldingGains DEF SpawnGraceful, CountExact
  <2>3. CoveredSpawned' /\ DrainCoversFlush'
    BY Zenon, <1>7 DEF SpawnGraceful, CoveredSpawned, DrainCoversFlush, TaskTypeOK
  <2>4. NoLostWakeup'
    BY <1>7 DEF SpawnGraceful, NoLostWakeup, TaskTypeOK
  <2> QED
    BY <2>1, <2>2, <2>3, <2>4
<1>8. ASSUME NEW t \in Graceful, Resolve(t)
      PROVE  TaskInv'
  <2>1. Holding' = Holding
    BY Zenon, <1>8, HoldingKept DEF Resolve
  <2>2. TaskTypeOK' /\ CountExact'
    <3>1. task' \in [Graceful -> TaskStates]
      BY Zenon, <1>8 DEF Resolve, TaskTypeOK, TaskStates
    <3> QED
      BY Zenon, <1>8, <2>1, <3>1 DEF Resolve, TaskTypeOK, CountExact
  <2>3. CoveredSpawned' /\ DrainCoversFlush'
    BY Zenon, <1>8 DEF Resolve, CoveredSpawned, DrainCoversFlush, TaskTypeOK
  <2>4. NoLostWakeup'
    BY <1>8 DEF Resolve, NoLostWakeup, TaskTypeOK
  <2> QED
    BY <2>2, <2>3, <2>4
<1>9. ASSUME NEW t \in Graceful, DropGuard(t)
      PROVE  TaskInv'
  BY <1>9, DropGuardKeeps
<1>10. ASSUME NEW c \in Critical, CriticalEnds(c)
       PROVE  TaskInv'
  <2>1. Holding' = Holding
    BY <1>10 DEF Holding, CriticalEnds
  <2>2. TaskTypeOK'
    BY Zenon, <1>10 DEF CriticalEnds, TaskTypeOK
  <2> QED
    BY <1>10, <2>1, <2>2 DEF CriticalEnds, CountExact, CoveredSpawned,
                             DrainCoversFlush, NoLostWakeup
<1>11. ASSUME NEW c \in Critical, ObserveCritical(c)
       PROVE  TaskInv'
  <2>1. Holding' = Holding
    BY <1>11 DEF Holding, ObserveCritical
  <2> QED
    BY <1>11, <2>1 DEF ObserveCritical, TaskTypeOK, CountExact, CoveredSpawned,
                       DrainCoversFlush, NoLostWakeup
<1> QED
  BY <1>1, <1>2, <1>3, <1>4, <1>5, <1>6, <1>7, <1>8, <1>9, <1>10, <1>11 DEF TaskNext

\* The task manager's invariant holds in every state of its executions.
LEMMA TaskInvariant == TaskSpec => []TaskInv
BY InitHolds, StepKeeps, PTL DEF TaskSpec

\* The guard count never underflows and every other variable keeps its type.
THEOREM TaskTypes == TaskSpec => []TaskTypeOK
<1>1. TaskInv => TaskTypeOK
  BY DEF TaskInv
<1> QED
  BY <1>1, TaskInvariant, PTL

\* A drain that reports `Drained` waited for every guard that existed when it
\* began (graceful_shutdown_with_timeout), whatever the tasks and the order in
\* which they are spawned, resolve and drop their guards.
THEOREM DrainIsComplete == TaskSpec => []DrainCoversFlush
<1>1. TaskInv => DrainCoversFlush
  BY DEF TaskInv
<1> QED
  BY <1>1, TaskInvariant, PTL

\* The last guard to go never leaves the drain asleep, with a wake-up queue of
\* any size from one (Drop of GracefulShutdownGuard).
THEOREM WakeupSafe == TaskSpec => []NoLostWakeup
<1>1. TaskInv => NoLostWakeup
  BY DEF TaskInv
<1> QED
  BY <1>1, TaskInvariant, PTL

-----------------------------------------------------------------------------
(***************************************************************************)
(* The event loop over the task manager.  Each of its steps is a step of    *)
(* the manager or leaves it alone, so what is proved above carries over.    *)
(***************************************************************************)

PumpStates == {"running", "closed", "resolved", "joined"}
Exits == {"none", "gone", "died", "terminal", "shared"}
LoopStates == {"poll", "dispatch", "grace", "joining", "dropping", "returned"}

LoopTypeOK ==
  /\ kind \in [Sources -> Kinds]
  /\ pump \in [Sources -> PumpStates]
  /\ exit \in [Sources -> Exits]
  /\ loop \in LoopStates

\* The loop holds its guard until every pump is joined.
GuardHeld ==
  /\ Receiving => task[Loop] = "running"
  /\ loop = "joining" => task[Loop] \in {"running", "flushing"}
  /\ loop \in {"dropping", "returned"} => \A s \in Sources : pump[s] = "joined"

\* The drain that has ended saw the loop's guard gone.
LoopReleased == drain = "drained" => Loop \notin Holding

\* The terminal exits the loop has taken, which it counts.
Taken == {s \in Sources : pump[s] = "joined" /\ exit[s] = "terminal"}
ExitsCounted == Receiving => exits = Cardinality(Taken)

OnlyLogsTerminal == \A s \in Sources : exit[s] = "terminal" => kind[s] = "chain-log"

\* The loop rules on an end only once, of streams whose pumps have all ended.
RulesOnEnded ==
  /\ Receiving => end = "none"
  /\ loop = "grace" => Of(ending) # {} /\ \A s \in Of(ending) : pump[s] # "running"

LoopInv ==
  /\ TaskInv /\ LoopTypeOK /\ GuardHeld /\ LoopReleased
  /\ ExitsCounted /\ OnlyLogsTerminal /\ RulesOnEnded /\ TerminalNeverMisread

\* Whatever the event loop does to its tasks, the task manager allows.
LEMMA LoopIsTaskStep == EventLoopNext => [TaskNext]_taskVars
<1> SUFFICES ASSUME EventLoopNext PROVE [TaskNext]_taskVars
  OBVIOUS
<1>0. Loop \in Graceful
  BY LoopAssumption
<1>1. CASE PollShutdown
  BY <1>0, <1>1 DEF PollShutdown, TaskNext
<1>2. CASE ReleaseGuard
  BY <1>0, <1>2 DEF ReleaseGuard, TaskNext
<1>3. CASE Signals \/ FinishWait
  BY <1>3 DEF Signals, FinishWait, Fire, TaskNext
<1>4. CASE WaitDrains
  BY Zenon, <1>4 DEF WaitDrains, TaskNext
<1>5. CASE \/ PollTasks \/ (\E k \in Kinds : PollStream(k)) \/ Woken \/ EndDispatch
           \/ GraceJoin \/ GraceTimeout \/ GraceAccounted \/ JoinPumps \/ LoopReturns
           \/ WaitSignalled
  BY Zenon, <1>5 DEF PollTasks, PollStream, Woken, EndDispatch, GraceJoin, GraceTimeout,
              GraceAccounted, JoinPumps, LoopReturns, WaitSignalled
<1>6. CASE \E s \in Sources : Send(s) \/ PumpEnds(s) \/ Abort(s)
  BY <1>6 DEF Send, PumpEnds, Abort
<1> QED
  BY <1>1, <1>2, <1>3, <1>4, <1>5, <1>6 DEF EventLoopNext, LoopStep

\* The loop begins with its guard taken and every pump running.
LEMMA LoopInitHolds == EventLoopInit => LoopInv
<1> SUFFICES ASSUME EventLoopInit PROVE LoopInv
  OBVIOUS
<1>0. Loop \in Graceful /\ Mixes \subseteq [Sources -> Kinds]
  BY LoopAssumption
<1>1. TaskInv
  <2>1. TaskTypeOK
    <3>1. task \in [Graceful -> TaskStates]
      BY DEF EventLoopInit, TaskStates
    <3>2. wake \in 0..WakeBuf /\ outstanding \in Nat
      BY TaskAssumption DEF EventLoopInit
    <3> QED
      BY Zenon, <3>1, <3>2 DEF EventLoopInit, TaskTypeOK
  <2>2. CountExact
    <3>1. Holding = {Loop}
      BY <1>0 DEF EventLoopInit, Holding
    <3> QED
      BY <3>1, FS_Singleton DEF EventLoopInit, CountExact
  <2>3. CoveredSpawned /\ DrainCoversFlush /\ NoLostWakeup
    BY DEF EventLoopInit, CoveredSpawned, DrainCoversFlush, NoLostWakeup
  <2> QED
    BY <2>1, <2>2, <2>3 DEF TaskInv
<1>2. LoopTypeOK /\ GuardHeld /\ LoopReleased
  BY <1>0 DEF EventLoopInit, LoopTypeOK, PumpStates, Exits, LoopStates, GuardHeld,
              Receiving, LoopReleased
<1>3. ExitsCounted
  <2>1. Taken = {}
    BY DEF EventLoopInit, Taken
  <2> QED
    BY <2>1, FS_EmptySet DEF EventLoopInit, ExitsCounted
<1>4. OnlyLogsTerminal /\ RulesOnEnded /\ TerminalNeverMisread
  BY DEF EventLoopInit, OnlyLogsTerminal, RulesOnEnded, TerminalNeverMisread
<1> QED
  BY <1>1, <1>2, <1>3, <1>4 DEF LoopInv

\* The drain's own steps and the guard's: a drain that ends has seen the loop's
\* guard gone, and a guard that is gone does not come back.
LEMMA ReleasedKeeps ==
  ASSUME LoopInv, [EventLoopNext]_vars
  PROVE  LoopReleased'
<1> USE DEF LoopReleased
<1>0. Loop \in Graceful /\ task \in [Graceful -> TaskStates]
  BY Zenon, LoopAssumption DEF LoopInv, TaskInv, TaskTypeOK
<1>1. CASE PollShutdown
  <2>1. loop = "poll" /\ drain' = drain
    BY <1>1 DEF PollShutdown, At, Resolve, taskVars
  <2>2. Loop \in Holding
    BY <1>0, <2>1 DEF LoopInv, GuardHeld, Receiving, Holding
  <2> QED
    BY <2>1, <2>2 DEF LoopInv
<1>2. CASE ReleaseGuard
  <2>1. Loop \notin Holding'
    BY <1>0, <1>2 DEF ReleaseGuard, DropGuard, Holding
  <2> QED
    BY <2>1
<1>3. CASE WaitDrains /\ DrainCheck
  <2>1. task' = task /\ Holding' = Holding
    BY <1>3 DEF DrainCheck, Holding
  <2>2. CASE outstanding = 0
    BY <2>1, <2>2, ZeroMeansNone DEF LoopInv, TaskInv
  <2>3. CASE outstanding # 0
    BY <1>3, <2>3 DEF DrainCheck
  <2> QED
    BY <2>2, <2>3
<1>4. CASE WaitDrains /\ ~DrainCheck
  BY <1>4 DEF WaitDrains, BeginDrain, DrainWake, DrainTimeout, taskVars, Holding, LoopInv
<1>5. CASE UNCHANGED <<task, drain>>
  BY <1>5 DEF Holding, LoopInv
<1>6. ASSUME ~(PollShutdown \/ ReleaseGuard \/ WaitDrains)
      PROVE  UNCHANGED <<task, drain>>
  <2>1. CASE UNCHANGED vars
    BY <2>1 DEF vars, taskVars
  <2>2. CASE Signals \/ FinishWait \/ WaitSignalled
    BY <2>2 DEF Signals, Fire, FinishWait, WaitSignalled, taskVars
  <2>3. CASE LoopStep
    BY Zenon, <1>6, <2>3 DEF LoopStep, PollTasks, PollStream, Woken, EndDispatch, GraceJoin,
                      GraceTimeout, GraceAccounted, JoinPumps, LoopReturns, taskVars
  <2>4. CASE \E s \in Sources : Send(s) \/ PumpEnds(s) \/ Abort(s)
    BY <2>4 DEF Send, PumpEnds, Abort, taskVars
  <2> QED
    BY <1>6, <2>1, <2>2, <2>3, <2>4 DEF EventLoopNext
<1> QED
  BY <1>1, <1>2, <1>3, <1>4, <1>5, <1>6

\* A handle that resolved is taken: the exit counter follows the set of sources
\* whose terminal exit was taken.
LEMMA TakeExitCounts ==
  ASSUME LoopInv, Receiving, NEW s \in Joinable,
         pump' = [pump EXCEPT ![s] = "joined"],
         exits' = IF exit[s] = "terminal" THEN exits + 1 ELSE exits,
         UNCHANGED exit
  PROVE  exits' = Cardinality(Taken')
<1>0. s \in Sources /\ pump[s] = "resolved" /\ pump \in [Sources -> PumpStates]
  BY DEF Joinable, LoopInv, LoopTypeOK
<1>1. exits = Cardinality(Taken) /\ IsFiniteSet(Taken)
  <2>1. Taken \subseteq Sources
    BY DEF Taken
  <2> QED
    BY <2>1, LoopAssumption, FS_Subset DEF LoopInv, ExitsCounted
<1>2. CASE exit[s] = "terminal"
  <2>1. Taken' = Taken \cup {s} /\ s \notin Taken
    BY <1>0, <1>2 DEF Taken
  <2> QED
    BY Zenon, <1>1, <1>2, <2>1, FS_AddElement
<1>3. CASE exit[s] # "terminal"
  <2>1. Taken' = Taken
    BY <1>0, <1>3 DEF Taken
  <2> QED
    BY <1>1, <1>3, <2>1
<1> QED
  BY <1>2, <1>3

\* The grace has passed and not every source of the ended kind is accounted for:
\* with no report on its way, one of them ended without one.
LEMMA TimeoutMeansLost ==
  ASSUME LoopInv, GraceTimeout
  PROVE  \E s \in Of(ending) : exit[s] # "terminal"
<1> SUFFICES ASSUME \A s \in Of(ending) : exit[s] = "terminal" PROVE FALSE
  OBVIOUS
<1>0. Receiving /\ exits = Cardinality(Taken)
  BY DEF GraceTimeout, Receiving, LoopInv, ExitsCounted
<1>1. Of(ending) # {} /\ \A s \in Of(ending) : pump[s] \in {"resolved", "joined"}
  BY DEF GraceTimeout, LoopInv, RulesOnEnded, Of, LoopTypeOK, PumpStates
<1>2. Of(ending) \subseteq Taken
  BY <1>1 DEF GraceTimeout, Joinable, Of, Taken
<1>3. \A s \in Taken : kind[s] = "chain-log"
  BY DEF Taken, LoopInv, OnlyLogsTerminal
<1>4. ending = "chain-log"
  BY <1>1, <1>2, <1>3 DEF Of
<1>5. Taken = Of("chain-log")
  BY <1>2, <1>3, <1>4 DEF Of, Taken
<1> QED
  BY <1>0, <1>4, <1>5 DEF GraceTimeout, Accounted

\* Every step of the loop, its pumps, wait and the drain keeps the invariant.
LEMMA LoopStepKeeps == LoopInv /\ [EventLoopNext]_vars => LoopInv'
<1> SUFFICES ASSUME LoopInv, [EventLoopNext]_vars PROVE LoopInv'
  OBVIOUS
<1>0. TaskInv' /\ LoopReleased'
  <2>1. [TaskNext]_taskVars
    BY LoopIsTaskStep DEF vars
  <2> QED
    BY <2>1, StepKeeps, ReleasedKeeps DEF LoopInv
<1> DEFINE Rest == /\ LoopTypeOK /\ GuardHeld /\ ExitsCounted /\ OnlyLogsTerminal
                   /\ RulesOnEnded /\ TerminalNeverMisread
<1> SUFFICES Rest'
  BY <1>0 DEF LoopInv
<1>a. Rest /\ Loop \in Graceful /\ task \in [Graceful -> TaskStates]
  BY Zenon, LoopAssumption DEF LoopInv, TaskInv, TaskTypeOK
<1> USE DEF LoopTypeOK, GuardHeld, ExitsCounted, OnlyLogsTerminal, RulesOnEnded,
            TerminalNeverMisread, Receiving, Taken, Of
<1>1. CASE UNCHANGED <<task, pumpVars, runVars>>
  BY <1>a, <1>1 DEF pumpVars, runVars
<1>2. CASE Signals \/ FinishWait \/ WaitSignalled \/ WaitDrains
  <2>1. UNCHANGED <<task, pumpVars, runVars>>
    BY Zenon, <1>2 DEF Signals, Fire, FinishWait, WaitSignalled, WaitDrains, BeginDrain,
                DrainCheck, DrainWake, DrainTimeout, taskVars, loopVars
  <2> QED
    BY <1>1, <2>1
<1>3. CASE UNCHANGED vars
  BY <1>1, <1>3 DEF vars, taskVars, loopVars
<1>4. CASE PollShutdown
  BY <1>a, <1>4 DEF PollShutdown, At, Resolve, Finish, LoopStates, taskVars, pumpVars
<1>5. CASE PollTasks
  <2>1. CASE Joinable = {}
    BY <1>a, <1>5, <2>1 DEF PollTasks, At, taskVars
  <2>2. ASSUME NEW s \in Joinable, TakeExit(s, Top) PROVE Rest'
    <3>1. Receiving /\ UNCHANGED <<task, kind, exit, ending>>
      BY <1>5 DEF PollTasks, At, taskVars
    <3>2. /\ pump' = [pump EXCEPT ![s] = "joined"]
          /\ exits' = IF exit[s] = "terminal" THEN exits + 1 ELSE exits
      BY <2>2 DEF TakeExit
    <3>3. ExitsCounted'
      BY Zenon, <3>1, <3>2, TakeExitCounts
    <3>4. /\ loop' \in {"poll", "joining"} /\ end' \in {end, "SourceTerminal"}
          /\ loop' = "poll" => end' = end
      BY <2>2 DEF TakeExit, Top, Finish
    <3> QED
      BY Zenon, <1>a, <3>1, <3>2, <3>3, <3>4 DEF PumpStates, LoopStates
  <2> QED
    BY <1>5, <2>1, <2>2 DEF PollTasks
<1>6. ASSUME NEW k \in Kinds, PollStream(k) PROVE Rest'
  <2>1. /\ loop = "poll" /\ UNCHANGED <<task, kind, pump, exit, exits, end>>
        /\ \/ loop' \in {"poll", "dispatch"} /\ ending' = ending
           \/ loop' = "grace" /\ ending' = k /\ Ended(k)
    BY <1>6 DEF PollStream, At, taskVars
  <2> QED
    BY <1>a, <2>1 DEF Ended, Declared, LoopStates
<1>7. CASE Woken \/ EndDispatch
  BY Zenon, <1>a, <1>7 DEF Woken, EndDispatch, Top, LoopStates, taskVars, pumpVars
<1>8. CASE GraceJoin
  <2>1. PICK s \in Joinable : TakeExit(s, UNCHANGED <<loop, arm>>)
    BY Zenon, <1>8 DEF GraceJoin
  <2>2. loop = "grace" /\ UNCHANGED <<task, kind, exit, ending>>
    BY <1>8 DEF GraceJoin, taskVars
  <2>3. /\ pump' = [pump EXCEPT ![s] = "joined"]
        /\ exits' = IF exit[s] = "terminal" THEN exits + 1 ELSE exits
    BY <2>1 DEF TakeExit
  <2>4. ExitsCounted'
    BY Zenon, <2>2, <2>3, TakeExitCounts
  <2>5. /\ loop' \in {"grace", "joining"} /\ end' \in {end, "SourceTerminal"}
        /\ loop' = "grace" => end' = end
    BY <2>1, <2>2 DEF TakeExit, Finish
  <2> QED
    BY Zenon, <1>a, <2>2, <2>3, <2>4, <2>5 DEF PumpStates, LoopStates
<1>9. CASE GraceTimeout
  <2>1. \E s \in Of(ending) : exit[s] # "terminal"
    BY <1>9, TimeoutMeansLost
  <2> QED
    BY <1>a, <1>9, <2>1 DEF GraceTimeout, Finish, LoopStates, taskVars, pumpVars
<1>10. CASE GraceAccounted
  BY <1>a, <1>10 DEF GraceAccounted, Resume, Top, Finish, LoopStates, taskVars, pumpVars
<1>11. CASE JoinPumps
  BY <1>a, <1>11 DEF JoinPumps, PumpStates, LoopStates, taskVars
<1>12. CASE ReleaseGuard
  BY <1>a, <1>12 DEF ReleaseGuard, loopVars, pumpVars, runVars
<1>13. CASE LoopReturns
  BY <1>a, <1>13 DEF LoopReturns, LoopStates, taskVars, pumpVars
<1>14. ASSUME NEW s \in Sources, Send(s) PROVE Rest'
  BY <1>a, <1>14 DEF Send, taskVars, runVars
<1>15. ASSUME NEW s \in Sources, PumpEnds(s) PROVE Rest'
  <2>1. /\ UNCHANGED <<task, kind, runVars>> /\ pump[s] \in {"running", "closed"}
        /\ pump' \in [Sources -> PumpStates] /\ pump'[s] \in {"closed", "resolved"}
        /\ \A r \in Sources \ {s} : pump'[r] = pump[r]
    BY <1>a, <1>15 DEF PumpEnds, taskVars, PumpStates
  <2>2. \/ exit' = exit
        \/ \E x \in MayEnd(s) : exit' = [exit EXCEPT ![s] = x] /\ pump[s] = "running"
    BY <1>15 DEF PumpEnds
  <2>3. \A x \in MayEnd(s) : /\ x \in Exits
                             /\ x = "terminal" => Receiving /\ kind[s] = "chain-log"
    BY <1>a DEF MayEnd, Kinds, Exits
  <2>4. LoopTypeOK' /\ OnlyLogsTerminal'
    BY <1>a, <2>1, <2>2, <2>3 DEF runVars
  <2>5. Taken' = Taken
    BY <1>a, <2>1, <2>2
  <2>6. ExitsCounted'
    <3> HIDE DEF Taken
    <3> QED
      BY <1>a, <2>1, <2>5 DEF runVars
  <2>7. GuardHeld' /\ RulesOnEnded'
    BY <1>a, <2>1 DEF runVars
  <2>8. TerminalNeverMisread'
    BY <1>a, <2>1, <2>2, <2>3 DEF runVars
  <2> QED
    BY <2>4, <2>6, <2>7, <2>8
<1>16. ASSUME NEW s \in Sources, Abort(s) PROVE Rest'
  BY <1>a, <1>16 DEF Abort, PumpStates, Exits, taskVars, runVars
<1> QED
  BY Zenon, <1>2, <1>3, <1>4, <1>5, <1>6, <1>7, <1>8, <1>9, <1>10, <1>11, <1>12, <1>13, <1>14,
     <1>15, <1>16 DEF EventLoopNext, LoopStep

\* The loop's invariant holds in every state of its executions.
LEMMA LoopInvariant == EventLoopSpec => []LoopInv
BY LoopInitHolds, LoopStepKeeps, PTL DEF EventLoopSpec

\* A drain that reports `Drained` outlived the run: the loop has left its dispatch
\* and joined every pump before the guard `run` holds was dropped, for any number
\* and mix of sources, any channel size and any way the run can end.
THEOREM DrainOutlivesRun == EventLoopSpec => []DrainCoversRun
<1>1. LoopInv => DrainCoversRun
  <2> SUFFICES ASSUME LoopInv, drain = "drained"
               PROVE  loop \in {"dropping", "returned"} /\ \A s \in Sources : pump[s] = "joined"
    BY DEF DrainCoversRun
  <2>1. task[Loop] \notin {"running", "flushing"}
    BY LoopAssumption DEF LoopInv, LoopReleased, Holding
  <2> QED
    BY <2>1 DEF LoopInv, LoopTypeOK, LoopStates, GuardHeld, Receiving
<1> QED
  BY <1>1, LoopInvariant, PTL

\* A run that ends as StreamEnded lost a pump: a terminal report still on its way
\* when the stream ended is taken into account (the grace of run's ruling on an
\* ended stream), for any number of sources of each kind.
THEOREM StreamEndIsALoss == EventLoopSpec => []TerminalNeverMisread
<1>1. LoopInv => TerminalNeverMisread
  BY DEF LoopInv
<1> QED
  BY <1>1, LoopInvariant, PTL
=============================================================================
