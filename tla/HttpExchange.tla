---------------------------- MODULE HttpExchange ----------------------------
(***************************************************************************)
(* One outbound request through the HTTP gate (nexum-runtime-http): the    *)
(* allowlists, the destination rules, the total deadline and the body cap, *)
(* beside a guest that writes its request body and reads the response when *)
(* it likes, a server that answers when it likes, and a resolver whose     *)
(* answers may differ from one lookup to the next.                         *)
(*                                                                         *)
(* A host is its labels, top-level first; Literals gives the address a     *)
(* literal host spells. An address is <<family, number>>; numbers below    *)
(* Mapped exist in both families, the IPv6 spelling being the IPv4-mapped. *)
(* The operator's list is a set of at most one list of patterns: without   *)
(* one every host passes, and an empty one admits no host.                 *)
(***************************************************************************)
EXTENDS Integers, Sequences, Functions

CONSTANTS Names, Literals,         \* hosts a guest may ask for
          AuthorAllow,             \* [dependencies.http].hosts
          OperatorAllow,           \* http_allow settings to try: {} or {patterns}
          Addresses, Mapped, Prohibited, Permitted, Denied,
          Timeouts, ConnectMax, FirstByteMax, Total,  \* timeouts, in ticks
          BodyCap, FrameSizes, MaxFrames, MaxClock

ASSUME HttpAssumption ==
  /\ {ConnectMax, FirstByteMax, Total} \subseteq Nat \ {0}
  /\ BodyCap \in Nat /\ MaxClock > Total /\ Permitted \subseteq Addresses

NoHost == <<"none">>
NoTimeout == -1

VARIABLES call,   \* the request: phase, host, limits, when its phase began, its answer
          upload, \* the guest's side of the request body: "open", "ended" or "failed"
          reply,  \* the response: frames sent, frames delivered, cap left, how it ended
          socket, \* "none", "open" or "closed"; the address it connected to
          clock

httpVars == <<call, upload, reply, socket, clock>>

-----------------------------------------------------------------------------
(* The gate's decisions. *)

\* HostPattern::matches: a suffix entry admits subdomains, never the suffix.
PatternMatches(p, host) ==
  IF p.kind = "exact" THEN host = p.labels
  ELSE Len(host) > Len(p.labels) /\ SubSeq(host, 1, Len(p.labels)) = p.labels

HostAllowed(host, allow) == \E p \in allow : PatternMatches(p, host)

Admit(host, operator) ==
  /\ HostAllowed(host, AuthorAllow)
  /\ \A allow \in operator : HostAllowed(host, allow)

\* The other spelling of an IPv4 or IPv4-mapped address.
Spellings(a) == IF a[2] < Mapped THEN {<<4, a[2]>>, <<6, a[2]>>} ELSE {a}

\* Mutant: only the spelling the resolver gave is judged
InDeniedAsSpelt(a) == a \in Denied

InDenied(a) == Spellings(a) \intersect Denied # {}
IsProhibited(a) == Spellings(a) \intersect Prohibited # {}
RefusedAddress(a) == InDenied(a) \/ (IsProhibited(a) /\ a \notin Permitted)

\* clamp: lower a guest timeout to the maximum, which is also the default.
Clamp(guest, max) == IF guest = NoTimeout \/ guest > max THEN max ELSE guest

-----------------------------------------------------------------------------

Quiet == [sent |-> <<>>, got |-> <<>>, left |-> BodyCap, ended |-> FALSE, error |-> "none"]
Answered(code) == [call EXCEPT !.phase = "answered", !.code = code]
Expired == clock >= call.deadline
PhaseExpired(limit) == clock >= call.since + limit

\* send_request: refuse by name, by a URI no Host header can be made from, or
\* go on to the destination check. A refused request is still a future.
SendRequest ==
  /\ call.phase = "new"
  /\ \E host \in Names \union DOMAIN Literals \union {NoHost}, operator \in OperatorAllow, t \in Timeouts :
       LET verdict == IF host = NoHost THEN "uri_invalid"
                      ELSE IF Admit(host, operator) THEN "admitted" ELSE "denied"
       IN  call' = [phase |-> IF verdict = "admitted" THEN "check" ELSE "refuse",
                    host |-> host, code |-> verdict, operator |-> operator,
                    connect |-> Clamp(t, ConnectMax), first |-> Clamp(t, FirstByteMax),
                    deadline |-> clock + Total, since |-> clock, seen |-> {}]
  /\ UNCHANGED <<upload, reply, socket, clock>>

\* The guest ends its request body, or drops it part-written.
EndUpload ==
  /\ upload = "open" /\ call.phase # "new"
  /\ upload' \in {"ended", "failed"}
  /\ UNCHANGED <<call, reply, socket, clock>>

\* refuse: the body is discarded to its end first, for at most the deadline.
Refuse ==
  /\ call.phase = "refuse"
  /\ upload # "open" \/ Expired
  /\ call' = [call EXCEPT !.phase = "answered"]
  /\ UNCHANGED <<upload, reply, socket, clock>>

\* reject_prohibited_destination: one lookup, every address it gives judged;
\* a failed lookup ({}) is not a denial.
CheckDestination ==
  /\ call.phase = "check" /\ ~Expired
  /\ \E addrs \in IF call.host \in DOMAIN Literals THEN {{Literals[call.host]}} ELSE SUBSET Addresses :
       call' = IF \E a \in addrs : RefusedAddress(a)
               THEN [Answered("destination") EXCEPT !.seen = addrs]
               ELSE [call EXCEPT !.phase = "connect", !.since = clock, !.seen = addrs]
  /\ UNCHANGED <<upload, reply, socket, clock>>

\* External: the backend looks the name up again and connects, or fails, or
\* gives up at the connect timeout.
Connect ==
  /\ call.phase = "connect" /\ ~Expired
  /\ \/ /\ ~PhaseExpired(call.connect)
        /\ \E a \in IF call.host \in DOMAIN Literals THEN {Literals[call.host]} ELSE Addresses :
             socket' = [at |-> "open", to |-> a]
        /\ call' = [call EXCEPT !.phase = "head", !.since = clock]
     \/ call' = Answered("transport") /\ UNCHANGED socket
  /\ UNCHANGED <<upload, reply, clock>>

\* External: the response head arrives, or the exchange fails before it does.
ReceiveHead ==
  /\ call.phase = "head" /\ ~Expired
  /\ \/ ~PhaseExpired(call.first) /\ call' = Answered("ok") /\ UNCHANGED socket
     \/ call' = Answered("transport") /\ socket' = [socket EXCEPT !.at = "closed"]
  /\ UNCHANGED <<upload, reply, clock>>

\* timeout_at over the check, the connection and the head: the send is
\* dropped, and the socket with it.
SendExpires ==
  /\ call.phase \in {"check", "connect", "head"} /\ Expired
  /\ call' = Answered("timeout")
  /\ socket' = IF socket.at = "open" THEN [socket EXCEPT !.at = "closed"] ELSE socket
  /\ UNCHANGED <<upload, reply, clock>>

Streaming == call.phase = "answered" /\ call.code = "ok"

\* External: the server sends a frame, or ends the body.
ServerSends ==
  /\ Streaming /\ socket.at = "open" /\ ~reply.ended
  /\ \/ /\ Len(reply.sent) < MaxFrames
        /\ \E len \in FrameSizes : reply' = [reply EXCEPT !.sent = Append(@, len)]
     \/ reply' = [reply EXCEPT !.ended = TRUE]
  /\ UNCHANGED <<call, upload, socket, clock>>

\* CappedBody::poll_frame, polled by the guest: the deadline first, then the
\* next frame against what is left of the cap. A reader stops at an error.
PollFrame ==
  /\ Streaming /\ reply.error = "none"
  /\ LET n == Len(reply.got) + 1
     IN  IF Expired THEN reply' = [reply EXCEPT !.error = "read_timeout"]
         ELSE /\ n <= Len(reply.sent)
              /\ reply' = IF reply.sent[n] > reply.left THEN [reply EXCEPT !.error = "body_size"]
                          ELSE [reply EXCEPT !.got = Append(@, reply.sent[n]),
                                             !.left = @ - reply.sent[n]]
  /\ UNCHANGED <<call, upload, socket, clock>>

\* Mutant: the driver outlives the deadline
DriverEndsWithBody ==
  /\ Streaming /\ socket.at = "open" /\ reply.ended
  /\ socket' = [socket EXCEPT !.at = "closed"]
  /\ UNCHANGED <<call, upload, reply, clock>>

\* The connection driver, raced with the deadline whether the guest polls or
\* not; it also ends with the body.
DriverEnds ==
  /\ Streaming /\ socket.at = "open"
  /\ Expired \/ reply.ended
  /\ socket' = [socket EXCEPT !.at = "closed"]
  /\ UNCHANGED <<call, upload, reply, clock>>

\* The guest drops the response, which aborts the driver.
GuestDrops ==
  /\ Streaming /\ reply.error = "none"
  /\ reply' = [reply EXCEPT !.error = "dropped"]
  /\ socket' = [socket EXCEPT !.at = "closed"]
  /\ UNCHANGED <<call, upload, clock>>

\* Time is counted from the call.
TimePasses ==
  /\ call.phase # "new" /\ clock < MaxClock
  /\ clock' = clock + 1
  /\ UNCHANGED <<call, upload, reply, socket>>

HttpInit ==
  /\ call = [phase |-> "new"]
  /\ upload = "open"
  /\ reply = Quiet
  /\ socket = [at |-> "none", to |-> <<0, 0>>]
  /\ clock = 0

HttpNext ==
  \/ SendRequest \/ EndUpload \/ Refuse \/ CheckDestination \/ Connect \/ ReceiveHead
  \/ SendExpires \/ ServerSends \/ PollFrame \/ DriverEnds \/ GuestDrops \/ TimePasses

\* Timers fire and their tasks are polled. Nothing is assumed of the guest,
\* the resolver or the server.
HttpFairness ==
  /\ WF_httpVars(TimePasses) /\ WF_httpVars(Refuse)
  /\ WF_httpVars(SendExpires) /\ WF_httpVars(DriverEnds)

HttpSpec == HttpInit /\ [][HttpNext]_httpVars

-----------------------------------------------------------------------------
(* Properties. *)

\* Phases, the upload and the socket; what the guest was given is an unbroken
\* prefix of what the server sent, and with what is left makes up the cap.
HttpTypeOK ==
  /\ call.phase \in {"new", "refuse", "check", "connect", "head", "answered"}
  /\ upload \in {"open", "ended", "failed"} /\ clock \in 0 .. MaxClock
  /\ reply.left \in 0 .. BodyCap /\ socket.at \in {"none", "open", "closed"}
  /\ Len(reply.got) <= Len(reply.sent)
  /\ SubSeq(reply.sent, 1, Len(reply.got)) = reply.got
  /\ reply.left + SumFunction(reply.got) = BodyCap

\* A connection is made only to a host the author's list admits and the
\* operator's too, where there is one, an empty one included; and an address it
\* reaches that the check was shown is one the rules let through, in either
\* spelling. An answer that changes between the two lookups is not covered:
\* the code says so.
GateHolds ==
  socket.at # "none" =>
    /\ HostAllowed(call.host, AuthorAllow)
    /\ \A allow \in call.operator : HostAllowed(call.host, allow)
    /\ \A s \in Spellings(socket.to) :
         socket.to \in call.seen =>
           s \notin Denied /\ (s \in Prohibited => socket.to \in Permitted)

\* No frame reaches the guest at or after the deadline, even one that had
\* arrived before it.
NoLateFrame == [][reply'.got # reply.got => clock < call.deadline]_httpVars

\* A refusal by the lists, or of a URI without a usable host, is not answered
\* under a guest still writing its body: either the body is over or the whole
\* deadline went by. A refused destination is answered at once and not covered.
RefusalHeard ==
  call.phase = "answered" /\ call.code \in {"denied", "uri_invalid"} =>
    upload # "open" \/ Expired

\* Every socket closes, even under a guest that holds the response and never
\* reads it and a server that never ends.
SocketCloses == socket.at = "open" ~> socket.at = "closed"
=============================================================================
