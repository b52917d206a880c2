------------------------------ MODULE ChainRead ------------------------------
(* A guest's reads of a chain, end to end.  Three guest programs issue         *)
(* requests: the balance-tracker's block handler, one eth_getBalance per       *)
(* tracked address; a packet of the SDK's HostTransport; a raw                 *)
(* nexum:host/chain request.  The host resolves the method, the pool sends the *)
(* request under the per-chain deadline, above a transport that retries, and   *)
(* the answer is classified and capped before the guest sees it.  A guest runs *)
(* one request at a time: its call returns before it goes on.                  *)
EXTENDS Integers, Sequences

CONSTANTS
    Tracked,      \* the tracked addresses, in the order of [config]
    Balances,       \* what eth_getBalance can read
    Threshold,      \* change_threshold
    Methods,        \* method names a guest can write
    ChainMethod,    \* those of the permitted read surface
    Configured,     \* chains with a provider in the pool
    Chains,         \* chain ids a guest can write
    Timeout,        \* request_timeout_secs, in units of the model's time
    MaxRetries,     \* RPC_MAX_RETRIES
    ResponseCap,    \* chain_response_max_bytes
    Sizes,          \* body sizes
    MaxPacket,      \* bound: requests of one packet
    MaxPrograms         \* bound: guest programs run

ASSUME ChainReadAssumption ==
    /\ Timeout \in Nat \ {0} /\ MaxRetries \in Nat /\ ResponseCap \in Nat
    /\ ChainMethod \subseteq Methods /\ "eth_getBalance" \in ChainMethod
    /\ Configured \subseteq Chains
    /\ Balances \subseteq Nat /\ Threshold \in Nat
    /\ Tracked \in Seq({Tracked[i] : i \in DOMAIN Tracked})
    /\ Sizes \subseteq Nat /\ MaxPacket \in Nat

VARIABLES
    caller,      \* the program that runs, its requests, and how far it is
    rpc,        \* the request under way
    saved,      \* balance:{addr} rows, {} when absent or not 32 bytes
    said,       \* the alert of the check under way, {} when it raised none
    runs        \* programs started

readVars == <<caller, rpc, saved, said, runs>>

-----------------------------------------------------------------------------
(* One request: the chain, the method's name, whether the params parse.        *)
Request == [chain : Chains, method : Methods, json : BOOLEAN]

(* What the guest hears.  "rpc" is a structured error response of the node;    *)
(* "failure" one the SDK answers itself; the rest but "ok" are host faults.    *)
Faults == {"denied", "unsupported", "invalid", "timeout", "rate", "unavailable"}
Verdicts == Faults \cup {"ok", "rpc", "failure"}

(* What a body or a row reads as: a balance, or none.                          *)
Readings == {{}} \cup {{b} : b \in Balances}

NoBody == [size |-> 0, value |-> {}]
Bodies == [size : Sizes, value : Readings]

NoRpc == [phase |-> "none", waited |-> 0, tries |-> 0, verdict |-> "none", body |-> NoBody]
Heard(v, b) == [phase |-> "heard", waited |-> 0, tries |-> 0, verdict |-> v, body |-> b]

NoGuest == [prog |-> "none", requests |-> <<>>, at |-> 1, answers |-> <<>>, fault |-> {}]

(* A failed attempt, as the transport reports it.                              *)
Failures == {"error", "429", "503", "408", "gone", "client_timeout", "unreadable"}

(* The retry layer sends a rate-limited or overloaded request again.           *)
Retryable == {"429", "503"}

(* Which fault an error of the pool becomes.  A client timeout is found by     *)
(* walking the error's sources.                                                *)
Classify(failure) ==
    CASE failure = "error"                        -> "rpc"
      [] failure = "429"                          -> "rate"
      [] failure \in {"408", "client_timeout"}    -> "timeout"
      [] failure \in {"503", "gone", "unreadable"} -> "unavailable"

CheckCap(body) == IF body.size > ResponseCap THEN Heard("invalid", NoBody) ELSE Heard("ok", body)

-----------------------------------------------------------------------------
(* The guest's side.                                                           *)

Executing(prog) == caller.prog = prog
Current == caller.requests[caller.at]
Unanswered == caller.prog # "none" /\ caller.at <= Len(caller.requests)

Start(prog, requests) ==
    /\ caller.prog = "none" /\ runs < MaxPrograms
    /\ caller' = [NoGuest EXCEPT !.prog = prog, !.requests = requests]
    /\ runs' = runs + 1
    /\ UNCHANGED <<rpc, saved, said>>

(* on_block of the balance-tracker: the block's chain has a source, so it is   *)
(* configured.                                                                 *)
OnBlock == \E c \in Configured :
    Start("tracker", [i \in DOMAIN Tracked |->
                        [chain |-> c, method |-> "eth_getBalance", json |-> TRUE]])

(* dispatch of a packet: the params were serialised, so they parse.            *)
SendPacket == \E c \in Chains, n \in 1 .. MaxPacket : \E ms \in [1 .. n -> Methods] :
    Start("packet", [i \in 1 .. n |-> [chain |-> c, method |-> ms[i], json |-> TRUE]])

RawRequest == \E r \in Request : Start("raw", <<r>>)

(* dispatch_single: a method outside the read surface is answered by the SDK   *)
(* and the host never sees it.                                                 *)
OutsideSurface == Executing("packet") /\ Current.method \notin ChainMethod

(* The host's request up to the wire: resolve_method, the chain's provider,    *)
(* the params.                                                                 *)
Refusal(r) ==
    CASE r.method \notin ChainMethod   -> {"denied"}
      [] r.method \in ChainMethod /\ r.chain \notin Configured -> {"unsupported"}
      [] r.method \in ChainMethod /\ r.chain \in Configured /\ ~r.json -> {"invalid"}
      [] OTHER -> {}

Issue ==
    /\ Unanswered /\ rpc.phase = "none"
    /\ IF OutsideSurface THEN rpc' = Heard("failure", NoBody)
       ELSE IF Refusal(Current) # {} THEN \E v \in Refusal(Current) : rpc' = Heard(v, NoBody)
       ELSE rpc' = [NoRpc EXCEPT !.phase = "wire"]
    /\ UNCHANGED <<caller, saved, said, runs>>

-----------------------------------------------------------------------------
(* The wire.                                                                   *)

NodeAnswers ==
    /\ rpc.phase = "wire"
    /\ \E b \in Bodies : rpc' = CheckCap(b)
    /\ UNCHANGED <<caller, saved, said, runs>>

AttemptFails ==
    /\ rpc.phase = "wire"
    /\ \E f \in Failures :
          rpc' = IF f \in Retryable /\ rpc.tries < MaxRetries
                 THEN [rpc EXCEPT !.tries = @ + 1]
                 ELSE Heard(Classify(f), NoBody)
    /\ UNCHANGED <<caller, saved, said, runs>>

WireTime ==
    /\ rpc.phase = "wire" /\ rpc.waited < Timeout
    /\ rpc' = [rpc EXCEPT !.waited = @ + 1]
    /\ UNCHANGED <<caller, saved, said, runs>>

(* Mutant: the deadline covers the first attempt only *)
DeadlineFirst ==
    /\ rpc.phase = "wire" /\ rpc.waited = Timeout /\ rpc.tries = 0
    /\ rpc' = Heard("timeout", NoBody)
    /\ UNCHANGED <<caller, saved, said, runs>>

(* The deadline covers every attempt and the back-off between them.            *)
Deadline ==
    /\ rpc.phase = "wire" /\ rpc.waited = Timeout
    /\ rpc' = Heard("timeout", NoBody)
    /\ UNCHANGED <<caller, saved, said, runs>>

-----------------------------------------------------------------------------
(* The answer, in each program.                                                *)

NextRequest == caller' = [caller EXCEPT !.at = @ + 1]

Differ(a, b) == IF a >= b THEN a - b ELSE b - a

(* check_one after the fetch.  A failed read, a body that is no hex string or  *)
(* a failed store read skips the address; else the alert goes out first and    *)
(* the reading is saved next.                                                  *)
CheckFails ==
    /\ Executing("tracker") /\ rpc.phase = "heard"
    /\ rpc' = NoRpc /\ NextRequest
    /\ UNCHANGED <<saved, said, runs>>

(* Mutant: the difference saturates at zero, and a fall is silent *)
MovedUp(a, current) == {<<a, p, current>> : p \in {q \in saved[a] : current - q >= Threshold}}

Moved(a, current) == {<<a, p, current>> : p \in {q \in saved[a] : Differ(current, q) >= Threshold}}

CheckOne ==
    /\ Executing("tracker") /\ rpc.phase = "heard" /\ rpc.verdict = "ok"
    /\ \E current \in rpc.body.value :
          /\ said' = Moved(Tracked[caller.at], current)
          /\ rpc' = [rpc EXCEPT !.phase = "save"]
    /\ UNCHANGED <<caller, saved, runs>>

(* host.set: it may be refused, and the address is skipped all the same.       *)
Save ==
    /\ rpc.phase = "save"
    /\ \/ \E current \in rpc.body.value :
             saved' = [saved EXCEPT ![Tracked[caller.at]] = {current}]
       \/ UNCHANGED saved
    /\ rpc' = NoRpc /\ said' = {} /\ NextRequest
    /\ UNCHANGED runs

(* collect::<Result<_, _>>: a fault ends the packet, a structured error is one *)
(* answer among the others.                                                    *)
PacketAnswer ==
    /\ Executing("packet") /\ rpc.phase = "heard"
    /\ caller' = IF rpc.verdict \in Faults
                THEN [caller EXCEPT !.fault = {caller.at}, !.at = Len(caller.requests) + 1]
                ELSE [caller EXCEPT !.answers = Append(@, rpc.verdict), !.at = @ + 1]
    /\ rpc' = NoRpc
    /\ UNCHANGED <<saved, said, runs>>

RawAnswer ==
    /\ Executing("raw") /\ rpc.phase = "heard"
    /\ rpc' = NoRpc /\ NextRequest
    /\ UNCHANGED <<saved, said, runs>>

(* The handler returns.                                                        *)
Return ==
    /\ caller.prog # "none" /\ ~Unanswered /\ rpc.phase = "none"
    /\ caller' = NoGuest
    /\ UNCHANGED <<rpc, saved, said, runs>>

(* The dispatch is cut: its deadline, its fuel or a trap end the guest between *)
(* two host calls or inside one.                                               *)
Cut ==
    /\ caller.prog # "none"
    /\ caller' = NoGuest /\ rpc' = NoRpc /\ said' = {}
    /\ UNCHANGED <<saved, runs>>

-----------------------------------------------------------------------------
(* A row may hold bytes of another length, which parse_u256_le takes for none. *)
ReadInit ==
    /\ caller = NoGuest /\ rpc = NoRpc /\ said = {} /\ runs = 0
    /\ saved = [a \in {Tracked[i] : i \in DOMAIN Tracked} |-> {}]

ReadNext ==
    \/ OnBlock \/ SendPacket \/ RawRequest
    \/ Issue \/ NodeAnswers \/ AttemptFails \/ WireTime \/ Deadline
    \/ CheckFails \/ CheckOne \/ Save \/ PacketAnswer \/ RawAnswer
    \/ Return \/ Cut

(* The runtime's timers run and a polled future makes progress; the node owes  *)
(* nothing.                                                                    *)
ReadFairness ==
    /\ WF_readVars(WireTime)
    /\ WF_readVars(Deadline)

ReadSpec == ReadInit /\ [][ReadNext]_readVars /\ ReadFairness

-----------------------------------------------------------------------------
(* Types.  A request is on the wire no longer than the chain's timeout, only   *)
(* if its method is of the read surface, its chain configured and its params   *)
(* parse; a body over the cap never reaches the guest; a packet has an answer  *)
(* for each request so far, or a fault with nothing sent after it.             *)
ReadTypeOK ==
    /\ rpc.phase \in {"none", "wire", "heard", "save"}
    /\ rpc.waited \in 0 .. Timeout /\ rpc.tries \in 0 .. MaxRetries
    /\ rpc.phase = "heard" => rpc.verdict \in Verdicts
    /\ rpc.phase = "wire" =>
         Current.method \in ChainMethod /\ Current.chain \in Configured /\ Current.json
    /\ rpc.verdict = "ok" => rpc.body.size <= ResponseCap
    /\ \A a \in DOMAIN saved : saved[a] \in Readings
    /\ Executing("packet") =>
         /\ \A k \in DOMAIN caller.answers : caller.answers[k] \notin Faults
         /\ \A k \in caller.fault : Len(caller.answers) = k - 1 /\ rpc.phase = "none"
         /\ caller.fault = {} => Len(caller.answers) = caller.at - 1

(* A saved balance never moves by the threshold or more, up or down, without   *)
(* the alert for that very move, whatever was cut or failed between the two.   *)
NoSilentMove == [][\A a \in DOMAIN saved : \A p \in saved[a], q \in saved'[a] :
    Differ(p, q) >= Threshold /\ p # q => <<a, p, q>> \in said]_readVars

(* A request on the wire is answered, or times out, or its guest is gone: the  *)
(* retries never outlast the deadline.                                         *)
RequestResolves == rpc.phase = "wire" ~> rpc.phase # "wire"
=============================================================================
