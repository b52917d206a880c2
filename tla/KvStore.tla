------------------------------ MODULE KvStore ------------------------------
(***************************************************************************)
(* What the local store promises its callers: every namespace is a map      *)
(* from keys to value lengths, a batch of writes is either on disk as a     *)
(* whole or not at all, it touches the namespace it was asked for only, and *)
(* what is on disk stays there until a later batch replaces it.             *)
(*                                                                         *)
(* One batch is in flight at a time (redb has one writer).  A batch that is *)
(* refused, that fails to commit or whose process dies is dropped.          *)
(***************************************************************************)
EXTENDS Integers, Sequences

CONSTANTS Namespaces, Keys, Batches

Absent == -1
Idle == <<>>

VARIABLES kv,   \* kv[ns][k]: the length of the value, Absent if there is none
          ask   \* the batch in flight, [ns, ops], or Idle

kvVars == <<kv, ask>>

(* The map after the operations of a batch, in their order. *)
Outcome(m, ops) ==
  [k \in Keys |->
     LET at == {i \in DOMAIN ops : ops[i].key = k}
     IN  IF at = {} THEN m[k]
         ELSE ops[CHOOSE i \in at : \A j \in at : j <= i].len]

KvInit == ask = Idle

Ask(ns, ops) == ask = Idle /\ ask' = [ns |-> ns, ops |-> ops] /\ UNCHANGED kv

Land == /\ ask # Idle /\ ask' = Idle
        /\ kv' = [kv EXCEPT ![ask.ns] = Outcome(@, ask.ops)]

Drop == ask # Idle /\ ask' = Idle /\ UNCHANGED kv

KvNext == \/ \E ns \in Namespaces, ops \in Batches : Ask(ns, ops)
          \/ Land \/ Drop

KvSpec == KvInit /\ [][KvNext]_kvVars
============================================================================
