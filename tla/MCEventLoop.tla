---------------------------- MODULE MCEventLoop ----------------------------
(***************************************************************************)
(* Two sources, of any two kinds.                                          *)
(***************************************************************************)
EXTENDS EventLoop, TLC

CONSTANTS s1, s2

Pair(k, l) == s1 :> k @@ s2 :> l

MCMixes == {Pair(Order[i], Order[j]) : <<i, j>> \in {p \in (1..4) \X (1..4) : p[1] <= p[2]}}
============================================================================
