------------------------- MODULE MCChainLogSource -------------------------
(* Triggers without max_lookback, and with one of a single block.           *)
EXTENDS ChainLogSource

Unset == {None}
UnsetOrOne == {None, 1}
============================================================================
