--------------------------- MODULE MCEventReplay ---------------------------
(***************************************************************************)
(* One module with one resume trigger; blocks of one, no and two logs.     *)
(* The trigger has a start_block at the first block, above an early head,  *)
(* or none, and a max_lookback of one block or none.                       *)
(***************************************************************************)
EXTENDS EventReplay, TLC

MCSubscribers == [c \in Feeds |-> {}]
MCHeights == 0..3
MCLogsAt == 0 :> 1 @@ 1 :> 0 @@ 2 :> 2 @@ 3 :> 0
MCTriggers == [start : {None, 0, 2}, lookback : {None, 1}]
MCSeeded == {[start |-> 0, lookback |-> None]}
=============================================================================
