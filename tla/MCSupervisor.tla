---------------------------- MODULE MCSupervisor ----------------------------
(***************************************************************************)
(* Instances of Supervisor for TLC.  MCLifecycle.cfg follows one module    *)
(* over a long stretch of time, called by its schedule and revived by it   *)
(* and by blocks it does not subscribe to; MCFanout.cfg interleaves the    *)
(* jobs of two modules with the clock, the stop signal and a lost source.  *)
(***************************************************************************)
EXTENDS Supervisor, TLC

MCChains == {"eth"}
NoKinds == {}
MCKinds == {"ext"}
NoSubscriber == "eth" :> {}
TwoSubscribers == ("eth" :> {1, 2}) @@ ("ext" :> {2})
=============================================================================
