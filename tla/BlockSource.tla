----------------------------- MODULE BlockSource -----------------------------
(***************************************************************************)
(* The pump of one chain's blocks: it opens the stream, forwards its items  *)
(* into a bounded channel, and after a drop or a failed open pauses and     *)
(* opens again.  The node is external: it may refuse an open, stay silent   *)
(* or end the stream at any moment.                                         *)
(*                                                                         *)
(* Time is unbounded and never written down: what the pump compares is how  *)
(* long ago the last item came (age) and how long it still pauses (left).   *)
(* Half a second is one unit.                                               *)
(***************************************************************************)
EXTENDS Integers

CONSTANTS Healthy,    \* HEALTHY_WINDOW
          MaxPause,   \* RESTART_MAX_BACKOFF
          Rungs,      \* attempts from which on the doubling has stopped
          ChannelSize \* RECONNECT_CHANNEL_BUF

ASSUME BlockAssumption ==
  /\ Healthy \in Nat \ {0} /\ MaxPause \in Nat \ {0}
  /\ Rungs \in Nat \ {0} /\ ChannelSize \in Nat \ {0}
  /\ 2 ^ Rungs >= MaxPause

\* Arithmetic the provers do not have: the powers of two up to the last rung.
ASSUME PowersOfTwo ==
  /\ \A n \in 0 .. Rungs : 2 ^ n \in Nat \ {0}
  /\ \A n \in 0 .. Rungs - 1 : 2 ^ (n + 1) = 2 * (2 ^ n)

VARIABLES link,    \* the pump: where it is, its attempts, age and pause
          inbox,   \* items in the channel
          heard,   \* the loop still holds the receiver
          paused   \* history: the last pause, 0 since the counter was reset

blockVars == <<link, inbox, heard, paused>>

Never == -1
Smaller(a, b) == IF a < b THEN a ELSE b

\* backoff_for: the doubling curve with its cap, drawn from the upper half; the
\* draw is a hash of the source and the count, here any.
Base(n) == Smaller(2 ^ n, MaxPause)
BackoffFor(n) == (Base(n) \div 2) .. Base(n)

\* backoff_pause: the counter saturates; past the last rung it no longer counts.
BackoffPause ==
  LET n == Smaller(link.attempt + 1, Rungs)
  IN  \E pause \in BackoffFor(n) :
        /\ link' = [link EXCEPT !.at = "pausing", !.attempt = n, !.left = pause]
        /\ paused' = pause
        /\ UNCHANGED <<inbox, heard>>

BlockInit ==
  /\ link = [at |-> "opening", attempt |-> 0, age |-> Never, left |-> 0]
  /\ inbox = 0 /\ heard = TRUE /\ paused = 0

-----------------------------------------------------------------------------
\* Mutant: an open resets the counter
OpenResetting ==
  /\ link.at = "opening"
  /\ link' = [link EXCEPT !.at = "pumping", !.attempt = 0]
  /\ UNCHANGED <<inbox, heard, paused>>

Open ==
  /\ link.at = "opening"
  /\ link' = [link EXCEPT !.at = "pumping"]
  /\ UNCHANGED <<inbox, heard, paused>>

OpenFails == link.at = "opening" /\ BackoffPause
StreamEnds == link.at = "pumping" /\ BackoffPause

\* The wait for the next item has ended: the counter is reset when the last
\* item, of whichever stream, is a whole window old.
Reset == link.attempt > 0 /\ link.age >= Healthy
Item ==
  /\ link.at = "pumping"
  /\ link' = [link EXCEPT !.at = "sending", !.attempt = IF Reset THEN 0 ELSE @, !.age = 0]
  /\ paused' = IF Reset THEN 0 ELSE paused
  /\ UNCHANGED <<inbox, heard>>

\* tx.send: it waits for room, and fails when the receiver is gone.
Sent ==
  /\ link.at = "sending" /\ heard /\ inbox < ChannelSize
  /\ inbox' = inbox + 1
  /\ link' = [link EXCEPT !.at = "pumping"]
  /\ UNCHANGED <<heard, paused>>
ReceiverGone ==
  /\ link.at = "sending" /\ ~heard
  /\ link' = [link EXCEPT !.at = "gone"]
  /\ UNCHANGED <<inbox, heard, paused>>

PauseEnds ==
  /\ link.at = "pausing" /\ link.left = 0
  /\ link' = [link EXCEPT !.at = "opening"]
  /\ UNCHANGED <<inbox, heard, paused>>

\* A unit of time; an age beyond the window is not told apart from it.
BlockTime ==
  /\ link.at # "gone"
  /\ link' = [link EXCEPT !.age = IF @ = Never THEN @ ELSE Smaller(@ + 1, Healthy),
                          !.left = IF @ > 0 THEN @ - 1 ELSE 0]
  /\ UNCHANGED <<inbox, heard, paused>>

\* The event loop takes an item, or drops the receiver as it ends.
TakeItem ==
  /\ heard /\ inbox > 0
  /\ inbox' = inbox - 1
  /\ UNCHANGED <<link, heard, paused>>
DropReceiver ==
  /\ heard
  /\ heard' = FALSE /\ inbox' = 0
  /\ UNCHANGED <<link, paused>>

BlockNext ==
  \/ Open \/ OpenFails \/ StreamEnds \/ Item \/ Sent \/ ReceiverGone \/ PauseEnds
  \/ BlockTime \/ TakeItem \/ DropReceiver

BlockSpec == BlockInit /\ [][BlockNext]_blockVars

-----------------------------------------------------------------------------
(* Properties. *)

\* A flapping node is asked ever less often: until the counter is reset, no
\* pause is shorter than the one before it, short of half the cap, however
\* many streams opened and delivered in between.
PausesGrow ==
  [][link.at # "pausing" /\ link'.at = "pausing" =>
       link'.left >= Smaller(paused, MaxPause \div 2)]_blockVars
==============================================================================
