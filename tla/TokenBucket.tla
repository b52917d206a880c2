---------------------------- MODULE TokenBucket ----------------------------
(***************************************************************************)
(* The per-module token bucket of dispatch_rate.rs, as operators on a      *)
(* bucket record.  Tokens are fractional in the code (an f64), so a token  *)
(* is Token units here and a unit of time refills Refill of them.          *)
(***************************************************************************)
EXTENDS Integers

CONSTANTS Capacity,   \* burst allowance, in tokens
          Token,      \* units in one token
          Refill      \* units refilled per unit of time

ASSUME BucketAssumption ==
  /\ Capacity \in Nat \ {0}
  /\ Token \in Nat \ {0}
  /\ Refill \in Nat \ {0}

Full == Capacity * Token

Bucket == [tokens : 0..Full, last : Nat]

\* A bucket starts full, as of t.
NewBucket(t) == [tokens |-> Full, last |-> t]

Elapsed(b, t) == IF t >= b.last THEN t - b.last ELSE 0

\* The tokens after the refill for the elapsed time, at most a full bucket.
Refilled(b, t) ==
  LET grown == b.tokens + Elapsed(b, t) * Refill
  IN  IF grown <= Full THEN grown ELSE Full

Granted(b, t) == Refilled(b, t) >= Token

\* Refill, then take one token if there is one.
TryAcquire(b, t) ==
  [tokens |-> IF Granted(b, t) THEN Refilled(b, t) - Token ELSE Refilled(b, t),
   last   |-> t]
=============================================================================
