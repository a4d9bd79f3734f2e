----------------------------- MODULE RefillMath -----------------------------
(***************************************************************************)
(* The arithmetic of a token bucket (FR-05): compute_refill, which the     *)
(* in-memory buckets and the database rows share, and what both do with    *)
(* its result.  Time is counted in ticks so short that a bucket gains one  *)
(* unit per tick: a token is worth Cost units, hence with Second ticks in  *)
(* a second per_sec = Second / Cost.  The floats of the code are exact.    *)
(***************************************************************************)
EXTENDS Integers

CONSTANTS
  Burst,        \* TASKQ_RATE_BURST
  Cost,         \* units of one token
  Refills       \* is TASKQ_RATE_PER_SEC positive?

ASSUME RefillAssumption ==
  Burst \in Nat /\ Cost \in Nat \ {0} /\ Refills \in BOOLEAN

Full == Burst * Cost
Buckets == [tokens : 0 .. Full, last : Int]

\* A fresh bucket, and a fresh row, start full.
NewBucket(now) == [tokens |-> Full, last |-> now]

Capped(units) == IF units <= Full THEN units ELSE Full

RefillUncapped(b, now) ==                                          \* mutant
  [tokens |-> IF now > b.last THEN b.tokens + (now - b.last) ELSE b.tokens, last |-> now]
RefillKeepsLast(b, now) ==                                         \* mutant
  IF now <= b.last THEN b
  ELSE [b EXCEPT !.tokens = Capped(b.tokens + (now - b.last))]

\* compute_refill: a clock that went back moves last_refill_at back with it.
Refill(b, now) ==
  IF now <= b.last THEN [b EXCEPT !.last = now]
  ELSE IF ~Refills THEN b
  ELSE [tokens |-> Capped(b.tokens + (now - b.last)), last |-> now]

HasToken(b) == b.tokens >= Cost
Spend(b) == [b EXCEPT !.tokens = @ - Cost]

\* Refill, then take a token if there is one.
Consumed(b, now) == IF HasToken(Refill(b, now)) THEN Spend(Refill(b, now))
                    ELSE Refill(b, now)
=============================================================================
