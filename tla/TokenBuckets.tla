---------------------------- MODULE TokenBuckets ----------------------------
(***************************************************************************)
(* Flow control (FR-05) as the HTTP application applies it: one in-memory  *)
(* TokenBucket per caller in each worker process (RateLimitMiddleware),    *)
(* refilled lazily from the wall clock by compute_refill.                  *)
(* Refill and spending are those of RefillMath.                            *)
(***************************************************************************)
EXTENDS RefillMath

CONSTANTS
  Workers,      \* worker processes, each with its own app.state
  Keys,         \* bucket keys: an API key or a client address
  Second,       \* ticks of one second
  MaxElapsed,   \* bound on the ticks of a behaviour
  MaxLag,       \* bound on how far the wall clock is set back
  MaxRecovered  \* bound on the total by which it jumps forward again

ASSUME SecondAssumption == Second \in Nat \ {0}
ASSUME ClockAssumption ==
  MaxElapsed \in Nat /\ MaxLag \in Nat /\ MaxRecovered \in Nat

VARIABLES
  elapsed,    \* ticks that really went by
  lag,        \* how far the wall clock is behind
  recovered,  \* total of its forward jumps
  bucket,     \* [Workers -> [Keys -> bucket]]: app.state.rate_limit_buckets
  granted     \* requests let through, per worker and key

vars == <<elapsed, lag, recovered, bucket, granted>>

NoBucket == [tokens |-> -1, last |-> 0]
Wall == elapsed - lag                          \* time.time()

Init == /\ elapsed = 0 /\ lag = 0 /\ recovered = 0
        /\ bucket = [w \in Workers |-> [k \in Keys |-> NoBucket]]
        /\ granted = [w \in Workers |-> [k \in Keys |-> 0]]

-----------------------------------------------------------------------------
(* The answer to a request.                                                *)

RetryAfterRoundedDown(b) ==                                        \* mutant
  IF HasToken(b) THEN 0 ELSE IF ~Refills THEN 1 ELSE (Cost - b.tokens) \div Second

\* The Retry-After header of a 429: seconds_until_next_token, rounded up; an
\* infinite wait is announced as one second.
RetryAfter(b) == IF HasToken(b) THEN 0
                 ELSE IF ~Refills THEN 1
                 ELSE (Cost - b.tokens + Second - 1) \div Second

-----------------------------------------------------------------------------
Known(w, k) == bucket[w][k] # NoBucket
Refilled(w, k) == Refill(IF Known(w, k) THEN bucket[w][k] ELSE NewBucket(Wall), Wall)

\* RateLimitMiddleware.dispatch has no await before its verdict, so it is one
\* step: find or create the bucket, refill it, take a token or answer 429.
Grant(w, k) ==
  /\ HasToken(Refilled(w, k))
  /\ bucket' = [bucket EXCEPT ![w][k] = Spend(Refilled(w, k))]
  /\ granted' = [granted EXCEPT ![w][k] = @ + 1]
  /\ UNCHANGED <<elapsed, lag, recovered>>

Reject(w, k) ==
  /\ ~HasToken(Refilled(w, k))
  /\ bucket' = [bucket EXCEPT ![w][k] = Refilled(w, k)]
  /\ UNCHANGED <<elapsed, lag, recovered, granted>>

-----------------------------------------------------------------------------
(* The clock: time passes, the host sets its clock back and recovers.      *)

Tick == /\ elapsed < MaxElapsed
        /\ elapsed' = elapsed + 1
        /\ UNCHANGED <<lag, recovered, bucket, granted>>

StepBack == /\ \E d \in 1 .. MaxLag : lag + d <= MaxLag /\ lag' = lag + d
            /\ UNCHANGED <<elapsed, recovered, bucket, granted>>

Recover == /\ lag > 0 /\ recovered + lag <= MaxRecovered
           /\ lag' = 0
           /\ recovered' = recovered + lag
           /\ UNCHANGED <<elapsed, bucket, granted>>

Next == \/ \E w \in Workers, k \in Keys : Grant(w, k) \/ Reject(w, k)
        \/ Tick \/ StepBack \/ Recover

Spec == Init /\ [][Next]_vars

-----------------------------------------------------------------------------
(* Properties.                                                             *)

\* A bucket holds between zero and burst tokens; the rest has its shape.
TypeOK ==
  /\ elapsed \in Nat /\ lag \in Nat /\ recovered \in Nat
  /\ bucket \in [Workers -> [Keys -> Buckets \cup {NoBucket}]]
  /\ granted \in [Workers -> [Keys -> Nat]]

\* One worker never lets a caller through more often than the burst plus the
\* refill of the time that went by, and of what the clock jumped forward:
\* setting the clock back by itself gives nothing away.
GrantBound ==
  \A w \in Workers, k \in Keys :
    granted[w][k] * Cost <= Full + elapsed + recovered

\* Retry-After is honest and tight: whoever waits that many seconds finds a
\* token (unless others spend it), and one second less is not enough.
RetryHonest ==
  \A w \in Workers, k \in Keys :
    LET b == Refilled(w, k)
        n == RetryAfter(b)
    IN  Known(w, k) /\ ~HasToken(b) /\ Refills /\ Burst > 0 =>
          /\ n > 0
          /\ HasToken(Refill(b, Wall + n * Second))
          /\ ~HasToken(Refill(b, Wall + (n - 1) * Second))
=============================================================================
