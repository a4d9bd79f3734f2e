------------------------- MODULE TokenBucketsProofs -------------------------
(* For any number of workers and callers, any capacity and rate, and any   *)
(* behaviour of the wall clock: a bucket stays within its capacity, and a  *)
(* caller is granted no more than burst, elapsed time and clock jumps      *)
(* account for.                                                            *)
EXTENDS TokenBuckets, RefillMathProofs

Budget == Full + elapsed + recovered

\* What a bucket holds, and what it will gain once it is refilled, is what
\* its caller's budget has left.
Solvent(w, k) ==
  IF bucket[w][k] = NoBucket THEN granted[w][k] = 0
  ELSE /\ granted[w][k] * Cost + bucket[w][k].tokens <= Budget
       /\ granted[w][k] * Cost + bucket[w][k].tokens + (Wall - bucket[w][k].last) <= Budget

SolventInv == TypeOK /\ \A w \in Workers, k \in Keys : Solvent(w, k)

-----------------------------------------------------------------------------
\* A bucket that exists is not the absent one.
LEMMA BucketIsKnown == ASSUME NEW b \in Buckets PROVE b # NoBucket
BY FullNat DEF Buckets, NoBucket

\* Refilling a caller's bucket, or making it, stays within the budget.
LEMMA RefilledSolvent ==
  ASSUME SolventInv, NEW w \in Workers, NEW k \in Keys
  PROVE  /\ Refilled(w, k) \in Buckets
         /\ granted[w][k] * Cost + Refilled(w, k).tokens <= Budget
         /\ granted[w][k] * Cost + Refilled(w, k).tokens + (Wall - Refilled(w, k).last)
              <= Budget
<1>. DEFINE b == IF Known(w, k) THEN bucket[w][k] ELSE NewBucket(Wall)
            g == granted[w][k] * Cost
<1>1. /\ Wall \in Int /\ Full \in Nat /\ Budget \in Nat /\ elapsed \in Nat
      /\ recovered \in Nat /\ granted[w][k] \in Nat /\ Wall <= elapsed
  BY FullNat DEF SolventInv, TypeOK, Wall, Budget
<1>2. g \in Nat /\ (granted[w][k] = 0 => g = 0)
  BY <1>1, GrantCost, RefillAssumption
<1>3. b \in Buckets /\ g + b.tokens <= Budget /\ g + b.tokens + (Wall - b.last) <= Budget
  <2>1. CASE Known(w, k)
    BY <2>1 DEF SolventInv, TypeOK, Solvent, Known
  <2>2. CASE ~Known(w, k)
    <3>1. b = NewBucket(Wall) /\ g = 0
      BY <2>2, <1>2 DEF Known, SolventInv, Solvent
    <3>2. b \in Buckets /\ b.tokens = Full /\ b.last = Wall
      BY <3>1, <1>1, NewBucketSound
    <3>3. QED  BY <3>1, <3>2, <1>1 DEF Budget
  <2>3. QED  BY <2>1, <2>2
<1>4. /\ Refill(b, Wall) \in Buckets
      /\ g + Refill(b, Wall).tokens <= Budget
      /\ g + Refill(b, Wall).tokens + (Wall - Refill(b, Wall).last) <= Budget
  <2>. HIDE DEF b, g
  <2>1. Refill(b, Wall) \in Buckets /\ b.last \in Int /\ b.tokens \in Int
        /\ Refill(b, Wall).last \in Int /\ Refill(b, Wall).tokens \in Int
    BY <1>1, <1>3, RefillSound DEF Buckets
  <2>2. CASE Wall <= b.last
    <3>1. Refill(b, Wall).tokens = b.tokens /\ Refill(b, Wall).last = Wall
      BY <2>2, <1>1, <1>3, RefillSound
    <3>2. QED  BY <3>1, <2>1, <1>1, <1>2, <1>3
  <2>3. CASE Wall > b.last
    <3>1. \/ Refill(b, Wall) = b
          \/ /\ Refill(b, Wall).last = Wall
             /\ Refill(b, Wall).tokens <= b.tokens + (Wall - b.last)
      BY <2>3, <1>1, <1>3, RefillSound
    <3>2. QED  BY <3>1, <2>1, <1>1, <1>2, <1>3
  <2>4. QED  BY <2>1, <2>2, <2>3, <1>1
<1>5. QED  BY <1>4 DEF Refilled

\* The clock may do what it likes: no bucket gains from it by itself.
LEMMA ClockSolvent ==
  ASSUME SolventInv, Tick \/ StepBack \/ Recover
  PROVE  SolventInv'
<1>1. /\ TypeOK' /\ bucket' = bucket /\ granted' = granted
      /\ Budget \in Int /\ Budget' \in Int /\ Budget <= Budget'
      /\ Wall \in Int /\ Wall' \in Int /\ Budget - Wall <= Budget' - Wall'
  BY FullNat, ClockAssumption
  DEF SolventInv, TypeOK, Tick, StepBack, Recover, Budget, Wall
<1>2. ASSUME NEW w \in Workers, NEW k \in Keys
      PROVE  Solvent(w, k)'
  <2>1. CASE bucket[w][k] = NoBucket
    BY <2>1, <1>1 DEF SolventInv, Solvent
  <2>2. CASE bucket[w][k] # NoBucket
    <3>1. /\ bucket[w][k].tokens \in Int /\ bucket[w][k].last \in Int
          /\ granted[w][k] \in Nat
      BY <2>2, FullNat DEF SolventInv, TypeOK, Buckets
    <3>2. granted[w][k] * Cost \in Nat
      BY <3>1, GrantCost
    <3>. DEFINE spent == granted[w][k] * Cost + bucket[w][k].tokens
                last == bucket[w][k].last
    <3>3. spent \in Int /\ last \in Int /\ spent <= Budget
          /\ spent + (Wall - last) <= Budget
      BY <2>2, <3>1, <3>2 DEF SolventInv, Solvent
    <3>5. spent <= Budget' /\ spent + (Wall' - last) <= Budget'
      <4>1. \A s, l, x, y, xx, yy \in Int :
              /\ s <= x /\ s + (y - l) <= x /\ x <= xx /\ x - y <= xx - yy
              => s <= xx /\ s + (yy - l) <= xx
        OBVIOUS
      <4>. HIDE DEF spent, last
      <4>. QED  BY <3>3, <1>1, <4>1
    <3>6. /\ granted'[w][k] * Cost + bucket'[w][k].tokens <= Budget'
          /\ granted'[w][k] * Cost + bucket'[w][k].tokens + (Wall' - bucket'[w][k].last)
               <= Budget'
      <4>1. granted'[w][k] * Cost + bucket'[w][k].tokens = spent /\ bucket'[w][k].last = last
        BY <1>1
      <4>. HIDE DEF spent, last
      <4>2. QED  BY <3>5, <4>1
    <3>7. bucket'[w][k] # NoBucket
      BY <2>2, <1>1
    <3>8. QED  BY <3>6, <3>7 DEF Solvent
  <2>3. QED  BY <2>1, <2>2
<1>3. QED  BY <1>1, <1>2 DEF SolventInv

\* Neither answer to a request spends what the caller does not have.
LEMMA RequestSolvent ==
  ASSUME SolventInv, NEW w \in Workers, NEW k \in Keys,
         Grant(w, k) \/ Reject(w, k)
  PROVE  SolventInv'
<1>. DEFINE r == Refilled(w, k)
<1>1. /\ r \in Buckets /\ granted[w][k] * Cost + r.tokens <= Budget
      /\ granted[w][k] * Cost + r.tokens + (Wall - r.last) <= Budget
  BY RefilledSolvent
<1>2. Wall' = Wall /\ Budget' = Budget /\ Wall \in Int /\ Budget \in Int
      /\ granted[w][k] \in Nat
  BY FullNat DEF Grant, Reject, Wall, Budget, SolventInv, TypeOK
<1>3. ASSUME NEW u \in Workers, NEW j \in Keys, <<u, j>> # <<w, k>>
      PROVE  Solvent(u, j)'
  <2>1. bucket'[u][j] = bucket[u][j] /\ granted'[u][j] = granted[u][j]
    BY <1>3 DEF Grant, Reject, SolventInv, TypeOK
  <2>2. QED  BY <2>1, <1>2 DEF SolventInv, Solvent
<1>4. CASE Grant(w, k)
  <2>1. /\ Spend(r) \in Buckets /\ Spend(r).tokens = r.tokens - Cost
        /\ Spend(r).last = r.last
    BY <1>4, <1>1, SpendSound DEF Grant
  <2>2. /\ (granted[w][k] + 1) * Cost = granted[w][k] * Cost + Cost
        /\ granted[w][k] * Cost \in Nat
    BY <1>2, GrantCost
  <2>3. /\ bucket' = [bucket EXCEPT ![w][k] = Spend(r)]
        /\ granted' = [granted EXCEPT ![w][k] = granted[w][k] + 1]
        /\ UNCHANGED <<elapsed, lag, recovered>>
    BY <1>4 DEF Grant
  <2>. HIDE DEF r
  <2>4. TypeOK'
    BY <2>1, <2>3, <1>2 DEF SolventInv, TypeOK
  <2>5. bucket'[w][k] = Spend(r) /\ granted'[w][k] = granted[w][k] + 1
    BY <2>3 DEF SolventInv, TypeOK
  <2>6. Solvent(w, k)'
    BY <2>1, <2>2, <2>5, <1>1, <1>2, RefillAssumption, BucketIsKnown
    DEF Solvent, Buckets, NoBucket
  <2>7. QED  BY <2>4, <2>6, <1>3 DEF SolventInv
<1>5. CASE Reject(w, k)
  <2>3. /\ bucket' = [bucket EXCEPT ![w][k] = r]
        /\ UNCHANGED <<elapsed, lag, recovered, granted>>
    BY <1>5 DEF Reject
  <2>. HIDE DEF r
  <2>4. TypeOK'
    BY <2>3, <1>1 DEF SolventInv, TypeOK
  <2>5. bucket'[w][k] = r /\ granted'[w][k] = granted[w][k]
    BY <2>3 DEF SolventInv, TypeOK
  <2>6. Solvent(w, k)'
    BY <2>5, <1>1, <1>2, BucketIsKnown DEF Solvent, NoBucket
  <2>7. QED  BY <2>4, <2>6, <1>3 DEF SolventInv
<1>6. QED  BY <1>4, <1>5

-----------------------------------------------------------------------------
\* Every reachable state is solvent.
LEMMA AlwaysSolvent == Spec => []SolventInv
<1>1. Init => SolventInv
  BY DEF Init, SolventInv, TypeOK, Solvent, NoBucket
<1>2. SolventInv /\ [Next]_vars => SolventInv'
  <2>1. SolventInv /\ UNCHANGED vars => SolventInv'
    BY DEF vars, SolventInv, TypeOK, Solvent, Budget, Wall
  <2>2. SolventInv /\ Next => SolventInv'
    BY ClockSolvent, RequestSolvent DEF Next
  <2>3. QED  BY <2>1, <2>2
<1>3. QED  BY <1>1, <1>2, PTL DEF Spec

\* Every bucket of every worker stays between empty and burst, wherever the
\* wall clock goes (the invariant TokenBucket's docstring states).
THEOREM BucketTypeCorrect == Spec => []TypeOK
<1>1. SolventInv => TypeOK
  BY DEF SolventInv
<1>2. QED  BY <1>1, AlwaysSolvent, PTL

\* RateLimitMiddleware never lets a caller through more often, in one worker,
\* than burst, elapsed time and the forward jumps of the clock pay for.
THEOREM GrantBoundCorrect == Spec => []GrantBound
<1>1. SolventInv => GrantBound
  <2>1. ASSUME SolventInv, NEW w \in Workers, NEW k \in Keys
        PROVE  granted[w][k] * Cost <= Full + elapsed + recovered
    <3>1. CASE bucket[w][k] = NoBucket
      BY <2>1, <3>1, FullNat, RefillAssumption DEF SolventInv, Solvent, TypeOK
    <3>2. CASE bucket[w][k] # NoBucket
      <4>1. bucket[w][k].tokens \in Nat /\ granted[w][k] \in Nat /\ Budget \in Nat
        BY <2>1, <3>2, FullNat DEF SolventInv, TypeOK, Buckets, Budget
      <4>2. granted[w][k] * Cost \in Nat
        BY <4>1, GrantCost
      <4>3. QED  BY <2>1, <3>2, <4>1, <4>2 DEF SolventInv, Solvent, Budget
    <3>3. QED  BY <3>1, <3>2
  <2>2. QED  BY <2>1 DEF GrantBound
<1>2. QED  BY <1>1, AlwaysSolvent, PTL

-----------------------------------------------------------------------------
\* Rounding a quotient up: the result covers the dividend, one less does not.
LEMMA CeilingSound ==
  ASSUME NEW a \in Nat \ {0}, NEW s \in Nat \ {0}
  PROVE  LET n == (a + s - 1) \div s
         IN  n \in Nat \ {0} /\ n * s >= a /\ (n - 1) * s < a
<1> DEFINE n == (a + s - 1) \div s
<1>1. n \in Int /\ s * n <= a + s - 1 /\ a + s - 1 < s * n + s
  <2>1. \A x \in Nat, d \in Nat \ {0} :
          x \div d \in Int /\ d * (x \div d) <= x /\ x < d * (x \div d) + d
    OBVIOUS
  <2>2. a + s - 1 \in Nat
    OBVIOUS
  <2>. QED
    BY <2>1, <2>2
<1> HIDE DEF n
<1>2. n * s = s * n /\ (n - 1) * s = s * n - s /\ s * n \in Int
  <2>1. \A x, y \in Int : y * x = x * y /\ (y - 1) * x = x * y - x /\ x * y \in Int
    OBVIOUS
  <2>. QED
    BY <1>1, <2>1
<1>3. n > 0
  <2>1. \A x \in Nat, y \in Int : y <= 0 => x * y <= 0
    OBVIOUS
  <2>. QED
    BY <1>1, <1>2, <2>1
<1>. QED
  BY <1>1, <1>2, <1>3 DEF n

\* The bucket a request is answered from was refilled at this very instant.
LEMMA RefilledNow ==
  ASSUME TypeOK, Refills, NEW w \in Workers, NEW k \in Keys
  PROVE  Refilled(w, k) \in Buckets /\ Refilled(w, k).last = Wall
<1> DEFINE b == IF Known(w, k) THEN bucket[w][k] ELSE NewBucket(Wall)
<1>1. Wall \in Int
  BY DEF TypeOK, Wall
<1>2. b \in Buckets
  BY <1>1, NewBucketSound DEF TypeOK, Known
<1> HIDE DEF b
<1>3. Refill(b, Wall) \in Buckets /\ Refill(b, Wall).last = Wall
  BY <1>1, <1>2, RefillSound DEF Refill, Buckets
<1>. QED
  BY <1>3 DEF b, Refilled

\* What waiting does to an empty bucket: it holds a token again exactly when
\* the time gone by covers what was missing.
LEMMA WaitingRefills ==
  ASSUME Refills, Burst > 0, NEW b \in Buckets, NEW wait \in Nat, ~HasToken(b)
  PROVE  HasToken(Refill(b, b.last + wait)) <=> wait >= Cost - b.tokens
<1>1. Full >= Cost
  <2>1. \A x, y \in Nat : x > 0 => x * y >= y
    OBVIOUS
  <2>. QED
    BY <2>1, RefillAssumption DEF Full
<1>. QED
  BY <1>1, FullNat, RefillAssumption DEF Refill, HasToken, Capped, Buckets

\* RetryHonest: the Retry-After of a 429 is the least number of seconds after
\* which the caller finds a token, for every rate and capacity.
THEOREM RetryHonestCorrect == Spec => []RetryHonest
<1>1. ASSUME TypeOK, NEW w \in Workers, NEW k \in Keys,
             ~HasToken(Refilled(w, k)), Refills, Burst > 0
      PROVE  /\ RetryAfter(Refilled(w, k)) > 0
             /\ HasToken(Refill(Refilled(w, k), Wall + RetryAfter(Refilled(w, k)) * Second))
             /\ ~HasToken(Refill(Refilled(w, k),
                                 Wall + (RetryAfter(Refilled(w, k)) - 1) * Second))
  <2> DEFINE b == Refilled(w, k)
             n == RetryAfter(b)
             missing == Cost - b.tokens
  <2>1. b \in Buckets /\ b.last = Wall
    BY <1>1, RefilledNow
  <2>2. missing \in Nat \ {0}
    BY <1>1, <2>1, FullNat, RefillAssumption DEF HasToken, Buckets
  <2>3. n = (missing + Second - 1) \div Second
    BY <1>1 DEF RetryAfter
  <2> HIDE DEF b, n, missing
  <2>4. n \in Nat \ {0} /\ n * Second >= missing /\ (n - 1) * Second < missing
    BY <2>2, <2>3, SecondAssumption, CeilingSound
  <2>5. n * Second \in Nat /\ (n - 1) * Second \in Nat
    <3>1. \A x, y \in Nat : x * y \in Nat
      OBVIOUS
    <3>2. n - 1 \in Nat
      BY <2>4
    <3>. QED
      BY <2>4, <3>1, <3>2, SecondAssumption
  <2>6. \A wait \in Nat : HasToken(Refill(b, Wall + wait)) <=> wait >= missing
    BY <1>1, <2>1, WaitingRefills DEF b, missing
  <2>7. n > 0 /\ HasToken(Refill(b, Wall + n * Second))
        /\ ~HasToken(Refill(b, Wall + (n - 1) * Second))
    <3>1. \A x, y \in Nat : x < y => ~(x >= y)
      OBVIOUS
    <3>. QED
      BY <2>2, <2>4, <2>5, <2>6, <3>1
  <2>. QED
    BY <2>7 DEF b, n
<1>2. TypeOK => RetryHonest
  BY <1>1 DEF RetryHonest
<1>. QED
  BY <1>2, BucketTypeCorrect, PTL
-----------------------------------------------------------------------------
(* The other side of the bound: a caller gets the burst it was promised.   *)

\* What a bucket lacks was granted: no clock, however it is set, takes a token.
PaidInv == TypeOK /\ \A w \in Workers, k \in Keys :
             IF Known(w, k) THEN bucket[w][k].tokens + granted[w][k] * Cost >= Full
             ELSE granted[w][k] = 0

\* The bucket a request is answered from is a bucket, and was paid for as well.
LEMMA RefilledPaid ==
  ASSUME PaidInv, NEW w \in Workers, NEW k \in Keys
  PROVE  /\ Refilled(w, k) \in Buckets
         /\ Refilled(w, k).tokens + granted[w][k] * Cost >= Full
<1> DEFINE b == IF Known(w, k) THEN bucket[w][k] ELSE NewBucket(Wall)
<1>1. Wall \in Int /\ granted[w][k] \in Nat /\ granted[w][k] * Cost \in Nat
  BY GrantCost DEF PaidInv, TypeOK, Wall
<1>2. b \in Buckets /\ b.tokens + granted[w][k] * Cost >= Full
  BY <1>1, FullNat, NewBucketSound DEF PaidInv, TypeOK, Known
<1> HIDE DEF b
<1>3. Refill(b, Wall) \in Buckets /\ Refill(b, Wall).tokens >= b.tokens
      /\ b.tokens \in Nat /\ Refill(b, Wall).tokens \in Nat
  <2>1. Refill(b, Wall) \in Buckets
    BY <1>1, <1>2, RefillSound
  <2>2. Refill(b, Wall).tokens >= b.tokens
    BY <1>1, <1>2, FullNat DEF Refill, Capped, Buckets
  <2>. QED
    BY <1>2, <2>1, <2>2, FullNat DEF Buckets
<1>4. Refill(b, Wall).tokens + granted[w][k] * Cost >= Full
  BY <1>1, <1>2, <1>3, FullNat
<1>. QED
  BY <1>3, <1>4 DEF b, Refilled

\* Every step keeps the buckets paid for.
LEMMA NextPaid == PaidInv /\ TypeOK' /\ [Next]_vars => PaidInv'
<1> SUFFICES ASSUME PaidInv, TypeOK', [Next]_vars PROVE PaidInv'
  OBVIOUS
<1>1. ASSUME UNCHANGED <<bucket, granted>> PROVE PaidInv'
  BY <1>1 DEF PaidInv, Known
<1>2. ASSUME NEW w \in Workers, NEW k \in Keys, Grant(w, k) \/ Reject(w, k)
      PROVE  PaidInv'
  <2> DEFINE r == Refilled(w, k)
  <2>1. r \in Buckets /\ r.tokens + granted[w][k] * Cost >= Full
    BY RefilledPaid
  <2>2. granted[w][k] \in Nat /\ granted[w][k] * Cost \in Nat
        /\ (granted[w][k] + 1) * Cost = granted[w][k] * Cost + Cost
    BY GrantCost DEF PaidInv, TypeOK
  <2>3. \/ /\ HasToken(r)
           /\ bucket' = [bucket EXCEPT ![w][k] = Spend(r)]
           /\ granted' = [granted EXCEPT ![w][k] = granted[w][k] + 1]
        \/ /\ bucket' = [bucket EXCEPT ![w][k] = r]
           /\ granted' = granted
    BY <1>2 DEF Grant, Reject
  <2> HIDE DEF r
  <2>4. /\ bucket'[w][k] \in Buckets
        /\ bucket'[w][k].tokens + granted'[w][k] * Cost >= Full
    <3>1. CASE /\ HasToken(r)
               /\ bucket' = [bucket EXCEPT ![w][k] = Spend(r)]
               /\ granted' = [granted EXCEPT ![w][k] = granted[w][k] + 1]
      <4>1. bucket'[w][k] = Spend(r) /\ granted'[w][k] = granted[w][k] + 1
        BY <3>1 DEF PaidInv, TypeOK
      <4>2. Spend(r) \in Buckets /\ Spend(r).tokens = r.tokens - Cost /\ r.tokens \in Nat
        BY <2>1, <3>1, SpendSound, FullNat DEF Buckets
      <4>3. Spend(r).tokens + (granted[w][k] + 1) * Cost >= Full
        BY <2>1, <2>2, <4>2, FullNat, RefillAssumption
      <4>. QED
        BY <4>1, <4>2, <4>3
    <3>2. CASE bucket' = [bucket EXCEPT ![w][k] = r] /\ granted' = granted
      BY <2>1, <3>2 DEF PaidInv, TypeOK
    <3>. QED
      BY <2>3, <3>1, <3>2
  <2>5. ASSUME NEW u \in Workers, NEW j \in Keys, <<u, j>> # <<w, k>>
        PROVE  bucket'[u][j] = bucket[u][j] /\ granted'[u][j] = granted[u][j]
    BY <2>3, <2>5 DEF PaidInv, TypeOK
  <2>. QED
    BY <2>4, <2>5, BucketIsKnown DEF PaidInv, Known
<1>. QED
  BY <1>1, <1>2 DEF Next, Tick, StepBack, Recover, vars

\* A caller is answered 429 only after TASKQ_RATE_BURST granted requests to the
\* same worker: neither a clock set back nor a rate of zero rejects one earlier.
THEOREM BurstServed ==
  Spec => [](\A w \in Workers, k \in Keys :
               ~HasToken(Refilled(w, k)) => granted[w][k] >= Burst)
<1>1. Init => PaidInv
  BY DEF Init, PaidInv, TypeOK, Known
<1>2. PaidInv => \A w \in Workers, k \in Keys :
                   ~HasToken(Refilled(w, k)) => granted[w][k] >= Burst
  <2> SUFFICES ASSUME PaidInv, NEW w \in Workers, NEW k \in Keys, ~HasToken(Refilled(w, k))
               PROVE  granted[w][k] >= Burst
    OBVIOUS
  <2>1. granted[w][k] \in Nat
    BY DEF PaidInv, TypeOK
  <2>. QED
    BY <2>1, RefilledPaid, BurstOfGrants
<1>. QED
  BY <1>1, <1>2, NextPaid, BucketTypeCorrect, PTL DEF Spec

-----------------------------------------------------------------------------
(* The bound for every window of time, not only from the start.  What a    *)
(* caller could spend now is at most Full; from then on each grant spends  *)
(* Cost of it, and only time and forward jumps of the clock add to it.     *)

\* The tokens a request of this caller would find now.
Spendable(w, k) == Refilled(w, k).tokens

\* A step grants no more than it takes from what the caller could spend, and
\* what the clock brings.
LEMMA StepSpends ==
  ASSUME TypeOK, TypeOK', [Next]_vars, NEW w \in Workers, NEW k \in Keys
  PROVE  /\ granted'[w][k] * Cost + Spendable(w, k)'
                <= granted[w][k] * Cost + Spendable(w, k)
                   + (elapsed' - elapsed) + (recovered' - recovered)
         /\ Spendable(w, k)' \in Nat /\ granted'[w][k] * Cost \in Nat
<1> DEFINE b == IF Known(w, k) THEN bucket[w][k] ELSE NewBucket(Wall)
           bb == IF Known(w, k)' THEN bucket'[w][k] ELSE NewBucket(Wall')
<1>1. /\ Wall \in Int /\ Wall' \in Int /\ granted[w][k] \in Nat /\ granted'[w][k] \in Nat
      /\ granted[w][k] * Cost \in Nat /\ granted'[w][k] * Cost \in Nat
      /\ elapsed \in Nat /\ recovered \in Nat /\ elapsed' \in Nat /\ recovered' \in Nat
  BY GrantCost DEF TypeOK, Wall
<1>0. /\ Wall \in Int /\ Wall' \in Int /\ Wall <= Wall
      /\ elapsed \in Int /\ recovered \in Int /\ elapsed' \in Int /\ recovered' \in Int
  BY <1>1
<1>2. b \in Buckets /\ bb \in Buckets
  BY <1>1, NewBucketSound DEF TypeOK, Known
<1>3. Spendable(w, k) = Refill(b, Wall).tokens /\ Spendable(w, k)' = Refill(bb, Wall').tokens
  BY DEF Spendable, Refilled, Known
<1> HIDE DEF b, bb
<1>4. /\ Refill(b, Wall) \in Buckets /\ Spendable(w, k) \in Nat
      /\ Refill(bb, Wall') \in Buckets /\ Spendable(w, k)' \in Nat
  <2>1. Refill(b, Wall) \in Buckets /\ Refill(bb, Wall') \in Buckets
    BY <1>1, <1>2, RefillSound
  <2>. QED
    BY <1>3, <2>1, FullNat DEF Buckets
<1>5. ASSUME bb = b, Wall' = Wall PROVE Spendable(w, k)' = Spendable(w, k)
  BY <1>3, <1>5
<1>6. ASSUME NEW u \in Workers, NEW j \in Keys, Grant(u, j) \/ Reject(u, j)
      PROVE  granted'[w][k] * Cost + Spendable(w, k)' <= granted[w][k] * Cost + Spendable(w, k)
             /\ elapsed' = elapsed /\ recovered' = recovered
  <2>1. Wall' = Wall /\ elapsed' = elapsed /\ recovered' = recovered
    BY <1>6 DEF Grant, Reject, Wall
  <2>2. CASE <<u, j>> # <<w, k>>
    <3>1. bucket'[w][k] = bucket[w][k] /\ granted'[w][k] = granted[w][k]
      BY <1>6, <2>2 DEF Grant, Reject, TypeOK
    <3>2. bb = b
      BY <2>1, <3>1 DEF Known, b, bb
    <3>. QED
      BY <1>1, <1>4, <1>5, <2>1, <3>1, <3>2
  <2>3. CASE u = w /\ j = k /\ Grant(w, k)
    <3>1. HasToken(Refill(b, Wall)) /\ bucket'[w][k] = Spend(Refill(b, Wall))
          /\ granted'[w][k] = granted[w][k] + 1
      BY <2>3 DEF Grant, Refilled, TypeOK, b
    <3>2. Spend(Refill(b, Wall)) \in Buckets
      BY <1>4, <3>1, SpendSound
    <3>3. bb = Spend(Refill(b, Wall))
      BY <3>1, <3>2, BucketIsKnown DEF Known, bb
    <3>4. Spendable(w, k)' = Spendable(w, k) - Cost
      BY <1>1, <1>2, <1>3, <2>1, <3>1, <3>3, RefillSettles
    <3>5. granted'[w][k] * Cost = granted[w][k] * Cost + Cost
      BY <1>1, <3>1, GrantCost
    <3>. QED
      BY <1>1, <1>4, <2>1, <3>4, <3>5, RefillAssumption
  <2>4. CASE u = w /\ j = k /\ Reject(w, k)
    <3>1. bucket'[w][k] = Refill(b, Wall) /\ granted'[w][k] = granted[w][k]
      BY <2>4 DEF Reject, Refilled, TypeOK, b
    <3>2. bb = Refill(b, Wall)
      BY <1>4, <3>1, BucketIsKnown DEF Known, bb
    <3>3. Spendable(w, k)' = Spendable(w, k)
      BY <1>1, <1>2, <1>3, <2>1, <3>2, RefillSettles
    <3>. QED
      BY <1>1, <1>4, <2>1, <3>1, <3>3
  <2>. QED
    BY <1>6, <2>2, <2>3, <2>4
<1>7. CASE Tick \/ StepBack \/ Recover
  <2>1. /\ bucket'[w][k] = bucket[w][k] /\ granted'[w][k] = granted[w][k]
        /\ Wall' - Wall <= (elapsed' - elapsed) + (recovered' - recovered)
        /\ 0 <= (elapsed' - elapsed) + (recovered' - recovered)
    <3>1. CASE Tick
      BY <1>1, <3>1 DEF Tick, Wall, TypeOK
    <3>2. CASE StepBack
      BY <1>1, <3>2, ClockAssumption DEF StepBack, Wall, TypeOK
    <3>3. CASE Recover
      BY <1>1, <3>3 DEF Recover, Wall, TypeOK
    <3>. QED
      BY <1>7, <3>1, <3>2, <3>3
  <2>3. ASSUME NEW gain \in Int, Spendable(w, k)' <= Spendable(w, k) + gain,
               gain <= (elapsed' - elapsed) + (recovered' - recovered)
        PROVE  Spendable(w, k)' <= Spendable(w, k) + (elapsed' - elapsed)
                                    + (recovered' - recovered)
    <3>1. \A x, y, z, p, q, pp, qq \in Int :
            y <= x + z /\ z <= (pp - p) + (qq - q) => y <= x + (pp - p) + (qq - q)
      OBVIOUS
    <3>2. Spendable(w, k) \in Int /\ Spendable(w, k)' \in Int
      BY <1>4
    <3>. QED
      BY <1>0, <2>3, <3>1, <3>2
  <2>2. Spendable(w, k)' <= Spendable(w, k) + (elapsed' - elapsed) + (recovered' - recovered)
    <3>1. CASE ~Known(w, k)
      <4>1. b = NewBucket(Wall) /\ bb = NewBucket(Wall')
        BY <2>1, <3>1 DEF Known, b, bb
      <4>2. Refill(b, Wall).tokens = Full
        <5>1. b.tokens = Full /\ b.last = Wall
          BY <1>1, <4>1, NewBucketSound
        <5>. QED
          BY <1>0, <1>2, <5>1, RefillSound
      <4>3. Refill(bb, Wall').tokens <= Full
        BY <1>4, FullNat DEF Buckets
      <4>4. Spendable(w, k)' <= Spendable(w, k) + 0
        BY <1>3, <1>4, <4>2, <4>3
      <4>. QED
        BY <2>1, <2>3, <4>4
    <3>2. CASE Known(w, k)
      <4>1. bb = b
        BY <2>1, <3>2 DEF Known, b, bb
      <4>2. CASE Wall <= Wall'
        <5>1. Refill(b, Wall').tokens <= Refill(b, Wall).tokens + (Wall' - Wall)
          BY <1>1, <1>2, <4>2, RefillMonotone
        <5>2. Wall' - Wall \in Int
          BY <1>0
        <5>3. Spendable(w, k)' <= Spendable(w, k) + (Wall' - Wall)
          BY <1>3, <4>1, <5>1
        <5>4. Wall' - Wall <= (elapsed' - elapsed) + (recovered' - recovered)
          BY <2>1
        <5>. QED
          BY <2>3, <5>2, <5>3, <5>4
      <4>3. CASE Wall' < Wall
        <5>1. Refill(b, Wall').tokens <= Refill(b, Wall).tokens
          <6>1. Wall' <= Wall
            BY <1>1, <4>3
          <6>. QED
            BY <1>1, <1>2, <6>1, RefillMonotone
        <5>2. Spendable(w, k)' <= Spendable(w, k) + 0
          BY <1>3, <1>4, <4>1, <5>1
        <5>. QED
          BY <2>1, <2>3, <5>2
      <4>. QED
        BY <1>1, <4>2, <4>3
    <3>. QED
      BY <3>1, <3>2
  <2>. QED
    BY <1>1, <1>4, <2>1, <2>2
<1>8. CASE UNCHANGED vars
  <2>1. bb = b /\ Wall' = Wall /\ granted' = granted /\ elapsed' = elapsed
        /\ recovered' = recovered
    BY <1>8 DEF vars, Known, Wall, b, bb
  <2>. QED
    BY <1>1, <1>4, <1>5, <2>1
<1>. QED
  BY <1>1, <1>4, <1>6, <1>7, <1>8 DEF Next

\* WindowBound: from any moment on, a worker lets a caller through no more often
\* than the burst, the time since that moment and the forward jumps of the clock
\* since then pay for.  GrantBound is the window that starts with the process.
THEOREM WindowBound ==
  ASSUME NEW w \in Workers, NEW k \in Keys, NEW g \in Nat, NEW e \in Nat, NEW r \in Nat
  PROVE  Spec => [](/\ granted[w][k] = g /\ elapsed = e /\ recovered = r
                    => [](granted[w][k] * Cost
                            <= g * Cost + Full + (elapsed - e) + (recovered - r)))
<1> DEFINE Start == granted[w][k] = g /\ elapsed = e /\ recovered = r
           Bound == granted[w][k] * Cost
                      <= g * Cost + Full + (elapsed - e) + (recovered - r)
           Inv == granted[w][k] * Cost + Spendable(w, k)
                    <= g * Cost + Full + (elapsed - e) + (recovered - r)
<1>1. ASSUME TypeOK
      PROVE  /\ Spendable(w, k) \in Nat /\ Spendable(w, k) <= Full
             /\ granted[w][k] * Cost \in Nat /\ g * Cost \in Nat
             /\ elapsed \in Nat /\ recovered \in Nat
  <2> DEFINE b == IF Known(w, k) THEN bucket[w][k] ELSE NewBucket(Wall)
  <2>1. Wall \in Int /\ b \in Buckets
    BY <1>1, NewBucketSound DEF TypeOK, Known, Wall
  <2> HIDE DEF b
  <2>2. Refill(b, Wall) \in Buckets
    BY <2>1, RefillSound
  <2>3. Refilled(w, k) \in Buckets
    BY <2>2 DEF b, Refilled
  <2>. QED
    BY <1>1, <2>3, FullNat, GrantCost DEF Spendable, Buckets, TypeOK
<1>2. TypeOK /\ Start => Inv
  BY <1>1, FullNat
<1>3. TypeOK /\ Inv => Bound
  BY <1>1, FullNat
<1>4. TypeOK /\ TypeOK' /\ Inv /\ [Next]_vars => Inv'
  <2> SUFFICES ASSUME TypeOK, TypeOK', Inv, [Next]_vars PROVE Inv'
    OBVIOUS
  <2>1. granted'[w][k] * Cost + Spendable(w, k)'
           <= granted[w][k] * Cost + Spendable(w, k)
              + (elapsed' - elapsed) + (recovered' - recovered)
    BY StepSpends
  <2>2. /\ Spendable(w, k) \in Nat /\ granted[w][k] * Cost \in Nat /\ g * Cost \in Nat
        /\ elapsed \in Nat /\ recovered \in Nat
    BY <1>1
  <2>3. /\ Spendable(w, k)' \in Nat /\ granted'[w][k] * Cost \in Nat
        /\ elapsed' \in Nat /\ recovered' \in Nat
    BY StepSpends DEF TypeOK
  <2>. QED
    BY <2>1, <2>2, <2>3, FullNat
<1> HIDE DEF Start, Bound, Inv
<1>5. Spec => [](Start => []Bound)
  BY <1>2, <1>3, <1>4, BucketTypeCorrect, PTL DEF Spec
<1>. QED
  BY <1>5, PTL DEF Start, Bound
=============================================================================
