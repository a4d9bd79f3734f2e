-------------------------- MODULE RefillMathProofs --------------------------
(* What one refill and one spent token do to a bucket, for every capacity  *)
(* and rate: the facts both kinds of buckets are proved from.              *)
EXTENDS RefillMath, TLAPS

\* A capacity is a number of units.
LEMMA FullNat == Full \in Nat
<1>1. \A x, y \in Nat : x * y \in Nat
  OBVIOUS
<1>2. QED  BY <1>1, RefillAssumption DEF Full

\* A fresh bucket is a bucket, and is full.
LEMMA NewBucketSound ==
  ASSUME NEW now \in Int
  PROVE  NewBucket(now) \in Buckets /\ NewBucket(now).tokens = Full
         /\ NewBucket(now).last = now
BY FullNat DEF NewBucket, Buckets

\* compute_refill keeps a bucket within its capacity.  It gives nothing when
\* the clock did not advance, and otherwise no more than the time gone by.
LEMMA RefillSound ==
  ASSUME NEW b \in Buckets, NEW now \in Int
  PROVE  /\ Refill(b, now) \in Buckets
         /\ now <= b.last => /\ Refill(b, now).tokens = b.tokens
                             /\ Refill(b, now).last = now
         /\ now > b.last => \/ Refill(b, now) = b
                            \/ /\ Refill(b, now).last = now
                               /\ Refill(b, now).tokens <= b.tokens + (now - b.last)
<1>1. CASE now <= b.last
  BY <1>1, FullNat DEF Refill, Buckets
<1>2. CASE now > b.last /\ ~Refills
  BY <1>2, FullNat DEF Refill, Buckets
<1>3. CASE now > b.last /\ Refills
  <2>1. Refill(b, now) = [tokens |-> Capped(b.tokens + (now - b.last)), last |-> now]
    BY <1>3 DEF Refill, Buckets
  <2>2. /\ Capped(b.tokens + (now - b.last)) \in 0 .. Full
        /\ Capped(b.tokens + (now - b.last)) <= b.tokens + (now - b.last)
    BY <1>3, FullNat DEF Capped, Buckets
  <2>3. QED  BY <1>3, <2>1, <2>2 DEF Buckets
<1>4. QED  BY <1>1, <1>2, <1>3 DEF Buckets

\* Taking a token that is there leaves a bucket, one token poorer.
LEMMA SpendSound ==
  ASSUME NEW b \in Buckets, HasToken(b)
  PROVE  /\ Spend(b) \in Buckets
         /\ Spend(b).tokens = b.tokens - Cost
         /\ Spend(b).last = b.last
BY FullNat, RefillAssumption DEF HasToken, Spend, Buckets

\* While the clock advances only the last refill counts: requests answered 429 on
\* the way, each of which stores a refilled bucket, neither gain nor cost units.
THEOREM RefillSplits ==
  ASSUME NEW b \in Buckets, NEW m \in Int, NEW n \in Int, b.last <= m, m <= n
  PROVE  Refill(Refill(b, m), n) = Refill(b, n)
<1>1. CASE m = b.last
  BY <1>1 DEF Refill, Buckets
<1>2. CASE m > b.last /\ ~Refills
  BY <1>2 DEF Refill, Buckets
<1>3. CASE m > b.last /\ Refills
  <2>1. /\ b.tokens \in Nat /\ b.tokens <= Full /\ b.last \in Int
        /\ Refill(b, m) = [tokens |-> Capped(b.tokens + (m - b.last)), last |-> m]
        /\ Refill(b, n) = [tokens |-> Capped(b.tokens + (n - b.last)), last |-> n]
    BY <1>3, FullNat DEF Refill, Buckets
  <2>2. CASE n = m
    BY <2>1, <2>2 DEF Refill
  <2>3. CASE n > m
    <3>1. Refill(Refill(b, m), n) =
            [tokens |-> Capped(Capped(b.tokens + (m - b.last)) + (n - m)), last |-> n]
      BY <1>3, <2>1, <2>3 DEF Refill
    <3>2. Capped(Capped(b.tokens + (m - b.last)) + (n - m)) = Capped(b.tokens + (n - b.last))
      BY <1>3, <2>1, <2>3, FullNat DEF Capped
    <3>. QED
      BY <2>1, <3>1, <3>2
  <2>. QED
    BY <2>2, <2>3
<1>. QED
  BY <1>1, <1>2, <1>3 DEF Buckets

\* Refilled later, a bucket holds no less, and at most the time in between more,
\* whether or not the clock has gone back behind its last refill.
LEMMA RefillMonotone ==
  ASSUME NEW b \in Buckets, NEW m \in Int, NEW n \in Int, m <= n
  PROVE  /\ Refill(b, m).tokens <= Refill(b, n).tokens
         /\ Refill(b, n).tokens <= Refill(b, m).tokens + (n - m)
<1>1. b.tokens \in Nat /\ b.tokens <= Full /\ b.last \in Int
  BY FullNat DEF Buckets
<1>2. \A x \in Int :
        Refill(b, x).tokens = IF x > b.last /\ Refills THEN Capped(b.tokens + (x - b.last))
                              ELSE b.tokens
  BY <1>1 DEF Refill, Buckets
<1>. QED
  BY <1>1, <1>2, FullNat DEF Capped

\* A bucket refilled and spent from at one instant needs no more refilling then.
LEMMA RefillSettles ==
  ASSUME NEW b \in Buckets, NEW now \in Int
  PROVE  /\ Refill(Refill(b, now), now).tokens = Refill(b, now).tokens
         /\ HasToken(Refill(b, now)) =>
              Refill(Spend(Refill(b, now)), now).tokens = Refill(b, now).tokens - Cost
<1>1. Refill(b, now) \in Buckets /\ (Refills => Refill(b, now).last = now)
  BY RefillSound DEF Refill, Buckets
<1> DEFINE r == Refill(b, now)
<1>2. r \in Buckets /\ (r.last = now \/ ~Refills)
  BY <1>1
<1> HIDE DEF r
<1>3. Refill(r, now).tokens = r.tokens
  BY <1>2 DEF Refill, Buckets
<1>4. HasToken(r) => Refill(Spend(r), now).tokens = r.tokens - Cost
  BY <1>2, SpendSound DEF Refill, Buckets
<1>. QED
  BY <1>3, <1>4 DEF r

\* A request to an empty bucket has been preceded by a burst of granted ones.
LEMMA BurstOfGrants ==
  ASSUME NEW g \in Nat, NEW b \in Buckets, b.tokens + g * Cost >= Full, ~HasToken(b)
  PROVE  g >= Burst
<1>1. \A x, y \in Nat, c \in Nat \ {0} : y < x => y * c + c <= x * c
  OBVIOUS
<1>2. g < Burst => g * Cost + Cost <= Full
  BY <1>1, RefillAssumption DEF Full
<1>3. b.tokens \in Nat /\ b.tokens < Cost /\ g * Cost \in Nat
  <2>1. g * Cost \in Nat
    <3>1. \A x, y \in Nat : x * y \in Nat  OBVIOUS
    <3>. QED  BY <3>1, RefillAssumption
  <2>. QED
    BY <2>1, FullNat, RefillAssumption DEF HasToken, Buckets
<1>. QED
  BY <1>2, <1>3, FullNat, RefillAssumption

\* One more grant costs one more token.
LEMMA GrantCost ==
  ASSUME NEW g \in Nat
  PROVE  g * Cost \in Nat /\ (g + 1) * Cost = g * Cost + Cost
<1>1. \A x, y \in Nat : x * y \in Nat /\ (x + 1) * y = x * y + y
  OBVIOUS
<1>2. QED  BY <1>1, RefillAssumption
=============================================================================
