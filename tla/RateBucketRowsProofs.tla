------------------------ MODULE RateBucketRowsProofs ------------------------
(* For any number of workers: the row of a key stays within its capacity   *)
(* on every database, no call leaves a lock behind or is refused before    *)
(* the burst is used up, and where the database locks the row, or nobody   *)
(* else uses it, transactions behave as indivisible steps.                 *)
EXTENDS RateBucketRows, RefillMathProofs

\* A call that is about to write has loaded a bucket.
LoadedInv == TypeOK /\ \A w \in Workers : pc[w] = "loaded" => seen[w] \in Buckets

\* Reading and writing a row, with the lock or without, keeps it a bucket.
LEMMA ConsumedSound ==
  ASSUME NEW b \in Buckets, NEW n \in Int
  PROVE  Consumed(b, n) \in Buckets
BY RefillSound, SpendSound DEF Consumed

\* A bucket that exists is not the absent one.
LEMMA RowIsKnown == ASSUME NEW b \in Buckets PROVE b # NoRow
BY FullNat DEF Buckets, NoRow

\* Beginning a call, and every step up to its write, keeps the shape.
LEMMA ReadLoaded ==
  ASSUME LoadedInv, NEW w \in Workers,
         Begin(w) \/ Select(w) \/ SelectNothing(w) \/ Insert(w) \/ InsertRefused(w)
  PROVE  LoadedInv'
<1>0. /\ clock \in Nat /\ row \in Buckets \cup {NoRow} /\ owner \in Workers \cup {Nobody}
      /\ pc \in [Workers -> {"idle", "timed", "loaded", "missing", "refused"}]
      /\ call \in [Workers -> {"get", "consume"}] /\ now \in [Workers -> Nat]
      /\ seen \in [Workers -> Buckets \cup {NoRow}]
  BY DEF LoadedInv, TypeOK
<1>1. CASE Begin(w)
  BY <1>1, <1>0 DEF Begin, Goto, LoadedInv, TypeOK
<1>2. CASE Select(w)
  BY <1>2, <1>0 DEF Select, Goto, Locked, LoadedInv, TypeOK
<1>3. CASE SelectNothing(w)
  BY <1>3, <1>0 DEF SelectNothing, Goto, LoadedInv, TypeOK
<1>4. CASE Insert(w)
  <2>1. NewBucket(now[w]) \in Buckets
    BY <1>0, NewBucketSound
  <2>2. QED  BY <1>4, <1>0, <2>1 DEF Insert, Goto, LoadedInv, TypeOK
<1>5. CASE InsertRefused(w)
  BY <1>5, <1>0 DEF InsertRefused, Goto, LoadedInv, TypeOK
<1>6. QED  BY <1>1, <1>2, <1>3, <1>4, <1>5

\* The end of a call, by a commit, a close or a rollback, keeps it too.
LEMMA WriteLoaded ==
  ASSUME LoadedInv, NEW w \in Workers, Get(w) \/ Consume(w) \/ Fail(w)
  PROVE  LoadedInv'
<1>0. /\ clock \in Nat /\ row \in Buckets \cup {NoRow} /\ owner \in Workers \cup {Nobody}
      /\ granted \in Nat /\ rewound \in Nat
      /\ pc \in [Workers -> {"idle", "timed", "loaded", "missing", "refused"}]
      /\ call \in [Workers -> {"get", "consume"}] /\ now \in [Workers -> Nat]
      /\ seen \in [Workers -> Buckets \cup {NoRow}]
  BY DEF LoadedInv, TypeOK
<1>1. /\ pc' = [pc EXCEPT ![w] = "idle"] /\ Return(w) /\ Released(w)
      /\ clock' = clock
  BY DEF Get, Consume, Fail, Goto
<1>2. /\ pc' \in [Workers -> {"idle", "timed", "loaded", "missing", "refused"}]
      /\ call' \in [Workers -> {"get", "consume"}] /\ now' \in [Workers -> Nat]
      /\ seen' \in [Workers -> Buckets \cup {NoRow}]
      /\ owner' \in Workers \cup {Nobody}
      /\ \A u \in Workers : pc'[u] = "loaded" => seen'[u] \in Buckets
  BY <1>0, <1>1 DEF Return, Released, LoadedInv
<1>3. row' \in Buckets \cup {NoRow} /\ granted' \in Nat /\ rewound' \in Nat
  <2>1. CASE Get(w)
    BY <2>1, <1>0 DEF Get, Goto, LoadedInv
  <2>2. CASE Consume(w)
    <3>. DEFINE b == Consumed(seen[w], now[w])
    <3>1. b \in Buckets
      BY <2>2, <1>0, ConsumedSound DEF Consume, Goto, LoadedInv
    <3>2. Flushed(w, b) \in Buckets
      <4>. HIDE DEF b
      <4>. QED  BY <3>1, <1>0 DEF Flushed, Buckets
    <3>3. row' = Flushed(w, b)
      BY <2>2 DEF Consume
    <3>4. rewound' \in Nat
      <4>1. row'.last \in Int /\ (row = NoRow \/ row.last \in Int) /\ NoRow.last \in Int
        BY <3>2, <3>3, <1>0 DEF Buckets, NoRow
      <4>2. rewound' = IF row'.last < row.last THEN rewound + (row.last - row'.last)
                       ELSE rewound
        BY <2>2 DEF Consume
      <4>3. QED  BY <4>1, <4>2, <1>0
    <3>5. granted' \in Nat
      BY <2>2, <1>0 DEF Consume
    <3>6. QED  BY <3>2, <3>3, <3>4, <3>5
  <2>3. CASE Fail(w)
    BY <2>3, <1>0 DEF Fail
  <2>4. QED  BY <2>1, <2>2, <2>3
<1>4. QED  BY <1>0, <1>1, <1>2, <1>3 DEF LoadedInv, TypeOK

\* Every step of the system keeps the shape of rows and calls.
LEMMA NextLoaded == ASSUME LoadedInv, [Next]_vars PROVE LoadedInv'
<1>1. CASE UNCHANGED vars
  BY <1>1 DEF vars, LoadedInv, TypeOK
<1>2. CASE Tick
  BY <1>2 DEF Tick, LoadedInv, TypeOK
<1>3. ASSUME NEW w \in Workers, Begin(w) \/ Proceed(w) \/ Fail(w)
      PROVE  LoadedInv'
  BY <1>3, ReadLoaded, WriteLoaded DEF Proceed
<1>4. QED  BY <1>1, <1>2, <1>3 DEF Next

\* The initial state has no row and no call.
LEMMA InitLoaded == Init => LoadedInv
BY DEF Init, LoadedInv, TypeOK, NoRow

\* The row of a key always holds between zero and burst tokens, also on a
\* database without row locks, where concurrent updates overwrite each other.
THEOREM RowTypeCorrect == Spec => []TypeOK
<1>1. LoadedInv => TypeOK
  BY DEF LoadedInv
<1>2. QED  BY <1>1, InitLoaded, NextLoaded, PTL DEF Spec

-----------------------------------------------------------------------------
(* On every database.                                                      *)

\* Whoever holds the row's lock is between its load and the end of its call.
OwnerInv == TypeOK /\ \A w \in Workers : owner = w => pc[w] = "loaded"

\* No call ends, by a commit, a close or a rollback, and leaves the row locked: a
\* waiter only ever waits for a call that is still under way.
THEOREM NoLockLeft == Spec => [](\A w \in Workers : owner = w => pc[w] = "loaded")
<1>1. Init => OwnerInv
  BY InitLoaded, NobodyAssumption DEF Init, OwnerInv, LoadedInv
<1>2. OwnerInv /\ TypeOK' /\ [Next]_vars => OwnerInv'
  <2>. SUFFICES ASSUME OwnerInv, TypeOK', [Next]_vars,
                       NEW u \in Workers, owner' = u
                PROVE  pc'[u] = "loaded"
    BY DEF OwnerInv
  <2>. USE DEF OwnerInv, TypeOK, Goto
  <2>1. ASSUME NEW w \in Workers, Get(w) \/ Consume(w) \/ Fail(w)
        PROVE  pc'[u] = "loaded"
    <3>1. pc' = [pc EXCEPT ![w] = "idle"] /\ owner' = IF owner = w THEN Nobody ELSE owner
      BY <2>1 DEF Get, Consume, Fail, Released
    <3>2. u # Nobody
      BY NobodyAssumption
    <3>3. owner = u /\ u # w
      BY <3>1, <3>2
    <3>. QED
      BY <3>1, <3>3
  <2>2. ASSUME NEW w \in Workers, Select(w) \/ Insert(w)
        PROVE  pc'[u] = "loaded"
    <3>1. pc' = [pc EXCEPT ![w] = "loaded"] /\ (owner' = w \/ owner' = owner)
      BY <2>2 DEF Select, Insert, Locked
    <3>. QED
      BY <3>1
  <2>3. ASSUME NEW w \in Workers, Begin(w) \/ SelectNothing(w) \/ InsertRefused(w)
        PROVE  pc'[u] = "loaded"
    <3>1. /\ owner' = owner /\ pc[w] # "loaded"
          /\ \A v \in Workers \ {w} : pc'[v] = pc[v]
      BY <2>3 DEF Begin, SelectNothing, InsertRefused
    <3>. QED
      BY <3>1
  <2>4. CASE Tick \/ UNCHANGED vars
    BY <2>4 DEF Tick, vars
  <2>. QED
    BY <2>1, <2>2, <2>3, <2>4 DEF Next, Proceed
<1>. QED
  BY <1>1, <1>2, RowTypeCorrect, PTL DEF Spec, OwnerInv

\* What the row, and every copy of it a call has loaded, lacks was handed out.
PaidInv ==
  /\ LoadedInv
  /\ row # NoRow => row.tokens + granted * Cost >= Full
  /\ \A w \in Workers : pc[w] = "loaded" => seen[w].tokens + granted * Cost >= Full

\* A refill and a decrement take no more from a bucket than they hand out.
LEMMA ConsumedPays ==
  ASSUME NEW b \in Buckets, NEW n \in Int, NEW g \in Nat, b.tokens + g * Cost >= Full
  PROVE  Consumed(b, n).tokens
           + (IF HasToken(Refill(b, n)) THEN g + 1 ELSE g) * Cost >= Full
<1> DEFINE r == Refill(b, n)
<1>1. r \in Buckets /\ r.tokens \in Nat /\ b.tokens \in Nat
  <2>1. r \in Buckets
    BY RefillSound
  <2>. QED
    BY <2>1, FullNat DEF Buckets
<1>2. r.tokens >= b.tokens
  BY <1>1, FullNat DEF Refill, Capped, Buckets
<1>3. g * Cost \in Nat /\ (g + 1) * Cost = g * Cost + Cost
  BY GrantCost
<1>4. r.tokens + g * Cost >= Full
  BY <1>1, <1>2, <1>3, FullNat
<1> HIDE DEF r
<1>5. HasToken(r) => Spend(r).tokens + (g + 1) * Cost >= Full
  BY <1>1, <1>3, <1>4, SpendSound, FullNat, RefillAssumption
<1>. QED
  BY <1>4, <1>5 DEF r, Consumed

\* Every step of every worker keeps what was handed out in step with the row.
LEMMA NextPaid == PaidInv /\ [Next]_vars => PaidInv'
<1> SUFFICES ASSUME PaidInv, [Next]_vars PROVE PaidInv'
  OBVIOUS
<1>0. /\ LoadedInv' /\ granted \in Nat /\ granted * Cost \in Nat /\ Full \in Nat
      /\ row \in Buckets \cup {NoRow} /\ seen \in [Workers -> Buckets \cup {NoRow}]
      /\ pc \in [Workers -> {"idle", "timed", "loaded", "missing", "refused"}]
      /\ now \in [Workers -> Nat] /\ call \in [Workers -> {"get", "consume"}]
  BY NextLoaded, FullNat, GrantCost DEF PaidInv, LoadedInv, TypeOK
<1>1. \A b \in Buckets : b.tokens \in Nat
  BY FullNat DEF Buckets
<1>2. ASSUME NEW w \in Workers, Get(w) \/ Fail(w) PROVE PaidInv'
  <2>1. /\ pc' = [pc EXCEPT ![w] = "idle"] /\ seen' = [seen EXCEPT ![w] = NoRow]
        /\ granted' = granted
        /\ row' = row \/ (pc[w] = "loaded" /\ row' = seen[w])
    BY <1>2 DEF Get, Fail, Goto, Return
  <2>. QED
    BY <1>0, <2>1 DEF PaidInv
<1>3. ASSUME NEW w \in Workers, Consume(w) PROVE PaidInv'
  <2> DEFINE b == Consumed(seen[w], now[w])
             h == IF HasToken(Refill(seen[w], now[w])) THEN granted + 1 ELSE granted
  <2>1. /\ pc[w] = "loaded" /\ pc' = [pc EXCEPT ![w] = "idle"]
        /\ seen' = [seen EXCEPT ![w] = NoRow]
        /\ row' = Flushed(w, b) /\ granted' = h
    BY <1>3 DEF Consume, Goto, Return
  <2>2. /\ seen[w] \in Buckets /\ now[w] \in Int
        /\ seen[w].tokens + granted * Cost >= Full
    BY <1>0, <2>1 DEF PaidInv, LoadedInv
  <2>3. b \in Buckets /\ b.tokens + h * Cost >= Full
    BY <1>0, <2>2, ConsumedSound, ConsumedPays
  <2>4. h * Cost \in Nat /\ h * Cost >= granted * Cost
    BY <1>0, GrantCost, RefillAssumption
  <2> HIDE DEF b, h
  <2>5. row'.tokens + h * Cost >= Full
    <3>1. CASE row'.tokens = b.tokens
      BY <2>3, <3>1
    <3>2. CASE row # NoRow /\ row'.tokens = row.tokens
      <4>1. row.tokens + granted * Cost >= Full /\ row.tokens \in Nat
        BY <1>0, <1>1, <3>2 DEF PaidInv
      <4>. QED
        BY <1>0, <2>4, <3>2, <4>1
    <3>. QED
      BY <2>1, <3>1, <3>2 DEF Flushed
  <2>6. ASSUME NEW v \in Workers, pc'[v] = "loaded"
        PROVE  seen'[v].tokens + h * Cost >= Full
    <3>1. pc[v] = "loaded" /\ seen'[v] = seen[v]
      BY <1>0, <2>1, <2>6
    <3>2. seen[v].tokens \in Nat /\ seen[v].tokens + granted * Cost >= Full
      BY <1>1, <3>1 DEF PaidInv, LoadedInv
    <3>. QED
      BY <1>0, <2>4, <3>1, <3>2
  <2>. QED
    BY <1>0, <2>1, <2>5, <2>6 DEF PaidInv
<1>4. ASSUME NEW w \in Workers, Select(w) PROVE PaidInv'
  BY <1>0, <1>4 DEF PaidInv, Select, Goto
<1>5. ASSUME NEW w \in Workers, Insert(w) PROVE PaidInv'
  <2>1. NewBucket(now[w]).tokens = Full
    BY <1>0, NewBucketSound
  <2>2. NewBucket(now[w]).tokens + granted * Cost >= Full
    BY <1>0, <2>1
  <2>. QED
    BY <1>0, <1>5, <2>2 DEF PaidInv, Insert, Goto
<1>6. ASSUME NEW w \in Workers, Begin(w) \/ SelectNothing(w) \/ InsertRefused(w)
      PROVE  PaidInv'
  BY <1>0, <1>6 DEF PaidInv, Begin, SelectNothing, InsertRefused, Goto
<1>7. CASE Tick \/ UNCHANGED vars
  BY <1>0, <1>7 DEF PaidInv, Tick, vars
<1>. QED
  BY <1>2, <1>3, <1>4, <1>5, <1>6, <1>7 DEF Next, Proceed

\* consume refuses nobody before the key's TASKQ_RATE_BURST tokens were handed
\* out, also where concurrent updates of SQLite overwrite each other's tokens.
THEOREM RowBurstServed ==
  Spec => [](\A w \in Workers :
               pc[w] = "loaded" /\ ~HasToken(Refill(seen[w], now[w])) => granted >= Burst)
<1>1. Init => PaidInv
  BY InitLoaded DEF Init, PaidInv
<1>2. PaidInv => \A w \in Workers :
        pc[w] = "loaded" /\ ~HasToken(Refill(seen[w], now[w])) => granted >= Burst
  <2> SUFFICES ASSUME PaidInv, NEW w \in Workers, pc[w] = "loaded",
                      ~HasToken(Refill(seen[w], now[w]))
               PROVE  granted >= Burst
    OBVIOUS
  <2>1. seen[w] \in Buckets /\ now[w] \in Int /\ granted \in Nat
        /\ seen[w].tokens + granted * Cost >= Full
    BY DEF PaidInv, LoadedInv, TypeOK
  <2>2. Consumed(seen[w], now[w]) = Refill(seen[w], now[w])
    BY DEF Consumed
  <2>3. Refill(seen[w], now[w]) \in Buckets
        /\ Refill(seen[w], now[w]).tokens + granted * Cost >= Full
    BY <2>1, <2>2, ConsumedPays, RefillSound
  <2>. QED
    BY <2>1, <2>3, BurstOfGrants
<1>. QED
  BY <1>1, <1>2, NextPaid, PTL DEF Spec

-----------------------------------------------------------------------------
(* With row locks, or where a single worker process uses the table: then   *)
(* SQLite, which leaves FOR UPDATE out, is as good.                        *)

Alone == \A v, w \in Workers : v = w
Exclusive == RowLock \/ Alone

\* Whoever has loaded the row owns it, if anyone else could have wanted it, and
\* has loaded what is committed.
Serialised(w) ==
  /\ now[w] <= clock
  /\ pc[w] = "loaded" => /\ owner = w \/ Alone
                         /\ seen[w] = IF row = NoRow THEN NewBucket(now[w]) ELSE row

\* The tokens handed out and those left were paid for by the time up to the
\* last refill, and by the time that was counted twice.
PaidFor ==
  /\ row = NoRow => granted = 0
  /\ row # NoRow => /\ row.last <= clock
                    /\ granted * Cost + row.tokens <= Full + row.last + rewound

LockInv == LoadedInv /\ PaidFor /\ \A w \in Workers : Serialised(w)

\* Refill and decrement of what a call holds: what they grant is paid for.
LEMMA ConsumedPaid ==
  ASSUME NEW b \in Buckets, NEW n \in Int, NEW g \in Nat
  PROVE  \A h : h = (IF HasToken(Refill(b, n)) THEN g + 1 ELSE g) =>
           /\ Consumed(b, n) \in Buckets /\ h \in Nat
           /\ Consumed(b, n).last \in {b.last, n}
           /\ h * Cost + Consumed(b, n).tokens
                + (IF Consumed(b, n).last < b.last THEN 0 ELSE b.last - Consumed(b, n).last)
                <= g * Cost + b.tokens
<1>. DEFINE r == Refill(b, n)
            c == Consumed(b, n)
<1>1. r \in Buckets /\ b.last \in Int /\ b.tokens \in Int /\ r.last \in Int
      /\ r.tokens \in Int
  <2>1. r \in Buckets
    BY RefillSound
  <2>2. QED  BY <2>1, FullNat DEF Buckets
<1>2. /\ r.last \in {b.last, n}
      /\ r.tokens + (IF r.last < b.last THEN 0 ELSE b.last - r.last) <= b.tokens
  <2>1. CASE n <= b.last
    <3>1. r.tokens = b.tokens /\ r.last = n
      BY <2>1, RefillSound
    <3>2. QED  BY <3>1, <2>1, <1>1
  <2>2. CASE n > b.last
    <3>1. r = b \/ (r.last = n /\ r.tokens <= b.tokens + (n - b.last))
      BY <2>2, RefillSound
    <3>. HIDE DEF r
    <3>2. QED  BY <3>1, <2>2, <1>1
  <2>3. QED  BY <2>1, <2>2, <1>1
<1>3. g * Cost \in Nat /\ (g + 1) * Cost = g * Cost + Cost
  BY GrantCost
<1>4. CASE HasToken(r)
  <2>1. c = Spend(r) /\ c \in Buckets /\ c.tokens = r.tokens - Cost /\ c.last = r.last
    BY <1>4, <1>1, SpendSound DEF Consumed
  <2>. HIDE DEF r, c
  <2>2. (g + 1) * Cost + c.tokens + (IF c.last < b.last THEN 0 ELSE b.last - c.last)
          <= g * Cost + b.tokens
    BY <2>1, <1>1, <1>2, <1>3, RefillAssumption
  <2>3. QED  BY <2>1, <2>2, <1>2, <1>4 DEF r, c
<1>5. CASE ~HasToken(r)
  <2>1. c = r
    BY <1>5 DEF Consumed
  <2>. HIDE DEF r, c
  <2>2. g * Cost + c.tokens + (IF c.last < b.last THEN 0 ELSE b.last - c.last)
          <= g * Cost + b.tokens
    BY <2>1, <1>1, <1>2, <1>3
  <2>3. QED  BY <2>1, <2>2, <1>1, <1>2, <1>5 DEF r, c
<1>6. QED  BY <1>4, <1>5

\* Up to its write a call changes neither the row nor what is granted.
LEMMA ReadLocked ==
  ASSUME Exclusive, LockInv, NEW w \in Workers,
         Begin(w) \/ Select(w) \/ SelectNothing(w) \/ Insert(w) \/ InsertRefused(w)
  PROVE  LockInv'
<1>0. /\ clock \in Nat /\ row \in Buckets \cup {NoRow} /\ owner \in Workers \cup {Nobody}
      /\ pc \in [Workers -> {"idle", "timed", "loaded", "missing", "refused"}]
      /\ now \in [Workers -> Nat] /\ seen \in [Workers -> Buckets \cup {NoRow}]
  BY DEF LockInv, LoadedInv, TypeOK
<1>1. LoadedInv'
  BY ReadLoaded DEF LockInv
<1>2. clock' = clock /\ row' = row /\ granted' = granted /\ rewound' = rewound
  BY DEF Begin, Select, SelectNothing, Insert, InsertRefused
<1>3. PaidFor'
  BY <1>2 DEF LockInv, PaidFor
<1>4. ASSUME NEW u \in Workers PROVE Serialised(u)'
  <2>. Alone => u = w
    BY DEF Alone
  <2>1. CASE Begin(w)
    BY <2>1, <1>0 DEF Begin, Goto, LockInv, Serialised
  <2>2. CASE Select(w)
    BY <2>2, <1>0, NobodyAssumption DEF Exclusive, Select, Locked, Goto, LockInv, Serialised
  <2>3. CASE SelectNothing(w)
    BY <2>3, <1>0 DEF SelectNothing, Goto, LockInv, Serialised
  <2>4. CASE Insert(w)
    BY <2>4, <1>0, NobodyAssumption DEF Insert, Goto, LockInv, Serialised
  <2>5. CASE InsertRefused(w)
    BY <2>5, <1>0 DEF InsertRefused, Goto, LockInv, Serialised
  <2>6. QED  BY <2>1, <2>2, <2>3, <2>4, <2>5
<1>5. QED  BY <1>1, <1>3, <1>4 DEF LockInv

\* A call that ends leaves the lock, and no other call had loaded the row.
LEMMA WriteSerialised ==
  ASSUME Exclusive, LockInv, NEW w \in Workers, Get(w) \/ Consume(w) \/ Fail(w),
         NEW u \in Workers
  PROVE  Serialised(u)'
<1>0. /\ clock \in Nat /\ pc \in [Workers -> {"idle", "timed", "loaded", "missing", "refused"}]
      /\ now \in [Workers -> Nat] /\ seen \in [Workers -> Buckets \cup {NoRow}]
      /\ Serialised(u) /\ Serialised(w)
  BY DEF LockInv, LoadedInv, TypeOK
<1>1. /\ pc' = [pc EXCEPT ![w] = "idle"] /\ Return(w) /\ Released(w)
      /\ clock' = clock
  BY DEF Get, Consume, Fail, Goto
<1>2. CASE u = w
  BY <1>2, <1>0, <1>1 DEF Serialised, Return
<1>3. CASE u # w
  <2>. ~Alone
    BY <1>3 DEF Alone
  <2>1. pc'[u] = pc[u] /\ now'[u] = now[u] /\ seen'[u] = seen[u]
    BY <1>3, <1>0, <1>1 DEF Return
  <2>2. CASE pc[u] = "loaded"
    <3>1. owner = u
      BY <2>2, <1>0 DEF Serialised
    <3>2. Fail(w)
      BY <3>1, <1>0, <1>3 DEF Get, Consume, Goto, Serialised
    <3>3. owner' = u /\ row' = row
      BY <3>1, <3>2, <1>1, <1>3 DEF Fail, Released
    <3>4. QED  BY <2>1, <3>3, <1>0, <1>1 DEF Serialised
  <2>3. CASE pc[u] # "loaded"
    BY <2>1, <2>3, <1>0, <1>1 DEF Serialised
  <2>4. QED  BY <2>2, <2>3
<1>4. QED  BY <1>2, <1>3

\* With the lock held, the UPDATE writes what the call computed.
LEMMA FlushedIsConsumed ==
  ASSUME Exclusive, LockInv, NEW w \in Workers, Consume(w)
  PROVE  /\ seen[w] \in Buckets /\ now[w] \in Nat /\ now[w] <= clock
         /\ seen[w] = IF row = NoRow THEN NewBucket(now[w]) ELSE row
         /\ row' = Consumed(seen[w], now[w])
<1>1. /\ seen[w] \in Buckets /\ now[w] \in Nat /\ now[w] <= clock
      /\ seen[w] = IF row = NoRow THEN NewBucket(now[w]) ELSE row
  BY DEF Consume, Goto, LockInv, LoadedInv, TypeOK, Serialised
<1>. DEFINE b == Consumed(seen[w], now[w])
<1>2. b \in Buckets /\ row' = Flushed(w, b)
  BY <1>1, ConsumedSound DEF Consume
<1>3. row' = b
  <2>. HIDE DEF b
  <2>1. CASE row = NoRow
    BY <1>2, <2>1 DEF Flushed
  <2>2. CASE row # NoRow
    <3>1. Flushed(w, b) = [tokens |-> b.tokens, last |-> b.last]
      BY <1>1, <2>2 DEF Flushed
    <3>2. b = [tokens |-> b.tokens, last |-> b.last]
      BY <1>2 DEF Buckets
    <3>3. QED  BY <1>2, <3>1, <3>2
  <2>3. QED  BY <2>1, <2>2
<1>4. QED  BY <1>1, <1>3

\* What a commit grants is paid for.
LEMMA WritePaid ==
  ASSUME Exclusive, LockInv, NEW w \in Workers, Get(w) \/ Consume(w) \/ Fail(w)
  PROVE  PaidFor'
<1>0. clock \in Nat /\ granted \in Nat /\ rewound \in Nat /\ row \in Buckets \cup {NoRow}
      /\ Full \in Nat /\ PaidFor
  BY FullNat DEF LockInv, LoadedInv, TypeOK
<1>1. CASE Fail(w)
  BY <1>1, <1>0 DEF Fail, PaidFor
<1>2. CASE Get(w)
  <2>1. CASE row # NoRow
    BY <1>2, <2>1, <1>0 DEF Get, PaidFor
  <2>2. CASE row = NoRow
    <3>1. row' = NewBucket(now[w]) /\ now[w] \in Nat /\ now[w] <= clock
      BY <1>2, <2>2 DEF Get, Goto, LockInv, LoadedInv, TypeOK, Serialised
    <3>2. row'.tokens = Full /\ row'.last = now[w]
      BY <3>1, NewBucketSound
    <3>3. granted' = 0 /\ rewound' = rewound /\ clock' = clock
      BY <1>2, <2>2, <1>0 DEF Get, PaidFor
    <3>4. granted' * Cost = 0
      BY <3>3, RefillAssumption
    <3>5. row' # NoRow
      BY <3>1, NewBucketSound, RowIsKnown
    <3>6. QED  BY <3>1, <3>2, <3>3, <3>4, <3>5, <1>0 DEF PaidFor
  <2>3. QED  BY <2>1, <2>2
<1>3. CASE Consume(w)
  <2>. DEFINE b == seen[w]
              h == IF HasToken(Refill(b, now[w])) THEN granted + 1 ELSE granted
  <2>1. /\ b \in Buckets /\ now[w] \in Nat /\ now[w] <= clock
        /\ b = IF row = NoRow THEN NewBucket(now[w]) ELSE row
        /\ row' = Consumed(b, now[w])
    BY <1>3, FlushedIsConsumed
  <2>2. granted' = h /\ clock' = clock
    BY <1>3 DEF Consume
  <2>3. /\ row' \in Buckets /\ granted' \in Nat /\ row'.last \in {b.last, now[w]}
        /\ granted' * Cost + row'.tokens
             + (IF row'.last < b.last THEN 0 ELSE b.last - row'.last)
             <= granted * Cost + b.tokens
    <3>1. seen[w] \in Buckets /\ now[w] \in Int /\ granted \in Nat
      BY <2>1, <1>0
    <3>2. QED  BY <3>1, <2>1, <2>2, ConsumedPaid
  <2>4. b.last \in Int /\ b.tokens \in Int /\ row'.last \in Int /\ row'.tokens \in Int
        /\ granted * Cost \in Nat /\ granted' * Cost \in Nat
    BY <2>1, <2>3, <1>0, FullNat, GrantCost DEF Buckets
  <2>5. granted * Cost + b.tokens <= Full + b.last + rewound /\ b.last <= clock
    <3>1. CASE row = NoRow
      <4>1. b.tokens = Full /\ b.last = now[w] /\ granted = 0
        BY <3>1, <2>1, <1>0, NewBucketSound DEF PaidFor
      <4>2. granted * Cost = 0
        BY <4>1, RefillAssumption
      <4>3. QED  BY <4>1, <4>2, <2>1, <1>0
    <3>2. CASE row # NoRow
      BY <3>2, <2>1, <1>0 DEF PaidFor
    <3>3. QED  BY <3>1, <3>2
  <2>6. rewound' = IF row'.last < b.last THEN rewound + (b.last - row'.last) ELSE rewound
    <3>0. rewound' = IF row'.last < row.last THEN rewound + (row.last - row'.last)
                     ELSE rewound
      BY <1>3 DEF Consume
    <3>1. CASE row = NoRow
      <4>1. b.last = now[w]
        BY <3>1, <2>1, NewBucketSound
      <4>2. row.last = -1
        BY <3>1 DEF NoRow
      <4>3. row'.last = now[w]
        BY <4>1, <2>3
      <4>4. QED  BY <3>0, <4>1, <4>2, <4>3, <2>1
    <3>2. CASE row # NoRow
      BY <3>0, <3>2, <2>1
    <3>3. QED  BY <3>1, <3>2
  <2>7. row'.last <= clock
    BY <2>1, <2>3, <2>4, <2>5, <1>0
  <2>8. granted' * Cost + row'.tokens <= Full + row'.last + rewound'
    <3>1. \A gc, t, l, g2, t2, l2, f, rw \in Int :
            /\ g2 + t2 + (IF l2 < l THEN 0 ELSE l - l2) <= gc + t
            /\ gc + t <= f + l + rw
            => g2 + t2 <= f + l2 + (IF l2 < l THEN rw + (l - l2) ELSE rw)
      OBVIOUS
    <3>. HIDE DEF b, h
    <3>2. QED  BY <3>1, <2>3, <2>4, <2>5, <2>6, <1>0
  <2>9. row' # NoRow
    BY <2>3, RowIsKnown
  <2>10. QED  BY <2>2, <2>7, <2>8, <2>9 DEF PaidFor
<1>4. QED  BY <1>1, <1>2, <1>3

\* Then every reachable state is serialised and paid for.
LEMMA LockInvariant == ASSUME Exclusive PROVE Spec => []LockInv
<1>1. Init => LockInv
  BY InitLoaded DEF Init, LockInv, PaidFor, Serialised
<1>2. LockInv /\ [Next]_vars => LockInv'
  <2>. SUFFICES ASSUME LockInv, [Next]_vars PROVE LockInv'
    OBVIOUS
  <2>1. CASE UNCHANGED vars
    BY <2>1 DEF vars, LockInv, LoadedInv, TypeOK, PaidFor, Serialised
  <2>2. CASE Tick
    <3>1. clock \in Nat /\ now \in [Workers -> Nat] /\ row \in Buckets \cup {NoRow}
      BY DEF LockInv, LoadedInv, TypeOK
    <3>2. LoadedInv'
      BY NextLoaded DEF LockInv
    <3>3. PaidFor'
      BY <2>2, <3>1 DEF Tick, LockInv, PaidFor, Buckets
    <3>4. \A w \in Workers : Serialised(w)'
      BY <2>2, <3>1 DEF Tick, LockInv, Serialised
    <3>5. QED  BY <3>2, <3>3, <3>4 DEF LockInv
  <2>3. ASSUME NEW w \in Workers, Begin(w) \/ Proceed(w) \/ Fail(w)
        PROVE  LockInv'
    <3>1. CASE Get(w) \/ Consume(w) \/ Fail(w)
      BY <3>1, WriteLoaded, WriteSerialised, WritePaid DEF LockInv
    <3>2. CASE Begin(w) \/ Select(w) \/ SelectNothing(w) \/ Insert(w) \/ InsertRefused(w)
      BY <3>2, ReadLocked
    <3>3. QED  BY <2>3, <3>1, <3>2 DEF Proceed
  <2>4. QED  BY <2>1, <2>2, <2>3 DEF Next
<1>3. QED  BY <1>1, <1>2, PTL DEF Spec

\* Where FOR UPDATE locks (or one worker is alone), the interleaving of the transactions
\* doubles no token: what is granted beyond burst and elapsed time is exactly
\* bounded by how far stale readings of the clock set last_refill_at back.
THEOREM RowGrantBoundCorrect == ASSUME Exclusive PROVE Spec => []GrantBound
<1>1. LockInv => GrantBound
  <2>. SUFFICES ASSUME LockInv PROVE GrantBound
    OBVIOUS
  <2>0. clock \in Nat /\ granted \in Nat /\ rewound \in Nat /\ row \in Buckets \cup {NoRow}
        /\ Full \in Nat
    BY FullNat DEF LockInv, LoadedInv, TypeOK
  <2>1. granted * Cost \in Nat /\ (granted = 0 => granted * Cost = 0)
    BY <2>0, GrantCost, RefillAssumption
  <2>2. CASE row = NoRow
    BY <2>2, <2>0, <2>1 DEF LockInv, PaidFor, GrantBound
  <2>3. CASE row # NoRow
    <3>1. row.tokens \in Nat /\ row.last \in Int
      BY <2>3, <2>0 DEF Buckets
    <3>2. QED  BY <2>3, <2>0, <2>1, <3>1 DEF LockInv, PaidFor, GrantBound
  <2>4. QED  BY <2>2, <2>3
<1>2. QED  BY <1>1, LockInvariant, PTL

-----------------------------------------------------------------------------
\* Both levels compute a consume in the same way.
LEMMA SameConsumed ==
  \A b, n : /\ Atomic!Consumed(b, n) = Consumed(b, n)
            /\ Atomic!HasToken(Atomic!Refill(b, n)) = HasToken(Refill(b, n))
            /\ Atomic!NewBucket(n) = NewBucket(n)
BY DEF Atomic!Consumed, Consumed, Atomic!HasToken, HasToken, Atomic!Refill, Refill,
       Atomic!Spend, Spend, Atomic!NewBucket, NewBucket, Atomic!Full, Full,
       Atomic!Capped, Capped

\* Where FOR UPDATE locks, and for one worker also on SQLite, consume keeps what
\* its docstring promises: however the statements of the workers interleave, the
\* row changes as if each refill-and-decrement were one indivisible step.
THEOREM RowsImplementAtomic == ASSUME Exclusive PROVE Spec => ImplementsAtomic
<1>1. Init => Atomic!Init
  BY DEF Init, Atomic!Init, NoRow, Atomic!NoRow
<1>2. LockInv /\ [Next]_vars => [Atomic!Next]_Atomic!vars
  <2>. SUFFICES ASSUME LockInv, [Next]_vars PROVE [Atomic!Next]_Atomic!vars
    OBVIOUS
  <2>0. Atomic!NoRow = NoRow
    BY DEF NoRow, Atomic!NoRow
  <2>1. CASE UNCHANGED vars
    BY <2>1 DEF vars, Atomic!vars
  <2>2. CASE Tick
    BY <2>2 DEF Tick, Atomic!Next, Atomic!Tick
  <2>3. ASSUME NEW w \in Workers, Get(w)
        PROVE  [Atomic!Next]_Atomic!vars
    <3>1. CASE row # NoRow
      BY <2>3, <3>1 DEF Get, Atomic!vars
    <3>2. CASE row = NoRow
      <4>1. row' = NewBucket(now[w]) /\ now[w] \in 0 .. clock
        BY <2>3, <3>2 DEF Get, Goto, LockInv, LoadedInv, TypeOK, Serialised
      <4>2. Atomic!Materialise
        BY <2>3, <2>0, <3>2, <4>1, SameConsumed DEF Get, Atomic!Materialise
      <4>3. QED  BY <4>2 DEF Atomic!Next
    <3>3. QED  BY <3>1, <3>2
  <2>4. ASSUME NEW w \in Workers, Consume(w)
        PROVE  Atomic!Next
    <3>1. /\ seen[w] = IF row = NoRow THEN NewBucket(now[w]) ELSE row
          /\ row' = Consumed(seen[w], now[w])
          /\ now[w] \in 0 .. clock
      BY <2>4, FlushedIsConsumed DEF LockInv, LoadedInv, TypeOK
    <3>2. /\ granted' = IF HasToken(Refill(seen[w], now[w])) THEN granted + 1 ELSE granted
          /\ UNCHANGED clock
      BY <2>4 DEF Consume
    <3>3. LET b == IF row = Atomic!NoRow THEN Atomic!NewBucket(now[w]) ELSE row
          IN  /\ row' = Atomic!Consumed(b, now[w])
              /\ granted' = IF Atomic!HasToken(Atomic!Refill(b, now[w]))
                              THEN granted + 1 ELSE granted
      BY <2>0, <3>1, <3>2, SameConsumed
    <3>4. Atomic!Consume
      BY <3>1, <3>2, <3>3 DEF Atomic!Consume
    <3>5. QED  BY <3>4 DEF Atomic!Next
  <2>5. ASSUME NEW w \in Workers,
               Begin(w) \/ Select(w) \/ SelectNothing(w) \/ Insert(w)
                 \/ InsertRefused(w) \/ Fail(w)
        PROVE  UNCHANGED Atomic!vars
    BY <2>5 DEF Begin, Select, SelectNothing, Insert, InsertRefused, Fail, Atomic!vars
  <2>6. QED  BY <2>1, <2>2, <2>3, <2>4, <2>5 DEF Next, Proceed
<1>3. QED  BY <1>1, <1>2, LockInvariant, PTL DEF Spec, ImplementsAtomic, Atomic!Spec
=============================================================================
