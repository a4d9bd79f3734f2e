--------------------------- MODULE RateBucketRows ---------------------------
(***************************************************************************)
(* The database side of flow control (FR-05, AC-5.3):                      *)
(* RateBucketRepository.get and .consume on the row of one key, called by  *)
(* several workers, each statement and each commit a step.                 *)
(*                                                                         *)
(* RowLock = TRUE is a database that honours SELECT ... FOR UPDATE, as the *)
(* docs presuppose: the row is locked until the transaction ends, and      *)
(* whoever waited for the lock reads what was committed.  RowLock = FALSE  *)
(* is SQLite, the configured default, with a connection per worker: its    *)
(* dialect leaves the clause out, and the SELECT opens no transaction.     *)
(* On both an INSERT waits for the transaction that writes the key.        *)
(***************************************************************************)
EXTENDS RefillMath

CONSTANTS
  Workers,      \* worker processes, one call at a time each
  RowLock,      \* does SELECT ... FOR UPDATE lock the row?
  Nobody,       \* holder of a lock that is free
  MaxClock      \* bound on the ticks of a behaviour

ASSUME RowLockAssumption == RowLock \in BOOLEAN
ASSUME NobodyAssumption == Nobody \notin Workers
ASSUME MaxClockAssumption == MaxClock \in Nat

NoRow == [tokens |-> -1, last |-> -1]

VARIABLES
  clock,      \* time.time() of every worker
  row,        \* the committed row
  owner,      \* the transaction that holds the row's lock
  pc,         \* where each worker's call is
  call,       \* "get" or "consume"
  now,        \* the reading of the clock each call works with
  seen,       \* the row as each call has loaded it
  granted,    \* tokens handed out
  rewound     \* how far committed calls have set last_refill_at back, in total

vars == <<clock, row, owner, pc, call, now, seen, granted, rewound>>

Init == /\ clock = 0
        /\ row = NoRow
        /\ owner = Nobody
        /\ pc = [w \in Workers |-> "idle"]
        /\ call = [w \in Workers |-> "get"]
        /\ now = [w \in Workers |-> 0]
        /\ seen = [w \in Workers |-> NoRow]
        /\ granted = 0
        /\ rewound = 0

\* A call ends, with it its local variables.
Return(w) == /\ call' = [call EXCEPT ![w] = "get"]
             /\ now' = [now EXCEPT ![w] = 0]
             /\ seen' = [seen EXCEPT ![w] = NoRow]

Goto(w, from, to) == pc[w] = from /\ pc' = [pc EXCEPT ![w] = to]

Tick == /\ clock < MaxClock
        /\ clock' = clock + 1
        /\ UNCHANGED <<row, owner, pc, call, now, seen, granted, rewound>>

\* Both methods read the clock before their first statement.
Begin(w) == /\ Goto(w, "idle", "timed")
            /\ \E c \in {"get", "consume"} : call' = [call EXCEPT ![w] = c]
            /\ now' = [now EXCEPT ![w] = clock]
            /\ UNCHANGED <<clock, row, owner, seen, granted, rewound>>

LockedNever(w) == UNCHANGED owner                                  \* mutant

Locked(w) == IF RowLock THEN owner = Nobody /\ owner' = w ELSE UNCHANGED owner

\* SELECT ... FOR UPDATE finds the committed row.
Select(w) == /\ row # NoRow
             /\ Goto(w, "timed", "loaded")
             /\ Locked(w)
             /\ seen' = [seen EXCEPT ![w] = row]
             /\ UNCHANGED <<clock, row, call, now, granted, rewound>>

\* There is no row to lock: an uncommitted one is invisible.
SelectNothing(w) == /\ row = NoRow
                    /\ Goto(w, "timed", "missing")
                    /\ UNCHANGED <<clock, row, owner, call, now, seen, granted, rewound>>

\* _materialise: INSERT a full row and flush.
Insert(w) == /\ row = NoRow /\ owner = Nobody
             /\ Goto(w, "missing", "loaded")
             /\ owner' = w
             /\ seen' = [seen EXCEPT ![w] = NewBucket(now[w])]
             /\ UNCHANGED <<clock, row, call, now, granted, rewound>>

\* Another worker committed the key in between: the unique index refuses it,
\* and IntegrityError leaves get or consume.
InsertRefused(w) == /\ row # NoRow /\ owner = Nobody
                    /\ Goto(w, "missing", "refused")
                    /\ UNCHANGED <<clock, row, owner, call, now, seen, granted, rewound>>

Released(w) == owner' = IF owner = w THEN Nobody ELSE owner

GetKeepsLock(w) ==                                                 \* mutant
  /\ call[w] = "get" /\ Goto(w, "loaded", "idle")
  /\ row' = IF row = NoRow THEN seen[w] ELSE row
  /\ Return(w)
  /\ UNCHANGED <<clock, owner, granted, rewound>>

\* get commits the row it materialised; of a row it found it computes the
\* refill for the answer only, and closes.
Get(w) == /\ call[w] = "get" /\ Goto(w, "loaded", "idle")
          /\ row' = IF row = NoRow THEN seen[w] ELSE row
          /\ Released(w) /\ Return(w)
          /\ UNCHANGED <<clock, granted, rewound>>

\* The UPDATE names the columns that differ from what was loaded.
Flushed(w, b) ==
  IF row = NoRow THEN b
  ELSE [tokens |-> IF b.tokens = seen[w].tokens THEN row.tokens ELSE b.tokens,
        last |-> IF b.last = seen[w].last THEN row.last ELSE b.last]

\* consume: refill, take a token if there is one, UPDATE and COMMIT.
Consume(w) ==
  /\ call[w] = "consume" /\ Goto(w, "loaded", "idle")
  /\ owner \in {w, Nobody}
  /\ row' = Flushed(w, Consumed(seen[w], now[w]))
  /\ granted' = IF HasToken(Refill(seen[w], now[w])) THEN granted + 1 ELSE granted
  /\ rewound' = IF row'.last < row.last THEN rewound + (row.last - row'.last) ELSE rewound
  /\ Released(w) /\ Return(w)
  /\ UNCHANGED clock

\* A statement fails or the worker dies: the transaction is rolled back.
Fail(w) == /\ pc[w] # "idle"
           /\ pc' = [pc EXCEPT ![w] = "idle"]
           /\ Released(w) /\ Return(w)
           /\ UNCHANGED <<clock, row, granted, rewound>>

Proceed(w) == \/ Select(w) \/ SelectNothing(w) \/ Insert(w)
              \/ InsertRefused(w) \/ Get(w) \/ Consume(w)

Next == \/ Tick
        \/ \E w \in Workers : Begin(w) \/ Proceed(w) \/ Fail(w)

Spec == Init /\ [][Next]_vars

\* The database serves the waiters of a lock in turn and answers a statement;
\* nothing makes a worker call again, or a statement fail.
FairSpec == Spec /\ \A w \in Workers :
                      SF_vars(Proceed(w)) /\ WF_vars(pc[w] = "refused" /\ Fail(w))

-----------------------------------------------------------------------------
(* Properties.                                                             *)

\* Every variable has the shape the code gives it; a row is never overdrawn
\* and never holds more than burst tokens.
TypeOK ==
  /\ clock \in Nat /\ granted \in Nat /\ rewound \in Nat
  /\ row \in Buckets \cup {NoRow}
  /\ owner \in Workers \cup {Nobody}
  /\ pc \in [Workers -> {"idle", "timed", "loaded", "missing", "refused"}]
  /\ call \in [Workers -> {"get", "consume"}]
  /\ now \in [Workers -> Nat]
  /\ seen \in [Workers -> Buckets \cup {NoRow}]

\* All workers together hand out no more than the burst, the refill of the
\* time gone by, and the refill that setting last_refill_at back repeats: the
\* interleaving of their transactions adds nothing to that.
GrantBound == granted * Cost <= Full + clock + rewound

\* The row behaves as if every consume were one indivisible step.
Atomic == INSTANCE AtomicBucket
ImplementsAtomic == Atomic!Spec

\* Every call comes back: no transaction waits for ever for the row's lock.
CallsEnd == \A w \in Workers : (pc[w] = "timed") ~> (pc[w] = "idle")
=============================================================================
