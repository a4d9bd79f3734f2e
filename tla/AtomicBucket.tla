---------------------------- MODULE AtomicBucket ----------------------------
(***************************************************************************)
(* What RateBucketRepository promises of one row: it is created full, and  *)
(* every consume is one indivisible refill-and-decrement of the row as the *)
(* previous one left it.  The clock reading a consume refills with may be  *)
(* old, never from the future.  RateBucketRows.tla is shown to implement   *)
(* it where the database has row locks.                                    *)
(***************************************************************************)
EXTENDS RefillMath

VARIABLES
  clock,      \* the time
  row,        \* the bucket, or NoRow before its first use
  granted     \* tokens handed out

vars == <<clock, row, granted>>

NoRow == [tokens |-> -1, last |-> -1]

Init == clock = 0 /\ row = NoRow /\ granted = 0

Tick == clock' = clock + 1 /\ UNCHANGED <<row, granted>>

Materialise == /\ row = NoRow
               /\ \E now \in 0 .. clock : row' = NewBucket(now)
               /\ UNCHANGED <<clock, granted>>

Consume ==
  /\ \E now \in 0 .. clock :
       LET b == IF row = NoRow THEN NewBucket(now) ELSE row
       IN  /\ row' = Consumed(b, now)
           /\ granted' = IF HasToken(Refill(b, now)) THEN granted + 1 ELSE granted
  /\ UNCHANGED clock

Next == Tick \/ Materialise \/ Consume

Spec == Init /\ [][Next]_vars
=============================================================================
