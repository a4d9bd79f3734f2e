---------------------------- MODULE Percentiles ----------------------------
(***************************************************************************)
(* latency_percentiles (FR-09): the place of a percentile in the sorted    *)
(* list of n durations, and the nearest rank its comment names.  Where two *)
(* integers are as near, Python's round takes the even one; the floats of  *)
(* the code give what exact arithmetic gives for these percentiles.        *)
(***************************************************************************)
EXTENDS Integers

Percents == {50, 90, 95, 99}

\* round(a / b), for a natural a and a positive b.
RoundHalfEven(a, b) ==
  LET q == a \div b
      r == a % b
  IN IF 2 * r < b \/ (2 * r = b /\ q % 2 = 0) THEN q ELSE q + 1

PctIndexOfCount(p, n) == RoundHalfEven(p * n, 100)                 \* mutant

\* Counted from 0, as in the code; at least 0, at most n - 1.
PctIndex(p, n) ==
  LET i == RoundHalfEven(p * (n - 1), 100)
      atLeast0 == IF i < 0 THEN 0 ELSE i
  IN IF atLeast0 > n - 1 THEN n - 1 ELSE atLeast0

\* The definition: the smallest place with at least p percent of the n
\* durations at or before it, which is ceil(p * n / 100) counted from 1.
NearestRank(p, n) == (p * n + 99) \div 100 - 1
=============================================================================
