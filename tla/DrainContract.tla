--------------------------- MODULE DrainContract ---------------------------
(***************************************************************************)
(* What a caller of the background executor (FR-08) may rely on, with no   *)
(* event loop, no subprocess and no queue: ids are accepted into a wave,   *)
(* each gets at most one outcome, and a drain either delivers exactly one  *)
(* report that covers exactly the wave, or is abandoned (cancelled) and    *)
(* delivers nothing.  AsyncExecutor.tla is shown to implement it.          *)
(***************************************************************************)
EXTENDS Naturals

CONSTANT Ids        \* task ids

Outcomes == {"drained", "interrupted"}
NoReport == [status |-> "none", tasks |-> [t \in Ids |-> "none"]]

VARIABLES
  wave,       \* ids accepted and not yet covered by a report
  outcome,    \* outcome of each id of the wave, "none" while undecided
  phase,      \* "open", or "draining" while a drain is in progress
  report      \* what the latest drain returned

vars == <<wave, outcome, phase, report>>

Init == /\ wave = {}
        /\ outcome = [t \in Ids |-> "none"]
        /\ phase = "open"
        /\ report = NoReport

\* A caller hands over one id between two drains.
Accept(t) == /\ phase = "open"
             /\ t \notin wave
             /\ wave' = wave \cup {t}
             /\ UNCHANGED <<outcome, phase, report>>

\* One id of the wave gets its outcome, which nothing may change afterwards.
Settle(t) == /\ t \in wave
             /\ outcome[t] = "none"
             /\ \E o \in Outcomes : outcome' = [outcome EXCEPT ![t] = o]
             /\ UNCHANGED <<wave, phase, report>>

BeginDrain == /\ phase = "open"
              /\ phase' = "draining"
              /\ report' = NoReport
              /\ UNCHANGED <<wave, outcome>>

\* The deadline decides every undecided id at once.
Rest == [t \in Ids |-> IF t \in wave /\ outcome[t] = "none"
                         THEN "interrupted" ELSE outcome[t]]

InterruptRest == /\ phase = "draining"
                 /\ outcome' = Rest
                 /\ UNCHANGED <<wave, phase, report>>

\* A drain reports "drained" only when every id had settled by itself.
Deliver(status) ==
  /\ phase = "draining"
  /\ status = "drained" => Rest = outcome
  /\ report' = [status |-> status, tasks |-> Rest]
  /\ wave' = {}
  /\ outcome' = [t \in Ids |-> "none"]
  /\ phase' = "open"

\* The drain is cancelled: the wave stays open and no report exists.
Abandon == /\ phase = "draining"
           /\ phase' = "open"
           /\ UNCHANGED <<wave, outcome, report>>

Next == \/ \E t \in Ids : Accept(t) \/ Settle(t)
        \/ BeginDrain \/ InterruptRest \/ Abandon
        \/ \E status \in Outcomes : Deliver(status)

Spec == Init /\ [][Next]_vars
=============================================================================
