----------------------------- MODULE RunLedger -----------------------------
(***************************************************************************)
(* What the task and run handlers promise their clients (FR-01, FR-02),    *)
(* without sessions, statements and threads: a task is created under a     *)
(* name of its own and deleted once; a run that was accepted has a row,    *)
(* which goes from pending to what the runner returned, and is only taken  *)
(* away by the delete of its task.  Two things it does not promise: the    *)
(* delete of a task takes the rows of its runs in a second step, and a run *)
(* may still be accepted while its task goes.                              *)
(* TaskStore.tla implements it with a connection per session.              *)
(***************************************************************************)
EXTENDS Naturals

CONSTANTS
  Tasks,      \* task ids
  Runs,       \* run ids
  Names       \* task names

Terminal == {"done", "failed", "timeout"}
Absent == "absent"

VARIABLES
  name,       \* the name each task asks for
  target,     \* the task each run is of
  tasks,      \* tasks that exist
  gone,       \* tasks that were deleted
  accepted,   \* runs that were accepted
  rows,       \* the status of each run
  outcome     \* what the runner returned for each run

vars == <<name, target, tasks, gone, accepted, rows, outcome>>

Init == /\ name \in [Tasks -> Names]
        /\ target \in [Runs -> Tasks]
        /\ tasks = {} /\ gone = {} /\ accepted = {}
        /\ rows = [r \in Runs |-> Absent]
        /\ outcome = [r \in Runs |-> Absent]

Create(t) == /\ t \notin tasks \cup gone
             /\ \A u \in tasks : name[u] # name[t]
             /\ tasks' = tasks \cup {t}
             /\ UNCHANGED <<name, target, gone, accepted, rows, outcome>>

Delete(t) == /\ t \in tasks
             /\ tasks' = tasks \ {t}
             /\ gone' = gone \cup {t}
             /\ UNCHANGED <<name, target, accepted, rows, outcome>>

Purge(t) == /\ t \in gone
            /\ rows' = [r \in Runs |-> IF target[r] = t THEN Absent ELSE rows[r]]
            /\ UNCHANGED <<name, target, tasks, gone, accepted, outcome>>

Accept(r) == /\ r \notin accepted
             /\ target[r] \in tasks \cup gone
             /\ accepted' = accepted \cup {r}
             /\ rows' = [rows EXCEPT ![r] = "pending"]
             /\ UNCHANGED <<name, target, tasks, gone, outcome>>

\* The runner returns once, and only for a run that was accepted.
Return(r) == /\ r \in accepted /\ outcome[r] = Absent
             /\ \E s \in Terminal : outcome' = [outcome EXCEPT ![r] = s]
             /\ UNCHANGED <<name, target, tasks, gone, accepted, rows>>

Settle(r) == /\ rows[r] = "pending" /\ outcome[r] # Absent
             /\ rows' = [rows EXCEPT ![r] = outcome[r]]
             /\ UNCHANGED <<name, target, tasks, gone, accepted, outcome>>

Next == \/ \E t \in Tasks : Create(t) \/ Delete(t) \/ Purge(t)
        \/ \E r \in Runs : Accept(r) \/ Return(r) \/ Settle(r)

Spec == Init /\ [][Next]_vars
=============================================================================
