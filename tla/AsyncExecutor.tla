--------------------------- MODULE AsyncExecutor ---------------------------
(***************************************************************************)
(* taskq.service.executor.AsyncExecutor (FR-08) on an asyncio event loop.  *)
(*                                                                         *)
(* One action is one uninterrupted step of one coroutine, from the point   *)
(* where the loop resumes it to its next await, or one event outside the   *)
(* program: a subprocess ends, a timer fires, a caller cancels the drain.  *)
(* The coroutines are _run_task (one per dispatched id), _wait_all and     *)
(* run_until_drained (at most one drain at a time), and the submitters.    *)
(*                                                                         *)
(* asyncio of Python 3.11 (SPEC.md:73) is modelled from how the code uses  *)
(* it: wait_for runs its awaitable in a task of its own, a timeout cancels *)
(* that task and waits for it, and gather hands a cancellation on to its   *)
(* children.  Cancelling is a flag that the child meets at its next step.  *)
(***************************************************************************)
EXTENDS Naturals, Sequences, FiniteSets

CONSTANTS
  Ids,               \* task ids; callers pass a fresh id to each submit
  MaxConcurrent,     \* _max_concurrent: _env_int accepts 0 as well
  ConcurrentSubmit,  \* may other coroutines submit while a drain runs?
  CancelAllowed      \* may the caller cancel run_until_drained?

ASSUME MaxConcurrentAssumption == MaxConcurrent \in Nat
ASSUME FlagsAssumption == ConcurrentSubmit \in BOOLEAN /\ CancelAllowed \in BOOLEAN

Outcomes == {"drained", "interrupted"}
Ended == {"finished", "expired", "cancelled"}      \* how a _run_task can end
NoReport == [status |-> "none", tasks |-> [t \in Ids |-> "none"]]

VARIABLES
  pending,    \* _pending, the FIFO of ids waiting for a slot
  tasks,      \* keys of _tasks, the dispatched asyncio tasks
  submitted,  \* _submitted, ids of the current wave
  inFlight,   \* _in_flight_count
  results,    \* _results; "none" stands for an absent key
  pc,         \* where each id's coroutine is
  cancelReq,  \* coroutines with an undelivered Task.cancel()
  proc,       \* the OS process of each id
  drainPc,    \* where run_until_drained and its _wait_all are
  gathered,   \* children of the gather the drain awaits
  report      \* what the latest run_until_drained returned

taskVars  == <<pc, cancelReq, proc>>
vars == <<pending, tasks, submitted, inFlight, results, taskVars, drainPc,
          gathered, report>>

Queued == {pending[i] : i \in 1 .. Len(pending)}
Active(t) == pc[t] \in {"created", "spawning", "running", "expiring",
                        "aborting", "cancelling"}

\* Between two awaits of _wait_all the loop runs nothing else.
LoopFree == drainPc \notin {"top", "body"}

Init ==
  /\ pending = <<>>
  /\ tasks = {}
  /\ submitted = {}
  /\ inFlight = 0
  /\ results = [t \in Ids |-> "none"]
  /\ pc = [t \in Ids |-> "new"]
  /\ cancelReq = {}
  /\ proc = [t \in Ids |-> "none"]
  /\ drainPc = "idle"
  /\ gathered = {}
  /\ report = NoReport

-----------------------------------------------------------------------------
(* Submission.  A single caller awaits submit's sleep(0), which lets the   *)
(* coroutine it just created take its first step before the caller goes on.*)

CallerReady == ConcurrentSubmit \/ \A t \in Ids : pc[t] # "created"

\* An id that was never used, or whose previous life has left no trace: a drain
\* that still awaits its old coroutine would not await the new one.
Fresh(t) == /\ pc[t] \in Ended \cup {"new", "dropped"}
            /\ proc[t] \in {"none", "exited"}
            /\ results[t] = "none"
            /\ t \notin submitted \cup tasks \cup Queued \cup gathered

HasSlotOffByOne == inFlight <= MaxConcurrent                      \* mutant

HasSlot == inFlight < MaxConcurrent

Submit(t) ==
  /\ LoopFree /\ CallerReady
  /\ ConcurrentSubmit \/ drainPc = "idle"
  /\ Fresh(t)
  /\ submitted' = submitted \cup {t}
  /\ proc' = [proc EXCEPT ![t] = "none"]
  /\ \/ /\ HasSlot                             \* _dispatch
        /\ inFlight' = inFlight + 1
        /\ tasks' = tasks \cup {t}
        /\ pc' = [pc EXCEPT ![t] = "created"]
        /\ UNCHANGED pending
     \/ /\ ~HasSlot
        /\ pending' = Append(pending, t)
        /\ pc' = [pc EXCEPT ![t] = "queued"]
        /\ UNCHANGED <<inFlight, tasks>>
  /\ UNCHANGED <<results, cancelReq, drainPc, gathered, report>>

-----------------------------------------------------------------------------
(* _run_task(t).                                                           *)

\* Every return or raise of a started coroutine runs the finally clause.
Finish(t, how) == /\ pc' = [pc EXCEPT ![t] = how]
                  /\ cancelReq' = cancelReq \ {t}
                  /\ tasks' = tasks \ {t}

RecordLost(t, outcome) == UNCHANGED results                        \* mutant

Record(t, outcome) == results' = [results EXCEPT ![t] = outcome]

KillNothing(t) == UNCHANGED proc                                   \* mutant

\* proc.kill(), harmless on a process that already ended.
Kill(t) == proc' = [proc EXCEPT ![t] = IF @ = "alive" THEN "killed" ELSE @]

\* shlex.split and the first half of create_subprocess_exec, which forks.
Start(t) ==
  /\ LoopFree /\ pc[t] = "created" /\ t \notin cancelReq
  /\ pc' = [pc EXCEPT ![t] = "spawning"]
  /\ proc' = [proc EXCEPT ![t] = "alive"]
  /\ UNCHANGED <<pending, tasks, submitted, inFlight, results, cancelReq,
                 drainPc, gathered, report>>

\* Bad quoting, FileNotFoundError or any other error: still "drained".
StartFails(t) ==
  /\ LoopFree /\ pc[t] = "created" /\ t \notin cancelReq
  /\ Record(t, "drained")
  /\ Finish(t, "finished")
  /\ UNCHANGED <<pending, submitted, inFlight, proc, drainPc, gathered, report>>

\* A coroutine cancelled before its first step never enters its try block,
\* so its finally clause does not pop it from _tasks.
CancelUnstarted(t) ==
  /\ LoopFree /\ pc[t] = "created" /\ t \in cancelReq
  /\ pc' = [pc EXCEPT ![t] = "cancelled"]
  /\ cancelReq' = cancelReq \ {t}
  /\ UNCHANGED <<pending, tasks, submitted, inFlight, results, proc, drainPc,
                 gathered, report>>

Spawned(t) ==
  /\ LoopFree /\ pc[t] = "spawning" /\ t \notin cancelReq
  /\ pc' = [pc EXCEPT ![t] = "running"]
  /\ UNCHANGED <<pending, tasks, submitted, inFlight, results, cancelReq, proc,
                 drainPc, gathered, report>>

\* Cancelled while proc is still None: asyncio closes the transport it was
\* building, which kills the child and waits for it.
AbortSpawn(t) ==
  /\ LoopFree /\ pc[t] = "spawning" /\ t \in cancelReq
  /\ Kill(t)
  /\ pc' = [pc EXCEPT ![t] = "aborting"]
  /\ cancelReq' = cancelReq \ {t}
  /\ UNCHANGED <<pending, tasks, submitted, inFlight, results, drainPc,
                 gathered, report>>

\* communicate() is done.  A cancellation that arrives now is lost: wait_for
\* returns the finished result instead of raising.
Communicated(t) ==
  /\ LoopFree /\ pc[t] = "running" /\ proc[t] = "exited"
  /\ Record(t, "drained")
  /\ Finish(t, "finished")
  /\ UNCHANGED <<pending, submitted, inFlight, proc, drainPc, gathered, report>>

\* task_timeout fires; the process may have ended with its pipes still open.
TaskTimeout(t) ==
  /\ LoopFree /\ pc[t] = "running" /\ t \notin cancelReq
  /\ Kill(t)
  /\ pc' = [pc EXCEPT ![t] = "expiring"]
  /\ UNCHANGED <<pending, tasks, submitted, inFlight, results, cancelReq,
                 drainPc, gathered, report>>

Expired(t) ==
  /\ LoopFree /\ pc[t] = "expiring" /\ t \notin cancelReq
  /\ proc[t] = "exited"
  /\ Record(t, "interrupted")
  /\ Finish(t, "expired")
  /\ UNCHANGED <<pending, submitted, inFlight, proc, drainPc, gathered, report>>

CancelRunningPopsFirst(t) ==                                       \* mutant
  /\ LoopFree /\ pc[t] \in {"running", "expiring"} /\ t \in cancelReq
  /\ Kill(t)
  /\ Finish(t, "cancelling")
  /\ UNCHANGED <<pending, submitted, inFlight, results, drainPc, gathered, report>>

\* except CancelledError: hard-kill (also out of the timeout handler).
CancelRunning(t) ==
  /\ LoopFree /\ pc[t] \in {"running", "expiring"} /\ t \in cancelReq
  /\ Kill(t)
  /\ pc' = [pc EXCEPT ![t] = "cancelling"]
  /\ cancelReq' = cancelReq \ {t}
  /\ UNCHANGED <<pending, tasks, submitted, inFlight, results, drainPc,
                 gathered, report>>

\* The killed process is reaped, or a second cancel cuts the wait short;
\* CancelledError propagates and no result is recorded.
CancelDone(t) ==
  /\ LoopFree /\ pc[t] \in {"aborting", "cancelling"}
  /\ proc[t] = "exited" \/ t \in cancelReq
  /\ Finish(t, "cancelled")
  /\ UNCHANGED <<pending, submitted, inFlight, results, proc, drainPc, gathered,
                 report>>

-----------------------------------------------------------------------------
(* Subprocesses, outside the program: they may end, and a killed one does. *)

Exit(t) == /\ proc[t] = "alive"
           /\ proc' = [proc EXCEPT ![t] = "exited"]
           /\ UNCHANGED <<pending, tasks, submitted, inFlight, results, pc,
                          cancelReq, drainPc, gathered, report>>

Die(t) == /\ proc[t] = "killed"
          /\ proc' = [proc EXCEPT ![t] = "exited"]
          /\ UNCHANGED <<pending, tasks, submitted, inFlight, results, pc,
                         cancelReq, drainPc, gathered, report>>

-----------------------------------------------------------------------------
(* run_until_drained and _wait_all.                                        *)

\* wait_for arms its timer and schedules _wait_all.
RunUntilDrained ==
  /\ drainPc = "idle" /\ CallerReady
  /\ drainPc' = "scheduled"
  /\ report' = NoReport
  /\ UNCHANGED <<pending, tasks, submitted, inFlight, results, taskVars, gathered>>

\* The head of the loop: await what is dispatched now, or go straight on.
WaitAllTop ==
  /\ drainPc \in {"scheduled", "top"}
  /\ gathered' = tasks
  /\ drainPc' = IF tasks = {} THEN "body" ELSE "gather"
  /\ UNCHANGED <<pending, tasks, submitted, inFlight, results, taskVars, report>>

GatherNotAwaited == TRUE                                           \* mutant

GatherDone == \A t \in gathered : ~Active(t)

\* How many ids the inner while loop takes off the FIFO.
Pulls == IF MaxConcurrent <= inFlight THEN 0
         ELSE IF Len(pending) <= MaxConcurrent - inFlight THEN Len(pending)
         ELSE MaxConcurrent - inFlight

Pulled == {pending[i] : i \in 1 .. Pulls}

\* The rest of the iteration: dispatch from the FIFO, then return or loop.
\* No await separates this from the head of the next iteration.
WaitAllBody ==
  /\ drainPc = "body" \/ (drainPc = "gather" /\ GatherDone)
  /\ pending' = SubSeq(pending, Pulls + 1, Len(pending))
  /\ inFlight' = inFlight + Pulls
  /\ tasks' = tasks \cup Pulled
  /\ pc' = [t \in Ids |-> IF t \in Pulled THEN "created" ELSE pc[t]]
  /\ gathered' = {}
  /\ drainPc' = IF /\ tasks' = {}
                   /\ pending' = <<>>
                   /\ \A t \in submitted : results[t] # "none"
                  THEN "returned" ELSE "top"
  /\ UNCHANGED <<submitted, results, cancelReq, proc, report>>

FinalizeKeepsResults(status, ledger) ==                            \* mutant
  /\ report' = [status |-> status, tasks |-> ledger]
  /\ results' = ledger
  /\ tasks' = {}
  /\ submitted' = {}
  /\ inFlight' = 0
  /\ gathered' = {}
  /\ drainPc' = "idle"

\* _finalize_wave; the FIFO is not part of what it resets.
Finalize(status, ledger) ==
  /\ report' = [status |-> status, tasks |-> ledger]
  /\ results' = [t \in Ids |-> "none"]
  /\ tasks' = {}
  /\ submitted' = {}
  /\ inFlight' = 0
  /\ gathered' = {}
  /\ drainPc' = "idle"

\* The drain resumes some loop iterations after _wait_all returned.  A timer
\* or a Task.cancel() that fires in between changes nothing: wait_for returns
\* the result it already has.
DrainReturns ==
  /\ drainPc = "returned"
  /\ Finalize("drained", results)
  /\ UNCHANGED <<pending, taskVars>>

\* drain_timeout: wait_for cancels _wait_all, whose gather cancels its children.
DrainTimeout ==
  /\ drainPc = "gather"
  /\ cancelReq' = cancelReq \cup {t \in gathered : Active(t)}
  /\ drainPc' = "timingOut"
  /\ UNCHANGED <<pending, tasks, submitted, inFlight, results, pc, proc,
                 gathered, report>>

\* _wait_all has ended cancelled; TimeoutError is on its way to the drain.
TimedOut ==
  /\ drainPc = "timingOut" /\ GatherDone
  /\ drainPc' = "timedOut"
  /\ gathered' = {}
  /\ UNCHANGED <<pending, tasks, submitted, inFlight, results, taskVars, report>>

SeededAsCancelled ==                                               \* mutant
  [t \in Ids |-> IF t \in submitted \cup Queued /\ results[t] = "none"
                   THEN "cancelled" ELSE results[t]]
SeededOverwrites ==                                                \* mutant
  [t \in Ids |-> IF t \in submitted \cup Queued THEN "interrupted" ELSE results[t]]
SeededLedgerOnly ==                                                \* mutant
  [t \in Ids |-> IF t \in submitted /\ results[t] = "none"
                   THEN "interrupted" ELSE results[t]]

\* results.setdefault(tid, STATUS_INTERRUPTED), over FIFO and ledger.
Seeded == [t \in Ids |-> IF t \in submitted \cup Queued /\ results[t] = "none"
                           THEN "interrupted" ELSE results[t]]

\* _cancel_and_seed_interrupted up to its gather, which it skips when no
\* asyncio task is left; then run_until_drained finalizes in the same step.
CancelAndSeed ==
  /\ drainPc = "timedOut"
  /\ pending' = <<>>
  /\ cancelReq' = cancelReq \cup {t \in tasks : Active(t)}
  /\ pc' = [t \in Ids |-> IF t \in Queued THEN "dropped" ELSE pc[t]]
  /\ \/ /\ tasks = {}
        /\ Finalize("interrupted", Seeded)
     \/ /\ tasks # {}
        /\ results' = Seeded
        /\ gathered' = tasks
        /\ drainPc' = "reaping"
        /\ UNCHANGED <<tasks, submitted, inFlight, report>>
  /\ UNCHANGED proc

Reaped ==
  /\ drainPc = "reaping" /\ GatherDone
  /\ Finalize("interrupted", results)
  /\ UNCHANGED <<pending, taskVars>>

\* The caller cancels the task that runs run_until_drained.  While wait_for
\* waits for a cancelled _wait_all, or has just seen it end, the second
\* CancelledError leaves at once; a gather always waits for its children.
CancelDrain ==
  /\ CancelAllowed
  /\ \/ /\ drainPc \in {"gather", "reaping", "reapCancelled"}
        /\ cancelReq' = cancelReq \cup {t \in gathered : Active(t)}
        /\ drainPc' = IF drainPc = "gather" THEN "unwinding" ELSE "reapCancelled"
        /\ UNCHANGED gathered
     \/ /\ drainPc \in {"timingOut", "timedOut", "unwinding"}
        /\ drainPc' = "idle"
        /\ gathered' = {}
        /\ UNCHANGED cancelReq
  /\ UNCHANGED <<pending, tasks, submitted, inFlight, results, pc, proc, report>>

\* CancelledError reaches the caller; nothing is finalized.
Unwound ==
  /\ drainPc \in {"unwinding", "reapCancelled"} /\ GatherDone
  /\ drainPc' = "idle"
  /\ gathered' = {}
  /\ UNCHANGED <<pending, tasks, submitted, inFlight, results, taskVars, report>>

-----------------------------------------------------------------------------
TaskStep(t) == \/ Start(t) \/ StartFails(t) \/ CancelUnstarted(t)
               \/ Spawned(t) \/ AbortSpawn(t) \/ Communicated(t)
               \/ TaskTimeout(t) \/ Expired(t) \/ CancelRunning(t)
               \/ CancelDone(t)

DrainStep == \/ WaitAllTop \/ WaitAllBody \/ DrainReturns \/ TimedOut
             \/ CancelAndSeed \/ Reaped \/ Unwound

Next == \/ \E t \in Ids : Submit(t) \/ TaskStep(t) \/ Exit(t) \/ Die(t)
        \/ RunUntilDrained \/ DrainStep \/ DrainTimeout \/ CancelDrain

Spec == Init /\ [][Next]_vars

\* Each iteration of the event loop resumes every ready coroutine and runs
\* every timer that is due, and the kernel ends a killed process.  Fairness is
\* strong where _wait_all, which holds the loop between its awaits, switches
\* the step off and on again.  Nothing makes an untouched subprocess end, or
\* a caller submit, drain or cancel.
Fairness == /\ \A t \in Ids : SF_vars(TaskStep(t)) /\ WF_vars(Die(t))
            /\ WF_vars(DrainStep) /\ SF_vars(DrainTimeout)

FairSpec == Spec /\ Fairness

-----------------------------------------------------------------------------
(* Properties.                                                             *)

\* Every variable has the shape the code gives it.
TypeOK ==
  /\ pending \in Seq(Ids)
  /\ tasks \subseteq Ids
  /\ submitted \subseteq Ids
  /\ inFlight \in Nat
  /\ results \in [Ids -> Outcomes \cup {"none"}]
  /\ pc \in [Ids -> Ended \cup {"new", "queued", "dropped", "created",
                                "spawning", "running", "expiring", "aborting",
                                "cancelling"}]
  /\ cancelReq \subseteq Ids
  /\ proc \in [Ids -> {"none", "alive", "killed", "exited"}]
  /\ drainPc \in {"idle", "scheduled", "top", "body", "gather", "returned",
                  "timingOut", "timedOut", "reaping", "reapCancelled",
                  "unwinding"}
  /\ gathered \subseteq Ids
  /\ report \in [status : Outcomes \cup {"none"},
                 tasks : [Ids -> Outcomes \cup {"none"}]]

\* FR-08 bounds the subprocesses that run at once by max_concurrent, across
\* waves, timeouts and cancelled drains.
LiveWithinCap == Cardinality({t \in Ids : proc[t] = "alive"}) <= MaxConcurrent

\* A coroutine that has not ended is in _tasks: whichever wave it was
\* dispatched in, the drain that gathers _tasks waits for it.
Tracked == \A t \in Ids : Active(t) => t \in tasks

\* However _run_task ends, also when cancelled twice or while it is still
\* spawning, its subprocess has ended or was killed (NFR-03: no orphan).
NoOrphan == \A t \in Ids : pc[t] \in Ended => proc[t] # "alive"

Delivers == drainPc' = "idle" /\ report' # report

\* A report says "drained" of exactly the ids whose coroutine ran to its end
\* (an id that was cancelled, expired or dropped from the FIFO never is), and a
\* wave that is reported "drained" has no id without an outcome of its own.
ReportTruthful ==
  [][Delivers => \A t \in submitted :
       /\ report'.tasks[t] = "drained" <=> pc'[t] = "finished"
       /\ report'.status = "drained" => pc'[t] \in {"finished", "expired"}]_vars

\* When a drain returns, no coroutine of any wave is left and no subprocess runs.
QuietAfterDrain ==
  [][Delivers => \A t \in Ids : ~Active(t) /\ proc[t] # "alive"]_vars

\* The executor keeps the promises of DrainContract: one report per drain, of
\* exactly the ids submitted since the last one, and outcomes that never change.
Contract == INSTANCE DrainContract
              WITH wave <- submitted, outcome <- results,
                   phase <- IF drainPc = "idle" THEN "open" ELSE "draining"
KeepsContract == Contract!Spec

\* An id that ran to its end is never reported "interrupted", although the
\* deadline, a cancellation and a late submission may all race its last step.
DrainedWins ==
  [][\A t \in Ids : results[t] = "drained" =>
       IF Delivers THEN report'.tasks[t] = "drained" ELSE results'[t] = "drained"]_vars

\* An id the deadline takes off the FIFO is never forgotten: also when it was
\* submitted after the previous wave had been waited for, it is interrupted.
DroppedIsReported ==
  [][\A t \in Ids : pc[t] = "queued" /\ pc'[t] = "dropped" =>
       "interrupted" \in {results'[t], report'.tasks[t]}]_vars

Withdrawing == drainPc \in {"timingOut", "reaping", "unwinding", "reapCancelled"}

\* A drain that timed out or was cancelled waits for nobody who has not been told:
\* every coroutine it still awaits has the cancellation before it, or has met it
\* and killed its subprocess, also if it was spawning or already timing out.
CancelReaches ==
  Withdrawing => \A t \in gathered : Active(t) =>
     t \in cancelReq \/ (pc[t] \in {"aborting", "cancelling"} /\ proc[t] # "alive")

\* run_until_drained returns or raises: it is bounded by drain_timeout.
DrainEnds == (drainPc # "idle") ~> (drainPc = "idle")

\* _wait_all found nothing to await, and an id it cannot dispatch: one left in
\* the FIFO by a full wave, or one whose outcome a cancelled drain never recorded.
Starved == /\ drainPc \in {"top", "body"} /\ tasks = {}
           /\ \/ pending # <<>> /\ inFlight >= MaxConcurrent
              \/ \E t \in submitted : pc[t] = "cancelled" /\ results[t] = "none"

\* Subprocesses that never end, late submissions and cancellations do not keep
\* a drain from ending; only a starved _wait_all does.
DrainEndsOrStarves == (drainPc # "idle") ~> (drainPc = "idle" \/ Starved)

\* A cancelled drain reaches its caller: the cancellation is handed to the
\* children, they kill and reap their subprocesses, and CancelledError leaves.
CancelUnwinds == (drainPc \in {"unwinding", "reapCancelled"}) ~> (drainPc = "idle")
=============================================================================
