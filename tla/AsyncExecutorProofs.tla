------------------------ MODULE AsyncExecutorProofs ------------------------
(***************************************************************************)
(* What TLC checks of AsyncExecutor on three ids holds for every set of    *)
(* ids and every cap.  NoOrphan needs no assumption on the callers; the    *)
(* cap needs callers that do not submit while a drain runs (section 4 of   *)
(* README.md says how it fails otherwise).                                 *)
(***************************************************************************)
EXTENDS AsyncExecutor, FiniteSetTheorems, TLAPS

USE DEF Active, LoopFree, Ended, Outcomes

-----------------------------------------------------------------------------
(* Type correctness.                                                       *)

\* What the FIFO holds are ids.
LEMMA QueuedAreIds == TypeOK => Queued \subseteq Ids
BY DEF TypeOK, Queued

\* Taking the first ids off the FIFO leaves a FIFO, and counts a natural.
LEMMA PullType ==
  ASSUME TypeOK
  PROVE  /\ Pulls \in Nat
         /\ Pulls <= Len(pending)
         /\ SubSeq(pending, Pulls + 1, Len(pending)) \in Seq(Ids)
         /\ Pulled \subseteq Ids
<1>1. Pulls \in Nat /\ Pulls <= Len(pending)
  BY MaxConcurrentAssumption DEF TypeOK, Pulls
<1>2. SubSeq(pending, Pulls + 1, Len(pending)) \in Seq(Ids)
  BY <1>1 DEF TypeOK
<1>3. Pulled \subseteq Ids
  BY <1>1 DEF TypeOK, Pulled
<1> QED BY <1>1, <1>2, <1>3

\* The ledger that the deadline fills up is still a ledger.
LEMMA SeededType == TypeOK => Seeded \in [Ids -> Outcomes \cup {"none"}]
BY DEF TypeOK, Seeded

\* A step of one coroutine keeps the types.
LEMMA TaskStepType ==
  ASSUME TypeOK, NEW t \in Ids, TaskStep(t)
  PROVE  TypeOK'
<1>1. CASE Start(t)            BY <1>1 DEF TypeOK, Start
<1>2. CASE StartFails(t)       BY <1>2 DEF TypeOK, StartFails, Record, Finish
<1>3. CASE CancelUnstarted(t)  BY <1>3 DEF TypeOK, CancelUnstarted
<1>4. CASE Spawned(t)          BY <1>4 DEF TypeOK, Spawned
<1>5. CASE AbortSpawn(t)       BY <1>5 DEF TypeOK, AbortSpawn, Kill
<1>6. CASE Communicated(t)     BY <1>6 DEF TypeOK, Communicated, Record, Finish
<1>7. CASE TaskTimeout(t)      BY <1>7 DEF TypeOK, TaskTimeout, Kill
<1>8. CASE Expired(t)          BY <1>8 DEF TypeOK, Expired, Record, Finish
<1>9. CASE CancelRunning(t)    BY <1>9 DEF TypeOK, CancelRunning, Kill
<1>10. CASE CancelDone(t)      BY <1>10 DEF TypeOK, CancelDone, Finish
<1> QED
  BY <1>1, <1>2, <1>3, <1>4, <1>5, <1>6, <1>7, <1>8, <1>9, <1>10 DEF TaskStep

\* Resetting the wave keeps the types of what it resets.
LEMMA FinalizeType ==
  ASSUME NEW status \in Outcomes, NEW ledger \in [Ids -> Outcomes \cup {"none"}],
         Finalize(status, ledger)
  PROVE  /\ report' \in [status : Outcomes \cup {"none"},
                         tasks : [Ids -> Outcomes \cup {"none"}]]
         /\ results' \in [Ids -> Outcomes \cup {"none"}]
         /\ tasks' = {} /\ submitted' = {} /\ gathered' = {}
         /\ inFlight' = 0
         /\ drainPc' = "idle"
BY DEF Finalize

\* A step of the drain keeps the types.
LEMMA DrainStepType ==
  ASSUME TypeOK, DrainStep
  PROVE  TypeOK'
<1>1. CASE WaitAllTop          BY <1>1 DEF TypeOK, WaitAllTop, taskVars
<1>2. CASE WaitAllBody
  BY <1>2, PullType DEF TypeOK, WaitAllBody
<1>3. CASE DrainReturns
  BY <1>3, FinalizeType DEF TypeOK, DrainReturns, taskVars
<1>4. CASE TimedOut            BY <1>4 DEF TypeOK, TimedOut, taskVars
<1>5. CASE CancelAndSeed
  <2>1. <<>> \in Seq(Ids)  OBVIOUS
  <2>2. CASE tasks = {} /\ Finalize("interrupted", Seeded)
    BY <1>5, <2>1, <2>2, FinalizeType, SeededType DEF TypeOK, CancelAndSeed
  <2>3. CASE tasks # {} /\ results' = Seeded
    BY <1>5, <2>1, <2>3, SeededType DEF TypeOK, CancelAndSeed
  <2> QED BY <1>5, <2>2, <2>3 DEF CancelAndSeed
<1>6. CASE Reaped
  BY <1>6, FinalizeType DEF TypeOK, Reaped, taskVars
<1>7. CASE Unwound             BY <1>7 DEF TypeOK, Unwound, taskVars
<1> QED BY <1>1, <1>2, <1>3, <1>4, <1>5, <1>6, <1>7 DEF DrainStep

\* Every step keeps the types.
LEMMA NextType == TypeOK /\ [Next]_vars => TypeOK'
<1> SUFFICES ASSUME TypeOK, [Next]_vars PROVE TypeOK'
  OBVIOUS
<1>1. ASSUME NEW t \in Ids, Submit(t) PROVE TypeOK'
  <2>1. /\ submitted' \subseteq Ids
        /\ proc' \in [Ids -> {"none", "alive", "killed", "exited"}]
        /\ UNCHANGED <<results, cancelReq, drainPc, gathered, report>>
    BY <1>1 DEF TypeOK, Submit
  <2>2. \/ /\ inFlight' = inFlight + 1 /\ tasks' = tasks \cup {t}
           /\ pc' = [pc EXCEPT ![t] = "created"] /\ pending' = pending
        \/ /\ inFlight' = inFlight /\ tasks' = tasks
           /\ pc' = [pc EXCEPT ![t] = "queued"] /\ pending' = Append(pending, t)
    BY <1>1 DEF Submit
  <2>3. pending' \in Seq(Ids)  BY <2>2 DEF TypeOK
  <2> QED BY <2>1, <2>2, <2>3 DEF TypeOK
<1>2. ASSUME NEW t \in Ids, TaskStep(t) PROVE TypeOK'
  BY <1>2, TaskStepType
<1>3. ASSUME NEW t \in Ids, Exit(t) PROVE TypeOK'
  BY <1>3 DEF TypeOK, Exit
<1>4. ASSUME NEW t \in Ids, Die(t) PROVE TypeOK'
  BY <1>4 DEF TypeOK, Die
<1>5. CASE RunUntilDrained
  BY <1>5 DEF TypeOK, RunUntilDrained, NoReport, taskVars
<1>6. CASE DrainStep     BY <1>6, DrainStepType
<1>7. CASE DrainTimeout  BY <1>7 DEF TypeOK, DrainTimeout
<1>8. CASE CancelDrain   BY <1>8 DEF TypeOK, CancelDrain
<1>9. CASE UNCHANGED vars
  BY <1>9 DEF TypeOK, vars, taskVars
<1> QED
  BY <1>1, <1>2, <1>3, <1>4, <1>5, <1>6, <1>7, <1>8, <1>9 DEF Next

\* Every state the executor reaches has the shape TypeOK gives it.
THEOREM TypeCorrect == Spec => []TypeOK
<1>1. Init => TypeOK
  BY DEF Init, TypeOK, NoReport
<1> QED BY <1>1, NextType, PTL DEF Spec

-----------------------------------------------------------------------------
(* No orphan, whoever submits and cancels.  A live subprocess belongs to a *)
(* coroutine that is spawning it or waiting for it, and the FIFO holds     *)
(* each id once and only ids that were never started, so taking one off    *)
(* the FIFO cannot restart a coroutine that owns a process.                *)

ProcInv == \A t \in Ids : proc[t] = "alive" => pc[t] \in {"spawning", "running"}

QueueInv == /\ \A i \in 1 .. Len(pending) : pc[pending[i]] = "queued"
            /\ \A i, j \in 1 .. Len(pending) : pending[i] = pending[j] => i = j

OrphanInv == TypeOK /\ ProcInv /\ QueueInv

\* A step of a coroutine starts at an active pc and does not end at "queued".
LEMMA TaskStepPc ==
  ASSUME TypeOK, NEW t \in Ids, TaskStep(t)
  PROVE  /\ Active(t)
         /\ pc'[t] \notin {"new", "queued", "dropped", "created"}
         /\ \A u \in Ids \ {t} : pc'[u] = pc[u] /\ proc'[u] = proc[u]
         /\ pending' = pending /\ submitted' = submitted /\ inFlight' = inFlight
         /\ drainPc' = drainPc /\ gathered' = gathered /\ report' = report
BY DEF TypeOK, TaskStep, Start, StartFails, CancelUnstarted, Spawned, AbortSpawn,
       Communicated, TaskTimeout, Expired, CancelRunning, CancelDone, Kill,
       Finish, Record

\* The coroutine that moves leaves no process alive behind its back.
LEMMA TaskStepProc ==
  ASSUME TypeOK, ProcInv, NEW t \in Ids, TaskStep(t)
  PROVE  proc'[t] = "alive" => pc'[t] \in {"spawning", "running"}
<1>1. CASE Start(t)            BY <1>1 DEF TypeOK, Start
<1>2. CASE StartFails(t)       BY <1>2 DEF TypeOK, ProcInv, StartFails
<1>3. CASE CancelUnstarted(t)  BY <1>3 DEF TypeOK, ProcInv, CancelUnstarted
<1>4. CASE Spawned(t)          BY <1>4 DEF TypeOK, Spawned
<1>5. CASE AbortSpawn(t)       BY <1>5 DEF TypeOK, AbortSpawn, Kill
<1>6. CASE Communicated(t)     BY <1>6 DEF TypeOK, Communicated
<1>7. CASE TaskTimeout(t)      BY <1>7 DEF TypeOK, TaskTimeout, Kill
<1>8. CASE Expired(t)          BY <1>8 DEF TypeOK, Expired
<1>9. CASE CancelRunning(t)    BY <1>9 DEF TypeOK, CancelRunning, Kill
<1>10. CASE CancelDone(t)      BY <1>10 DEF TypeOK, ProcInv, CancelDone
<1> QED
  BY <1>1, <1>2, <1>3, <1>4, <1>5, <1>6, <1>7, <1>8, <1>9, <1>10 DEF TaskStep

\* An element of the FIFO is an id.
LEMMA PendingElement ==
  ASSUME TypeOK, NEW i \in 1 .. Len(pending)
  PROVE  pending[i] \in Ids
BY DEF TypeOK

\* A fresh id enters with no process of its own, whatever its previous life left.
LEMMA SubmitOrphan ==
  ASSUME OrphanInv, NEW t \in Ids, Submit(t)
  PROVE  ProcInv' /\ QueueInv'
<1> USE DEF OrphanInv
<1>1. /\ pc[t] \in Ended \cup {"new", "dropped"}
      /\ t \notin Queued
      /\ proc' = [proc EXCEPT ![t] = "none"]
  BY DEF Submit, Fresh
<1>2. \/ pc' = [pc EXCEPT ![t] = "created"] /\ pending' = pending
      \/ pc' = [pc EXCEPT ![t] = "queued"] /\ pending' = Append(pending, t)
  BY DEF Submit
<1>3. ProcInv'
  BY <1>1, <1>2 DEF TypeOK, ProcInv
<1>4. \A i \in 1 .. Len(pending) : pending[i] \in Ids /\ pending[i] # t
  BY <1>1, PendingElement DEF Queued
<1>5. QueueInv'
  <2>1. CASE pc' = [pc EXCEPT ![t] = "created"] /\ pending' = pending
    BY <1>4, <2>1 DEF TypeOK, QueueInv
  <2>2. CASE pc' = [pc EXCEPT ![t] = "queued"] /\ pending' = Append(pending, t)
    <3>1. /\ Len(pending') = Len(pending) + 1
          /\ Len(pending) \in Nat
          /\ pending'[Len(pending) + 1] = t
          /\ \A i \in 1 .. Len(pending) : pending'[i] = pending[i]
      BY <2>2 DEF TypeOK
    <3>2. \A i \in 1 .. Len(pending) : pc'[pending[i]] = "queued"
      BY <1>4, <2>2 DEF TypeOK, QueueInv
    <3>3. pc'[t] = "queued"  BY <2>2 DEF TypeOK
    <3>4. \A i \in 1 .. Len(pending') : i \in 1 .. Len(pending) \/ i = Len(pending) + 1
      BY <3>1
    <3>5. \A i \in 1 .. Len(pending') : pc'[pending'[i]] = "queued"
      BY <3>1, <3>2, <3>3, <3>4
    <3>6. \A i, j \in 1 .. Len(pending') : pending'[i] = pending'[j] => i = j
      BY <1>4, <3>1, <3>4 DEF QueueInv
    <3> QED BY <3>5, <3>6 DEF QueueInv
  <2> QED BY <1>2, <2>1, <2>2
<1> QED BY <1>3, <1>5

\* Dispatching from the FIFO touches queued ids only, and those have no process.
LEMMA WaitAllBodyOrphan ==
  ASSUME OrphanInv, WaitAllBody
  PROVE  ProcInv' /\ QueueInv'
<1> USE DEF OrphanInv
<1>1. /\ Pulls \in Nat /\ Pulls <= Len(pending)
      /\ Len(pending) \in Nat
      /\ pending' = SubSeq(pending, Pulls + 1, Len(pending))
      /\ pc' = [t \in Ids |-> IF t \in Pulled THEN "created" ELSE pc[t]]
      /\ proc' = proc
  BY PullType DEF WaitAllBody, TypeOK
<1>2. ASSUME NEW t \in Ids, proc'[t] = "alive"
      PROVE  pc'[t] \in {"spawning", "running"}
  <2>1. pc[t] \in {"spawning", "running"}
    BY <1>1, <1>2 DEF ProcInv
  <2>2. t \notin Pulled
    BY <1>1, <2>1 DEF Pulled, QueueInv
  <2> QED BY <1>1, <2>1, <2>2
<1>3. /\ Len(pending') = Len(pending) - Pulls
      /\ \A i \in 1 .. Len(pending') : /\ pending'[i] = pending[i + Pulls]
                                       /\ i + Pulls \in 1 .. Len(pending)
                                       /\ i + Pulls > Pulls
  BY <1>1 DEF TypeOK
<1>4. \A i \in 1 .. Len(pending') : pending'[i] \notin Pulled
  <2> SUFFICES ASSUME NEW i \in 1 .. Len(pending'), NEW j \in 1 .. Pulls,
                      pending'[i] = pending[j]
               PROVE  FALSE
    BY DEF Pulled
  <2>1. pending[i + Pulls] = pending[j] /\ i + Pulls \in 1 .. Len(pending)
    BY <1>3
  <2>2. j \in 1 .. Len(pending)  BY <1>1
  <2>3. i + Pulls = j  BY <2>1, <2>2 DEF QueueInv
  <2> QED BY <1>1, <1>3, <2>3
<1>5. \A i \in 1 .. Len(pending') : pending'[i] \in Ids
  BY <1>3, PendingElement
<1>6. \A i \in 1 .. Len(pending') : pc'[pending'[i]] = "queued"
  BY <1>1, <1>3, <1>4, <1>5 DEF QueueInv
<1>7. \A i, j \in 1 .. Len(pending') : pending'[i] = pending'[j] => i = j
  <2> SUFFICES ASSUME NEW i \in 1 .. Len(pending'), NEW j \in 1 .. Len(pending'),
                      pending'[i] = pending'[j]
               PROVE  i = j
    OBVIOUS
  <2>1. /\ pending[i + Pulls] = pending[j + Pulls]
        /\ i + Pulls \in 1 .. Len(pending) /\ j + Pulls \in 1 .. Len(pending)
    BY <1>3
  <2>2. i + Pulls = j + Pulls  BY ONLY <2>1, QueueInv DEF QueueInv
  <2>3. i \in Int /\ j \in Int /\ Pulls \in Int  BY ONLY <1>1
  <2> QED BY ONLY <2>2, <2>3
<1> QED BY <1>2, <1>6, <1>7 DEF ProcInv, QueueInv

\* Every step keeps the strengthening of NoOrphan.
LEMMA NextOrphan == OrphanInv /\ [Next]_vars => OrphanInv'
<1> SUFFICES ASSUME OrphanInv, [Next]_vars PROVE OrphanInv'
  OBVIOUS
<1> USE DEF OrphanInv
<1>0. TypeOK'  BY NextType
<1> SUFFICES ProcInv' /\ QueueInv'  BY <1>0
<1>1. ASSUME NEW t \in Ids, Submit(t) PROVE ProcInv' /\ QueueInv'
  BY <1>1, SubmitOrphan
<1>2. ASSUME NEW t \in Ids, TaskStep(t) PROVE ProcInv' /\ QueueInv'
  <2>1. ProcInv'
    BY <1>2, TaskStepPc, TaskStepProc DEF ProcInv
  <2>2. \A i \in 1 .. Len(pending) : pending[i] # t
    BY <1>2, TaskStepPc DEF QueueInv
  <2>3. QueueInv'
    BY <1>2, <2>2, TaskStepPc, PendingElement DEF QueueInv
  <2> QED BY <2>1, <2>3
<1>3. ASSUME NEW t \in Ids, Exit(t) \/ Die(t) PROVE ProcInv' /\ QueueInv'
  BY <1>3 DEF TypeOK, Exit, Die, ProcInv, QueueInv
<1>4. CASE WaitAllBody  BY <1>4, WaitAllBodyOrphan
<1>5. CASE CancelAndSeed
  <2>1. \A t \in Ids : pc[t] \in {"spawning", "running"} => t \notin Queued
    BY DEF Queued, QueueInv
  <2>2. ProcInv'
    BY <1>5, <2>1 DEF ProcInv, CancelAndSeed
  <2>3. Len(<<>>) = 0  OBVIOUS
  <2>4. QueueInv'
    BY <1>5, <2>3 DEF QueueInv, CancelAndSeed
  <2> QED BY <2>2, <2>4
<1>6. CASE /\ UNCHANGED <<pending, pc, proc>>
  BY <1>6 DEF ProcInv, QueueInv
<1>7. CASE \/ RunUntilDrained \/ WaitAllTop \/ DrainReturns \/ TimedOut \/ Reaped
           \/ Unwound \/ DrainTimeout \/ CancelDrain \/ UNCHANGED vars
  <2>1. UNCHANGED <<pending, pc, proc>>
    BY <1>7 DEF RunUntilDrained, WaitAllTop, DrainReturns, TimedOut, Reaped,
                Unwound, DrainTimeout, CancelDrain, vars, taskVars
  <2> QED BY <1>6, <2>1
<1> QED BY <1>1, <1>2, <1>3, <1>4, <1>5, <1>7 DEF Next, DrainStep

\* NFR-03, "no orphan": however a coroutine ends, its subprocess is not left
\* running, for any callers, any cap and any pattern of cancellations.
THEOREM NoOrphanCorrect == Spec => []NoOrphan
<1>1. Init => OrphanInv
  <2>1. Init => TypeOK  BY DEF Init, TypeOK, NoReport
  <2>2. Len(<<>>) = 0  OBVIOUS
  <2> QED BY <2>1, <2>2 DEF Init, OrphanInv, ProcInv, QueueInv
<1>2. OrphanInv => NoOrphan
  BY DEF OrphanInv, ProcInv, NoOrphan
<1> QED BY <1>1, <1>2, NextOrphan, PTL DEF Spec

-----------------------------------------------------------------------------
(* A cancellation reaches every coroutine it is for, whoever submits.      *)

\* A step of a coroutine consumes at most its own cancellation, and one that has
\* a cancellation before it cannot take a step that would ignore it and go on.
LEMMA TaskStepCancel ==
  ASSUME TypeOK, NEW t \in Ids, TaskStep(t)
  PROVE  /\ cancelReq \ {t} \subseteq cancelReq' /\ cancelReq' \subseteq cancelReq
         /\ t \in cancelReq' => Active(t)'
         /\ t \in cancelReq \/ pc[t] \in {"aborting", "cancelling"} =>
              \/ pc'[t] \in Ended
              \/ pc'[t] \in {"aborting", "cancelling"} /\ proc'[t] # "alive"
<1> USE DEF TypeOK
<1>1. CASE Start(t)            BY <1>1 DEF Start
<1>2. CASE StartFails(t)       BY <1>2 DEF StartFails, Finish
<1>3. CASE CancelUnstarted(t)  BY <1>3 DEF CancelUnstarted
<1>4. CASE Spawned(t)          BY <1>4 DEF Spawned
<1>5. CASE AbortSpawn(t)       BY <1>5 DEF AbortSpawn, Kill
<1>6. CASE Communicated(t)     BY <1>6 DEF Communicated, Finish
<1>7. CASE TaskTimeout(t)      BY <1>7 DEF TaskTimeout
<1>8. CASE Expired(t)          BY <1>8 DEF Expired, Finish
<1>9. CASE CancelRunning(t)    BY <1>9 DEF CancelRunning, Kill
<1>10. CASE CancelDone(t)      BY <1>10 DEF CancelDone, Finish
<1> QED
  BY <1>1, <1>2, <1>3, <1>4, <1>5, <1>6, <1>7, <1>8, <1>9, <1>10 DEF TaskStep

\* Every step keeps what a withdrawing drain awaits under cancellation.
LEMMA NextReaches == TypeOK /\ CancelReaches /\ [Next]_vars => CancelReaches'
<1> SUFFICES ASSUME TypeOK, CancelReaches, [Next]_vars PROVE CancelReaches'
  OBVIOUS
<1> USE DEF TypeOK, CancelReaches, Withdrawing
<1>1. ASSUME NEW t \in Ids, Submit(t) PROVE CancelReaches'
  <2>1. /\ t \notin gathered /\ UNCHANGED <<cancelReq, drainPc, gathered>>
        /\ \A u \in Ids \ {t} : pc'[u] = pc[u] /\ proc'[u] = proc[u]
    BY <1>1 DEF Submit, Fresh
  <2>. QED
    BY <2>1
<1>2. ASSUME NEW t \in Ids, TaskStep(t) PROVE CancelReaches'
  <2>1. UNCHANGED <<drainPc, gathered>>
    BY <1>2, TaskStepPc
  <2>2. ASSUME Withdrawing, NEW u \in gathered, Active(u)'
        PROVE  u \in cancelReq' \/ (pc'[u] \in {"aborting", "cancelling"} /\ proc'[u] # "alive")
    <3>1. CASE u = t
      BY <1>2, <2>2, <3>1, TaskStepPc, TaskStepCancel
    <3>2. CASE u # t
      BY <1>2, <2>2, <3>2, TaskStepPc, TaskStepCancel
    <3>. QED
      BY <3>1, <3>2
  <2>. QED
    BY <2>1, <2>2
<1>3. ASSUME NEW t \in Ids, Exit(t) \/ Die(t) PROVE CancelReaches'
  BY <1>3 DEF Exit, Die
<1>4. CASE DrainTimeout
  BY <1>4 DEF DrainTimeout
<1>5. CASE CancelDrain
  BY <1>5 DEF CancelDrain
<1>6. CASE CancelAndSeed
  <2>1. CASE drainPc' = "idle"
    BY <2>1
  <2>2. CASE gathered' = tasks
    <3>1. /\ cancelReq' = cancelReq \cup {t \in tasks : Active(t)}
          /\ pc' = [t \in Ids |-> IF t \in Queued THEN "dropped" ELSE pc[t]]
      BY <1>6 DEF CancelAndSeed
    <3>. QED
      BY <2>2, <3>1
  <2>. QED
    BY <1>6, <2>1, <2>2 DEF CancelAndSeed, Finalize
<1>7. CASE WaitAllBody
  <2>1. drainPc' \in {"returned", "top"}
    BY <1>7 DEF WaitAllBody
  <2>. QED
    BY <2>1
<1>8. CASE \/ RunUntilDrained \/ WaitAllTop \/ DrainReturns \/ TimedOut \/ Reaped
           \/ Unwound \/ UNCHANGED vars
  BY <1>8 DEF RunUntilDrained, WaitAllTop, DrainReturns, TimedOut, Reaped, Unwound,
              Finalize, vars, taskVars
<1>. QED
  BY <1>1, <1>2, <1>3, <1>4, <1>5, <1>6, <1>7, <1>8 DEF Next, DrainStep

\* CancelReaches, for any callers: each coroutine a timed-out or cancelled drain
\* waits for is told, or was told and has killed its subprocess, so the wait for
\* it (executor.py:265) is a wait for the kernel and not for the command.
THEOREM CancelReachesCorrect == Spec => []CancelReaches
<1>1. Init => TypeOK /\ CancelReaches
  BY DEF Init, TypeOK, NoReport, CancelReaches, Withdrawing
<1>2. TypeOK /\ CancelReaches /\ [Next]_vars => TypeOK' /\ CancelReaches'
  BY NextType, NextReaches
<1> QED BY <1>1, <1>2, PTL DEF Spec

-----------------------------------------------------------------------------
(* The cap, for callers that submit between drains only.  Each coroutine   *)
(* that has not ended is in _tasks and in the ledger of the current wave,  *)
(* and the ids of the wave that were dispatched are no more than the slots *)
(* _in_flight_count says are taken.  A drain that finalizes does so when   *)
(* nothing is left running, so the next wave starts from zero.             *)

Dispatched == {t \in submitted : pc[t] \notin {"queued", "dropped"}}

SlotInv == /\ IsFiniteSet(submitted)
           /\ Cardinality(Dispatched) <= inFlight
           /\ inFlight <= MaxConcurrent
           /\ pending # <<>> => inFlight = MaxConcurrent

WaveInv == /\ Tracked
           /\ tasks \subseteq submitted
           /\ Queued \subseteq submitted
           /\ drainPc = "returned" => tasks = {}
           /\ drainPc = "reaping" => tasks \subseteq gathered
           /\ drainPc \in {"returned", "reaping"} => pending = <<>>

CapInv == OrphanInv /\ SlotInv /\ WaveInv

\* A step that moves no id into or out of Dispatched keeps the slot accounting.
LEMMA SlotFrame ==
  ASSUME SlotInv, UNCHANGED <<submitted, inFlight, pending>>, Dispatched' = Dispatched
  PROVE  SlotInv'
BY DEF SlotInv

\* With no id in the wave and no slot taken, the accounting starts afresh.
LEMMA SlotReset ==
  ASSUME submitted' = {}, inFlight' = 0, pending' = <<>>
  PROVE  SlotInv'
<1>1. Dispatched' = {}  BY DEF Dispatched
<1> QED BY <1>1, FS_EmptySet, MaxConcurrentAssumption DEF SlotInv

\* Finalizing is sound when no coroutine is left: it empties _tasks.
LEMMA FinalizeCap ==
  ASSUME CapInv, NEW status, NEW ledger, Finalize(status, ledger),
         pending' = <<>>, \A t \in Ids : pc'[t] \notin {"created", "spawning",
                       "running", "expiring", "aborting", "cancelling"}
  PROVE  SlotInv' /\ WaveInv'
<1>1. SlotInv'
  BY SlotReset DEF Finalize
<1>2. Len(<<>>) = 0  OBVIOUS
<1>3. WaveInv'
  BY <1>2 DEF Finalize, WaveInv, Tracked, Queued
<1> QED BY <1>1, <1>3

\* submit takes a free slot for the id it dispatches, or queues the id.
LEMMA SubmitCap ==
  ASSUME CapInv, ~ConcurrentSubmit, NEW t \in Ids, Submit(t)
  PROVE  SlotInv' /\ WaveInv'
<1> USE DEF CapInv, OrphanInv
<1>1. /\ drainPc = "idle" /\ drainPc' = "idle" /\ gathered' = gathered
      /\ t \notin submitted /\ t \notin Queued
      /\ submitted' = submitted \cup {t}
  BY DEF Submit, Fresh
<1>2. \A u \in submitted : u # t /\ u \in Ids
  BY <1>1 DEF TypeOK
<1>3. IsFiniteSet(submitted') /\ IsFiniteSet(Dispatched)
      /\ Cardinality(Dispatched) \in Nat /\ t \notin Dispatched
  BY <1>1, FS_AddElement, FS_Subset, FS_CardinalityType DEF SlotInv, Dispatched
<1>4. CASE HasSlot
  <2>1. /\ inFlight' = inFlight + 1 /\ tasks' = tasks \cup {t} /\ pending' = pending
        /\ pc' = [pc EXCEPT ![t] = "created"]
    BY <1>4 DEF Submit
  <2>2. Dispatched' = Dispatched \cup {t}
    BY <1>1, <1>2, <2>1 DEF Dispatched, TypeOK
  <2>3. Cardinality(Dispatched') = Cardinality(Dispatched) + 1
    BY <1>3, <2>2, FS_AddElement
  <2>4. SlotInv'
    BY <1>3, <1>4, <2>1, <2>3, MaxConcurrentAssumption DEF SlotInv, HasSlot, TypeOK
  <2>5. WaveInv'
    BY <1>1, <2>1 DEF WaveInv, Tracked, Queued, TypeOK
  <2> QED BY <2>4, <2>5
<1>5. CASE ~HasSlot
  <2>1. /\ inFlight' = inFlight /\ tasks' = tasks /\ pending' = Append(pending, t)
        /\ pc' = [pc EXCEPT ![t] = "queued"]
    BY <1>5 DEF Submit
  <2>2. Dispatched' = Dispatched
    BY <1>1, <1>2, <2>1 DEF Dispatched, TypeOK
  <2>3. SlotInv'
    BY <1>3, <1>5, <2>1, <2>2, MaxConcurrentAssumption DEF SlotInv, HasSlot, TypeOK
  <2>4. Queued' = Queued \cup {t}
    <3>1. /\ Len(pending') = Len(pending) + 1 /\ Len(pending) \in Nat
          /\ pending'[Len(pending) + 1] = t
          /\ \A i \in 1 .. Len(pending) : pending'[i] = pending[i]
      BY <2>1 DEF TypeOK
    <3>2. 1 .. Len(pending') = (1 .. Len(pending)) \cup {Len(pending) + 1}
      BY <3>1
    <3> QED BY <3>1, <3>2 DEF Queued
  <2>5. WaveInv'
    BY <1>1, <2>1, <2>4 DEF WaveInv, Tracked, TypeOK
  <2> QED BY <2>3, <2>5
<1> QED BY <1>4, <1>5

\* A step of one coroutine neither takes a slot nor frees one.
LEMMA TaskStepCap ==
  ASSUME CapInv, NEW t \in Ids, TaskStep(t)
  PROVE  SlotInv' /\ WaveInv'
<1> USE DEF CapInv, OrphanInv
<1>1. Dispatched' = Dispatched
  BY TaskStepPc DEF Dispatched, TypeOK
<1>2. SlotInv'
  BY <1>1, TaskStepPc, SlotFrame
<1>3. tasks' \subseteq tasks /\ tasks \ {t} \subseteq tasks'
  BY DEF TaskStep, Start, StartFails, CancelUnstarted, Spawned, AbortSpawn,
         Communicated, TaskTimeout, Expired, CancelRunning, CancelDone, Finish
<1>4. pc'[t] \in {"spawning", "running", "expiring", "aborting", "cancelling"}
        => tasks' = tasks
  BY DEF TypeOK, TaskStep, Start, StartFails, CancelUnstarted, Spawned, AbortSpawn,
         Communicated, TaskTimeout, Expired, CancelRunning, CancelDone, Finish
<1>5. Tracked'
  BY <1>3, <1>4, TaskStepPc DEF Tracked, WaveInv
<1>6. WaveInv'
  BY <1>3, <1>5, TaskStepPc DEF WaveInv, Queued
<1> QED BY <1>2, <1>6

\* With sequential callers the FIFO is only non-empty when no slot is free, so
\* _wait_all never takes anything off it.
LEMMA WaitAllBodyCap ==
  ASSUME CapInv, WaitAllBody
  PROVE  SlotInv' /\ WaveInv'
<1> USE DEF CapInv, OrphanInv
<1>1. Pulls = 0
  <2>1. pending = <<>> => Len(pending) = 0  OBVIOUS
  <2> QED BY <2>1, MaxConcurrentAssumption DEF Pulls, SlotInv, TypeOK
<1>2. Pulled = {}  BY <1>1 DEF Pulled
<1>3. pending' = pending
  <2>1. pending' = SubSeq(pending, 1, Len(pending))
    BY <1>1 DEF WaitAllBody
  <2> QED BY <2>1 DEF TypeOK
<1>4. /\ UNCHANGED <<tasks, inFlight, pc, submitted>>
      /\ drainPc' = "returned" => tasks' = {} /\ pending' = <<>>
      /\ drainPc' # "reaping"
  BY <1>1, <1>2 DEF WaitAllBody, TypeOK
<1>5. SlotInv'  BY <1>3, <1>4, SlotFrame DEF Dispatched
<1>6. WaveInv'
  BY <1>3, <1>4 DEF WaveInv, Tracked, Queued
<1> QED BY <1>5, <1>6

\* What the deadline drops from the FIFO never held a slot.
LEMMA CancelAndSeedCap ==
  ASSUME CapInv, CancelAndSeed
  PROVE  SlotInv' /\ WaveInv'
<1> USE DEF CapInv, OrphanInv
<1>1. /\ pending' = <<>>
      /\ pc' = [t \in Ids |-> IF t \in Queued THEN "dropped" ELSE pc[t]]
      /\ \/ tasks = {} /\ Finalize("interrupted", Seeded)
         \/ /\ gathered' = tasks /\ drainPc' = "reaping"
            /\ UNCHANGED <<tasks, submitted, inFlight>>
  BY DEF CancelAndSeed
<1>2. \A t \in Queued : pc[t] = "queued"
  BY DEF Queued, QueueInv
<1>3. \A t \in Ids : pc'[t] = IF t \in Queued THEN "dropped" ELSE pc[t]
  BY <1>1
<1>4. CASE tasks = {} /\ Finalize("interrupted", Seeded)
  <2>1. \A t \in Ids : ~Active(t)
    BY <1>4 DEF WaveInv, Tracked
  <2>2. \A t \in Ids : pc'[t] \notin {"created", "spawning", "running", "expiring",
                                      "aborting", "cancelling"}
    BY <1>3, <2>1
  <2> QED BY <1>1, <1>4, <2>2, FinalizeCap
<1>5. CASE /\ gathered' = tasks /\ drainPc' = "reaping"
           /\ UNCHANGED <<tasks, submitted, inFlight>>
  <2>1. Dispatched' = Dispatched
    BY <1>2, <1>3, <1>5 DEF Dispatched, TypeOK
  <2>2. SlotInv'
    BY <1>1, <1>5, <2>1 DEF SlotInv
  <2>3. Queued' = {}
    <3>1. Len(<<>>) = 0  OBVIOUS
    <3> QED BY <1>1, <3>1 DEF Queued
  <2>4. WaveInv'
    BY <1>1, <1>3, <1>5, <2>3 DEF WaveInv, Tracked
  <2> QED BY <2>2, <2>4
<1> QED BY <1>1, <1>4, <1>5

\* With a single submitter every step keeps the strengthening of LiveWithinCap.
LEMMA NextCap == ~ConcurrentSubmit /\ CapInv /\ [Next]_vars => CapInv'
<1> SUFFICES ASSUME ~ConcurrentSubmit, CapInv, [Next]_vars PROVE CapInv'
  OBVIOUS
<1>0. OrphanInv'  BY NextOrphan DEF CapInv
<1> SUFFICES SlotInv' /\ WaveInv'  BY <1>0 DEF CapInv
<1>1. ASSUME NEW t \in Ids, Submit(t) PROVE SlotInv' /\ WaveInv'
  BY <1>1, SubmitCap
<1>2. ASSUME NEW t \in Ids, TaskStep(t) PROVE SlotInv' /\ WaveInv'
  BY <1>2, TaskStepCap
<1>3. CASE WaitAllBody    BY <1>3, WaitAllBodyCap
<1>4. CASE CancelAndSeed  BY <1>4, CancelAndSeedCap
<1>5. CASE DrainReturns
  <2>1. Finalize("drained", results) /\ UNCHANGED <<pending, pc>>
    BY <1>5 DEF DrainReturns, taskVars
  <2>2. pending = <<>> /\ tasks = {}
    BY <1>5 DEF DrainReturns, CapInv, WaveInv
  <2>3. \A t \in Ids : ~Active(t)
    BY <2>2 DEF CapInv, WaveInv, Tracked
  <2> QED BY <2>1, <2>2, <2>3, FinalizeCap
<1>6. CASE Reaped
  <2>1. Finalize("interrupted", results) /\ UNCHANGED <<pending, pc>>
    BY <1>6 DEF Reaped, taskVars
  <2>2. pending = <<>> /\ tasks \subseteq gathered /\ GatherDone
    BY <1>6 DEF Reaped, CapInv, WaveInv
  <2>3. \A t \in Ids : ~Active(t)
    BY <2>2 DEF CapInv, WaveInv, Tracked, GatherDone
  <2> QED BY <2>1, <2>2, <2>3, FinalizeCap
<1>7. ASSUME UNCHANGED <<pending, tasks, submitted, inFlight, pc>>,
             drainPc' = drainPc => gathered' = gathered,
             drainPc' # drainPc => drainPc' \notin {"returned", "reaping"}
      PROVE  SlotInv' /\ WaveInv'
  <2>1. Dispatched' = Dispatched  BY <1>7 DEF Dispatched
  <2>2. SlotInv'  BY <1>7, <2>1, SlotFrame DEF CapInv
  <2>3. WaveInv'
    BY <1>7 DEF CapInv, WaveInv, Tracked, Queued
  <2> QED BY <2>2, <2>3
<1>8. ASSUME NEW t \in Ids, Exit(t) \/ Die(t) PROVE SlotInv' /\ WaveInv'
  BY <1>7, <1>8 DEF Exit, Die
<1>9. CASE RunUntilDrained  BY <1>7, <1>9 DEF RunUntilDrained, taskVars
<1>10. CASE WaitAllTop      BY <1>7, <1>10 DEF WaitAllTop, taskVars
<1>11. CASE TimedOut        BY <1>7, <1>11 DEF TimedOut, taskVars
<1>12. CASE Unwound         BY <1>7, <1>12 DEF Unwound, taskVars
<1>13. CASE DrainTimeout    BY <1>7, <1>13 DEF DrainTimeout
<1>14. CASE CancelDrain     BY <1>7, <1>14 DEF CancelDrain
<1>15. CASE UNCHANGED vars  BY <1>7, <1>15 DEF vars, taskVars
<1> QED
  BY <1>1, <1>2, <1>3, <1>4, <1>5, <1>6, <1>8, <1>9, <1>10, <1>11, <1>12, <1>13,
     <1>14, <1>15 DEF Next, DrainStep

\* A new executor has no id in any place.
LEMMA InitCap == Init => CapInv
<1> SUFFICES ASSUME Init PROVE CapInv  OBVIOUS
<1>1. TypeOK  BY DEF Init, TypeOK, NoReport
<1>2. Len(<<>>) = 0 /\ Dispatched = {}  BY DEF Init, Dispatched
<1>3. ProcInv /\ QueueInv  BY <1>2 DEF Init, ProcInv, QueueInv
<1>4. SlotInv  BY <1>2, FS_EmptySet, MaxConcurrentAssumption DEF Init, SlotInv
<1>5. WaveInv  BY <1>2 DEF Init, WaveInv, Tracked, Queued
<1> QED BY <1>1, <1>3, <1>4, <1>5 DEF CapInv, OrphanInv

\* The slot accounting and the wave bookkeeping hold in every state.
LEMMA CapInvariant == ASSUME ~ConcurrentSubmit PROVE Spec => []CapInv
BY InitCap, NextCap, PTL DEF Spec

\* Every live subprocess is one of the wave's dispatched ids.
LEMMA CapInvImpliesCap == CapInv => LiveWithinCap
<1> SUFFICES ASSUME CapInv PROVE LiveWithinCap  OBVIOUS
<1> DEFINE Live == {t \in Ids : proc[t] = "alive"}
<1>1. Live \subseteq Dispatched
  BY DEF CapInv, OrphanInv, ProcInv, WaveInv, Tracked, Dispatched
<1>2. IsFiniteSet(Dispatched)
  BY FS_Subset DEF CapInv, SlotInv, Dispatched
<1>3. /\ Cardinality(Live) \in Nat /\ Cardinality(Dispatched) \in Nat
      /\ Cardinality(Live) <= Cardinality(Dispatched)
  BY <1>1, <1>2, FS_Subset, FS_CardinalityType
<1>4. Cardinality(Dispatched) <= inFlight /\ inFlight <= MaxConcurrent /\ inFlight \in Nat
  BY DEF CapInv, OrphanInv, SlotInv, TypeOK
<1>5. Cardinality(Live) <= MaxConcurrent
  BY <1>3, <1>4, MaxConcurrentAssumption
<1> QED BY <1>5 DEF LiveWithinCap

\* FR-08's cap: never more than max_concurrent live subprocesses, through any
\* number of waves, timeouts and cancelled drains.
THEOREM CapCorrect == ASSUME ~ConcurrentSubmit PROVE Spec => []LiveWithinCap
BY CapInvariant, CapInvImpliesCap, PTL

\* The drain gathers every coroutine that has not ended.
THEOREM TrackedCorrect == ASSUME ~ConcurrentSubmit PROVE Spec => []Tracked
<1>1. CapInv => Tracked  BY DEF CapInv, WaveInv
<1> QED BY <1>1, CapInvariant, PTL

\* Only the three finalizing steps deliver a report, and they do so when every
\* gathered coroutine has ended or no coroutine is in _tasks at all.
LEMMA DeliversQuiet ==
  ASSUME CapInv, [Next]_vars, Delivers
  PROVE  \A t \in Ids : ~Active(t) /\ proc[t] # "alive"
<1> USE DEF CapInv, OrphanInv
<1>1. DrainReturns \/ CancelAndSeed \/ Reaped
  <2>1. ASSUME NEW t \in Ids, Submit(t) \/ TaskStep(t) \/ Exit(t) \/ Die(t)
        PROVE  FALSE
    BY <2>1, TaskStepPc DEF Submit, Exit, Die, Delivers
  <2>2. ~(RunUntilDrained \/ WaitAllTop \/ WaitAllBody \/ TimedOut \/ Unwound
          \/ DrainTimeout \/ CancelDrain \/ UNCHANGED vars)
    BY DEF RunUntilDrained, WaitAllTop, WaitAllBody, TimedOut, Unwound,
           DrainTimeout, CancelDrain, vars, Delivers
  <2> QED BY <2>1, <2>2 DEF Next, DrainStep
<1>2. \A t \in Ids : ~Active(t)
  <2>1. CASE DrainReturns
    BY <2>1 DEF DrainReturns, WaveInv, Tracked
  <2>2. CASE CancelAndSeed
    <3>1. tasks = {}
      BY <2>2 DEF CancelAndSeed, Delivers
    <3> QED BY <3>1 DEF WaveInv, Tracked
  <2>3. CASE Reaped
    BY <2>3 DEF Reaped, GatherDone, WaveInv, Tracked
  <2> QED BY <1>1, <2>1, <2>2, <2>3
<1> QED BY <1>2 DEF ProcInv

\* When a drain returns, nothing it or an earlier drain dispatched still runs.
THEOREM QuietAfterDrainCorrect ==
  ASSUME ~ConcurrentSubmit PROVE Spec => QuietAfterDrain
<1>1. CapInv /\ [Next]_vars =>
        [Delivers => \A t \in Ids : ~Active(t) /\ proc[t] # "alive"]_vars
  BY DeliversQuiet
<1> QED BY <1>1, CapInvariant, PTL DEF Spec, QuietAfterDrain

-----------------------------------------------------------------------------
(* The cap, whoever submits.  _in_flight_count bounds the coroutines in    *)
(* _tasks in every case: each slot taken pays for at most one of them.     *)

SlotBound == /\ IsFiniteSet(tasks)
             /\ Cardinality(tasks) <= inFlight
             /\ inFlight <= MaxConcurrent

\* _wait_all takes no more ids off the FIFO than it counts.
LEMMA PulledCount ==
  ASSUME TypeOK
  PROVE  IsFiniteSet(Pulled) /\ Cardinality(Pulled) <= Pulls
<1> DEFINE Ids1 == 1 .. Pulls
           at == [i \in Ids1 |-> pending[i]]
<1>1. Pulls \in Nat
  BY PullType
<1>2. IsFiniteSet(Ids1) /\ Cardinality(Ids1) = Pulls
  BY <1>1, FS_Interval
<1>3. at \in Surjection(Ids1, Pulled)
  BY DEF Pulled, Surjection
<1>. QED
  BY <1>2, <1>3, FS_Surjection

\* Dropping elements or adding none keeps the bound.
LEMMA SlotShrinks ==
  ASSUME SlotBound, inFlight \in Nat, tasks' \subseteq tasks, inFlight' = inFlight
  PROVE  SlotBound'
<1>1. /\ IsFiniteSet(tasks') /\ Cardinality(tasks') <= Cardinality(tasks)
      /\ Cardinality(tasks') \in Nat /\ Cardinality(tasks) \in Nat
  BY FS_Subset, FS_CardinalityType DEF SlotBound
<1>. QED
  BY <1>1 DEF SlotBound

\* Every step keeps the bound.
LEMMA NextSlotBound == TypeOK /\ SlotBound /\ [Next]_vars => SlotBound'
<1> SUFFICES ASSUME TypeOK, SlotBound, [Next]_vars PROVE SlotBound'
  OBVIOUS
<1>1. inFlight \in Nat /\ Cardinality(tasks) \in Nat
  BY FS_CardinalityType DEF TypeOK, SlotBound
<1>2. ASSUME NEW t \in Ids, Submit(t) PROVE SlotBound'
  <2>1. t \notin tasks
    BY <1>2 DEF Submit, Fresh
  <2>2. CASE HasSlot
    <3>1. tasks' = tasks \cup {t} /\ inFlight' = inFlight + 1
      BY <1>2, <2>2 DEF Submit
    <3>2. IsFiniteSet(tasks') /\ Cardinality(tasks') = Cardinality(tasks) + 1
      BY <2>1, <3>1, FS_AddElement DEF SlotBound
    <3>. QED
      BY <1>1, <2>2, <3>1, <3>2, MaxConcurrentAssumption DEF SlotBound, HasSlot
  <2>3. CASE ~HasSlot
    BY <1>1, <1>2, <2>3, SlotShrinks DEF Submit
  <2>. QED
    BY <2>2, <2>3
<1>3. ASSUME NEW t \in Ids, TaskStep(t) PROVE SlotBound'
  <2>1. tasks' \subseteq tasks
    BY <1>3 DEF TaskStep, Start, StartFails, CancelUnstarted, Spawned, AbortSpawn,
                Communicated, TaskTimeout, Expired, CancelRunning, CancelDone, Finish
  <2>. QED
    BY <1>1, <1>3, <2>1, TaskStepPc, SlotShrinks
<1>4. CASE WaitAllBody
  <2>1. tasks' = tasks \cup Pulled /\ inFlight' = inFlight + Pulls
    BY <1>4 DEF WaitAllBody
  <2>2. /\ IsFiniteSet(Pulled) /\ Cardinality(Pulled) <= Pulls
        /\ Cardinality(Pulled) \in Nat /\ Cardinality(tasks \cap Pulled) \in Nat
    BY PulledCount, FS_CardinalityType, FS_Intersection DEF SlotBound
  <2>3. /\ IsFiniteSet(tasks')
        /\ Cardinality(tasks') = Cardinality(tasks) + Cardinality(Pulled)
                                   - Cardinality(tasks \cap Pulled)
    BY <2>1, <2>2, FS_Union DEF SlotBound
  <2>4. Pulls \in Nat /\ inFlight + Pulls <= MaxConcurrent
    BY <1>1, PullType, MaxConcurrentAssumption DEF Pulls, SlotBound, TypeOK
  <2>. QED
    BY <1>1, <2>1, <2>2, <2>3, <2>4 DEF SlotBound
<1>5. ASSUME NEW status, NEW ledger, Finalize(status, ledger) PROVE SlotBound'
  BY <1>5, FS_EmptySet, MaxConcurrentAssumption DEF Finalize, SlotBound
<1>6. CASE CancelAndSeed
  BY <1>1, <1>5, <1>6, SlotShrinks DEF CancelAndSeed
<1>7. CASE DrainReturns \/ Reaped
  BY <1>5, <1>7 DEF DrainReturns, Reaped
<1>8. ASSUME NEW t \in Ids, Exit(t) \/ Die(t) PROVE SlotBound'
  BY <1>1, <1>8, SlotShrinks DEF Exit, Die
<1>9. CASE \/ RunUntilDrained \/ WaitAllTop \/ TimedOut \/ Unwound
           \/ DrainTimeout \/ CancelDrain \/ UNCHANGED vars
  <2>1. UNCHANGED <<tasks, inFlight>>
    BY <1>9 DEF RunUntilDrained, WaitAllTop, TimedOut, Unwound, DrainTimeout,
                CancelDrain, vars
  <2>. QED
    BY <1>1, <2>1, SlotShrinks
<1>. QED
  BY <1>2, <1>3, <1>4, <1>6, <1>7, <1>8, <1>9 DEF Next, DrainStep

\* The cap can only be passed by a coroutine that is not in _tasks: whoever
\* submits, as long as every one that has not ended is tracked, no more than
\* max_concurrent subprocesses are alive.  (With submissions during a drain
\* _finalize_wave forgets coroutines; section 4 of README.md.)
THEOREM CapUnlessUntracked == Spec => [](Tracked => LiveWithinCap)
<1> DEFINE Inv == OrphanInv /\ SlotBound
<1>1. Init => Inv
  BY InitCap, FS_EmptySet, MaxConcurrentAssumption DEF Init, CapInv, SlotBound
<1>2. Inv /\ [Next]_vars => Inv'
  BY NextOrphan, NextSlotBound DEF OrphanInv
<1>3. Inv => (Tracked => LiveWithinCap)
  <2> SUFFICES ASSUME OrphanInv, SlotBound, Tracked PROVE LiveWithinCap
    OBVIOUS
  <2> DEFINE Live == {t \in Ids : proc[t] = "alive"}
  <2>1. Live \subseteq tasks
    BY DEF OrphanInv, ProcInv, Tracked
  <2>2. /\ Cardinality(Live) \in Nat /\ Cardinality(tasks) \in Nat
        /\ Cardinality(Live) <= Cardinality(tasks)
    BY <2>1, FS_Subset, FS_CardinalityType DEF SlotBound
  <2>3. Cardinality(Live) <= MaxConcurrent
    BY <2>2, MaxConcurrentAssumption DEF SlotBound, OrphanInv, TypeOK
  <2>. QED
    BY <2>3 DEF LiveWithinCap
<1>. QED
  BY <1>1, <1>2, <1>3, PTL DEF Spec

-----------------------------------------------------------------------------
(* When a drain can starve, for callers that submit between drains and do  *)
(* not cancel: only on a wave that is larger than the cap.                 *)

\* Every slot taken was taken for an id of the wave.
SlotExact == inFlight <= Cardinality(Dispatched)

\* Coroutines are only cut off by a deadline, and a drain that is past its
\* deadline ends the wave: before it nothing has been cancelled.
CutOffInv ==
  /\ \A t \in cancelReq : Active(t)
  /\ drainPc \notin {"unwinding", "reapCancelled"}
  /\ drainPc \notin {"timingOut", "timedOut", "reaping"} =>
       /\ cancelReq = {}
       /\ \A t \in Ids : pc[t] \notin {"aborting", "cancelling"}
       /\ \A t \in submitted : pc[t] # "cancelled"

StarveInv == CapInv /\ SlotExact /\ CutOffInv

\* Every step keeps the slots exact.
LEMMA NextExact ==
  ~ConcurrentSubmit /\ CapInv /\ SlotExact /\ [Next]_vars => SlotExact'
<1> SUFFICES ASSUME ~ConcurrentSubmit, CapInv, SlotExact, [Next]_vars PROVE SlotExact'
  OBVIOUS
<1> USE DEF CapInv, OrphanInv
<1>0. ASSUME Dispatched' = Dispatched, inFlight' = inFlight PROVE SlotExact'
  BY <1>0 DEF SlotExact
<1>1. ASSUME NEW t \in Ids, Submit(t) PROVE SlotExact'
  <2>1. t \notin submitted /\ submitted' = submitted \cup {t} /\ submitted \subseteq Ids
    BY <1>1 DEF Submit, Fresh, TypeOK
  <2>2. IsFiniteSet(Dispatched) /\ t \notin Dispatched
    BY <2>1, FS_Subset DEF SlotInv, Dispatched
  <2>3. CASE HasSlot
    <3>1. inFlight' = inFlight + 1 /\ pc' = [pc EXCEPT ![t] = "created"]
      BY <1>1, <2>3 DEF Submit
    <3>2. Dispatched' = Dispatched \cup {t}
      BY <2>1, <3>1 DEF Dispatched, TypeOK
    <3>3. Cardinality(Dispatched') = Cardinality(Dispatched) + 1
      BY <2>2, <3>2, FS_AddElement
    <3>. QED
      BY <2>2, <3>1, <3>3, FS_CardinalityType DEF SlotExact, TypeOK
  <2>4. CASE ~HasSlot
    <3>1. inFlight' = inFlight /\ pc' = [pc EXCEPT ![t] = "queued"]
      BY <1>1, <2>4 DEF Submit
    <3>2. Dispatched' = Dispatched
      BY <2>1, <3>1 DEF Dispatched, TypeOK
    <3>. QED
      BY <1>0, <3>1, <3>2
  <2>. QED
    BY <2>3, <2>4
<1>2. ASSUME NEW t \in Ids, TaskStep(t) PROVE SlotExact'
  <2>1. Dispatched' = Dispatched
    BY <1>2, TaskStepPc DEF Dispatched, TypeOK
  <2>. QED
    BY <1>0, <1>2, <2>1, TaskStepPc
<1>3. CASE WaitAllBody
  <2>1. Pulls = 0
    <3>1. pending = <<>> => Len(pending) = 0  OBVIOUS
    <3>. QED
      BY <3>1, MaxConcurrentAssumption DEF Pulls, SlotInv, TypeOK
  <2>2. Pulled = {}
    BY <2>1 DEF Pulled
  <2>3. UNCHANGED <<inFlight, pc, submitted>>
    BY <1>3, <2>1, <2>2 DEF WaitAllBody, TypeOK
  <2>. QED
    BY <1>0, <2>3 DEF Dispatched
<1>4. ASSUME NEW status, NEW ledger, Finalize(status, ledger) PROVE SlotExact'
  <2>1. inFlight' = 0 /\ Dispatched' = {}
    BY <1>4 DEF Finalize, Dispatched
  <2>. QED
    BY <2>1, FS_EmptySet DEF SlotExact
<1>5. CASE CancelAndSeed
  <2>1. \A t \in Queued : pc[t] = "queued"
    BY DEF Queued, QueueInv
  <2>2. CASE UNCHANGED <<submitted, inFlight>>
    <3>1. Dispatched' = Dispatched
      BY <1>5, <2>1, <2>2 DEF Dispatched, CancelAndSeed, TypeOK
    <3>. QED
      BY <1>0, <2>2, <3>1
  <2>. QED
    BY <1>4, <1>5, <2>2 DEF CancelAndSeed
<1>6. CASE DrainReturns \/ Reaped
  BY <1>4, <1>6 DEF DrainReturns, Reaped
<1>7. ASSUME UNCHANGED <<submitted, inFlight, pc>> PROVE SlotExact'
  BY <1>0, <1>7 DEF Dispatched
<1>8. ASSUME NEW t \in Ids, Exit(t) \/ Die(t) PROVE SlotExact'
  BY <1>7, <1>8 DEF Exit, Die
<1>9. CASE \/ RunUntilDrained \/ WaitAllTop \/ TimedOut \/ Unwound
           \/ DrainTimeout \/ CancelDrain \/ UNCHANGED vars
  <2>1. UNCHANGED <<submitted, inFlight, pc>>
    BY <1>9 DEF RunUntilDrained, WaitAllTop, TimedOut, Unwound, DrainTimeout,
                CancelDrain, vars, taskVars
  <2>. QED
    BY <1>7, <2>1
<1>. QED
  BY <1>1, <1>2, <1>3, <1>5, <1>6, <1>8, <1>9 DEF Next, DrainStep

\* Every step of callers that never cancel keeps CutOffInv.
LEMMA NextCutOff ==
  ~ConcurrentSubmit /\ ~CancelAllowed /\ CapInv /\ CutOffInv /\ [Next]_vars => CutOffInv'
<1> SUFFICES ASSUME ~ConcurrentSubmit, ~CancelAllowed, CapInv, CutOffInv, [Next]_vars
             PROVE  CutOffInv'
  OBVIOUS
<1> USE DEF CapInv, OrphanInv, TypeOK, CutOffInv
<1>1. ASSUME NEW t \in Ids, Submit(t) PROVE CutOffInv'
  <2>1. /\ pc[t] \in Ended \cup {"new", "dropped"}
        /\ submitted' = submitted \cup {t} /\ UNCHANGED <<cancelReq, drainPc>>
        /\ \E p \in {"created", "queued"} : pc' = [pc EXCEPT ![t] = p]
    BY <1>1 DEF Submit, Fresh
  <2>. QED
    BY <2>1
<1>2. ASSUME NEW t \in Ids, TaskStep(t) PROVE CutOffInv'
  <2>1. /\ UNCHANGED <<drainPc, submitted>>
        /\ \A u \in Ids \ {t} : pc'[u] = pc[u]
        /\ cancelReq' \subseteq cancelReq
        /\ t \in cancelReq' => Active(t)'
    BY <1>2, TaskStepPc, TaskStepCancel
  <2>2. pc'[t] \in {"aborting", "cancelling", "cancelled"} =>
          t \in cancelReq \/ pc[t] \in {"aborting", "cancelling"}
    BY <1>2 DEF TaskStep, Start, StartFails, CancelUnstarted, Spawned, AbortSpawn,
                Communicated, TaskTimeout, Expired, CancelRunning, CancelDone, Finish
  <2>. QED
    BY <2>1, <2>2
<1>3. ASSUME NEW t \in Ids, Exit(t) \/ Die(t) PROVE CutOffInv'
  BY <1>3 DEF Exit, Die
<1>4. CASE WaitAllBody
  <2>1. drainPc' \in {"returned", "top"} /\ drainPc \in {"body", "gather"}
    BY <1>4 DEF WaitAllBody
  <2>2. Pulls = 0
    <3>1. pending = <<>> => Len(pending) = 0  OBVIOUS
    <3>. QED
      BY <3>1, MaxConcurrentAssumption DEF Pulls, SlotInv, TypeOK
  <2>3. Pulled = {}
    BY <2>2 DEF Pulled
  <2>4. UNCHANGED <<pc, submitted, cancelReq>>
    BY <1>4, <2>3 DEF WaitAllBody
  <2>. QED
    BY <2>1, <2>4
<1>5. ASSUME \A t \in Ids : ~Active(t)
      PROVE  cancelReq = {} /\ \A t \in Ids : pc[t] \notin {"aborting", "cancelling"}
  BY <1>5
<1>6. CASE CancelAndSeed
  <2>1. \A t \in Queued : pc[t] = "queued"
    BY DEF Queued, QueueInv
  <2>2. /\ cancelReq' = cancelReq \cup {t \in tasks : Active(t)}
        /\ pc' = [t \in Ids |-> IF t \in Queued THEN "dropped" ELSE pc[t]]
    BY <1>6 DEF CancelAndSeed
  <2>3. \A t \in cancelReq' : (Active(t))'
    BY <2>1, <2>2
  <2>4. CASE tasks = {} /\ Finalize("interrupted", Seeded)
    <3>1. \A t \in Ids : ~Active(t)
      BY <2>4 DEF WaveInv, Tracked
    <3>2. cancelReq' = {} /\ submitted' = {} /\ drainPc' = "idle"
      BY <1>5, <2>2, <2>4, <3>1 DEF Finalize
    <3>. QED
      BY <1>5, <2>2, <3>1, <3>2
  <2>5. CASE drainPc' = "reaping"
    BY <2>3, <2>5
  <2>. QED
    BY <1>6, <2>4, <2>5 DEF CancelAndSeed
<1>7. CASE DrainReturns \/ Reaped
  <2>1. \A t \in Ids : ~Active(t)
    BY <1>7 DEF DrainReturns, Reaped, GatherDone, WaveInv, Tracked
  <2>2. submitted' = {} /\ drainPc' = "idle" /\ UNCHANGED <<pc, cancelReq>>
    BY <1>7 DEF DrainReturns, Reaped, Finalize, taskVars
  <2>. QED
    BY <1>5, <2>1, <2>2
<1>8. CASE DrainTimeout
  BY <1>8 DEF DrainTimeout
<1>9. CASE \/ RunUntilDrained \/ WaitAllTop \/ TimedOut \/ Unwound \/ CancelDrain
           \/ UNCHANGED vars
  <2>1. ~Unwound /\ ~CancelDrain
    BY DEF Unwound, CancelDrain
  <2>2. /\ UNCHANGED <<submitted, pc, cancelReq>>
        /\ \/ drainPc \in {"idle", "scheduled", "top"}
              /\ drainPc' \in {"scheduled", "body", "gather"}
           \/ drainPc = "timingOut" /\ drainPc' = "timedOut"
           \/ drainPc' = drainPc
    BY <1>9, <2>1 DEF RunUntilDrained, WaitAllTop, TimedOut, vars, taskVars
  <2>. QED
    BY <2>2
<1>. QED
  BY <1>1, <1>2, <1>3, <1>4, <1>6, <1>7, <1>8, <1>9 DEF Next, DrainStep

\* In a starved _wait_all an id of the wave waits behind a full cap.
LEMMA StarveInvImplies == StarveInv /\ Starved => Cardinality(submitted) > MaxConcurrent
<1> SUFFICES ASSUME StarveInv, Starved PROVE Cardinality(submitted) > MaxConcurrent
  OBVIOUS
<1> USE DEF StarveInv, CapInv, OrphanInv
<1>1. pending # <<>> /\ inFlight >= MaxConcurrent
  BY DEF Starved, CutOffInv
<1>2. 1 \in 1 .. Len(pending)
  BY <1>1 DEF TypeOK
<1>3. pending[1] \in submitted /\ pending[1] \notin Dispatched
  BY <1>2 DEF WaveInv, Queued, QueueInv, Dispatched
<1>4. /\ IsFiniteSet(submitted) /\ IsFiniteSet(Dispatched)
      /\ Dispatched \cup {pending[1]} \subseteq submitted
  BY <1>3, FS_Subset DEF SlotInv, Dispatched
<1>5. /\ Cardinality(Dispatched \cup {pending[1]}) = Cardinality(Dispatched) + 1
      /\ Cardinality(Dispatched \cup {pending[1]}) <= Cardinality(submitted)
  BY <1>3, <1>4, FS_AddElement, FS_Subset
<1>6. Cardinality(Dispatched) \in Nat /\ Cardinality(submitted) \in Nat /\ inFlight \in Nat
  BY <1>4, FS_CardinalityType DEF TypeOK
<1>. QED
  BY <1>1, <1>5, <1>6, MaxConcurrentAssumption DEF SlotExact

\* When callers submit between drains and do not cancel, _wait_all starves only
\* on a wave of more ids than max_concurrent.  With DrainEndsOrStarves, which the
\* concurrent run checks, such callers always get their drain back on any other.
THEOREM StarvesOnlyOverCap ==
  ASSUME ~ConcurrentSubmit, ~CancelAllowed
  PROVE  Spec => [](Starved => Cardinality(submitted) > MaxConcurrent)
<1>1. Init => StarveInv
  <2>1. Init => SlotExact
    BY FS_EmptySet, FS_CardinalityType, FS_Subset DEF Init, SlotExact, Dispatched
  <2>2. Init => CutOffInv
    BY DEF Init, CutOffInv
  <2>. QED
    BY <2>1, <2>2, InitCap DEF StarveInv
<1>2. StarveInv /\ [Next]_vars => StarveInv'
  BY NextCap, NextExact, NextCutOff DEF StarveInv
<1>. QED
  BY <1>1, <1>2, StarveInvImplies, PTL DEF Spec

-----------------------------------------------------------------------------
(* What a drain reports, whoever submits: an outcome "drained" is never    *)
(* lost, and an id that the deadline drops is reported.                    *)

\* Only a coroutine that ran to its end is recorded as drained, and while a
\* drain is under way no report exists.
LedgerInv == /\ \A t \in Ids : results[t] = "drained" => pc[t] = "finished"
             /\ drainPc # "idle" => report.status = "none"

\* A step of a coroutine writes at most its own outcome, when it ends.
LEMMA TaskStepRecords ==
  ASSUME TypeOK, NEW t \in Ids, TaskStep(t)
  PROVE  \/ results' = results /\ pc'[t] \notin {"finished", "expired"}
         \/ results' = [results EXCEPT ![t] = "drained"] /\ pc'[t] = "finished"
         \/ results' = [results EXCEPT ![t] = "interrupted"] /\ pc'[t] = "expired"
<1> USE DEF TypeOK
<1>1. CASE Start(t)            BY <1>1 DEF Start
<1>2. CASE StartFails(t)       BY <1>2 DEF StartFails, Record, Finish
<1>3. CASE CancelUnstarted(t)  BY <1>3 DEF CancelUnstarted
<1>4. CASE Spawned(t)          BY <1>4 DEF Spawned
<1>5. CASE AbortSpawn(t)       BY <1>5 DEF AbortSpawn
<1>6. CASE Communicated(t)     BY <1>6 DEF Communicated, Record, Finish
<1>7. CASE TaskTimeout(t)      BY <1>7 DEF TaskTimeout
<1>8. CASE Expired(t)          BY <1>8 DEF Expired, Record, Finish
<1>9. CASE CancelRunning(t)    BY <1>9 DEF CancelRunning
<1>10. CASE CancelDone(t)      BY <1>10 DEF CancelDone, Finish
<1> QED
  BY <1>1, <1>2, <1>3, <1>4, <1>5, <1>6, <1>7, <1>8, <1>9, <1>10 DEF TaskStep

\* An id in the FIFO is queued.
LEMMA QueuedPc == OrphanInv => \A t \in Queued : pc[t] = "queued"
BY DEF OrphanInv, QueueInv, Queued

\* What _wait_all takes off the FIFO is queued as well.
LEMMA PulledPc == OrphanInv => \A t \in Pulled : pc[t] = "queued"
<1> SUFFICES ASSUME OrphanInv PROVE Pulled \subseteq Queued
  BY QueuedPc
<1>1. Pulls \in Nat /\ Pulls <= Len(pending) /\ Len(pending) \in Nat
  BY PullType DEF OrphanInv, TypeOK
<1>. QED
  BY <1>1 DEF Pulled, Queued

\* Every step keeps the ledger's outcomes tied to how their coroutines ended.
LEMMA NextLedger == OrphanInv /\ LedgerInv /\ [Next]_vars => LedgerInv'
<1> SUFFICES ASSUME OrphanInv, LedgerInv, [Next]_vars PROVE LedgerInv'
  OBVIOUS
<1> USE DEF LedgerInv, OrphanInv, TypeOK
<1>1. ASSUME NEW t \in Ids, Submit(t) PROVE LedgerInv'
  BY <1>1 DEF Submit, Fresh
<1>2. ASSUME NEW t \in Ids, TaskStep(t) PROVE LedgerInv'
  <2>1. \A u \in Ids \ {t} : pc'[u] = pc[u] /\ results'[u] = results[u]
    BY <1>2, TaskStepRecords, TaskStepPc
  <2>2. results'[t] = "drained" => pc'[t] = "finished"
    <3>1. results[t] # "drained"
      BY <1>2, TaskStepPc
    <3>. QED
      BY <1>2, <3>1, TaskStepRecords
  <2>. QED
    BY <1>2, <2>1, <2>2, TaskStepPc
<1>3. ASSUME NEW t \in Ids, Exit(t) \/ Die(t) PROVE LedgerInv'
  BY <1>3 DEF Exit, Die
<1>4. CASE WaitAllBody
  BY <1>4, PulledPc DEF WaitAllBody
<1>5. CASE CancelAndSeed
  <2>1. \A t \in Ids : Seeded[t] = "drained" => pc[t] = "finished" /\ t \notin Queued
    BY QueuedPc DEF Seeded
  <2>. QED
    BY <1>5, <2>1 DEF CancelAndSeed, Finalize
<1>6. CASE DrainReturns \/ Reaped
  BY <1>6 DEF DrainReturns, Reaped, Finalize, taskVars
<1>7. CASE \/ RunUntilDrained \/ WaitAllTop \/ TimedOut \/ Unwound
           \/ DrainTimeout \/ CancelDrain \/ UNCHANGED vars
  BY <1>7 DEF RunUntilDrained, WaitAllTop, TimedOut, Unwound, DrainTimeout,
              CancelDrain, vars, taskVars, NoReport
<1>. QED
  BY <1>1, <1>2, <1>3, <1>4, <1>5, <1>6, <1>7 DEF Next, DrainStep

LedgerInvs == OrphanInv /\ LedgerInv

\* Both hold in every state.
LEMMA LedgerInvariant == Spec => []LedgerInvs
<1>1. Init => LedgerInvs
  BY InitCap DEF Init, LedgerInvs, LedgerInv, CapInv
<1>2. LedgerInvs /\ [Next]_vars => LedgerInvs'
  BY NextOrphan, NextLedger DEF LedgerInvs
<1>. QED
  BY <1>1, <1>2, PTL DEF Spec

\* DrainedWins: the deadline, a cancellation and a late submission may race the
\* last step of a coroutine, and what it recorded is still what is reported.
THEOREM DrainedWinsCorrect == Spec => DrainedWins
<1> DEFINE Wins == \A t \in Ids : results[t] = "drained" =>
              IF Delivers THEN report'.tasks[t] = "drained" ELSE results'[t] = "drained"
<1>1. ASSUME LedgerInvs, [Next]_vars PROVE Wins
  <2> USE <1>1 DEF LedgerInvs, LedgerInv, OrphanInv, TypeOK
  <2>1. ASSUME results' = results, report' = report PROVE Wins
    BY <2>1 DEF Delivers
  <2>2. ASSUME NEW t \in Ids, TaskStep(t) PROVE Wins
    <3>1. results[t] # "drained" /\ report' = report
      BY <2>2, TaskStepPc
    <3>. QED
      BY <2>2, <3>1, TaskStepRecords DEF Delivers
  <2>3. ASSUME NEW status \in Outcomes, NEW ledger, Finalize(status, ledger),
               drainPc # "idle",
               \A t \in Ids : results[t] = "drained" => ledger[t] = "drained"
        PROVE  Wins
    <3>1. Delivers
      BY <2>3 DEF Finalize, Delivers
    <3>. QED
      BY <2>3, <3>1 DEF Finalize
  <2>4. CASE DrainReturns \/ Reaped
    BY <2>3, <2>4 DEF DrainReturns, Reaped
  <2>5. CASE CancelAndSeed
    <3>1. \A t \in Ids : results[t] = "drained" => Seeded[t] = "drained"
      BY DEF Seeded
    <3>2. CASE Finalize("interrupted", Seeded)
      BY <2>3, <2>5, <3>1, <3>2 DEF CancelAndSeed
    <3>3. CASE results' = Seeded /\ UNCHANGED report
      BY <3>1, <3>3 DEF Delivers
    <3>. QED
      BY <2>5, <3>2, <3>3 DEF CancelAndSeed
  <2>6. CASE RunUntilDrained
    BY <2>6 DEF RunUntilDrained, Delivers
  <2>7. ASSUME NEW t \in Ids, Submit(t) \/ Exit(t) \/ Die(t) PROVE Wins
    BY <2>1, <2>7 DEF Submit, Exit, Die
  <2>8. CASE \/ WaitAllTop \/ WaitAllBody \/ TimedOut \/ Unwound
             \/ DrainTimeout \/ CancelDrain \/ UNCHANGED vars
    BY <2>1, <2>8 DEF WaitAllTop, WaitAllBody, TimedOut, Unwound, DrainTimeout,
                      CancelDrain, vars
  <2>. QED
    BY <2>2, <2>4, <2>5, <2>6, <2>7, <2>8 DEF Next, DrainStep
<1>2. LedgerInvs /\ [Next]_vars => [Wins]_vars
  BY <1>1
<1>. QED
  BY <1>2, LedgerInvariant, PTL DEF Spec, DrainedWins

\* DroppedIsReported: the deadline gives every id it drops an outcome, also one
\* that a late submit left in the FIFO after its wave had been waited for.
THEOREM DroppedIsReportedCorrect == Spec => DroppedIsReported
<1> DEFINE Reports == \A t \in Ids : pc[t] = "queued" /\ pc'[t] = "dropped" =>
                        "interrupted" \in {results'[t], report'.tasks[t]}
<1>1. ASSUME LedgerInvs, [Next]_vars PROVE Reports
  <2> USE <1>1 DEF LedgerInvs, LedgerInv, OrphanInv, TypeOK
  <2>1. ASSUME NEW t \in Ids, Submit(t) \/ Exit(t) \/ Die(t) PROVE Reports
    BY <2>1 DEF Submit, Exit, Die
  <2>2. ASSUME NEW t \in Ids, TaskStep(t) PROVE Reports
    BY <2>2, TaskStepPc
  <2>3. CASE CancelAndSeed
    <3>1. ASSUME NEW t \in Ids, pc[t] = "queued", pc'[t] = "dropped"
          PROVE  Seeded[t] = "interrupted"
      <4>1. t \in Queued
        BY <2>3, <3>1 DEF CancelAndSeed
      <4>2. results[t] \in {"interrupted", "none"}
        BY <3>1
      <4>. QED
        BY <4>1, <4>2 DEF Seeded
    <3>. QED
      BY <2>3, <3>1 DEF CancelAndSeed, Finalize
  <2>4. CASE WaitAllBody
    BY <2>4 DEF WaitAllBody
  <2>5. CASE \/ RunUntilDrained \/ WaitAllTop \/ DrainReturns \/ Reaped \/ TimedOut
             \/ Unwound \/ DrainTimeout \/ CancelDrain \/ UNCHANGED vars
    BY <2>5 DEF RunUntilDrained, WaitAllTop, DrainReturns, Reaped, TimedOut, Unwound,
                DrainTimeout, CancelDrain, vars, taskVars
  <2>. QED
    BY <2>1, <2>2, <2>3, <2>4, <2>5 DEF Next, DrainStep
<1>2. LedgerInvs /\ [Next]_vars => [Reports]_vars
  BY <1>1
<1>. QED
  BY <1>2, LedgerInvariant, PTL DEF Spec, DroppedIsReported

-----------------------------------------------------------------------------
(* For callers that submit between drains only: AsyncExecutor implements   *)
(* DrainContract, and a report tells what became of each id.               *)

\* Once the drain is past its gather no coroutine is left.
PastGather == {"returned", "timedOut", "reaping", "reapCancelled"}

DrainInv ==
  /\ drainPc \in {"gather", "timingOut", "unwinding"} => tasks \subseteq gathered
  /\ drainPc \in PastGather => \A t \in Ids : ~Active(t)
  /\ drainPc \in {"returned", "reaping"} => \A t \in submitted : results[t] # "none"

\* An id with an outcome belongs to the wave and has ended; the outcome says
\* how, and one that a deadline gave to an id that was cut off leaves an ended
\* coroutine in _tasks, so no later drain of that wave reports "drained".
OutcomeInv ==
  \A t \in Ids :
    /\ results[t] # "none" => t \in submitted /\ ~Active(t)
    /\ t \in submitted => (results[t] = "drained" <=> pc[t] = "finished")
    /\ results[t] = "interrupted" =>
         pc[t] = "expired" \/ \E u \in tasks : ~Active(u)

ReportInv == CapInv /\ LedgerInv /\ DrainInv /\ OutcomeInv

\* With sequential callers _wait_all takes nothing off the FIFO.
LEMMA WaitAllBodyKeeps ==
  ASSUME CapInv, WaitAllBody
  PROVE  UNCHANGED <<pending, tasks, inFlight, pc, submitted, results, report>>
<1> USE DEF CapInv, OrphanInv
<1>1. Pulls = 0
  <2>1. pending = <<>> => Len(pending) = 0  OBVIOUS
  <2> QED BY <2>1, MaxConcurrentAssumption DEF Pulls, SlotInv, TypeOK
<1>2. Pulled = {}  BY <1>1 DEF Pulled
<1>3. pending' = pending
  <2>1. pending' = SubSeq(pending, 1, Len(pending))
    BY <1>1 DEF WaitAllBody
  <2> QED BY <2>1 DEF TypeOK
<1> QED BY <1>1, <1>2, <1>3 DEF WaitAllBody, TypeOK

\* A step of a coroutine takes at most itself out of _tasks.
LEMMA TaskStepTasks ==
  ASSUME NEW t \in Ids, TaskStep(t)
  PROVE  tasks' \subseteq tasks /\ tasks \ {t} \subseteq tasks'
BY DEF TaskStep, Start, StartFails, CancelUnstarted, Spawned, AbortSpawn,
       Communicated, TaskTimeout, Expired, CancelRunning, CancelDone, Finish

\* Every step keeps what is known of the drain's stages.
LEMMA NextDrain == ~ConcurrentSubmit /\ ReportInv /\ [Next]_vars => DrainInv'
<1> SUFFICES ASSUME ~ConcurrentSubmit, ReportInv, [Next]_vars PROVE DrainInv'
  OBVIOUS
<1> USE DEF ReportInv, CapInv, OrphanInv, TypeOK, DrainInv, PastGather
<1>1. ASSUME NEW t \in Ids, Submit(t) PROVE DrainInv'
  BY <1>1 DEF Submit
<1>2. ASSUME NEW t \in Ids, TaskStep(t) PROVE DrainInv'
  <2>1. /\ Active(t) /\ tasks' \subseteq tasks
        /\ UNCHANGED <<submitted, drainPc, gathered>>
    BY <1>2, TaskStepPc, TaskStepTasks
  <2>2. \A u \in submitted : results[u] # "none" => results'[u] # "none"
    BY <1>2, TaskStepRecords
  <2>. QED
    BY <2>1, <2>2
<1>3. ASSUME NEW t \in Ids, Exit(t) \/ Die(t) PROVE DrainInv'
  BY <1>3 DEF Exit, Die
<1>4. CASE WaitAllTop
  BY <1>4 DEF WaitAllTop, taskVars
<1>5. CASE WaitAllBody
  <2>1. drainPc' \in {"returned", "top"}
    BY <1>5 DEF WaitAllBody
  <2>2. drainPc' = "returned" => tasks' = {} /\ \A t \in submitted : results[t] # "none"
    BY <1>5 DEF WaitAllBody
  <2>. QED
    BY <1>5, <2>1, <2>2, WaitAllBodyKeeps DEF WaveInv, Tracked
<1>6. CASE TimedOut
  <2>1. \A t \in Ids : ~Active(t)
    BY <1>6 DEF TimedOut, GatherDone, WaveInv, Tracked
  <2>. QED
    BY <1>6, <2>1 DEF TimedOut, taskVars
<1>7. CASE CancelAndSeed
  <2>1. \A t \in Ids : ~Active(t) /\ pc'[t] \in {pc[t], "dropped"}
    BY <1>7 DEF CancelAndSeed
  <2>2. \A t \in submitted : Seeded[t] # "none"
    BY DEF Seeded
  <2>3. CASE Finalize("interrupted", Seeded)
    BY <2>3 DEF Finalize
  <2>4. CASE results' = Seeded /\ drainPc' = "reaping" /\ UNCHANGED submitted
    BY <2>1, <2>2, <2>4
  <2>. QED
    BY <1>7, <2>3, <2>4 DEF CancelAndSeed
<1>8. CASE DrainReturns \/ Reaped
  BY <1>8 DEF DrainReturns, Reaped, Finalize
<1>9. CASE CancelDrain
  BY <1>9 DEF CancelDrain
<1>10. CASE RunUntilDrained \/ Unwound \/ DrainTimeout \/ UNCHANGED vars
  BY <1>10 DEF RunUntilDrained, Unwound, DrainTimeout, vars, taskVars
<1>. QED
  BY <1>1, <1>2, <1>3, <1>4, <1>5, <1>6, <1>7, <1>8, <1>9, <1>10 DEF Next, DrainStep

\* Every step keeps the outcomes in step with the coroutines and the wave.
LEMMA NextOutcome == ~ConcurrentSubmit /\ ReportInv /\ [Next]_vars => OutcomeInv'
<1> SUFFICES ASSUME ~ConcurrentSubmit, ReportInv, [Next]_vars PROVE OutcomeInv'
  OBVIOUS
<1> USE DEF ReportInv, CapInv, OrphanInv, TypeOK, OutcomeInv
<1>1. ASSUME NEW t \in Ids, Submit(t) PROVE OutcomeInv'
  <2>1. /\ results[t] = "none" /\ t \notin tasks /\ submitted' = submitted \cup {t}
        /\ results' = results /\ tasks \subseteq tasks'
        /\ \E p \in {"created", "queued"} : pc' = [pc EXCEPT ![t] = p]
    BY <1>1 DEF Submit, Fresh
  <2>. QED
    BY <2>1
<1>2. ASSUME NEW t \in Ids, TaskStep(t) PROVE OutcomeInv'
  <2>1. /\ Active(t) /\ t \in submitted /\ results[t] = "none"
        /\ pc'[t] \notin {"new", "queued", "dropped", "created"}
        /\ submitted' = submitted
        /\ \A u \in Ids \ {t} : pc'[u] = pc[u]
    BY <1>2, TaskStepPc DEF WaveInv, Tracked
  <2>2. \A u \in tasks : ~Active(u) => u # t /\ u \in tasks' /\ pc'[u] = pc[u]
    BY <1>2, <2>1, TaskStepTasks
  <2>3. CASE results' = results /\ pc'[t] \notin {"finished", "expired"}
    BY <2>1, <2>2, <2>3
  <2>4. CASE results' = [results EXCEPT ![t] = "drained"] /\ pc'[t] = "finished"
    BY <2>1, <2>2, <2>4
  <2>5. CASE results' = [results EXCEPT ![t] = "interrupted"] /\ pc'[t] = "expired"
    BY <2>1, <2>2, <2>5
  <2>. QED
    BY <1>2, <2>3, <2>4, <2>5, TaskStepRecords
<1>3. ASSUME NEW t \in Ids, Exit(t) \/ Die(t) PROVE OutcomeInv'
  BY <1>3 DEF Exit, Die
<1>4. CASE WaitAllBody
  BY <1>4, WaitAllBodyKeeps
<1>5. CASE CancelAndSeed
  <2>1. /\ \A t \in Ids : ~Active(t)
        /\ pc' = [t \in Ids |-> IF t \in Queued THEN "dropped" ELSE pc[t]]
    BY <1>5 DEF CancelAndSeed, DrainInv, PastGather
  <2>2. Queued \subseteq submitted /\ \A t \in Queued : pc[t] = "queued"
    BY QueuedPc DEF WaveInv
  <2>3. CASE Finalize("interrupted", Seeded)
    BY <2>3 DEF Finalize
  <2>4. CASE tasks # {} /\ results' = Seeded /\ UNCHANGED <<tasks, submitted>>
    <3>1. \E u \in tasks : ~(pc'[u] \in {"created", "spawning", "running", "expiring",
                                         "aborting", "cancelling"})
      BY <2>1, <2>4
    <3>2. ASSUME NEW t \in Ids
          PROVE  /\ results'[t] # "none" => t \in submitted
                 /\ t \in submitted => (results'[t] = "drained" <=> pc'[t] = "finished")
      <4>1. results'[t] = IF t \in submitted \cup Queued /\ results[t] = "none"
                          THEN "interrupted" ELSE results[t]
        BY <2>4 DEF Seeded
      <4>2. t \in Queued => pc[t] = "queued" /\ pc'[t] = "dropped"
        BY <2>1, <2>2
      <4>3. t \notin Queued => pc'[t] = pc[t]
        BY <2>1
      <4>. QED
        BY <2>2, <4>1, <4>2, <4>3
    <3>. QED
      BY <2>1, <2>4, <3>1, <3>2
  <2>. QED
    BY <1>5, <2>3, <2>4 DEF CancelAndSeed
<1>6. CASE DrainReturns \/ Reaped
  BY <1>6 DEF DrainReturns, Reaped, Finalize
<1>7. CASE \/ RunUntilDrained \/ WaitAllTop \/ TimedOut \/ Unwound
           \/ DrainTimeout \/ CancelDrain \/ UNCHANGED vars
  BY <1>7 DEF RunUntilDrained, WaitAllTop, TimedOut, Unwound, DrainTimeout,
              CancelDrain, vars, taskVars
<1>. QED
  BY <1>1, <1>2, <1>3, <1>4, <1>5, <1>6, <1>7 DEF Next, DrainStep

\* All of it holds in every state.
LEMMA ReportInvariant == ASSUME ~ConcurrentSubmit PROVE Spec => []ReportInv
<1>1. Init => ReportInv
  BY InitCap DEF Init, ReportInv, LedgerInv, DrainInv, PastGather, OutcomeInv
<1>2. ReportInv /\ [Next]_vars => ReportInv'
  BY NextCap, NextLedger, NextDrain, NextOutcome DEF ReportInv, CapInv
<1>. QED
  BY <1>1, <1>2, PTL DEF Spec

\* ReportTruthful: "drained" is reported of exactly the ids that ran to their
\* end, and a wave reported "drained" has no id that was cut off.
THEOREM ReportTruthfulCorrect == ASSUME ~ConcurrentSubmit PROVE Spec => ReportTruthful
<1> DEFINE Truthful ==
      Delivers => \A t \in submitted :
        /\ report'.tasks[t] = "drained" <=> pc'[t] = "finished"
        /\ report'.status = "drained" => pc'[t] \in {"finished", "expired"}
<1>1. ASSUME ReportInv, [Next]_vars PROVE Truthful
  <2> USE <1>1 DEF ReportInv, CapInv, OrphanInv, TypeOK, OutcomeInv
  <2>1. CASE DrainReturns
    <3>1. /\ report' = [status |-> "drained", tasks |-> results] /\ pc' = pc
          /\ tasks = {} /\ \A t \in submitted : results[t] # "none"
      BY <2>1 DEF DrainReturns, Finalize, taskVars, WaveInv, DrainInv
    <3>. QED
      BY <3>1
  <2>2. CASE Reaped
    <3>1. report' = [status |-> "interrupted", tasks |-> results] /\ pc' = pc
      BY <2>2 DEF Reaped, Finalize, taskVars
    <3>. QED
      BY <3>1
  <2>3. CASE CancelAndSeed /\ Finalize("interrupted", Seeded)
    <3>1. /\ report' = [status |-> "interrupted", tasks |-> Seeded]
          /\ pc' = [t \in Ids |-> IF t \in Queued THEN "dropped" ELSE pc[t]]
      BY <2>3 DEF CancelAndSeed, Finalize
    <3>2. \A t \in Queued : pc[t] = "queued"
      BY QueuedPc
    <3>3. \A t \in submitted : Seeded[t] = "drained" <=> results[t] = "drained"
      BY DEF Seeded
    <3>4. \A t \in submitted : pc'[t] = "finished" <=> pc[t] = "finished"
      BY <3>1, <3>2
    <3>. QED
      BY <3>1, <3>3, <3>4
  <2>4. CASE CancelAndSeed /\ UNCHANGED report
    BY <2>4 DEF Delivers
  <2>5. ASSUME NEW t \in Ids, Submit(t) \/ TaskStep(t) \/ Exit(t) \/ Die(t)
        PROVE  Truthful
    BY <2>5, TaskStepPc DEF Submit, Exit, Die, Delivers
  <2>6. CASE \/ RunUntilDrained \/ WaitAllTop \/ WaitAllBody \/ TimedOut \/ Unwound
             \/ DrainTimeout \/ CancelDrain \/ UNCHANGED vars
    BY <2>6 DEF RunUntilDrained, WaitAllTop, WaitAllBody, TimedOut, Unwound,
                DrainTimeout, CancelDrain, vars, Delivers
  <2>7. CancelAndSeed => Finalize("interrupted", Seeded) \/ UNCHANGED report
    BY DEF CancelAndSeed
  <2>. QED
    BY <2>1, <2>2, <2>3, <2>4, <2>5, <2>6, <2>7 DEF Next, DrainStep
<1>2. ReportInv /\ [Next]_vars => [Truthful]_vars
  BY <1>1
<1>. QED
  BY <1>2, ReportInvariant, PTL DEF Spec, ReportTruthful

-----------------------------------------------------------------------------
\* Finalizing with the ledger as the contract completes it delivers the report.
LEMMA FinalizeDelivers ==
  ASSUME NEW status \in Outcomes, NEW ledger, Finalize(status, ledger),
         drainPc # "idle", ledger = Contract!Rest,
         status = "drained" => Contract!Rest = results
  PROVE  Contract!Deliver(status)
BY DEF Finalize, Contract!Deliver

\* KeepsContract: a step of the event loop is a step of DrainContract or none.
\* An id gets its outcome when its coroutine ends, the deadline decides the rest
\* at once, a finalization delivers, and a cancellation that leaves abandons.
THEOREM KeepsContractCorrect == ASSUME ~ConcurrentSubmit PROVE Spec => KeepsContract
<1>1. Init => Contract!Init
  BY DEF Init, NoReport, Contract!Init, Contract!NoReport
<1>2. ASSUME ReportInv, [Next]_vars PROVE [Contract!Next]_(Contract!vars)
  <2> USE <1>2 DEF ReportInv, CapInv, OrphanInv, TypeOK
  <2>1. ASSUME NEW t \in Ids, Submit(t) PROVE Contract!Accept(t)
    BY <2>1 DEF Submit, Fresh, Contract!Accept
  <2>2. ASSUME NEW t \in Ids, TaskStep(t)
        PROVE  Contract!Settle(t) \/ UNCHANGED Contract!vars
    <3>1. /\ t \in submitted /\ results[t] = "none"
          /\ UNCHANGED <<submitted, drainPc, report>>
      BY <2>2, TaskStepPc DEF WaveInv, Tracked, OutcomeInv
    <3>2. results' = results \/ \E o \in Outcomes : results' = [results EXCEPT ![t] = o]
      BY <2>2, TaskStepRecords
    <3>. QED
      BY <3>1, <3>2 DEF Contract!Settle, Contract!vars, Contract!Outcomes
  <2>3. ASSUME UNCHANGED <<submitted, results, report>>,
               (drainPc' = "idle") <=> (drainPc = "idle")
        PROVE  UNCHANGED Contract!vars
    BY <2>3 DEF Contract!vars
  <2>4. ASSUME NEW t \in Ids, Exit(t) \/ Die(t) PROVE UNCHANGED Contract!vars
    BY <2>3, <2>4 DEF Exit, Die
  <2>5. CASE RunUntilDrained
    BY <2>5 DEF RunUntilDrained, NoReport, Contract!Next, Contract!BeginDrain,
                Contract!NoReport
  <2>6. CASE WaitAllTop \/ DrainTimeout \/ TimedOut \/ UNCHANGED vars
    BY <2>3, <2>6 DEF WaitAllTop, DrainTimeout, TimedOut, vars, taskVars
  <2>7. CASE WaitAllBody
    BY <2>3, <2>7, WaitAllBodyKeeps DEF WaitAllBody
  <2>8. CASE DrainReturns \/ Reaped
    <3>1. Contract!Rest = results
      BY <2>8 DEF DrainReturns, Reaped, DrainInv, Contract!Rest
    <3>. QED
      BY <2>8, <3>1, FinalizeDelivers DEF DrainReturns, Reaped, Contract!Next,
                                          Contract!Outcomes
  <2>9. CASE CancelAndSeed
    <3>1. Seeded = Contract!Rest
      BY DEF WaveInv, Seeded, Contract!Rest
    <3>2. CASE Finalize("interrupted", Seeded)
      BY <2>9, <3>1, <3>2, FinalizeDelivers DEF CancelAndSeed, Contract!Next,
                                                Contract!Outcomes
    <3>3. CASE results' = Seeded /\ drainPc' = "reaping" /\ UNCHANGED <<submitted, report>>
      BY <2>9, <3>1, <3>3 DEF CancelAndSeed, Contract!Next, Contract!InterruptRest
    <3>. QED
      BY <2>9, <3>2, <3>3 DEF CancelAndSeed, Contract!Next
  <2>10. CASE CancelDrain \/ Unwound
    <3>1. /\ drainPc # "idle" /\ UNCHANGED <<submitted, results, report>>
      BY <2>10 DEF CancelDrain, Unwound
    <3>2. drainPc' = "idle" => Contract!Abandon
      BY <3>1 DEF Contract!Abandon
    <3>. QED
      BY <2>3, <3>1, <3>2 DEF Contract!Next
  <2>. QED
    BY <2>1, <2>2, <2>4, <2>5, <2>6, <2>7, <2>8, <2>9, <2>10
    DEF Next, DrainStep, Contract!Next, Contract!Outcomes
<1>. QED
  BY <1>1, <1>2, ReportInvariant, PTL DEF Spec, KeepsContract, Contract!Spec
=============================================================================
