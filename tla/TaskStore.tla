----------------------------- MODULE TaskStore -----------------------------
(***************************************************************************)
(* Tasks, runs and their rows (FR-01, FR-02, FR-06): the handlers of       *)
(* api/routes/tasks.py and api/routes/runs.py, the service and the two     *)
(* repositories they call, and the background body of a run, down to each  *)
(* statement, commit and close of a SQLAlchemy session.  The handlers are  *)
(* plain functions, so FastAPI runs each request, and each background      *)
(* body, in a thread of its own.                                           *)
(*                                                                         *)
(* Every repository method opens a session of its own.  `shared' is the    *)
(* engine the repositories build: one SQLite connection for every session  *)
(* of the process (StaticPool), hence one transaction: whoever commits,    *)
(* commits everything, and every session that closes rolls back what is    *)
(* not committed.  Otherwise the session factory, which the repositories   *)
(* accept as an argument, has a connection per session: the one write of a *)
(* session then becomes visible at its commit, so statement and commit are *)
(* a single step.                                                          *)
(***************************************************************************)
EXTENDS Naturals, FiniteSets

CONSTANTS
  Tasks,         \* ids that create may draw (uuid4)
  Runs,          \* run ids (uuid4), one per POST /v1/tasks/{id}/run
  Names,         \* task names
  Engines        \* the values of shared to consider

ASSUME EnginesAssumption == Engines \subseteq BOOLEAN

Terminal == {"done", "failed", "timeout"}
Status == {"pending"} \cup Terminal
Absent == "absent"                             \* there is no such row

VARIABLES
  db,        \* what is committed: the tasks, and the status of each run's row
  work,      \* db under the transaction that is open, if one is
  shared,    \* is there a single connection for all sessions?
  name,      \* the name each create request asks for
  target,    \* the task each run request names
  createPc, deletePc, runPc,    \* where each request is
  outcome    \* what the runner returned for each run

choices == <<shared, name, target>>
requests == <<createPc, deletePc, runPc>>
vars == <<db, work, choices, requests, outcome>>

Empty == [tasks |-> {}, rows |-> [r \in Runs |-> Absent]]

Init == /\ db = Empty
        /\ work = Empty
        /\ shared \in Engines
        /\ name \in [Tasks -> Names]
        /\ target \in [Runs -> Tasks]
        /\ createPc = [t \in Tasks |-> "idle"]
        /\ deletePc = [t \in Tasks |-> "idle"]
        /\ runPc = [r \in Runs |-> "idle"]
        /\ outcome = [r \in Runs |-> Absent]

-----------------------------------------------------------------------------
(* What a session does to the store.                                       *)

Execute(state) == /\ work' = state
                  /\ db' = IF shared THEN db ELSE state

Commit == db' = work /\ UNCHANGED work

\* Session.close, and the IntegrityError path of create, roll back.
Rollback == work' = db /\ UNCHANGED db

WithTasks(S) == [work EXCEPT !.tasks = S]
WithRow(r, status) == [work EXCEPT !.rows[r] = status]

\* A session that only reads opens and closes: get_task, list_tasks, the two
\* reads of metrics, and trigger_run when it answers 404.
ReaderCloses == Rollback /\ UNCHANGED <<choices, requests, outcome>>

\* list_runs reads through the session scope of the results, which commits.
ReaderCommits == Commit /\ UNCHANGED <<choices, requests, outcome>>

-----------------------------------------------------------------------------
(* POST /v1/tasks: TaskRepository.create.                                  *)

NameTakenUnchecked(t) == FALSE                                     \* mutant

NameTaken(t) == \E u \in work.tasks : name[u] = name[t]

CreateAt(t, from, to) == /\ createPc[t] = from
                         /\ createPc' = [createPc EXCEPT ![t] = to]
                         /\ UNCHANGED <<choices, deletePc, runPc, outcome>>

CreateInsert(t) ==
  \/ /\ ~NameTaken(t)
     /\ CreateAt(t, "idle", "inserted")
     /\ Execute(WithTasks(work.tasks \cup {t}))
  \/ /\ NameTaken(t)
     /\ CreateAt(t, "idle", "refused")
     /\ UNCHANGED <<db, work>>

\* DuplicateTaskName, answered with 409.
CreateConflict(t) == CreateAt(t, "refused", "conflict") /\ Rollback

CreateCommit(t) == CreateAt(t, "inserted", "committed") /\ Commit

CreateAnswersBlindly(t) ==                                         \* mutant
  CreateAt(t, "committed", "created") /\ Rollback

\* session.refresh finds the row it has just committed, or raises.
CreateRefresh(t) ==
  /\ CreateAt(t, "committed", IF t \in work.tasks THEN "created" ELSE "failed")
  /\ Rollback

-----------------------------------------------------------------------------
(* DELETE /v1/tasks/{id}: TaskService.delete_task, two sessions.           *)

DeleteAt(t, from, to) == /\ deletePc[t] = from
                         /\ deletePc' = [deletePc EXCEPT ![t] = to]
                         /\ UNCHANGED <<choices, createPc, runPc, outcome>>

\* A client knows an id from the answer to its create, or from a list.
DeleteTaskRow(t) == /\ createPc[t] = "created" \/ t \in work.tasks
                    /\ DeleteAt(t, "idle", "taskGone")
                    /\ Execute(WithTasks(work.tasks \ {t}))

DeleteTaskCommit(t) == DeleteAt(t, "taskGone", "taskCommitted") /\ Commit

DeleteRows(t) ==
  /\ DeleteAt(t, "taskCommitted", "rowsGone")
  /\ Execute([work EXCEPT !.rows = [r \in Runs |-> IF target[r] = t THEN Absent
                                                   ELSE work.rows[r]]])

DeleteRowsCommit(t) == DeleteAt(t, "rowsGone", "deleted") /\ Commit

-----------------------------------------------------------------------------
(* POST /v1/tasks/{id}/run: trigger_run, then _execute_and_persist.        *)

RunAt(r, from, to) == /\ runPc[r] = from
                      /\ runPc' = [runPc EXCEPT ![r] = to]
                      /\ UNCHANGED <<choices, createPc, deletePc>>

\* tasks_repo.get finds the task; its session closes.
TriggerLookup(r) == /\ target[r] \in work.tasks
                    /\ RunAt(r, "idle", "found")
                    /\ Rollback /\ UNCHANGED outcome

TriggerInsertForgotten(r) ==                                       \* mutant
  RunAt(r, "found", "inserted") /\ UNCHANGED <<db, work, outcome>>

\* create_pending_result: SQLite does not enforce the foreign key.
TriggerInsert(r) == /\ RunAt(r, "found", "inserted")
                    /\ Execute(WithRow(r, "pending")) /\ UNCHANGED outcome

\* The commit, and the 202 that carries the run id.
TriggerCommit(r) == RunAt(r, "inserted", "accepted") /\ Commit /\ UNCHANGED outcome

\* TaskRunner.run: exit 0, another exit status or no such program, timeout.
RunReturns(r) == /\ RunAt(r, "accepted", "ran")
                 /\ \E s \in Terminal : outcome' = [outcome EXCEPT ![r] = s]
                 /\ UNCHANGED <<db, work>>

\* An error (PermissionError, an empty argv) leaves _execute_and_persist at once.
RunRaises(r) == /\ RunAt(r, "accepted", "raised")
                /\ UNCHANGED <<db, work, outcome>>

UpdatedIgnoringTimeout(r) ==                                       \* mutant
  IF outcome[r] = "done" THEN "done" ELSE "failed"
UpdatedWithoutStatus(r) == "pending"                               \* mutant
UpdatedAsInterrupted(r) ==                                         \* mutant
  IF outcome[r] = "timeout" THEN "interrupted" ELSE outcome[r]

\* update_result stores the status the runner returned.
Updated(r) == outcome[r]

UpsertRow(r) ==                                                    \* mutant
  RunAt(r, "ran", "updated") /\ Execute(WithRow(r, Updated(r))) /\ UNCHANGED outcome

\* The row is gone: update_result raises ValueError and rolls back.
UpdateRow(r) ==
  \/ /\ work.rows[r] # Absent
     /\ RunAt(r, "ran", "updated")
     /\ Execute(WithRow(r, Updated(r))) /\ UNCHANGED outcome
  \/ /\ work.rows[r] = Absent
     /\ RunAt(r, "ran", "rowMissing")
     /\ Rollback /\ UNCHANGED outcome

UpdateCommitRunsAgain(r) ==                                        \* mutant
  RunAt(r, "updated", "accepted") /\ Commit /\ UNCHANGED outcome

UpdateCommit(r) == RunAt(r, "updated", "finished") /\ Commit /\ UNCHANGED outcome

-----------------------------------------------------------------------------
CreateStep(t) == \/ CreateInsert(t) \/ CreateConflict(t) \/ CreateCommit(t)
                 \/ CreateRefresh(t)
DeleteStep(t) == \/ DeleteTaskRow(t) \/ DeleteTaskCommit(t)
                 \/ DeleteRows(t) \/ DeleteRowsCommit(t)
RunStep(r) == \/ TriggerLookup(r) \/ TriggerInsert(r) \/ TriggerCommit(r)
              \/ RunReturns(r) \/ RunRaises(r) \/ UpdateRow(r) \/ UpdateCommit(r)

Next == \/ \E t \in Tasks : CreateStep(t) \/ DeleteStep(t)
        \/ \E r \in Runs : RunStep(r)
        \/ ReaderCloses
        \/ ReaderCommits

Spec == Init /\ [][Next]_vars

\* A request that was accepted goes on: the thread pool runs its background
\* body and the runner is bounded by its timeout.
FairSpec == Spec /\ \A r \in Runs : WF_vars(runPc[r] # "idle" /\ RunStep(r))

-----------------------------------------------------------------------------
(* Properties.                                                             *)

Store == [tasks : SUBSET Tasks, rows : [Runs -> Status \cup {Absent}]]

\* Every variable has the shape the code gives it.
TypeOK ==
  /\ db \in Store /\ work \in Store
  /\ shared \in BOOLEAN
  /\ name \in [Tasks -> Names] /\ target \in [Runs -> Tasks]
  /\ createPc \in [Tasks -> {"idle", "inserted", "refused", "committed",
                             "created", "conflict", "failed"}]
  /\ deletePc \in [Tasks -> {"idle", "taskGone", "taskCommitted", "rowsGone",
                             "deleted"}]
  /\ runPc \in [Runs -> {"idle", "found", "inserted", "accepted", "ran", "raised",
                         "updated", "rowMissing", "finished"}]
  /\ outcome \in [Runs -> Terminal \cup {Absent}]

Undeleted(t) == deletePc[t] = "idle"

\* A 202 is a promise: until somebody deletes the task, the run has a row.
AcceptedRunStored ==
  \A r \in Runs : /\ runPc[r] \in {"accepted", "ran", "raised", "updated",
                                   "rowMissing", "finished"}
                  /\ Undeleted(target[r])
                  => db.rows[r] # Absent

\* With a connection per session that promise is kept.
IsolatedRunStored == ~shared => AcceptedRunStored

\* A run that finished shows what the runner returned, "timeout" included, or
\* went with its task: a delete that races the background body never makes
\* the row stay at "pending".  On the shared connection a foreign rollback can.
FinishedRunSettled ==
  \A r \in Runs : ~shared /\ runPc[r] = "finished" =>
     \/ db.rows[r] = outcome[r]
     \/ db.rows[r] = Absent /\ ~Undeleted(target[r])

\* A run that was accepted before the delete of its task began has left no row
\* when the delete is answered, and its background body never brings it back.
\* (A run accepted while the delete is under way may leave one.)
DeletedStaysDeleted ==
  \A r \in Runs :
     [](~shared /\ runPc[r] = "accepted" /\ Undeleted(target[r])
          => [](deletePc[target[r]] = "deleted" => db.rows[r] = Absent))

\* A terminal status is final, whatever runs, deletes, commits and rollbacks
\* of other sessions interleave.
TerminalIsFinal ==
  [][\A r \in Runs : db.rows[r] \in Terminal =>
       db'.rows[r] \in {db.rows[r], Absent}]_vars

\* Two tasks never share a name, also when their creates race.
UniqueNames == \A t, u \in db.tasks : name[t] = name[u] => t = u

\* A 201 is given for a committed row only: whatever sessions of other threads
\* commit or roll back in between, the task is there until it is deleted.
CreatedTaskStored ==
  \A t \in Tasks : createPc[t] = "created" /\ Undeleted(t) => t \in db.tasks

\* With a connection per session the handlers implement RunLedger: whatever the
\* interleaving of their sessions, the store changes as if a create, each half of
\* a delete, an acceptance and an update were one step each.  (Nothing is claimed
\* of the shared connection, whose ledger is taken to stay empty.)
IfIsolated(value, otherwise) == IF shared THEN otherwise ELSE value
NoRows == [r \in Runs |-> Absent]

Ledger == INSTANCE RunLedger
            WITH tasks <- IfIsolated(db.tasks, {}),
                 gone <- IfIsolated({t \in Tasks : ~Undeleted(t)}, {}),
                 accepted <- IfIsolated({r \in Runs : runPc[r] \notin {"idle", "found"}}, {}),
                 rows <- IfIsolated(db.rows, NoRows),
                 outcome <- IfIsolated(outcome, NoRows)
ImplementsLedger == Ledger!Spec

Settled(r) == db.rows[r] # "pending"

\* The background body of a run whose task may be deleted under it still ends:
\* the row leaves "pending", or goes with its task, unless the runner raised.
RunSettlesOrRaises ==
  \A r \in Runs : ~shared /\ runPc[r] = "accepted"
                    ~> Settled(r) \/ runPc[r] = "raised"
=============================================================================
