-------------------------- MODULE TaskStoreProofs --------------------------
(***************************************************************************)
(* The safety of the store, for any sets of tasks, runs and names and for  *)
(* either kind of engine.  Each property has a strengthening of its own,   *)
(* all built on the same view: what the open transaction may add to or     *)
(* take from the committed state before somebody commits it.  With a       *)
(* connection per session nothing is pending there, and the handlers       *)
(* implement the ledger of RunLedger.tla.                                  *)
(***************************************************************************)
EXTENDS TaskStore, TLAPS

Stores == {db, work}

\* Names are distinct in what is committed and in what may be.
NamesInv == \A x \in Stores : \A t, u \in x.tasks : name[t] = name[u] => t = u

\* The open transaction removes no task that nobody deletes, and a row that
\* a create still sees after its commit is a committed one.
CreateInv ==
  \A t \in Tasks : Undeleted(t) =>
    /\ t \in db.tasks => t \in work.tasks
    /\ createPc[t] = "committed" /\ t \in work.tasks => t \in db.tasks
    /\ createPc[t] = "created" => t \in db.tasks

\* A terminal status is that of the runner, was written by the update, and
\* the open transaction can only take it away with its row.
StatusInv ==
  \A r \in Runs :
    /\ \A x \in Stores : x.rows[r] \in Terminal =>
         runPc[r] \in {"updated", "finished"} /\ x.rows[r] = outcome[r]
    /\ db.rows[r] \in Terminal => work.rows[r] \in {db.rows[r], Absent}
    /\ runPc[r] \in {"ran", "updated", "finished"} => outcome[r] \in Terminal

\* With a connection per session no write waits for a commit between steps, a
\* run that has inserted its row keeps it until a delete of its task takes it,
\* and an updated one shows what the runner returned.
IsolatedInv ==
  ~shared =>
    /\ db = work
    /\ \A r \in Runs :
         /\ runPc[r] \notin {"idle", "found"} /\ Undeleted(target[r])
              => db.rows[r] # Absent
         /\ runPc[r] \in {"updated", "finished"} => db.rows[r] \in {outcome[r], Absent}

StoreInv == TypeOK /\ NamesInv /\ CreateInv /\ StatusInv /\ IsolatedInv

-----------------------------------------------------------------------------
\* The initial store is empty and no request has begun.
LEMMA StoreInit == Init => StoreInv
  BY EnginesAssumption
     DEF Init, StoreInv, TypeOK, NamesInv, CreateInv, StatusInv, IsolatedInv, Store,
         Stores, Empty, Terminal, Status, Absent, Undeleted

\* Every step keeps the shape of the variables.
LEMMA TypeStep ==
  ASSUME TypeOK, [Next]_vars
  PROVE  TypeOK'
<1> USE DEF TypeOK, Store, Status, Terminal, choices, requests
<1>1. ASSUME NEW t \in Tasks, CreateInsert(t) PROVE TypeOK'
  BY <1>1 DEF CreateInsert, CreateAt, NameTaken, Execute, WithTasks
<1>2. ASSUME NEW t \in Tasks, CreateConflict(t) PROVE TypeOK'
  BY <1>2 DEF CreateConflict, CreateAt, Rollback
<1>3. ASSUME NEW t \in Tasks, CreateCommit(t) PROVE TypeOK'
  BY <1>3 DEF CreateCommit, CreateAt, Commit
<1>4. ASSUME NEW t \in Tasks, CreateRefresh(t) PROVE TypeOK'
  BY <1>4 DEF CreateRefresh, CreateAt, Rollback
<1>5. ASSUME NEW t \in Tasks, DeleteTaskRow(t) PROVE TypeOK'
  BY <1>5 DEF DeleteTaskRow, DeleteAt, Execute, WithTasks
<1>6. ASSUME NEW t \in Tasks, DeleteTaskCommit(t) PROVE TypeOK'
  BY <1>6 DEF DeleteTaskCommit, DeleteAt, Commit
<1>7. ASSUME NEW t \in Tasks, DeleteRows(t) PROVE TypeOK'
  BY <1>7 DEF DeleteRows, DeleteAt, Execute
<1>8. ASSUME NEW t \in Tasks, DeleteRowsCommit(t) PROVE TypeOK'
  BY <1>8 DEF DeleteRowsCommit, DeleteAt, Commit
<1>9. ASSUME NEW r \in Runs, TriggerLookup(r) PROVE TypeOK'
  BY <1>9 DEF TriggerLookup, RunAt, Rollback
<1>10. ASSUME NEW r \in Runs, TriggerInsert(r) PROVE TypeOK'
  BY <1>10 DEF TriggerInsert, RunAt, Execute, WithRow
<1>11. ASSUME NEW r \in Runs, TriggerCommit(r) PROVE TypeOK'
  BY <1>11 DEF TriggerCommit, RunAt, Commit
<1>12. ASSUME NEW r \in Runs, RunReturns(r) PROVE TypeOK'
  BY <1>12 DEF RunReturns, RunAt
<1>13. ASSUME NEW r \in Runs, RunRaises(r) PROVE TypeOK'
  BY <1>13 DEF RunRaises, RunAt
<1>14. ASSUME NEW r \in Runs, UpdateRow(r) PROVE TypeOK'
  BY <1>14 DEF UpdateRow, RunAt, Updated, Execute, WithRow, Rollback
<1>15. ASSUME NEW r \in Runs, UpdateCommit(r) PROVE TypeOK'
  BY <1>15 DEF UpdateCommit, RunAt, Commit
<1>16. CASE ReaderCloses
  BY <1>16 DEF ReaderCloses, Rollback
<1>17. CASE ReaderCommits
  BY <1>17 DEF ReaderCommits, Commit
<1>18. CASE UNCHANGED vars
  BY <1>18 DEF vars
<1>. QED
  BY <1>1, <1>2, <1>3, <1>4, <1>5, <1>6, <1>7, <1>8, <1>9, <1>10, <1>11, <1>12, <1>13, <1>14, <1>15, <1>16, <1>17, <1>18 DEF Next, CreateStep, DeleteStep, RunStep

\* Every step keeps names distinct: create inserts a name the open
\* transaction does not hold, and whatever is committed or rolled back to is
\* the whole of one version.
LEMMA NamesStep ==
  ASSUME TypeOK, NamesInv, [Next]_vars
  PROVE  NamesInv'
<1> USE DEF TypeOK, Store, NamesInv, Stores, choices, requests
<1>1. ASSUME NEW t \in Tasks, CreateInsert(t) PROVE NamesInv'
  BY <1>1 DEF CreateInsert, CreateAt, NameTaken, Execute, WithTasks
<1>2. ASSUME NEW t \in Tasks, CreateConflict(t) PROVE NamesInv'
  BY <1>2 DEF CreateConflict, CreateAt, Rollback
<1>3. ASSUME NEW t \in Tasks, CreateCommit(t) PROVE NamesInv'
  BY <1>3 DEF CreateCommit, CreateAt, Commit
<1>4. ASSUME NEW t \in Tasks, CreateRefresh(t) PROVE NamesInv'
  BY <1>4 DEF CreateRefresh, CreateAt, Rollback
<1>5. ASSUME NEW t \in Tasks, DeleteTaskRow(t) PROVE NamesInv'
  BY <1>5 DEF DeleteTaskRow, DeleteAt, Execute, WithTasks
<1>6. ASSUME NEW t \in Tasks, DeleteTaskCommit(t) PROVE NamesInv'
  BY <1>6 DEF DeleteTaskCommit, DeleteAt, Commit
<1>7. ASSUME NEW t \in Tasks, DeleteRows(t) PROVE NamesInv'
  BY <1>7 DEF DeleteRows, DeleteAt, Execute
<1>8. ASSUME NEW t \in Tasks, DeleteRowsCommit(t) PROVE NamesInv'
  BY <1>8 DEF DeleteRowsCommit, DeleteAt, Commit
<1>9. ASSUME NEW r \in Runs, TriggerLookup(r) PROVE NamesInv'
  BY <1>9 DEF TriggerLookup, RunAt, Rollback
<1>10. ASSUME NEW r \in Runs, TriggerInsert(r) PROVE NamesInv'
  BY <1>10 DEF TriggerInsert, RunAt, Execute, WithRow
<1>11. ASSUME NEW r \in Runs, TriggerCommit(r) PROVE NamesInv'
  BY <1>11 DEF TriggerCommit, RunAt, Commit
<1>12. ASSUME NEW r \in Runs, RunReturns(r) PROVE NamesInv'
  BY <1>12 DEF RunReturns, RunAt
<1>13. ASSUME NEW r \in Runs, RunRaises(r) PROVE NamesInv'
  BY <1>13 DEF RunRaises, RunAt
<1>14. ASSUME NEW r \in Runs, UpdateRow(r) PROVE NamesInv'
  BY <1>14 DEF UpdateRow, RunAt, Updated, Execute, WithRow, Rollback
<1>15. ASSUME NEW r \in Runs, UpdateCommit(r) PROVE NamesInv'
  BY <1>15 DEF UpdateCommit, RunAt, Commit
<1>16. CASE ReaderCloses
  BY <1>16 DEF ReaderCloses, Rollback
<1>17. CASE ReaderCommits
  BY <1>17 DEF ReaderCommits, Commit
<1>18. CASE UNCHANGED vars
  BY <1>18 DEF vars
<1>. QED
  BY <1>1, <1>2, <1>3, <1>4, <1>5, <1>6, <1>7, <1>8, <1>9, <1>10, <1>11, <1>12, <1>13, <1>14, <1>15, <1>16, <1>17, <1>18 DEF Next, CreateStep, DeleteStep, RunStep

\* Every step keeps the two versions ordered on the undeleted tasks.
LEMMA CreateStepSound ==
  ASSUME TypeOK, CreateInv, [Next]_vars
  PROVE  CreateInv'
<1> USE DEF TypeOK, Store, CreateInv, Undeleted, choices, requests
<1>1. ASSUME NEW t \in Tasks, CreateInsert(t) PROVE CreateInv'
  BY <1>1 DEF CreateInsert, CreateAt, NameTaken, Execute, WithTasks
<1>2. ASSUME NEW t \in Tasks, CreateConflict(t) PROVE CreateInv'
  BY <1>2 DEF CreateConflict, CreateAt, Rollback
<1>3. ASSUME NEW t \in Tasks, CreateCommit(t) PROVE CreateInv'
  BY <1>3 DEF CreateCommit, CreateAt, Commit
<1>4. ASSUME NEW t \in Tasks, CreateRefresh(t) PROVE CreateInv'
  BY <1>4 DEF CreateRefresh, CreateAt, Rollback
<1>5. ASSUME NEW t \in Tasks, DeleteTaskRow(t) PROVE CreateInv'
  BY <1>5 DEF DeleteTaskRow, DeleteAt, Execute, WithTasks
<1>6. ASSUME NEW t \in Tasks, DeleteTaskCommit(t) PROVE CreateInv'
  BY <1>6 DEF DeleteTaskCommit, DeleteAt, Commit
<1>7. ASSUME NEW t \in Tasks, DeleteRows(t) PROVE CreateInv'
  BY <1>7 DEF DeleteRows, DeleteAt, Execute
<1>8. ASSUME NEW t \in Tasks, DeleteRowsCommit(t) PROVE CreateInv'
  BY <1>8 DEF DeleteRowsCommit, DeleteAt, Commit
<1>9. ASSUME NEW r \in Runs, TriggerLookup(r) PROVE CreateInv'
  BY <1>9 DEF TriggerLookup, RunAt, Rollback
<1>10. ASSUME NEW r \in Runs, TriggerInsert(r) PROVE CreateInv'
  BY <1>10 DEF TriggerInsert, RunAt, Execute, WithRow
<1>11. ASSUME NEW r \in Runs, TriggerCommit(r) PROVE CreateInv'
  BY <1>11 DEF TriggerCommit, RunAt, Commit
<1>12. ASSUME NEW r \in Runs, RunReturns(r) PROVE CreateInv'
  BY <1>12 DEF RunReturns, RunAt
<1>13. ASSUME NEW r \in Runs, RunRaises(r) PROVE CreateInv'
  BY <1>13 DEF RunRaises, RunAt
<1>14. ASSUME NEW r \in Runs, UpdateRow(r) PROVE CreateInv'
  BY <1>14 DEF UpdateRow, RunAt, Updated, Execute, WithRow, Rollback
<1>15. ASSUME NEW r \in Runs, UpdateCommit(r) PROVE CreateInv'
  BY <1>15 DEF UpdateCommit, RunAt, Commit
<1>16. CASE ReaderCloses
  BY <1>16 DEF ReaderCloses, Rollback
<1>17. CASE ReaderCommits
  BY <1>17 DEF ReaderCommits, Commit
<1>18. CASE UNCHANGED vars
  BY <1>18 DEF vars
<1>. QED
  BY <1>1, <1>2, <1>3, <1>4, <1>5, <1>6, <1>7, <1>8, <1>9, <1>10, <1>11, <1>12, <1>13, <1>14, <1>15, <1>16, <1>17, <1>18 DEF Next, CreateStep, DeleteStep, RunStep

\* Every step keeps a terminal status where the update wrote it: a run's row
\* is inserted before the run is accepted and updated once, after it ran.
LEMMA StatusStep ==
  ASSUME TypeOK, StatusInv, [Next]_vars
  PROVE  StatusInv'
<1> USE DEF TypeOK, Store, StatusInv, Stores, Terminal, Status, Absent, choices, requests
<1>1. ASSUME NEW t \in Tasks, CreateInsert(t) PROVE StatusInv'
  BY <1>1 DEF CreateInsert, CreateAt, NameTaken, Execute, WithTasks
<1>2. ASSUME NEW t \in Tasks, CreateConflict(t) PROVE StatusInv'
  BY <1>2 DEF CreateConflict, CreateAt, Rollback
<1>3. ASSUME NEW t \in Tasks, CreateCommit(t) PROVE StatusInv'
  BY <1>3 DEF CreateCommit, CreateAt, Commit
<1>4. ASSUME NEW t \in Tasks, CreateRefresh(t) PROVE StatusInv'
  BY <1>4 DEF CreateRefresh, CreateAt, Rollback
<1>5. ASSUME NEW t \in Tasks, DeleteTaskRow(t) PROVE StatusInv'
  BY <1>5 DEF DeleteTaskRow, DeleteAt, Execute, WithTasks
<1>6. ASSUME NEW t \in Tasks, DeleteTaskCommit(t) PROVE StatusInv'
  BY <1>6 DEF DeleteTaskCommit, DeleteAt, Commit
<1>7. ASSUME NEW t \in Tasks, DeleteRows(t) PROVE StatusInv'
  BY <1>7 DEF DeleteRows, DeleteAt, Execute
<1>8. ASSUME NEW t \in Tasks, DeleteRowsCommit(t) PROVE StatusInv'
  BY <1>8 DEF DeleteRowsCommit, DeleteAt, Commit
<1>9. ASSUME NEW r \in Runs, TriggerLookup(r) PROVE StatusInv'
  BY <1>9 DEF TriggerLookup, RunAt, Rollback
<1>10. ASSUME NEW r \in Runs, TriggerInsert(r) PROVE StatusInv'
  BY <1>10 DEF TriggerInsert, RunAt, Execute, WithRow
<1>11. ASSUME NEW r \in Runs, TriggerCommit(r) PROVE StatusInv'
  BY <1>11 DEF TriggerCommit, RunAt, Commit
<1>12. ASSUME NEW r \in Runs, RunReturns(r) PROVE StatusInv'
  BY <1>12 DEF RunReturns, RunAt
<1>13. ASSUME NEW r \in Runs, RunRaises(r) PROVE StatusInv'
  BY <1>13 DEF RunRaises, RunAt
<1>14. ASSUME NEW r \in Runs, UpdateRow(r) PROVE StatusInv'
  BY <1>14 DEF UpdateRow, RunAt, Updated, Execute, WithRow, Rollback
<1>15. ASSUME NEW r \in Runs, UpdateCommit(r) PROVE StatusInv'
  BY <1>15 DEF UpdateCommit, RunAt, Commit
<1>16. CASE ReaderCloses
  BY <1>16 DEF ReaderCloses, Rollback
<1>17. CASE ReaderCommits
  BY <1>17 DEF ReaderCommits, Commit
<1>18. CASE UNCHANGED vars
  BY <1>18 DEF vars
<1>. QED
  BY <1>1, <1>2, <1>3, <1>4, <1>5, <1>6, <1>7, <1>8, <1>9, <1>10, <1>11, <1>12, <1>13, <1>14, <1>15, <1>16, <1>17, <1>18 DEF Next, CreateStep, DeleteStep, RunStep

\* With a connection per session every step keeps the row of an undeleted run.
LEMMA IsolatedStep ==
  ASSUME TypeOK, StatusInv, IsolatedInv, [Next]_vars
  PROVE  IsolatedInv'
<1> USE DEF TypeOK, Store, IsolatedInv, Undeleted, Terminal, Status, Absent, choices, requests
<1>1. ASSUME NEW t \in Tasks, CreateInsert(t) PROVE IsolatedInv'
  BY <1>1 DEF CreateInsert, CreateAt, NameTaken, Execute, WithTasks
<1>2. ASSUME NEW t \in Tasks, CreateConflict(t) PROVE IsolatedInv'
  BY <1>2 DEF CreateConflict, CreateAt, Rollback
<1>3. ASSUME NEW t \in Tasks, CreateCommit(t) PROVE IsolatedInv'
  BY <1>3 DEF CreateCommit, CreateAt, Commit
<1>4. ASSUME NEW t \in Tasks, CreateRefresh(t) PROVE IsolatedInv'
  BY <1>4 DEF CreateRefresh, CreateAt, Rollback
<1>5. ASSUME NEW t \in Tasks, DeleteTaskRow(t) PROVE IsolatedInv'
  BY <1>5 DEF DeleteTaskRow, DeleteAt, Execute, WithTasks
<1>6. ASSUME NEW t \in Tasks, DeleteTaskCommit(t) PROVE IsolatedInv'
  BY <1>6 DEF DeleteTaskCommit, DeleteAt, Commit
<1>7. ASSUME NEW t \in Tasks, DeleteRows(t) PROVE IsolatedInv'
  BY <1>7 DEF DeleteRows, DeleteAt, Execute
<1>8. ASSUME NEW t \in Tasks, DeleteRowsCommit(t) PROVE IsolatedInv'
  BY <1>8 DEF DeleteRowsCommit, DeleteAt, Commit
<1>9. ASSUME NEW r \in Runs, TriggerLookup(r) PROVE IsolatedInv'
  BY <1>9 DEF TriggerLookup, RunAt, Rollback
<1>10. ASSUME NEW r \in Runs, TriggerInsert(r) PROVE IsolatedInv'
  BY <1>10 DEF TriggerInsert, RunAt, Execute, WithRow
<1>11. ASSUME NEW r \in Runs, TriggerCommit(r) PROVE IsolatedInv'
  BY <1>11 DEF TriggerCommit, RunAt, Commit
<1>12. ASSUME NEW r \in Runs, RunReturns(r) PROVE IsolatedInv'
  BY <1>12 DEF RunReturns, RunAt
<1>13. ASSUME NEW r \in Runs, RunRaises(r) PROVE IsolatedInv'
  BY <1>13 DEF RunRaises, RunAt
<1>14. ASSUME NEW r \in Runs, UpdateRow(r) PROVE IsolatedInv'
  <2>1. outcome[r] \in Terminal
    BY <1>14 DEF StatusInv, UpdateRow, RunAt
  <2>. QED
    BY <1>14, <2>1 DEF UpdateRow, RunAt, Updated, Execute, WithRow, Rollback
<1>15. ASSUME NEW r \in Runs, UpdateCommit(r) PROVE IsolatedInv'
  BY <1>15 DEF UpdateCommit, RunAt, Commit
<1>16. CASE ReaderCloses
  BY <1>16 DEF ReaderCloses, Rollback
<1>17. CASE ReaderCommits
  BY <1>17 DEF ReaderCommits, Commit
<1>18. CASE UNCHANGED vars
  BY <1>18 DEF vars
<1>. QED
  BY <1>1, <1>2, <1>3, <1>4, <1>5, <1>6, <1>7, <1>8, <1>9, <1>10, <1>11, <1>12, <1>13, <1>14, <1>15, <1>16, <1>17, <1>18 DEF Next, CreateStep, DeleteStep, RunStep

\* Hence the invariant holds in every state of every behaviour.
LEMMA StoreInvHolds == Spec => []StoreInv
<1>1. StoreInv /\ [Next]_vars => StoreInv'
  BY TypeStep, NamesStep, CreateStepSound, StatusStep, IsolatedStep DEF StoreInv
<1>. QED
  BY StoreInit, <1>1, PTL DEF Spec

-----------------------------------------------------------------------------
\* Every variable keeps the shape the code gives it.
THEOREM StoreTypeCorrect == Spec => []TypeOK
<1>1. StoreInv => TypeOK
  BY DEF StoreInv
<1>. QED
  BY StoreInvHolds, <1>1, PTL

\* No interleaving of creates, deletes and foreign rollbacks gives two stored
\* tasks one name.
THEOREM UniqueNamesCorrect == Spec => []UniqueNames
<1>1. StoreInv => UniqueNames
  BY DEF StoreInv, NamesInv, Stores, UniqueNames
<1>. QED
  BY StoreInvHolds, <1>1, PTL

\* A task whose create was answered 201 is committed until somebody deletes
\* it, on the shared connection too: refresh is what makes the answer honest.
THEOREM CreatedTaskStoredCorrect == Spec => []CreatedTaskStored
<1>1. StoreInv => CreatedTaskStored
  BY DEF StoreInv, CreateInv, CreatedTaskStored
<1>. QED
  BY StoreInvHolds, <1>1, PTL

\* With a connection per session, a run that was answered 202 has its row
\* until somebody deletes its task.
THEOREM IsolatedRunStoredCorrect == Spec => []IsolatedRunStored
<1>1. StoreInv => IsolatedRunStored
  BY DEF StoreInv, IsolatedInv, TypeOK, Store, IsolatedRunStored, AcceptedRunStored
<1>. QED
  BY StoreInvHolds, <1>1, PTL

\* With a connection per session, a finished run shows what the runner
\* returned, or its row went with its task.
THEOREM FinishedRunSettledCorrect == Spec => []FinishedRunSettled
<1>1. StoreInv => FinishedRunSettled
  BY DEF StoreInv, IsolatedInv, TypeOK, Store, FinishedRunSettled
<1>. QED
  BY StoreInvHolds, <1>1, PTL

\* No foreign commit or rollback makes up a status: on either engine a row that
\* shows a terminal one shows what the runner returned for that very run.
THEOREM StatusFromRunner ==
  Spec => [](\A r \in Runs : db.rows[r] \in Terminal => db.rows[r] = outcome[r])
<1>1. StoreInv => \A r \in Runs : db.rows[r] \in Terminal => db.rows[r] = outcome[r]
  BY DEF StoreInv, StatusInv, Stores
<1>. QED
  BY StoreInvHolds, <1>1, PTL

\* Whatever is committed or rolled back, and by whom, a terminal status is
\* replaced by no other: only one write of it is ever made, and a later commit
\* can at most carry the delete of its row.
THEOREM TerminalIsFinalCorrect == Spec => TerminalIsFinal
<1> DEFINE Final == \A r \in Runs : db.rows[r] \in Terminal =>
                      db'.rows[r] \in {db.rows[r], Absent}
<1>1. ASSUME StoreInv, db' = db \/ db' = work PROVE Final
  BY <1>1 DEF StoreInv, StatusInv
<1>2. ASSUME StoreInv, [Next]_vars PROVE Final
  <2> USE <1>2 DEF StoreInv, TypeOK, Store, StatusInv, Terminal, Status, Absent
  <2>1. ASSUME NEW t \in Tasks, CreateInsert(t) \/ DeleteTaskRow(t) PROVE Final
    BY <2>1 DEF CreateInsert, DeleteTaskRow, Execute, WithTasks
  <2>2. ASSUME NEW t \in Tasks, DeleteRows(t) PROVE Final
    BY <2>2 DEF DeleteRows, Execute
  <2>3. ASSUME NEW r \in Runs, TriggerInsert(r) \/ UpdateRow(r) PROVE Final
    <3>1. runPc[r] \in {"found", "ran"} /\ db.rows[r] \notin Terminal
      BY <2>3 DEF Stores, TriggerInsert, UpdateRow, RunAt
    <3>2. db' = db \/ \E s : db' = WithRow(r, s)
      BY <2>3 DEF TriggerInsert, UpdateRow, Execute, Rollback
    <3>. QED
      BY <3>1, <3>2 DEF WithRow
  <2>4. ASSUME NEW t \in Tasks,
               \/ CreateConflict(t) \/ CreateCommit(t) \/ CreateRefresh(t)
               \/ DeleteTaskCommit(t) \/ DeleteRowsCommit(t)
        PROVE  Final
    BY <2>4, <1>1 DEF CreateConflict, CreateCommit, CreateRefresh,
       DeleteTaskCommit, DeleteRowsCommit, Commit, Rollback
  <2>5. ASSUME NEW r \in Runs,
               \/ TriggerLookup(r) \/ TriggerCommit(r)
               \/ RunReturns(r) \/ RunRaises(r) \/ UpdateCommit(r)
        PROVE  Final
    BY <2>5, <1>1 DEF TriggerLookup, TriggerCommit, RunReturns, RunRaises,
       UpdateCommit, Commit, Rollback
  <2>6. CASE ReaderCloses \/ ReaderCommits \/ UNCHANGED vars
    BY <2>6, <1>1 DEF ReaderCloses, ReaderCommits, Commit, Rollback, vars
  <2>. QED
    BY <2>1, <2>2, <2>3, <2>4, <2>5, <2>6 DEF Next, CreateStep, DeleteStep, RunStep
<1>3. StoreInv /\ [Next]_vars => [Final]_vars
  BY <1>2
<1>. QED
  BY StoreInvHolds, <1>3, PTL DEF Spec, TerminalIsFinal

-----------------------------------------------------------------------------
\* What keeps a deleted task's run away: it has inserted its row for good, and
\* once the delete of the rows has been made there is none to update.
RowGone(r) == /\ runPc[r] \notin {"idle", "found", "inserted"}
              /\ deletePc[target[r]] \in {"rowsGone", "deleted"} => db.rows[r] = Absent

\* With a connection per session no step of anybody brings the row back.
LEMMA RowStaysGone ==
  ASSUME StoreInv, ~shared, [Next]_vars, NEW q \in Runs, RowGone(q)
  PROVE  RowGone(q)' /\ ~shared'
<1> USE DEF StoreInv, TypeOK, Store, IsolatedInv, RowGone, choices, requests
<1> DEFINE Kept == RowGone(q)' /\ ~shared'
<1>1. ASSUME NEW t \in Tasks, CreateInsert(t) PROVE Kept
  BY <1>1 DEF CreateInsert, CreateAt, NameTaken, Execute, WithTasks
<1>2. ASSUME NEW t \in Tasks, CreateConflict(t) PROVE Kept
  BY <1>2 DEF CreateConflict, CreateAt, Rollback
<1>3. ASSUME NEW t \in Tasks, CreateCommit(t) PROVE Kept
  BY <1>3 DEF CreateCommit, CreateAt, Commit
<1>4. ASSUME NEW t \in Tasks, CreateRefresh(t) PROVE Kept
  BY <1>4 DEF CreateRefresh, CreateAt, Rollback
<1>5. ASSUME NEW t \in Tasks, DeleteTaskRow(t) PROVE Kept
  BY <1>5 DEF DeleteTaskRow, DeleteAt, Execute, WithTasks
<1>6. ASSUME NEW t \in Tasks, DeleteTaskCommit(t) PROVE Kept
  BY <1>6 DEF DeleteTaskCommit, DeleteAt, Commit
<1>7. ASSUME NEW t \in Tasks, DeleteRows(t) PROVE Kept
  BY <1>7 DEF DeleteRows, DeleteAt, Execute
<1>8. ASSUME NEW t \in Tasks, DeleteRowsCommit(t) PROVE Kept
  BY <1>8 DEF DeleteRowsCommit, DeleteAt, Commit
<1>9. ASSUME NEW r \in Runs, TriggerLookup(r) PROVE Kept
  BY <1>9 DEF TriggerLookup, RunAt, Rollback
<1>10. ASSUME NEW r \in Runs, TriggerInsert(r) PROVE Kept
  BY <1>10 DEF TriggerInsert, RunAt, Execute, WithRow
<1>11. ASSUME NEW r \in Runs, TriggerCommit(r) PROVE Kept
  BY <1>11 DEF TriggerCommit, RunAt, Commit
<1>12. ASSUME NEW r \in Runs, RunReturns(r) PROVE Kept
  BY <1>12 DEF RunReturns, RunAt
<1>13. ASSUME NEW r \in Runs, RunRaises(r) PROVE Kept
  BY <1>13 DEF RunRaises, RunAt
<1>14. ASSUME NEW r \in Runs, UpdateRow(r) PROVE Kept
  BY <1>14 DEF UpdateRow, RunAt, Updated, Execute, WithRow, Rollback
<1>15. ASSUME NEW r \in Runs, UpdateCommit(r) PROVE Kept
  BY <1>15 DEF UpdateCommit, RunAt, Commit
<1>16. CASE ReaderCloses
  BY <1>16 DEF ReaderCloses, Rollback
<1>17. CASE ReaderCommits
  BY <1>17 DEF ReaderCommits, Commit
<1>18. CASE UNCHANGED vars
  BY <1>18 DEF vars
<1>. QED
  BY <1>1, <1>2, <1>3, <1>4, <1>5, <1>6, <1>7, <1>8, <1>9, <1>10, <1>11, <1>12, <1>13, <1>14, <1>15, <1>16, <1>17, <1>18 DEF Next, CreateStep, DeleteStep, RunStep

\* With a connection per session, a run accepted before the delete of its task
\* began leaves no row once that delete is answered, then and ever after.
THEOREM DeletedStaysDeletedCorrect == Spec => DeletedStaysDeleted
<1> SUFFICES ASSUME NEW r \in Runs
             PROVE  Spec => [](~shared /\ runPc[r] = "accepted" /\ Undeleted(target[r])
                       => [](deletePc[target[r]] = "deleted" => db.rows[r] = Absent))
  BY DEF DeletedStaysDeleted
<1> DEFINE Gone == ~shared /\ RowGone(r)
<1>1. ~shared /\ runPc[r] = "accepted" /\ Undeleted(target[r]) => Gone
  BY DEF RowGone, Undeleted
<1>2. StoreInv /\ Gone /\ [Next]_vars => Gone'
  BY RowStaysGone
<1>3. Gone => (deletePc[target[r]] = "deleted" => db.rows[r] = Absent)
  BY DEF RowGone
<1>. QED
  BY StoreInvHolds, <1>1, <1>2, <1>3, PTL DEF Spec

-----------------------------------------------------------------------------
(* The refinement of RunLedger, with a connection per session.             *)

\* Only a create that has begun leads to a task or its delete, a run is only
\* triggered for a task that exists or is being deleted, and the runner has
\* returned nothing before the run was accepted.
LedgerInv ==
  ~shared =>
    /\ \A t \in Tasks : createPc[t] = "idle" => t \notin db.tasks /\ Undeleted(t)
    /\ \A r \in Runs : runPc[r] # "idle" =>
                         target[r] \in db.tasks \/ ~Undeleted(target[r])
    /\ \A r \in Runs : runPc[r] \in {"idle", "found", "inserted", "accepted"} =>
                         outcome[r] = Absent

\* Every step keeps it: the open transaction is the committed state, so a
\* lookup that finds a task finds a committed one.
LEMMA LedgerInvStep ==
  ASSUME TypeOK, CreateInv, IsolatedInv, LedgerInv, [Next]_vars
  PROVE  LedgerInv'
<1> USE DEF TypeOK, Store, CreateInv, IsolatedInv, LedgerInv, Undeleted, choices, requests
<1>1. ASSUME NEW t \in Tasks, CreateInsert(t) PROVE LedgerInv'
  BY <1>1 DEF CreateInsert, CreateAt, NameTaken, Execute, WithTasks
<1>2. ASSUME NEW t \in Tasks, CreateConflict(t) PROVE LedgerInv'
  BY <1>2 DEF CreateConflict, CreateAt, Rollback
<1>3. ASSUME NEW t \in Tasks, CreateCommit(t) PROVE LedgerInv'
  BY <1>3 DEF CreateCommit, CreateAt, Commit
<1>4. ASSUME NEW t \in Tasks, CreateRefresh(t) PROVE LedgerInv'
  BY <1>4 DEF CreateRefresh, CreateAt, Rollback
<1>5. ASSUME NEW t \in Tasks, DeleteTaskRow(t) PROVE LedgerInv'
  BY <1>5 DEF DeleteTaskRow, DeleteAt, Execute, WithTasks
<1>6. ASSUME NEW t \in Tasks, DeleteTaskCommit(t) PROVE LedgerInv'
  BY <1>6 DEF DeleteTaskCommit, DeleteAt, Commit
<1>7. ASSUME NEW t \in Tasks, DeleteRows(t) PROVE LedgerInv'
  BY <1>7 DEF DeleteRows, DeleteAt, Execute
<1>8. ASSUME NEW t \in Tasks, DeleteRowsCommit(t) PROVE LedgerInv'
  BY <1>8 DEF DeleteRowsCommit, DeleteAt, Commit
<1>9. ASSUME NEW r \in Runs, TriggerLookup(r) PROVE LedgerInv'
  BY <1>9 DEF TriggerLookup, RunAt, Rollback
<1>10. ASSUME NEW r \in Runs, TriggerInsert(r) PROVE LedgerInv'
  BY <1>10 DEF TriggerInsert, RunAt, Execute, WithRow
<1>11. ASSUME NEW r \in Runs, TriggerCommit(r) PROVE LedgerInv'
  BY <1>11 DEF TriggerCommit, RunAt, Commit
<1>12. ASSUME NEW r \in Runs, RunReturns(r) PROVE LedgerInv'
  BY <1>12 DEF RunReturns, RunAt
<1>13. ASSUME NEW r \in Runs, RunRaises(r) PROVE LedgerInv'
  BY <1>13 DEF RunRaises, RunAt
<1>14. ASSUME NEW r \in Runs, UpdateRow(r) PROVE LedgerInv'
  BY <1>14 DEF UpdateRow, RunAt, Updated, Execute, WithRow, Rollback
<1>15. ASSUME NEW r \in Runs, UpdateCommit(r) PROVE LedgerInv'
  BY <1>15 DEF UpdateCommit, RunAt, Commit
<1>16. CASE ReaderCloses
  BY <1>16 DEF ReaderCloses, Rollback
<1>17. CASE ReaderCommits
  BY <1>17 DEF ReaderCommits, Commit
<1>18. CASE UNCHANGED vars
  BY <1>18 DEF vars
<1>. QED
  BY <1>1, <1>2, <1>3, <1>4, <1>5, <1>6, <1>7, <1>8, <1>9, <1>10, <1>11, <1>12, <1>13, <1>14, <1>15, <1>16, <1>17, <1>18 DEF Next, CreateStep, DeleteStep, RunStep

\* The ledger's view of the store, with the names of the mapping spelt out.
LedgerView == <<name, target,
                IfIsolated(db.tasks, {}),
                IfIsolated({t \in Tasks : ~Undeleted(t)}, {}),
                IfIsolated({r \in Runs : runPc[r] \notin {"idle", "found"}}, {}),
                IfIsolated(db.rows, NoRows),
                IfIsolated(outcome, NoRows)>>

\* On the shared connection that view never changes.
LEMMA SharedStutters ==
  ASSUME shared, [Next]_vars
  PROVE  UNCHANGED LedgerView
<1>1. UNCHANGED choices
  BY DEF Next, CreateStep, DeleteStep, RunStep, CreateInsert, CreateConflict, CreateCommit,
         CreateRefresh, DeleteTaskRow, DeleteTaskCommit, DeleteRows, DeleteRowsCommit,
         TriggerLookup, TriggerInsert, TriggerCommit, RunReturns, RunRaises, UpdateRow,
         UpdateCommit, CreateAt, DeleteAt, RunAt, ReaderCloses, ReaderCommits, vars
<1>. QED
  BY <1>1 DEF LedgerView, IfIsolated, NoRows, choices

\* With a connection per session each step is a step of the ledger or none: the
\* insert is the creation or the acceptance, the two deletes are the two halves
\* of a delete, the update settles the run, and no commit or close shows.
LEMMA LedgerStep ==
  ASSUME StoreInv, LedgerInv, ~shared, [Next]_vars
  PROVE  [Ledger!Next]_(Ledger!vars)
<1> USE DEF StoreInv, TypeOK, Store, IsolatedInv, LedgerInv, Undeleted, IfIsolated,
            choices, requests
<1> DEFINE Stutter == UNCHANGED Ledger!vars
<1>1. ASSUME NEW t \in Tasks, CreateInsert(t) PROVE Ledger!Create(t) \/ Stutter
  <2>1. CASE NameTaken(t)
    BY <1>1, <2>1 DEF CreateInsert, CreateAt, Ledger!vars
  <2>2. CASE ~NameTaken(t)
    BY <1>1, <2>2 DEF CreateInsert, CreateAt, NameTaken, Execute, WithTasks, Ledger!Create
  <2>. QED
    BY <2>1, <2>2
<1>2. ASSUME NEW t \in Tasks, CreateConflict(t) \/ CreateCommit(t) \/ CreateRefresh(t)
      PROVE  Stutter
  BY <1>2 DEF CreateConflict, CreateCommit, CreateRefresh, CreateAt, Commit, Rollback,
     Ledger!vars
<1>3. ASSUME NEW t \in Tasks, DeleteTaskRow(t) PROVE Ledger!Delete(t)
  BY <1>3 DEF CreateInv, DeleteTaskRow, DeleteAt, Execute, WithTasks, Ledger!Delete
<1>4. ASSUME NEW t \in Tasks, DeleteTaskCommit(t) \/ DeleteRowsCommit(t) PROVE Stutter
  BY <1>4 DEF DeleteTaskCommit, DeleteRowsCommit, DeleteAt, Commit, Ledger!vars
<1>5. ASSUME NEW t \in Tasks, DeleteRows(t) PROVE Ledger!Purge(t)
  BY <1>5 DEF DeleteRows, DeleteAt, Execute, Ledger!Purge, Absent, Ledger!Absent
<1>6. ASSUME NEW r \in Runs, TriggerInsert(r) PROVE Ledger!Accept(r)
  BY <1>6 DEF TriggerInsert, RunAt, Execute, WithRow, Ledger!Accept
<1>7. ASSUME NEW r \in Runs, RunReturns(r) PROVE Ledger!Return(r)
  BY <1>7 DEF RunReturns, RunAt, Ledger!Return, Terminal, Ledger!Terminal, Absent,
     Ledger!Absent
<1>8. ASSUME NEW r \in Runs, UpdateRow(r) PROVE Ledger!Settle(r) \/ Stutter
  <2>1. CASE work.rows[r] = Absent
    BY <1>8, <2>1 DEF UpdateRow, RunAt, Execute, Rollback, Ledger!vars
  <2>2. CASE work.rows[r] # Absent
    <3>1. db.rows[r] = "pending" /\ outcome[r] # Ledger!Absent
      BY <1>8, <2>2 DEF StatusInv, Stores, Status, Terminal, Absent, UpdateRow, RunAt,
         Ledger!Absent
    <3>. QED
      BY <1>8, <2>2, <3>1 DEF UpdateRow, RunAt, Updated, Execute, WithRow, Ledger!Settle
  <2>. QED
    BY <2>1, <2>2
<1>9. ASSUME NEW r \in Runs,
             TriggerLookup(r) \/ TriggerCommit(r) \/ RunRaises(r) \/ UpdateCommit(r)
      PROVE  Stutter
  BY <1>9 DEF TriggerLookup, TriggerCommit, RunRaises, UpdateCommit, RunAt, Commit,
     Rollback, Ledger!vars
<1>10. CASE ReaderCloses \/ ReaderCommits
  BY <1>10 DEF ReaderCloses, ReaderCommits, Commit, Rollback, Ledger!vars
<1>11. CASE UNCHANGED vars
  BY <1>11 DEF vars, Ledger!vars
<1>. QED
  BY <1>1, <1>2, <1>3, <1>4, <1>5, <1>6, <1>7, <1>8, <1>9, <1>10, <1>11
     DEF Next, CreateStep, DeleteStep, RunStep, Ledger!Next

\* With a connection per session the handlers implement RunLedger, for any
\* sets of tasks, runs and names and any interleaving of their sessions.
THEOREM ImplementsLedgerCorrect == Spec => ImplementsLedger
<1>1. Init => LedgerInv /\ Ledger!Init
  BY DEF Init, Empty, LedgerInv, Undeleted, IfIsolated, NoRows, Absent, Ledger!Init,
     Ledger!Absent
<1>2. StoreInv /\ LedgerInv /\ [Next]_vars => LedgerInv'
  BY LedgerInvStep DEF StoreInv
<1>3. StoreInv /\ LedgerInv /\ [Next]_vars => [Ledger!Next]_(Ledger!vars)
  BY LedgerStep, SharedStutters DEF LedgerView, Ledger!vars
<1>. QED
  BY StoreInvHolds, <1>1, <1>2, <1>3, PTL DEF Spec, ImplementsLedger, Ledger!Spec

=============================================================================
