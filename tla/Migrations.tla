----------------------------- MODULE Migrations -----------------------------
(***************************************************************************)
(* The revisions v1, v2, v3 of migrations/versions, run by alembic against *)
(* a SQLite file (FR-07), and the readiness probe that reads their mark    *)
(* (FR-09).  A command that crosses several revisions is that many         *)
(* commands here: env.py lets alembic commit after each.                   *)
(*                                                                         *)
(* The driver opens a transaction before the first INSERT, UPDATE or       *)
(* DELETE and not before DDL; and since alembic takes SQLite for a         *)
(* database without transactional DDL, nothing else opens one.  So the     *)
(* statements of a revision before its first write are permanent at once,  *)
(* and a failure takes back only what follows.                             *)
(***************************************************************************)
EXTENDS Sequences

CONSTANTS
  Pieces,        \* what ids and names are joined from
  TaskSeeds,     \* rows [id, name] that are put into tasks
  DocSeeds,      \* documents [id, task_id] that are put into tasks.result_json
  ResultSeeds    \* rows [id, task_id] that are put into task_results

\* Ids and names are texts: sequences of pieces, so that texts can be joined.
Null == <<>>
Texts == Seq(Pieces)
Ids == Texts \ {Null}
Rows == [id : Ids, task_id : Texts]

ASSUME PiecesAssumption == "-result" \in Pieces
ASSUME SeedsAssumption == /\ TaskSeeds \subseteq [id : Ids, name : Ids]
                          /\ DocSeeds \subseteq [id : Texts, task_id : Texts]
                          /\ ResultSeeds \subseteq Rows

VARIABLES
  db,        \* the file: objects, recorded revision, rows of tasks and results
  work,      \* the file under the open transaction
  begun,     \* is a transaction open?
  script,    \* the statements left of the running revision
  goal,      \* the revision it leads to, "idle" when none runs
  todo,      \* rows of task_results that downgrade has fetched and not handled
  start,     \* history: the file when the running command began
  clean,     \* history: has no command failed yet?
  kept,      \* history: the results that were put in and not dropped on purpose
  probe,     \* the next read of readyz, "tables" or "row", or what it last answered
  db_ok      \* "yes" unless is_db_reachable failed in the probe under way

file == <<db, work, begun>>
command == <<script, goal, todo, start, clean>>
probing == <<probe, db_ok>>
vars == <<file, command, kept, probing>>

Blank == [objects |-> {}, version |-> "none", tasks |-> {}, results |-> {}]

Init == /\ db = Blank /\ work = Blank /\ begun = FALSE
        /\ script = <<>> /\ goal = "idle" /\ todo = {}
        /\ start = Blank /\ clean = TRUE
        /\ kept = {}
        /\ probe = "not ready" /\ db_ok = "yes"

-----------------------------------------------------------------------------
(* The revisions.                                                          *)

Create(o) == [op |-> "create", object |-> o]
Drop(o) == [op |-> "drop", object |-> o]
Move == [op |-> "move"]      \* INSERT INTO task_results SELECT ... FROM tasks
Fetch == [op |-> "fetch"]    \* SELECT ... FROM task_results, fetchall

V1Up == <<Create("tasks"), Create("api_keys"), Create("ix_key_hash")>>
V1Down == <<Drop("ix_key_hash"), Drop("api_keys"), Drop("tasks")>>

V2Up == <<Create("result_json"), Create("tags"), Create("task_tags"),
          Create("ix_tasks_name")>>
V2DownForgetsTags ==                                               \* mutant
  <<Drop("ix_tasks_name"), Drop("task_tags"), Drop("result_json")>>
V2Down == <<Drop("ix_tasks_name"), Drop("task_tags"), Drop("tags"),
            Drop("result_json")>>

V3Up == <<Create("task_results"), Move, Drop("result_json")>>
V3Down == <<Create("result_json"), Fetch, Drop("task_results")>>

Upgrade == [v1 |-> V1Up, v2 |-> V2Up, v3 |-> V3Up]
Downgrade == [v1 |-> V1Down, v2 |-> V2Down, v3 |-> V3Down]

Following == [none |-> "v1", empty |-> "v1", v1 |-> "v2", v2 |-> "v3"]
Preceding == [v1 |-> "empty", v2 |-> "v1", v3 |-> "v2"]

Documented(tasks) == {t \in tasks : t.doc # {}}
Doc(t) == CHOOSE d \in t.doc : TRUE

ResultOfNoFallback(t) == [id |-> Doc(t).id, task_id |-> t.id]      \* mutant

\* What v3 reads from a document, with its two COALESCE.
ResultOf(t) ==
  [id |-> IF Doc(t).id = Null THEN t.id \o <<"-result">> ELSE Doc(t).id,
   task_id |-> IF Doc(t).task_id = Null THEN t.id ELSE Doc(t).task_id]

-----------------------------------------------------------------------------
(* The database.                                                           *)

\* A column or an index belongs to its table and goes with it.
Table == [result_json |-> "tasks", ix_tasks_name |-> "tasks",
          ix_key_hash |-> "api_keys"]
PartsOf(object) == {object} \cup {o \in DOMAIN Table : Table[o] = object}

DistinctNames(tasks) == \A t, u \in tasks : t.name = u.name => t = u

Accepted(f, s) ==
  CASE s.op = "create" ->
         /\ s.object \notin f.objects
         /\ s.object \in DOMAIN Table => Table[s.object] \in f.objects
         /\ s.object = "ix_tasks_name" => DistinctNames(f.tasks)
    [] s.op = "drop" -> s.object \in f.objects
    [] s.op = "move" ->
         /\ "result_json" \in f.objects
         /\ \A t, u \in Documented(f.tasks) : ResultOf(t).id = ResultOf(u).id => t = u
    [] s.op = "fetch" -> "task_results" \in f.objects

Undocumented(tasks) == {[t EXCEPT !.doc = {}] : t \in tasks}

Dropped(f, o) ==
  [f EXCEPT !.objects = @ \ PartsOf(o),
            !.tasks = CASE o = "tasks" -> {}
                        [] o = "result_json" -> Undocumented(@)
                        [] OTHER -> @,
            !.results = IF o = "task_results" THEN {} ELSE @]

Executed(f, s) ==
  CASE s.op = "create" -> [f EXCEPT !.objects = @ \cup {s.object}]
    [] s.op = "drop" -> Dropped(f, s.object)
    [] s.op = "move" -> [f EXCEPT !.results = {ResultOf(t) : t \in Documented(f.tasks)}]
    [] s.op = "fetch" -> f

\* The statement that makes f of work: a write of rows opens a transaction.
Do(f, writes) == /\ work' = f
                 /\ begun' = (begun \/ writes)
                 /\ db' = IF begun' THEN db ELSE f

-----------------------------------------------------------------------------
(* alembic upgrade and downgrade by one revision.                          *)

Begin(to, statements) == /\ goal = "idle"
                         /\ goal' = to
                         /\ script' = statements
                         /\ start' = db'
                         /\ UNCHANGED <<begun, todo, clean, kept, probing>>

\* The table of revisions is created, for good, where it is missing.
BeginUpgrade ==
  /\ db.version \in DOMAIN Following
  /\ db' = [db EXCEPT !.version = IF @ = "none" THEN "empty" ELSE @]
  /\ work' = db'
  /\ Begin(Following[db.version], Upgrade[Following[db.version]])

BeginDowngrade == /\ db.version \in DOMAIN Preceding
                  /\ UNCHANGED <<db, work>>
                  /\ Begin(Preceding[db.version], Downgrade[db.version])

\* Going below v2 is meant to lose the documents, going below v1 the tasks.
LosesDocuments(s) == /\ s \in {Drop("result_json"), Drop("tasks")}
                     /\ goal \in {"v1", "empty"}

Statement ==
  /\ script # <<>> /\ todo = {}
  /\ LET s == Head(script)
     IN /\ Accepted(work, s)
        /\ Do(Executed(work, s), s = Move)
        /\ todo' = IF s = Fetch THEN work.results ELSE {}
        /\ kept' = IF LosesDocuments(s) THEN {} ELSE kept
  /\ script' = Tail(script)
  /\ UNCHANGED <<goal, start, clean, probing>>

FillKeyOfTask(row) == row.task_id                                  \* mutant

\* The task that takes a result back: of the result's id, not of its task_id.
FillKey(row) == row.id

\* One round of the loop in downgrade: UPDATE of the task with that id, or
\* INSERT of one whose name is its id, which the index on names may refuse.
FillRow ==
  \E row \in todo :
    LET key == FillKey(row)
        there == {t \in work.tasks : t.id = key}
        tasks == IF there # {}
                 THEN {IF t.id = key THEN [t EXCEPT !.doc = {row}] ELSE t : t \in work.tasks}
                 ELSE work.tasks \cup {[id |-> key, name |-> key, doc |-> {row}]}
    IN /\ "ix_tasks_name" \in work.objects => DistinctNames(tasks)
       /\ Do([work EXCEPT !.tasks = tasks], TRUE)
       /\ todo' = todo \ {row}
       /\ UNCHANGED <<script, goal, start, clean, kept, probing>>

Stop == /\ goal # "idle"
        /\ goal' = "idle"
        /\ script' = <<>>
        /\ todo' = {}
        /\ begun' = FALSE
        /\ start' = Blank
        /\ UNCHANGED <<kept, probing>>

\* The revision is recorded and the transaction committed.
Stamp == /\ script = <<>> /\ todo = {}
         /\ db' = [work EXCEPT !.version = goal]
         /\ work' = db'
         /\ Stop
         /\ UNCHANGED clean

\* A statement is refused, or the process dies: only rollback is left.
Fail == /\ Stop
        /\ clean' = FALSE
        /\ work' = db
        /\ UNCHANGED db

-----------------------------------------------------------------------------
(* What is written between two commands, by whoever uses the file.         *)

Write(f) == /\ goal = "idle"
            /\ db' = f /\ work' = f
            /\ UNCHANGED <<begun, script, goal, todo, start, clean, probing>>

SeedTask(seed) ==
  /\ "tasks" \in db.objects
  /\ \A t \in db.tasks : t.id # seed.id
  /\ "ix_tasks_name" \in db.objects => \A t \in db.tasks : t.name # seed.name
  /\ Write([db EXCEPT !.tasks = @ \cup {[id |-> seed.id, name |-> seed.name,
                                          doc |-> {}]}])
  /\ UNCHANGED kept

SeedDoc(d) ==
  /\ db.version = "v2" /\ "result_json" \in db.objects
  /\ \E t \in db.tasks :
       LET written == [t EXCEPT !.doc = {d}]
       IN /\ t.doc = {} /\ \E seed \in TaskSeeds : seed.id = t.id
          /\ Write([db EXCEPT !.tasks = (@ \ {t}) \cup {written}])
          /\ kept' = kept \cup {ResultOf(written)}

\* A missing task_id stands for the id of the result itself: downgrade files
\* the result under that id, and v3 fills the gap from there.
Filled(row) == [row EXCEPT !.task_id = IF @ = Null THEN row.id ELSE @]

SeedResult(row) ==
  /\ db.version = "v3" /\ "task_results" \in db.objects
  /\ ~\E r \in db.results : r.id = row.id
  /\ Write([db EXCEPT !.results = @ \cup {row}])
  /\ kept' = kept \cup {Filled(row)}

-----------------------------------------------------------------------------
(* readyz: three reads of the file, which is what the tests let get_engine  *)
(* return.  Each may fail, whatever the file holds.                        *)

\* is_db_reachable; whatever it finds, the other check is made too.
ProbeDb == /\ probe \in {"ready", "not ready"}
           /\ probe' = "tables"
           /\ db_ok' \in {"yes", "no"}
           /\ UNCHANGED <<file, command, kept>>

\* The answer: 200 if both checks passed, otherwise 503.
Answers(isHead) == /\ probe' = IF db_ok = "yes" /\ isHead THEN "ready" ELSE "not ready"
                   /\ db_ok' = "yes"
                   /\ UNCHANGED <<file, command, kept>>

\* The list of tables: no table of revisions counts as head.
ProbeTables == /\ probe = "tables"
               /\ \/ db.version = "none" /\ Answers(TRUE)
                  \/ /\ db.version # "none"
                     /\ probe' = "row"
                     /\ UNCHANGED <<db_ok, file, command, kept>>

AtHeadIfRecorded(version) == TRUE                                  \* mutant

\* No row counts as head, as a missing table does.
AtHead(version) == version \in {"empty", "v3"}

ProbeRow == probe = "row" /\ Answers(AtHead(db.version))

\* An exception at the list of tables or at the row counts as not at head.
ProbeFails == probe \in {"tables", "row"} /\ Answers(FALSE)

-----------------------------------------------------------------------------
Next == \/ BeginUpgrade \/ BeginDowngrade
        \/ Statement \/ FillRow \/ Stamp \/ Fail
        \/ \E seed \in TaskSeeds : SeedTask(seed)
        \/ \E d \in DocSeeds : SeedDoc(d)
        \/ \E row \in ResultSeeds : SeedResult(row)
        \/ ProbeDb \/ ProbeTables \/ ProbeRow \/ ProbeFails

Spec == Init /\ [][Next]_vars

-----------------------------------------------------------------------------
(* Properties.                                                             *)

Documents == [id : Texts, task_id : Texts]
TaskRows == {t \in [id : Ids, name : Ids, doc : SUBSET Documents] :
               \A d, e \in t.doc : d = e}
Objects == {"tasks", "api_keys", "ix_key_hash", "result_json", "tags", "task_tags",
            "ix_tasks_name", "task_results"}
Files == [objects : SUBSET Objects, version : {"none", "empty", "v1", "v2", "v3"},
          tasks : SUBSET TaskRows, results : SUBSET Rows]

\* Every variable has the shape the code gives it; no result has a null key.
TypeOK == /\ db \in Files /\ work \in Files /\ start \in Files
          /\ begun \in BOOLEAN /\ clean \in BOOLEAN
          /\ todo \subseteq Rows /\ kept \subseteq Rows
          /\ goal \in {"idle", "empty", "v1", "v2", "v3"}
          /\ probe \in {"ready", "not ready", "tables", "row"} /\ db_ok \in {"yes", "no"}

\* What the code at head finds in task_results, where alone it looks.
Served(f) == {Filled(r) : r \in f.results}

\* The results the file holds, as rows or as documents.
Held(f) == Served(f) \cup {ResultOf(t) : t \in Documented(f.tasks)}

\* The data migration loses, merges and invents no result: after any upgrades
\* and downgrades between v2 and v3, in any order with writes, also when they
\* fail at any statement, the file holds the results that were put in.
ResultsKept == Held(db) = kept

ObjectsAt ==
  LET v1 == {"tasks", "api_keys", "ix_key_hash"}
      v2 == v1 \cup {"result_json", "tags", "task_tags", "ix_tasks_name"}
  IN [none |-> {}, empty |-> {}, v1 |-> v1, v2 |-> v2,
      v3 |-> (v2 \ {"result_json"}) \cup {"task_results"}]

\* As long as no command has failed, what a revision leaves behind depends on
\* its number only, not on the way there: every downgrade undoes its upgrade.
SchemaMatchesRevision ==
  clean /\ goal = "idle" => db.objects = ObjectsAt[db.version]

\* A file that readyz calls ready can be served by the code at head: all results
\* that were put in are rows of task_results, none is left in a document, whatever
\* commands are under way between its reads or failed before.  If no command is under
\* way and none has failed, the schema is that of head, or there is none at all.
ReadyServesResults ==
  [][probe # "ready" /\ probe' = "ready" =>
       /\ Served(db) = kept
       /\ clean /\ goal = "idle" => db.objects \in {ObjectsAt["v3"], {}}]_vars

\* "Migration failure rolls back the transaction; the database stays at the
\* previous revision."
FailureRollsBack == [][Fail => db' = start]_vars
=============================================================================
