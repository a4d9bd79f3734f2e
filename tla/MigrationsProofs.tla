-------------------------- MODULE MigrationsProofs --------------------------
(***************************************************************************)
(* The migrations lose no result and undo each other, and what readyz calls *)
(* ready has its results where head looks, for any tasks, documents and    *)
(* results in the file and failures at any statement.  The invariant follows each command through its       *)
(* statements: what it may still do, where the results are meanwhile, and  *)
(* what of the file is still as it was when the command began.             *)
(***************************************************************************)
EXTENDS Migrations, Integers, TLAPS

Statements == [op : {"create", "drop"}, object : Objects] \cup {Move, Fetch}
Elements(s) == {s[i] : i \in 1..Len(s)}

TypeInv == TypeOK /\ script \in Seq(Statements)

-----------------------------------------------------------------------------
Probe == ProbeDb \/ ProbeTables \/ ProbeRow \/ ProbeFails

\* readyz only reads, and answers "ready" where no revision older than head is
\* recorded.
LEMMA ProbeDoes ==
  ASSUME Probe
  PROVE  /\ UNCHANGED <<db, work, begun, script, goal, todo, start, clean, kept>>
         /\ probe' \in {"ready", "not ready", "tables", "row"}
         /\ db_ok' \in {db_ok, "yes", "no"}
         /\ probe' = "ready" => db.version \in {"none", "empty", "v3"}
BY DEF Probe, ProbeDb, ProbeTables, ProbeRow, ProbeFails, Answers, AtHead, file, command

\* What a script does next, and what it does after that.
LEMMA HeadAndTail ==
  ASSUME NEW s \in Seq(Statements), s # <<>>
  PROVE  /\ Tail(s) \in Seq(Statements) /\ Head(s) \in Statements
         /\ Elements(s) = {Head(s)} \cup Elements(Tail(s))
<1>1. /\ Tail(s) \in Seq(Statements) /\ Len(s) \in Nat \ {0}
      /\ Len(Tail(s)) = Len(s) - 1 /\ Head(s) = s[1]
      /\ \A i \in 1..Len(Tail(s)) : Tail(s)[i] = s[i + 1]
  OBVIOUS
<1>2. Head(s) \in Statements
  BY <1>1
<1>3. Elements(s) \subseteq {Head(s)} \cup Elements(Tail(s))
  <2> SUFFICES ASSUME NEW i \in 1..Len(s), i # 1
               PROVE  s[i] \in Elements(Tail(s))
    BY <1>1 DEF Elements
  <2>1. i - 1 \in 1..Len(Tail(s)) /\ Tail(s)[i - 1] = s[i]
    BY <1>1
  <2>. QED  BY <2>1 DEF Elements
<1>4. {Head(s)} \cup Elements(Tail(s)) \subseteq Elements(s)
  <2>1. \A i \in 1..Len(Tail(s)) : i + 1 \in 1..Len(s)
    BY <1>1
  <2>2. 1 \in 1..Len(s)
    BY <1>1
  <2>. QED  BY <1>1, <2>1, <2>2 DEF Elements
<1>. QED  BY <1>1, <1>2, <1>3, <1>4

\* A document makes one result, whose task is named.
LEMMA DocumentMakesResult ==
  ASSUME NEW t \in TaskRows, t.doc # {}
  PROVE  /\ Doc(t) \in Documents /\ t.doc = {Doc(t)}
         /\ ResultOf(t) \in Rows /\ Filled(ResultOf(t)) = ResultOf(t)
<1>1. t.id \in Ids /\ t.doc \subseteq Documents /\ \A d, e \in t.doc : d = e
  BY DEF TaskRows
<1>2. Doc(t) \in t.doc
  BY DEF Doc
<1>3. Doc(t) \in Documents /\ t.doc = {Doc(t)}
  BY <1>1, <1>2
<1>4. t.id \o <<"-result">> \in Ids
  <2>1. <<"-result">> \in Seq(Pieces) /\ Len(<<"-result">>) = 1
    BY PiecesAssumption
  <2>2. t.id \in Seq(Pieces)
    BY <1>1 DEF Ids, Texts
  <2>3. /\ t.id \o <<"-result">> \in Seq(Pieces)
        /\ Len(t.id \o <<"-result">>) = Len(t.id) + 1 /\ Len(t.id) \in Nat
    BY <2>1, <2>2
  <2>. QED  BY <2>3 DEF Ids, Texts, Null
<1>5. Doc(t).id \in Texts /\ Doc(t).task_id \in Texts
  BY <1>3 DEF Documents
<1>6. ResultOf(t) \in Rows /\ ResultOf(t).task_id # Null
  BY <1>1, <1>4, <1>5 DEF ResultOf, Rows, Ids
<1>. QED  BY <1>3, <1>6 DEF Filled, Rows

\* A row and the document that stands for it in a task of its id are the same
\* result.
LEMMA RowAsDocument ==
  ASSUME NEW row \in Rows
  PROVE  /\ Filled(row) = [id |-> row.id,
                           task_id |-> IF row.task_id = Null THEN row.id ELSE row.task_id]
         /\ Filled(row) \in Rows /\ row \in Documents
         /\ \A t \in TaskRows : t.id = row.id /\ t.doc = {row} => ResultOf(t) = Filled(row)
<1>1. row.id \in Ids /\ row.task_id \in Texts /\ row.id # Null
  BY DEF Rows, Ids
<1>2. Filled(row) = [id |-> row.id,
                     task_id |-> IF row.task_id = Null THEN row.id ELSE row.task_id]
  BY DEF Filled, Rows
<1>3. ASSUME NEW t \in TaskRows, t.id = row.id, t.doc = {row}
      PROVE  ResultOf(t) = Filled(row)
  <2>1. Doc(t) = row
    BY <1>3 DEF Doc
  <2>. QED  BY <1>1, <1>2, <1>3, <2>1 DEF ResultOf
<1>. QED  BY <1>1, <1>2, <1>3 DEF Rows, Documents, Ids

-----------------------------------------------------------------------------
(* The shape of the variables.                                             *)

\* Whatever statement is accepted leaves a file of the right shape.
LEMMA ExecutedShape ==
  ASSUME NEW f \in Files, NEW s \in Statements
  PROVE  Executed(f, s) \in Files
<1>1. CASE s = Move
  <2>1. {ResultOf(t) : t \in Documented(f.tasks)} \subseteq Rows
    BY DocumentMakesResult DEF Documented, Files
  <2>. QED  BY <1>1, <2>1 DEF Executed, Files, Move
<1>2. CASE s = Fetch
  BY <1>2 DEF Executed, Fetch
<1>3. CASE s.op = "create" /\ s.object \in Objects
  BY <1>3 DEF Executed, Files
<1>4. CASE s.op = "drop" /\ s.object \in Objects
  <2>1. Undocumented(f.tasks) \subseteq TaskRows
    BY DEF Undocumented, TaskRows, Files
  <2>2. Dropped(f, s.object) \in Files
    BY <2>1 DEF Dropped, Files
  <2>. QED  BY <1>4, <2>2 DEF Executed
<1>. QED  BY <1>1, <1>2, <1>3, <1>4 DEF Statements

\* What a write to the open or to no transaction leaves.
LEMMA DoShape ==
  ASSUME TypeOK, NEW f \in Files, NEW writes \in BOOLEAN, Do(f, writes)
  PROVE  db' \in Files /\ work' \in Files /\ begun' \in BOOLEAN
BY DEF Do, TypeOK

\* The scripts of the revisions consist of statements.
LEMMA ScriptsShape ==
  /\ \A v \in {"v1", "v2", "v3"} : /\ Upgrade[v] \in Seq(Statements)
                                   /\ Downgrade[v] \in Seq(Statements)
  /\ \A v \in DOMAIN Following : Following[v] \in {"v1", "v2", "v3"}
  /\ \A v \in DOMAIN Preceding : Preceding[v] \in {"empty", "v1", "v2"}
  /\ DOMAIN Preceding = {"v1", "v2", "v3"}
<1>1. \A o \in Objects : Create(o) \in Statements /\ Drop(o) \in Statements
  BY DEF Create, Drop, Statements
<1>2. Move \in Statements /\ Fetch \in Statements
  BY DEF Statements
<1>3. V1Up \in Seq(Statements) /\ V1Down \in Seq(Statements)
  BY <1>1 DEF V1Up, V1Down, Objects
<1>4. V2Up \in Seq(Statements) /\ V2Down \in Seq(Statements)
  BY <1>1 DEF V2Up, V2Down, Objects
<1>5. V3Up \in Seq(Statements) /\ V3Down \in Seq(Statements)
  BY <1>1, <1>2 DEF V3Up, V3Down, Objects
<1>. QED  BY <1>3, <1>4, <1>5 DEF Upgrade, Downgrade, Following, Preceding

\* The task that takes a result back is a row of tasks.
LEMMA FilledTasksShape ==
  ASSUME NEW tasks \in SUBSET TaskRows, NEW row \in Rows
  PROVE  /\ {IF t.id = row.id THEN [t EXCEPT !.doc = {row}] ELSE t : t \in tasks}
              \subseteq TaskRows
         /\ [id |-> row.id, name |-> row.id, doc |-> {row}] \in TaskRows
BY RowAsDocument DEF TaskRows, Rows

\* What every change of rows between two commands leaves.
LEMMA WriteShape ==
  ASSUME TypeInv, NEW f \in Files, Write(f), kept' \in SUBSET Rows
  PROVE  TypeInv'
<1>1. /\ db' = f /\ work' = f
      /\ UNCHANGED <<begun, script, goal, todo, start, clean, probe, db_ok>>
  BY DEF Write, probing
<1>. QED  BY <1>1 DEF TypeInv, TypeOK

\* Every step keeps the shape of the variables.
LEMMA TypeStep ==
  ASSUME TypeInv, [Next]_vars
  PROVE  TypeInv'
<1>1. CASE BeginUpgrade
  <2> DEFINE version == IF db.version = "none" THEN "empty" ELSE db.version
  <2>1. /\ db' = [db EXCEPT !.version = version] /\ work' = db' /\ start' = db'
        /\ goal' = Following[db.version] /\ script' = Upgrade[goal']
        /\ db.version \in DOMAIN Following
        /\ UNCHANGED <<begun, todo, clean, probe, db_ok, kept>>
    BY <1>1 DEF BeginUpgrade, Begin, probing
  <2>2. db' \in Files
    BY <2>1 DEF TypeInv, TypeOK, Files
  <2>3. goal' \in {"v1", "v2", "v3"} /\ script' \in Seq(Statements)
    BY <2>1, ScriptsShape
  <2>. QED  BY <2>1, <2>2, <2>3 DEF TypeInv, TypeOK
<1>2. CASE BeginDowngrade
  <2>1. /\ db' = db /\ work' = work /\ start' = db
        /\ goal' = Preceding[db.version] /\ script' = Downgrade[db.version]
        /\ db.version \in DOMAIN Preceding
        /\ UNCHANGED <<begun, todo, clean, probe, db_ok, kept>>
    BY <1>2 DEF BeginDowngrade, Begin, probing
  <2>2. goal' \in {"empty", "v1", "v2"} /\ script' \in Seq(Statements)
    BY <2>1, ScriptsShape
  <2>. QED  BY <2>1, <2>2 DEF TypeInv, TypeOK
<1>3. CASE Statement
  <2>1. script # <<>> /\ script \in Seq(Statements) /\ script' = Tail(script)
    BY <1>3 DEF Statement, TypeInv
  <2>2. Head(script) \in Statements /\ script' \in Seq(Statements)
    BY <2>1, HeadAndTail
  <2>3. Executed(work, Head(script)) \in Files
    BY <2>2, ExecutedShape DEF TypeInv, TypeOK
  <2>4. db' \in Files /\ work' \in Files /\ begun' \in BOOLEAN
    BY <1>3, <2>3, DoShape DEF Statement, TypeInv
  <2>5. /\ todo' \in {work.results, {}} /\ kept' \in {kept, {}}
        /\ UNCHANGED <<goal, start, clean, probe, db_ok>>
    BY <1>3 DEF Statement, probing
  <2>6. work.results \subseteq Rows
    BY DEF TypeInv, TypeOK, Files
  <2>. QED  BY <2>2, <2>4, <2>5, <2>6 DEF TypeInv, TypeOK
<1>4. CASE FillRow
  <2>1. PICK row \in todo : \E f \in Files :
          Do(f, TRUE) /\ todo' = todo \ {row}
          /\ UNCHANGED <<script, goal, start, clean, kept, probing>>
    <3>1. PICK row \in todo :
            LET there == {t \in work.tasks : t.id = FillKey(row)}
                tasks == IF there # {}
                         THEN {IF t.id = FillKey(row) THEN [t EXCEPT !.doc = {row}] ELSE t :
                                 t \in work.tasks}
                         ELSE work.tasks \cup
                                {[id |-> FillKey(row), name |-> FillKey(row), doc |-> {row}]}
            IN /\ Do([work EXCEPT !.tasks = tasks], TRUE)
               /\ todo' = todo \ {row}
               /\ UNCHANGED <<script, goal, start, clean, kept, probing>>
      BY <1>4 DEF FillRow
    <3>2. row \in Rows /\ work \in Files /\ work.tasks \in SUBSET TaskRows
      BY DEF TypeInv, TypeOK, Files
    <3>3. \A tasks \in SUBSET TaskRows : [work EXCEPT !.tasks = tasks] \in Files
      BY <3>2 DEF Files
    <3>. QED  BY <3>1, <3>2, <3>3, FilledTasksShape DEF FillKey
  <2>2. db' \in Files /\ work' \in Files /\ begun' \in BOOLEAN
    BY <2>1, DoShape DEF TypeInv
  <2>. QED  BY <2>1, <2>2 DEF TypeInv, TypeOK, probing
<1>5. CASE Stamp \/ Fail
  <2>1. /\ db' \in {db, [work EXCEPT !.version = goal]} /\ work' = db'
        /\ goal # "idle" /\ goal' = "idle" /\ script' = <<>> /\ todo' = {}
        /\ begun' = FALSE /\ start' = Blank /\ clean' \in {clean, FALSE}
        /\ UNCHANGED <<kept, probe, db_ok>>
    BY <1>5 DEF Stamp, Fail, Stop, probing
  <2>2. [work EXCEPT !.version = goal] \in Files /\ Blank \in Files
    BY <2>1 DEF TypeInv, TypeOK, Files, Blank
  <2>3. script' \in Seq(Statements) /\ begun' \in BOOLEAN
    <3>1. <<>> \in Seq(Statements)
      OBVIOUS
    <3>2. script' = <<>> /\ begun' = FALSE
      BY <2>1
    <3>. QED  BY <3>1, <3>2
  <2>4. clean' \in BOOLEAN
    BY <2>1 DEF TypeInv, TypeOK
  <2>5. db' \in Files /\ work' \in Files
    BY <2>1, <2>2 DEF TypeInv, TypeOK
  <2>. QED  BY <2>1, <2>2, <2>3, <2>4, <2>5 DEF TypeInv, TypeOK
<1>6. ASSUME NEW seed \in TaskSeeds, SeedTask(seed) PROVE TypeInv'
  <2> DEFINE f == [db EXCEPT !.tasks = @ \cup {[id |-> seed.id, name |-> seed.name,
                                                doc |-> {}]}]
  <2>1. Write(f) /\ kept' = kept
    BY <1>6 DEF SeedTask
  <2>2. [id |-> seed.id, name |-> seed.name, doc |-> {}] \in TaskRows
    BY SeedsAssumption DEF TaskRows
  <2>3. f \in Files
    BY <2>2 DEF TypeInv, TypeOK, Files
  <2>. QED  BY <2>1, <2>3, WriteShape DEF TypeInv, TypeOK
<1>7. ASSUME NEW d \in DocSeeds, SeedDoc(d) PROVE TypeInv'
  <2>1. PICK t \in db.tasks :
          /\ t.doc = {} /\ kept' = kept \cup {ResultOf([t EXCEPT !.doc = {d}])}
          /\ Write([db EXCEPT !.tasks = (@ \ {t}) \cup {[t EXCEPT !.doc = {d}]}])
    BY <1>7 DEF SeedDoc
  <2>2. t \in TaskRows /\ d \in Documents
    BY SeedsAssumption DEF TypeInv, TypeOK, Files, Documents
  <2>3. [t EXCEPT !.doc = {d}] \in TaskRows /\ [t EXCEPT !.doc = {d}].doc = {d}
    BY <2>2 DEF TaskRows
  <2>4. ResultOf([t EXCEPT !.doc = {d}]) \in Rows
    BY <2>3, DocumentMakesResult
  <2>5. [db EXCEPT !.tasks = (@ \ {t}) \cup {[t EXCEPT !.doc = {d}]}] \in Files
    BY <2>3 DEF TypeInv, TypeOK, Files
  <2>. QED  BY <2>1, <2>4, <2>5, WriteShape DEF TypeInv, TypeOK
<1>8. ASSUME NEW row \in ResultSeeds, SeedResult(row) PROVE TypeInv'
  <2>1. /\ Write([db EXCEPT !.results = @ \cup {row}])
        /\ kept' = kept \cup {Filled(row)}
    BY <1>8 DEF SeedResult
  <2>2. row \in Rows /\ Filled(row) \in Rows
    BY SeedsAssumption, RowAsDocument
  <2>3. [db EXCEPT !.results = @ \cup {row}] \in Files
    BY <2>2 DEF TypeInv, TypeOK, Files
  <2>. QED  BY <2>1, <2>2, <2>3, WriteShape DEF TypeInv, TypeOK
<1>9. CASE Probe
  <2>1. /\ probe' \in {"ready", "not ready", "tables", "row"} /\ db_ok' \in {"yes", "no"}
        /\ UNCHANGED <<db, work, begun, script, goal, todo, start, clean, kept>>
    BY <1>9, ProbeDoes DEF TypeInv, TypeOK
  <2>. QED  BY <2>1 DEF TypeInv, TypeOK
<1>10. CASE UNCHANGED vars
  BY <1>10 DEF TypeInv, TypeOK, vars, file, command, probing
<1>. QED
  BY <1>1, <1>2, <1>3, <1>4, <1>5, <1>6, <1>7, <1>8, <1>9, <1>10 DEF Next, Probe

\* The empty file, before the first command.
LEMMA InitialTypes == Init => TypeInv
<1>1. Blank \in Files
  BY DEF Blank, Files
<1>2. Init => script \in Seq(Statements)
  <2>1. <<>> \in Seq(Statements)
    OBVIOUS
  <2>2. Init => script = <<>>
    BY DEF Init
  <2>. QED  BY <2>1, <2>2
<1>3. Init => TypeOK
  BY <1>1 DEF Init, TypeOK
<1>. QED  BY <1>2, <1>3 DEF TypeInv

\* TypeOK: no text a migration moves or writes ends up null where a key must be,
\* whatever the documents say.
THEOREM MigrationTypeCorrect == Spec => []TypeOK
BY InitialTypes, TypeStep, PTL DEF Spec, TypeInv

-----------------------------------------------------------------------------
(* What the steps do, where nothing else is under way.                     *)

\* The file outside a transaction, and between two commands.
FileInv == /\ work.version = db.version
           /\ ~begun => work = db
           /\ goal = "idle" => ~begun /\ script = <<>> /\ todo = {}

\* One statement runs, on the open transaction if there is one.
LEMMA StatementDoes ==
  ASSUME TypeInv, FileInv, Statement, NEW s, s = Head(script)
  PROVE  /\ s \in Statements /\ Accepted(work, s) /\ todo = {} /\ script # <<>>
         /\ script' = Tail(script)
         /\ Elements(script) = {s} \cup Elements(script')
         /\ work' = Executed(work, s) /\ work' \in Files
         /\ begun' = (begun \/ s = Move)
         /\ db' = IF begun' THEN db ELSE work'
         /\ todo' = IF s = Fetch THEN work.results ELSE {}
         /\ kept' = IF LosesDocuments(s) THEN {} ELSE kept
         /\ UNCHANGED <<goal, start, clean, probe, db_ok>>
<1>1. script # <<>> /\ script \in Seq(Statements) /\ script' = Tail(script)
  BY DEF Statement, TypeInv
<1>2. s \in Statements /\ Elements(script) = {s} \cup Elements(script')
  BY <1>1, HeadAndTail
<1>3. Executed(work, s) \in Files
  BY <1>2, ExecutedShape DEF TypeInv, TypeOK
<1>. QED  BY <1>1, <1>2, <1>3 DEF Statement, Do, probing

\* What a statement does to the objects, the recorded revision and the rows.
LEMMA ExecutedParts ==
  ASSUME NEW f \in Files, NEW s \in Statements
  PROVE  /\ Executed(f, s).version = f.version
         /\ \A o \in Objects : s = Create(o) =>
              /\ Executed(f, s).objects = f.objects \cup {o}
              /\ Executed(f, s).tasks = f.tasks /\ Executed(f, s).results = f.results
         /\ \A o \in Objects : s = Drop(o) =>
              /\ Executed(f, s).objects = f.objects \ PartsOf(o)
              /\ Executed(f, s).tasks = CASE o = "tasks" -> {}
                                          [] o = "result_json" -> Undocumented(f.tasks)
                                          [] OTHER -> f.tasks
              /\ Executed(f, s).results = IF o = "task_results" THEN {} ELSE f.results
         /\ s = Move =>
              /\ Executed(f, s).objects = f.objects /\ Executed(f, s).tasks = f.tasks
              /\ Executed(f, s).results = {ResultOf(t) : t \in Documented(f.tasks)}
         /\ s = Fetch => Executed(f, s) = f
         /\ \/ \E o \in Objects : s = Create(o) \/ s = Drop(o)
            \/ s = Move \/ s = Fetch
<1>1. CASE s = Move
  BY <1>1 DEF Move, Executed, Files, Create, Drop, Fetch
<1>2. CASE s = Fetch
  BY <1>2 DEF Move, Executed, Files, Create, Drop, Fetch
<1>3. ASSUME NEW o \in Objects, s = Create(o)
      PROVE  /\ Executed(f, s).version = f.version
             /\ Executed(f, s).objects = f.objects \cup {o}
             /\ Executed(f, s).tasks = f.tasks /\ Executed(f, s).results = f.results
  BY <1>3 DEF Create, Executed, Files
<1>4. ASSUME NEW o \in Objects, s = Drop(o)
      PROVE  /\ Executed(f, s).version = f.version
             /\ Executed(f, s).objects = f.objects \ PartsOf(o)
             /\ Executed(f, s).tasks = CASE o = "tasks" -> {}
                                         [] o = "result_json" -> Undocumented(f.tasks)
                                         [] OTHER -> f.tasks
             /\ Executed(f, s).results = IF o = "task_results" THEN {} ELSE f.results
  <2>1. Executed(f, s) = Dropped(f, o)
    BY <1>4 DEF Drop, Executed
  <2>. QED  BY <2>1 DEF Dropped, Files
<1>5. \/ \E o \in Objects : s = Create(o) \/ s = Drop(o)
      \/ s = Move \/ s = Fetch
  <2> SUFFICES ASSUME s \in [op : {"create", "drop"}, object : Objects]
               PROVE  \E o \in Objects : s = Create(o) \/ s = Drop(o)
    BY DEF Statements
  <2>. QED  BY DEF Create, Drop
<1>6. \A o \in Objects : Create(o) \notin {Move, Fetch} /\ Drop(o) \notin {Move, Fetch}
  BY DEF Create, Drop, Move, Fetch
<1>7. Move # Fetch
  BY DEF Move, Fetch
<1>. QED  BY <1>1, <1>2, <1>3, <1>4, <1>5, <1>6, <1>7

\* One round of the loop in downgrade, in the transaction it opens.
LEMMA FillDoes ==
  ASSUME TypeInv, FillRow
  PROVE  \E row \in todo, tasks \in SUBSET TaskRows :
           /\ work' = [work EXCEPT !.tasks = tasks] /\ begun' = TRUE /\ db' = db
           /\ work'.tasks = tasks /\ work'.objects = work.objects
           /\ work'.results = work.results /\ work'.version = work.version
           /\ todo' = todo \ {row}
           /\ UNCHANGED <<script, goal, start, clean, kept, probe, db_ok>>
           /\ \A t \in tasks : \/ t \in work.tasks /\ t.id # row.id
                               \/ t.id = row.id /\ t.doc = {row}
           /\ \A t \in work.tasks : t.id # row.id => t \in tasks
           /\ \E t \in tasks : t.id = row.id /\ t.doc = {row}
<1> DEFINE there(row) == {t \in work.tasks : t.id = row.id}
           updated(row) == {IF t.id = row.id THEN [t EXCEPT !.doc = {row}] ELSE t :
                              t \in work.tasks}
           added(row) == [id |-> row.id, name |-> row.id, doc |-> {row}]
           tasksOf(row) == IF there(row) # {} THEN updated(row)
                           ELSE work.tasks \cup {added(row)}
<1>1. PICK row \in todo :
        /\ Do([work EXCEPT !.tasks = tasksOf(row)], TRUE)
        /\ todo' = todo \ {row}
        /\ UNCHANGED <<script, goal, start, clean, kept, probe, db_ok>>
  BY DEF FillRow, FillKey, probing
<1>2. row \in Rows /\ work \in Files /\ work.tasks \in SUBSET TaskRows
  BY DEF TypeInv, TypeOK, Files
<1>3. tasksOf(row) \in SUBSET TaskRows
  BY <1>2, FilledTasksShape
<1>4. \A t \in TaskRows : /\ [t EXCEPT !.doc = {row}].id = t.id
                          /\ [t EXCEPT !.doc = {row}].doc = {row}
  BY DEF TaskRows
<1>5. /\ \A t \in tasksOf(row) : \/ t \in work.tasks /\ t.id # row.id
                                 \/ t.id = row.id /\ t.doc = {row}
      /\ \A t \in work.tasks : t.id # row.id => t \in tasksOf(row)
      /\ \E t \in tasksOf(row) : t.id = row.id /\ t.doc = {row}
  <2>1. CASE there(row) # {}
    <3>1. tasksOf(row) = updated(row)
      BY <2>1
    <3>2. PICK t \in work.tasks : t.id = row.id
      BY <2>1
    <3>3. [t EXCEPT !.doc = {row}] \in updated(row)
      BY <3>2
    <3>4. ASSUME NEW u \in updated(row)
          PROVE  \/ u \in work.tasks /\ u.id # row.id
                 \/ u.id = row.id /\ u.doc = {row}
      <4>1. PICK v \in work.tasks :
              u = IF v.id = row.id THEN [v EXCEPT !.doc = {row}] ELSE v
        OBVIOUS
      <4>. QED  BY <1>2, <1>4, <4>1
    <3>5. \A u \in work.tasks : u.id # row.id => u \in updated(row)
      OBVIOUS
    <3>6. [t EXCEPT !.doc = {row}].id = row.id /\ [t EXCEPT !.doc = {row}].doc = {row}
      BY <1>2, <1>4, <3>2
    <3> HIDE DEF updated, tasksOf
    <3>. QED  BY <3>1, <3>3, <3>4, <3>5, <3>6
  <2>2. CASE there(row) = {}
    <3>1. tasksOf(row) = work.tasks \cup {added(row)}
      BY <2>2
    <3>2. added(row).id = row.id /\ added(row).doc = {row} /\ added(row) \in tasksOf(row)
      BY <3>1
    <3>3. \A t \in work.tasks : t.id # row.id
      BY <2>2
    <3> HIDE DEF added, tasksOf, there
    <3>. QED  BY <3>1, <3>2, <3>3
  <2>. QED  BY <2>1, <2>2
<1>6. /\ work' = [work EXCEPT !.tasks = tasksOf(row)] /\ begun' = TRUE /\ db' = db
      /\ work'.tasks = tasksOf(row) /\ work'.objects = work.objects
      /\ work'.results = work.results /\ work'.version = work.version
  <2> HIDE DEF tasksOf
  <2>. QED  BY <1>1, <1>2 DEF Do, Files
<1> HIDE DEF tasksOf
<1>. QED  BY <1>1, <1>3, <1>5, <1>6

\* A command begins outside a transaction, and ends it.
LEMMA BeginDoes ==
  ASSUME TypeInv, FileInv, BeginUpgrade \/ BeginDowngrade
  PROVE  /\ goal = "idle" /\ goal' # "idle" /\ work' = db' /\ db' \in Files
         /\ db' = [db EXCEPT !.version = db'.version]
         /\ db'.objects = db.objects /\ db'.tasks = db.tasks /\ db'.results = db.results
         /\ begun' = FALSE /\ todo' = {} /\ start' = db'
         /\ UNCHANGED <<clean, probe, db_ok, kept>>
         /\ \/ /\ db.version \in {"none", "empty", "v1", "v2"}
               /\ db'.version = IF db.version = "none" THEN "empty" ELSE db.version
               /\ goal' = Following[db.version] /\ script' = Upgrade[goal']
            \/ /\ db.version \in {"v1", "v2", "v3"} /\ db' = db
               /\ goal' = Preceding[db.version] /\ script' = Downgrade[db.version]
<1> USE DEF FileInv, TypeInv, TypeOK
<1>1. CASE BeginUpgrade
  <2> DEFINE version == IF db.version = "none" THEN "empty" ELSE db.version
  <2>1. /\ db' = [db EXCEPT !.version = version] /\ work' = db'
        /\ goal = "idle" /\ goal' = Following[db.version] /\ script' = Upgrade[goal']
        /\ db.version \in DOMAIN Following
        /\ start' = db' /\ UNCHANGED <<begun, todo, clean, probe, db_ok, kept>>
    BY <1>1 DEF BeginUpgrade, Begin, probing
  <2>2. db' \in Files /\ db'.version = version
        /\ db'.objects = db.objects /\ db'.tasks = db.tasks /\ db'.results = db.results
    BY <2>1 DEF Files
  <2>3. DOMAIN Following = {"none", "empty", "v1", "v2"}
    BY DEF Following
  <2>4. goal' # "idle"
    BY <2>1, ScriptsShape
  <2>. QED  BY <2>1, <2>2, <2>3, <2>4
<1>2. CASE BeginDowngrade
  <2>1. /\ UNCHANGED <<db, work, begun, todo, clean, probe, db_ok, kept>> /\ start' = db
        /\ goal = "idle" /\ goal' = Preceding[db.version]
        /\ script' = Downgrade[db.version] /\ db.version \in DOMAIN Preceding
    BY <1>2 DEF BeginDowngrade, Begin, probing
  <2>2. db' \in Files /\ db' = [db EXCEPT !.version = db'.version]
    BY <2>1 DEF Files
  <2>3. goal' # "idle"
    BY <2>1, ScriptsShape
  <2>. QED  BY <2>1, <2>2, <2>3, ScriptsShape
<1>. QED  BY <1>1, <1>2

\* It ends with the revision recorded, or with nothing but the rollback.
LEMMA EndDoes ==
  ASSUME TypeInv, Stamp \/ Fail
  PROVE  /\ goal # "idle" /\ goal' = "idle" /\ work' = db' /\ script' = <<>>
         /\ begun' = FALSE /\ todo' = {} /\ UNCHANGED <<kept, probe, db_ok>>
         /\ \/ /\ script = <<>> /\ todo = {} /\ clean' = clean
               /\ db'.version = goal /\ db'.objects = work.objects
               /\ db'.tasks = work.tasks /\ db'.results = work.results
            \/ clean' = FALSE /\ db' = db
<1>1. CASE Stamp
  <2>1. work \in Files
    BY DEF TypeInv, TypeOK
  <2>. QED  BY <1>1, <2>1 DEF Stamp, Stop, probing, Files
<1>2. CASE Fail
  BY <1>2 DEF Fail, Stop, probing
<1>. QED  BY <1>1, <1>2

\* Between two commands rows come, and nothing else changes.
LEMMA WriteDoes ==
  ASSUME TypeInv,
         \/ \E seed \in TaskSeeds : SeedTask(seed)
         \/ \E d \in DocSeeds : SeedDoc(d)
         \/ \E row \in ResultSeeds : SeedResult(row)
  PROVE  /\ goal = "idle" /\ work' = db'
         /\ db'.version = db.version /\ db'.objects = db.objects
         /\ UNCHANGED <<begun, script, goal, todo, start, clean, probe, db_ok>>
<1>1. \E tasks, results :
        Write([db EXCEPT !.tasks = tasks]) \/ Write([db EXCEPT !.results = results])
  BY DEF SeedTask, SeedDoc, SeedResult
<1>. QED  BY <1>1 DEF Write, TypeInv, TypeOK, Files, probing

\* FileInv describes every file.
LEMMA FileStep ==
  ASSUME TypeInv, FileInv, [Next]_vars
  PROVE  FileInv'
<1>1. CASE BeginUpgrade \/ BeginDowngrade
  BY <1>1, BeginDoes DEF FileInv
<1>2. CASE Statement
  <2>1. work \in Files /\ goal # "idle"
    BY <1>2, StatementDoes DEF FileInv, TypeInv, TypeOK
  <2>2. Executed(work, Head(script)).version = work.version
    BY <1>2, <2>1, StatementDoes, ExecutedParts
  <2>. QED  BY <1>2, <2>1, <2>2, StatementDoes DEF FileInv
<1>3. CASE FillRow
  BY <1>3, FillDoes DEF FileInv
<1>4. CASE Stamp \/ Fail
  BY <1>4, EndDoes DEF FileInv
<1>5. CASE \/ \E seed \in TaskSeeds : SeedTask(seed)
           \/ \E d \in DocSeeds : SeedDoc(d)
           \/ \E row \in ResultSeeds : SeedResult(row)
  BY <1>5, WriteDoes DEF FileInv
<1>6. CASE Probe \/ UNCHANGED vars
  <2>1. UNCHANGED <<db, work, begun, script, goal, todo>>
    BY <1>6, ProbeDoes DEF vars, file, command
  <2>. QED  BY <2>1 DEF FileInv
<1>. QED  BY <1>1, <1>2, <1>3, <1>4, <1>5, <1>6 DEF Next, Probe

-----------------------------------------------------------------------------
(* The schema.                                                             *)

Creates(s) == {o \in Objects : Create(o) \in Elements(s)}
Drops(s) == {o \in Objects : Drop(o) \in Elements(s)}

\* What is left of a script creates what its revision has, and takes with what
\* it drops nothing of that.
Leads(s, to) == /\ Creates(s) \subseteq ObjectsAt[to]
                /\ \A o \in Drops(s) : PartsOf(o) \cap ObjectsAt[to] = {}

Goals == {"empty", "v1", "v2", "v3"}

\* Until a command fails, what is there and what the rest of the script does
\* make up the schema of the revision it leads to.
SchemaInv ==
  clean =>
    IF goal = "idle" THEN db.objects = ObjectsAt[db.version]
    ELSE /\ Leads(script, goal)
         /\ (work.objects \ Drops(script)) \cup Creates(script) = ObjectsAt[goal]

\* The objects of each revision.
LEMMA SchemaAt ==
  /\ ObjectsAt["none"] = {} /\ ObjectsAt["empty"] = {}
  /\ ObjectsAt["v1"] = {"tasks", "api_keys", "ix_key_hash"}
  /\ ObjectsAt["v2"] = {"tasks", "api_keys", "ix_key_hash", "result_json", "tags",
                        "task_tags", "ix_tasks_name"}
  /\ ObjectsAt["v3"] = {"tasks", "api_keys", "ix_key_hash", "tags", "task_tags",
                        "ix_tasks_name", "task_results"}
BY DEF ObjectsAt

\* The statements of short scripts.
LEMMA ElementsOf ==
  /\ Elements(<<>>) = {}
  /\ \A a, b, c : Elements(<<a, b, c>>) = {a, b, c}
  /\ \A a, b, c, d : Elements(<<a, b, c, d>>) = {a, b, c, d}
BY DEF Elements

\* Creating and dropping are different statements, for different objects too.
LEMMA StatementsDiffer ==
  /\ \A o, p : Create(o) # Drop(p) /\ (Create(o) = Create(p) <=> o = p)
               /\ (Drop(o) = Drop(p) <=> o = p)
  /\ \A o : Create(o) \notin {Move, Fetch} /\ Drop(o) \notin {Move, Fetch}
  /\ Move # Fetch
BY DEF Create, Drop, Move, Fetch

\* Each script creates what its revision adds and drops what the revision above
\* it has added.
LEMMA ScriptsLead ==
  /\ \A v \in {"none", "empty", "v1", "v2"} :
       LET to == Following[v] s == Upgrade[to]
       IN to \in Goals /\ Leads(s, to)
          /\ (ObjectsAt[v] \ Drops(s)) \cup Creates(s) = ObjectsAt[to]
  /\ \A v \in {"v1", "v2", "v3"} :
       LET to == Preceding[v] s == Downgrade[v]
       IN to \in Goals /\ Leads(s, to)
          /\ (ObjectsAt[v] \ Drops(s)) \cup Creates(s) = ObjectsAt[to]
<1>1. /\ Creates(V1Up) = {"tasks", "api_keys", "ix_key_hash"} /\ Drops(V1Up) = {}
      /\ Drops(V1Down) = {"tasks", "api_keys", "ix_key_hash"} /\ Creates(V1Down) = {}
  BY ElementsOf, StatementsDiffer DEF V1Up, V1Down, Creates, Drops, Objects
<1>2. /\ Creates(V2Up) = {"result_json", "tags", "task_tags", "ix_tasks_name"}
      /\ Drops(V2Up) = {}
      /\ Drops(V2Down) = {"result_json", "tags", "task_tags", "ix_tasks_name"}
      /\ Creates(V2Down) = {}
  BY ElementsOf, StatementsDiffer DEF V2Up, V2Down, Creates, Drops, Objects
<1>3. /\ Creates(V3Up) = {"task_results"} /\ Drops(V3Up) = {"result_json"}
      /\ Creates(V3Down) = {"result_json"} /\ Drops(V3Down) = {"task_results"}
  BY ElementsOf, StatementsDiffer DEF V3Up, V3Down, Creates, Drops, Objects
<1>4. /\ \A o \in Objects \ {"tasks", "api_keys"} : PartsOf(o) = {o}
      /\ PartsOf("tasks") = {"tasks", "result_json", "ix_tasks_name"}
      /\ PartsOf("api_keys") = {"api_keys", "ix_key_hash"}
  BY DEF PartsOf, Table, Objects
<1>5. /\ ObjectsAt["none"] = {} /\ ObjectsAt["empty"] = {}
      /\ ObjectsAt["v1"] = {"tasks", "api_keys", "ix_key_hash"}
      /\ ObjectsAt["v2"] = {"tasks", "api_keys", "ix_key_hash", "result_json", "tags",
                            "task_tags", "ix_tasks_name"}
      /\ ObjectsAt["v3"] = {"tasks", "api_keys", "ix_key_hash", "tags", "task_tags",
                            "ix_tasks_name", "task_results"}
  BY SchemaAt
<1>6. /\ Following["none"] = "v1" /\ Following["empty"] = "v1" /\ Following["v1"] = "v2"
      /\ Following["v2"] = "v3" /\ Preceding["v1"] = "empty" /\ Preceding["v2"] = "v1"
      /\ Preceding["v3"] = "v2"
      /\ Upgrade["v1"] = V1Up /\ Upgrade["v2"] = V2Up /\ Upgrade["v3"] = V3Up
      /\ Downgrade["v1"] = V1Down /\ Downgrade["v2"] = V2Down /\ Downgrade["v3"] = V3Down
  BY DEF Following, Preceding, Upgrade, Downgrade
<1>7. /\ \A v \in {"none", "empty"} :
           /\ Leads(V1Up, "v1") /\ (ObjectsAt[v] \ Drops(V1Up)) \cup Creates(V1Up) = ObjectsAt["v1"]
      /\ Leads(V1Down, "empty")
      /\ (ObjectsAt["v1"] \ Drops(V1Down)) \cup Creates(V1Down) = ObjectsAt["empty"]
  BY <1>1, <1>5 DEF Leads
<1>8. /\ Leads(V2Up, "v2")
      /\ (ObjectsAt["v1"] \ Drops(V2Up)) \cup Creates(V2Up) = ObjectsAt["v2"]
      /\ Leads(V2Down, "v1")
      /\ (ObjectsAt["v2"] \ Drops(V2Down)) \cup Creates(V2Down) = ObjectsAt["v1"]
  BY <1>2, <1>4, <1>5 DEF Leads, Objects
<1>9. /\ Leads(V3Up, "v3")
      /\ (ObjectsAt["v2"] \ Drops(V3Up)) \cup Creates(V3Up) = ObjectsAt["v3"]
      /\ Leads(V3Down, "v2")
      /\ (ObjectsAt["v3"] \ Drops(V3Down)) \cup Creates(V3Down) = ObjectsAt["v2"]
  BY <1>3, <1>4, <1>5 DEF Leads, Objects
<1>. QED  BY <1>6, <1>7, <1>8, <1>9 DEF Goals

\* An empty file has the schema of no revision.
LEMMA InitialSchema == Init => FileInv /\ SchemaInv
<1> SUFFICES ASSUME Init PROVE FileInv /\ SchemaInv
  OBVIOUS
<1>1. /\ db = Blank /\ work = Blank /\ ~begun /\ goal = "idle"
      /\ script = <<>> /\ todo = {}
  BY DEF Init
<1>2. Blank.version = "none" /\ Blank.objects = {}
  BY DEF Blank
<1>. QED  BY <1>1, <1>2, SchemaAt DEF FileInv, SchemaInv

\* Every statement keeps the sum of what is there and what is to come.
LEMMA SchemaStatement ==
  ASSUME TypeInv, FileInv, SchemaInv, Statement
  PROVE  SchemaInv'
<1> DEFINE s == Head(script)
<1> SUFFICES ASSUME clean
             PROVE  /\ goal' # "idle" /\ Leads(script', goal')
                    /\ (work'.objects \ Drops(script')) \cup Creates(script')
                         = ObjectsAt[goal']
  BY StatementDoes DEF SchemaInv
<1>1. /\ goal' = goal /\ goal # "idle" /\ s \in Statements
      /\ Elements(script) = {s} \cup Elements(script')
      /\ work' = Executed(work, s) /\ work \in Files
  BY StatementDoes DEF FileInv, TypeInv, TypeOK
<1>2. /\ Leads(script, goal)
      /\ (work.objects \ Drops(script)) \cup Creates(script) = ObjectsAt[goal]
  BY <1>1 DEF SchemaInv
<1>3. /\ Creates(script) = Creates(script') \cup {o \in Objects : s = Create(o)}
      /\ Drops(script) = Drops(script') \cup {o \in Objects : s = Drop(o)}
  BY <1>1 DEF Creates, Drops
<1>4. Leads(script', goal)
  BY <1>2, <1>3 DEF Leads
<1>5. ASSUME NEW o \in Objects, s = Create(o)
      PROVE  (work'.objects \ Drops(script')) \cup Creates(script') = ObjectsAt[goal]
  <2>1. work'.objects = work.objects \cup {o}
    BY <1>1, <1>5, ExecutedParts
  <2>2. Drops(script') = Drops(script) /\ Creates(script) = Creates(script') \cup {o}
    BY <1>3, <1>5, StatementsDiffer
  <2>3. o \notin Drops(script)
    BY <1>2, <2>2 DEF Leads, PartsOf
  <2>. QED  BY <1>2, <2>1, <2>2, <2>3
<1>6. ASSUME NEW o \in Objects, s = Drop(o)
      PROVE  (work'.objects \ Drops(script')) \cup Creates(script') = ObjectsAt[goal]
  <2>1. work'.objects = work.objects \ PartsOf(o)
    BY <1>1, <1>6, ExecutedParts
  <2>2. Drops(script) = Drops(script') \cup {o} /\ Creates(script) = Creates(script')
    BY <1>3, <1>6, StatementsDiffer
  <2>3. PartsOf(o) \cap ObjectsAt[goal] = {} /\ o \in PartsOf(o)
    BY <1>2, <2>2 DEF Leads, PartsOf
  <2>. QED  BY <1>2, <2>1, <2>2, <2>3
<1>7. CASE s = Move \/ s = Fetch
  <2>1. work'.objects = work.objects
    BY <1>1, <1>7, ExecutedParts
  <2>2. Drops(script') = Drops(script) /\ Creates(script') = Creates(script)
    BY <1>3, <1>7, StatementsDiffer
  <2>. QED  BY <1>1, <1>2, <1>4, <2>1, <2>2
<1>. QED  BY <1>1, <1>4, <1>5, <1>6, <1>7, ExecutedParts

\* The schema adds up in every state.
LEMMA SchemaStep ==
  ASSUME TypeInv, FileInv, SchemaInv, [Next]_vars
  PROVE  SchemaInv'
<1>1. CASE BeginUpgrade \/ BeginDowngrade
  <2> SUFFICES ASSUME clean
               PROVE  /\ goal' # "idle" /\ Leads(script', goal')
                      /\ (db.objects \ Drops(script')) \cup Creates(script')
                           = ObjectsAt[goal']
    BY <1>1, BeginDoes DEF SchemaInv
  <2>1. goal = "idle" /\ goal' # "idle" /\ db.objects = ObjectsAt[db.version]
    BY <1>1, BeginDoes DEF SchemaInv
  <2>2. \/ /\ db.version \in {"none", "empty", "v1", "v2"}
           /\ goal' = Following[db.version] /\ script' = Upgrade[Following[db.version]]
        \/ /\ db.version \in {"v1", "v2", "v3"}
           /\ goal' = Preceding[db.version] /\ script' = Downgrade[db.version]
    BY <1>1, BeginDoes
  <2>. QED  BY <2>1, <2>2, ScriptsLead
<1>2. CASE Statement
  BY <1>2, SchemaStatement
<1>3. CASE FillRow
  <2>1. goal # "idle"
    BY <1>3 DEF FillRow, FileInv
  <2>. QED  BY <1>3, <2>1, FillDoes DEF SchemaInv
<1>4. CASE Stamp \/ Fail
  <2> SUFFICES ASSUME clean'
               PROVE  db'.objects = ObjectsAt[db'.version]
    BY <1>4, EndDoes DEF SchemaInv
  <2>1. /\ clean /\ goal # "idle" /\ script = <<>>
        /\ db'.version = goal /\ db'.objects = work.objects
    BY <1>4, EndDoes
  <2>2. Drops(script) = {} /\ Creates(script) = {}
    BY <2>1, ElementsOf DEF Drops, Creates
  <2>. QED  BY <2>1, <2>2 DEF SchemaInv
<1>5. CASE \/ \E seed \in TaskSeeds : SeedTask(seed)
           \/ \E d \in DocSeeds : SeedDoc(d)
           \/ \E row \in ResultSeeds : SeedResult(row)
  BY <1>5, WriteDoes DEF SchemaInv
<1>6. CASE Probe \/ UNCHANGED vars
  BY <1>6, ProbeDoes DEF SchemaInv, vars, file, command
<1>. QED  BY <1>1, <1>2, <1>3, <1>4, <1>5, <1>6 DEF Next, Probe

\* SchemaMatchesRevision: without a failure, every way to a revision ends in the
\* same schema.
THEOREM SchemaCorrect == Spec => []SchemaMatchesRevision
<1>1. Init => TypeInv /\ FileInv /\ SchemaInv
  BY InitialTypes, InitialSchema
<1>2. TypeInv /\ FileInv /\ SchemaInv /\ [Next]_vars => (TypeInv /\ FileInv /\ SchemaInv)'
  BY TypeStep, FileStep, SchemaStep
<1>3. SchemaInv => SchemaMatchesRevision
  BY DEF SchemaInv, SchemaMatchesRevision
<1>. QED  BY <1>1, <1>2, <1>3, PTL DEF Spec

-----------------------------------------------------------------------------
(* The results.                                                            *)

InDocs(f) == {ResultOf(t) : t \in Documented(f.tasks)}

\* Where the results are between two statements: only v3 has rows, only v2 has
\* documents, no two rows have one id, and nothing is lost.
RowsInv ==
  /\ \A x \in {db, work} : \A r, u \in x.results : r.id = u.id => r = u
  /\ db.results # {} => db.version = "v3"
  /\ Documented(db.tasks) # {} => db.version = "v2"
  /\ Held(db) = kept /\ Held(work) = kept

\* The upgrade to v3: the rows are copied, then the documents are dropped.
UpInv ==
  /\ db.version = "v2" /\ goal = "v3" /\ todo = {}
  /\ \/ script \in {V3Up, <<Move, Drop("result_json")>>} /\ ~begun
     \/ script = <<Drop("result_json")>> /\ begun /\ work.results = InDocs(work)
     \/ script = <<>> /\ Documented(work.tasks) = {}

\* The documents written so far are the rows that are not left to do.
FillingOf(f, left) ==
  /\ left \subseteq f.results
  /\ \A t \in Documented(f.tasks) : \E r \in f.results : t.id = r.id /\ t.doc = {r}
  /\ \A r \in f.results \ left : \E t \in f.tasks : t.id = r.id /\ t.doc = {r}

Filling == FillingOf(work, todo)

\* The downgrade from v3: every row becomes a document, then the rows are dropped.
DownInv ==
  /\ db.version = "v3" /\ goal = "v2"
  /\ \/ script \in {V3Down, <<Fetch, Drop("task_results")>>} /\ ~begun /\ todo = {}
     \/ script = <<Drop("task_results")>> /\ Filling
     \/ script = <<>> /\ todo = {} /\ work.results = {}

\* Any other command writes no rows; leaving v2, it has the documents to drop.
PlainInv ==
  /\ goal \in {"v1", "v2", "empty"} /\ db.version # "v3"
  /\ goal = "v2" => db.version = "v1"
  /\ ~begun /\ todo = {}
  /\ Elements(script) \cap {Move, Fetch, Drop("task_results")} = {}
  /\ db.version = "v2" /\ Drop("result_json") \notin Elements(script)
       => Documented(db.tasks) = {}

DataInv == RowsInv /\ (goal = "idle" \/ UpInv \/ DownInv \/ PlainInv)

\* What a file holds depends on its rows only, and documents that are copied
\* into rows, or dropped, change it as expected.
LEMMA HeldParts ==
  ASSUME NEW f \in Files
  PROVE  /\ Held(f) = Served(f) \cup InDocs(f)
         /\ InDocs(f) = {Filled(r) : r \in InDocs(f)}
         /\ Documented(Undocumented(f.tasks)) = {}
         /\ f.results = {} => Served(f) = {}
         /\ Documented(f.tasks) = {} => InDocs(f) = {}
<1>1. \A t \in Documented(f.tasks) : Filled(ResultOf(t)) = ResultOf(t)
  BY DocumentMakesResult DEF Documented, Files
<1>2. InDocs(f) = {Filled(r) : r \in InDocs(f)}
  BY <1>1 DEF InDocs
<1>3. Documented(Undocumented(f.tasks)) = {}
  BY DEF Documented, Undocumented, Files, TaskRows
<1>. QED  BY <1>2, <1>3 DEF Held, Served, InDocs

\* While the documents are filled they hold nothing but rows, and in the end
\* all of them.
LEMMA FillingHolds ==
  ASSUME NEW f \in Files, NEW left, FillingOf(f, left)
  PROVE  /\ InDocs(f) \subseteq Served(f)
         /\ left = {} => InDocs(f) = Served(f)
<1>1. f.tasks \subseteq TaskRows /\ f.results \subseteq Rows
  BY DEF Files
<1>2. \A t \in f.tasks, r \in f.results :
        t.id = r.id /\ t.doc = {r} => ResultOf(t) = Filled(r) /\ t \in Documented(f.tasks)
  BY <1>1, RowAsDocument DEF Documented
<1>3. ASSUME NEW t \in Documented(f.tasks)
      PROVE  \E r \in f.results : ResultOf(t) = Filled(r)
  <2>1. PICK r \in f.results : t.id = r.id /\ t.doc = {r}
    BY DEF FillingOf
  <2>. QED  BY <1>2, <2>1 DEF Documented
<1>4. ASSUME left = {}, NEW r \in f.results
      PROVE  \E t \in Documented(f.tasks) : ResultOf(t) = Filled(r)
  <2>1. PICK t \in f.tasks : t.id = r.id /\ t.doc = {r}
    BY <1>4 DEF FillingOf
  <2>. QED  BY <1>2, <2>1
<1>. QED  BY <1>3, <1>4 DEF InDocs, Served

\* A command starts where all it needs is in place.
LEMMA BeginData ==
  ASSUME TypeInv, FileInv, DataInv, BeginUpgrade \/ BeginDowngrade
  PROVE  DataInv'
<1>1. /\ work' = db' /\ db'.tasks = db.tasks /\ db'.results = db.results
      /\ begun' = FALSE /\ todo' = {} /\ kept' = kept
  BY BeginDoes
<1>2. \/ /\ db.version \in {"none", "empty", "v1", "v2"}
         /\ db'.version = IF db.version = "none" THEN "empty" ELSE db.version
         /\ goal' = Following[db.version] /\ script' = Upgrade[goal']
      \/ /\ db.version \in {"v1", "v2", "v3"} /\ db' = db
         /\ goal' = Preceding[db.version] /\ script' = Downgrade[db.version]
  BY BeginDoes
<1>3. RowsInv'
  <2>1. Held(db') = Held(db)
    BY <1>1 DEF Held, Served
  <2>2. db.version \in {"v2", "v3"} => db'.version = db.version
    BY <1>2
  <2>. QED  BY <1>1, <2>1, <2>2 DEF DataInv, RowsInv
<1>4. CASE db.version = "v2" /\ goal' = Following[db.version] /\ script' = Upgrade[goal']
           /\ db'.version = db.version
  <2>1. goal' = "v3" /\ script' = V3Up
    BY <1>4 DEF Following, Upgrade
  <2>2. UpInv'
    BY <1>1, <1>4, <2>1 DEF UpInv
  <2>. QED  BY <1>3, <2>2 DEF DataInv
<1>5. CASE db.version = "v3"
  <2>1. goal' = "v2" /\ script' = V3Down /\ db'.version = "v3"
    BY <1>2, <1>5 DEF Preceding, Downgrade
  <2>2. DownInv'
    BY <1>1, <2>1 DEF DownInv
  <2>. QED  BY <1>3, <2>2 DEF DataInv
<1>6. CASE \/ db.version \in {"none", "empty"} /\ goal' = "v1" /\ script' = V1Up
                /\ db'.version = "empty"
           \/ db.version = "v1" /\ goal' = "v2" /\ script' = V2Up /\ db'.version = "v1"
           \/ db.version = "v1" /\ goal' = "empty" /\ script' = V1Down /\ db'.version = "v1"
           \/ db.version = "v2" /\ goal' = "v1" /\ script' = V2Down /\ db'.version = "v2"
  <2>1. \A s \in {V1Up, V1Down, V2Up, V2Down} :
          Elements(s) \cap {Move, Fetch, Drop("task_results")} = {}
    BY ElementsOf, StatementsDiffer DEF V1Up, V1Down, V2Up, V2Down
  <2>2. Drop("result_json") \in Elements(V2Down)
    BY ElementsOf DEF V2Down
  <2>3. PlainInv'
    BY <1>1, <1>6, <2>1, <2>2 DEF PlainInv
  <2>. QED  BY <1>3, <2>3 DEF DataInv
<1>7. /\ Following["none"] = "v1" /\ Following["empty"] = "v1" /\ Following["v1"] = "v2"
      /\ Preceding["v1"] = "empty" /\ Preceding["v2"] = "v1"
      /\ Upgrade["v1"] = V1Up /\ Upgrade["v2"] = V2Up
      /\ Downgrade["v1"] = V1Down /\ Downgrade["v2"] = V2Down
  BY DEF Following, Preceding, Upgrade, Downgrade
<1>. QED  BY <1>2, <1>4, <1>5, <1>6, <1>7

\* How far a script of v3 has come can be told from what is left of it.
LEMMA ScriptsDiffer ==
  /\ \A a : <<a>> # <<>> /\ <<a>> # V3Up /\ <<a>> # V3Down
  /\ \A a, b, c : <<a>> # <<b, c>> /\ <<b, c>> # <<>>
  /\ V3Up # <<>> /\ V3Down # <<>>
BY DEF V3Up, V3Down

\* What is held is held in rows and in documents.
LEMMA HeldIs ==
  ASSUME NEW f
  PROVE  Held(f) = Served(f) \cup InDocs(f)
BY DEF Held, Served, InDocs

\* The statements of the upgrade to v3.
LEMMA UpStatement ==
  ASSUME TypeInv, FileInv, RowsInv, UpInv, Statement
  PROVE  RowsInv' /\ UpInv'
<1> DEFINE s == Head(script)
<1>1. /\ s \in Statements /\ Accepted(work, s) /\ todo = {} /\ script # <<>>
      /\ script' = Tail(script) /\ work' = Executed(work, s) /\ work' \in Files
      /\ begun' = (begun \/ s = Move)
      /\ db' = IF begun' THEN db ELSE work'
      /\ todo' = IF s = Fetch THEN work.results ELSE {}
      /\ kept' = IF LosesDocuments(s) THEN {} ELSE kept
      /\ goal' = goal
  BY StatementDoes
<1>2. kept' = kept /\ goal = "v3" /\ db.version = "v2" /\ work \in Files
  BY <1>1 DEF LosesDocuments, UpInv, TypeInv, TypeOK
<1>3. CASE script = V3Up
  <2>1. s = Create("task_results") /\ script' = <<Move, Drop("result_json")>>
    BY <1>1, <1>3 DEF V3Up
  <2>2. /\ work'.tasks = work.tasks /\ work'.results = work.results
        /\ work'.version = work.version
    BY <1>1, <1>2, <2>1, ExecutedParts DEF Objects
  <2>3. ~begun /\ work = db
    BY <1>3 DEF UpInv, FileInv, V3Up
  <2>4. ~begun' /\ db' = work' /\ todo' = {}
    BY <1>1, <2>1, <2>3, StatementsDiffer
  <2>5. Held(work') = Held(work)
    BY <2>2 DEF Held, Served
  <2>6. RowsInv'
    BY <1>2, <2>2, <2>3, <2>4, <2>5 DEF RowsInv
  <2>7. UpInv'
    BY <1>1, <1>2, <2>1, <2>2, <2>3, <2>4 DEF UpInv
  <2>. QED  BY <2>6, <2>7
<1>4. CASE script = <<Move, Drop("result_json")>>
  <2>1. s = Move /\ script' = <<Drop("result_json")>>
    BY <1>1, <1>4
  <2>2. ~begun /\ work = db
    BY <1>4 DEF UpInv, FileInv
  <2>3. begun' /\ db' = db /\ todo' = {}
    BY <1>1, <2>1, StatementsDiffer
  <2>4. work'.tasks = work.tasks /\ work'.results = InDocs(work)
    BY <1>1, <1>2, <2>1, ExecutedParts DEF InDocs
  <2>5. \A r, u \in work'.results : r.id = u.id => r = u
    <3>1. \A t, u \in Documented(work.tasks) : ResultOf(t).id = ResultOf(u).id => t = u
      <4>1. Accepted(work, Move)
        BY <1>1, <2>1
      <4>2. Move.op = "move"
        BY DEF Move
      <4>. QED  BY <4>1, <4>2 DEF Accepted
    <3>. QED  BY <2>4, <3>1 DEF InDocs
  <2>6. Held(work') = kept
    <3>1. InDocs(work') = InDocs(work) /\ Served(work') = InDocs(work)
      BY <1>2, <2>4, HeldParts DEF InDocs, Served
    <3>2. Held(work') = InDocs(work)
      BY <3>1, HeldIs
    <3>3. Held(work) = InDocs(work)
      <4>1. Served(work) = {}
        BY <1>2, <2>2, HeldParts DEF RowsInv
      <4>. QED  BY <4>1, HeldIs
    <3>. QED  BY <3>2, <3>3 DEF RowsInv
  <2>7. RowsInv'
    BY <1>2, <2>3, <2>5, <2>6 DEF RowsInv
  <2>8. work'.results = InDocs(work')
    BY <2>4 DEF InDocs
  <2>9. UpInv'
    BY <1>1, <1>2, <2>1, <2>3, <2>8 DEF UpInv
  <2>. QED  BY <2>7, <2>9
<1>5. CASE script = <<Drop("result_json")>>
  <2>1. s = Drop("result_json") /\ script' = <<>>
    BY <1>1, <1>5
  <2>2. begun /\ work.results = InDocs(work)
    BY <1>5, ScriptsDiffer DEF UpInv
  <2>3. begun' /\ db' = db /\ todo' = {}
    BY <1>1, <2>1, <2>2, StatementsDiffer
  <2>4. work'.results = work.results /\ work'.tasks = Undocumented(work.tasks)
    BY <1>1, <1>2, <2>1, ExecutedParts DEF Objects
  <2>5. Documented(work'.tasks) = {}
    BY <1>2, <2>4, HeldParts
  <2>6. Held(work') = kept
    <3>1. InDocs(work') = {} /\ Served(work') = Served(work)
      BY <1>1, <2>4, <2>5, HeldParts DEF Served
    <3>2. Served(work) = InDocs(work)
      BY <1>2, <2>2, HeldParts DEF Served
    <3>. QED  BY <3>1, <3>2, HeldIs DEF RowsInv
  <2>7. RowsInv'
    BY <1>2, <2>3, <2>4, <2>6 DEF RowsInv
  <2>8. UpInv'
    BY <1>1, <1>2, <2>1, <2>3, <2>5 DEF UpInv
  <2>. QED  BY <2>7, <2>8
<1>. QED  BY <1>1, <1>3, <1>4, <1>5 DEF UpInv

\* The statements of the downgrade from v3.
LEMMA DownStatement ==
  ASSUME TypeInv, FileInv, RowsInv, DownInv, Statement
  PROVE  RowsInv' /\ DownInv'
<1> DEFINE s == Head(script)
<1>1. /\ s \in Statements /\ todo = {} /\ script # <<>>
      /\ script' = Tail(script) /\ work' = Executed(work, s) /\ work' \in Files
      /\ begun' = (begun \/ s = Move)
      /\ db' = IF begun' THEN db ELSE work'
      /\ todo' = IF s = Fetch THEN work.results ELSE {}
      /\ kept' = IF LosesDocuments(s) THEN {} ELSE kept
      /\ goal' = goal
  BY StatementDoes
<1>2. /\ kept' = kept /\ goal = "v2" /\ db.version = "v3" /\ work \in Files
      /\ Documented(db.tasks) = {}
  BY <1>1 DEF LosesDocuments, DownInv, RowsInv, TypeInv, TypeOK
<1>3. CASE script = V3Down
  <2>1. s = Create("result_json") /\ script' = <<Fetch, Drop("task_results")>>
    BY <1>1, <1>3 DEF V3Down
  <2>2. /\ work'.tasks = work.tasks /\ work'.results = work.results
        /\ work'.version = work.version
    BY <1>1, <1>2, <2>1, ExecutedParts DEF Objects
  <2>3. ~begun /\ work = db
    BY <1>3 DEF DownInv, FileInv, V3Down
  <2>4. ~begun' /\ db' = work' /\ todo' = {}
    BY <1>1, <2>1, <2>3, StatementsDiffer
  <2>5. Held(work') = Held(work)
    BY <2>2 DEF Held, Served
  <2>6. RowsInv'
    BY <1>2, <2>2, <2>3, <2>4, <2>5 DEF RowsInv
  <2>7. DownInv'
    BY <1>1, <1>2, <2>1, <2>2, <2>3, <2>4 DEF DownInv
  <2>. QED  BY <2>6, <2>7
<1>4. CASE script = <<Fetch, Drop("task_results")>>
  <2>1. s = Fetch /\ script' = <<Drop("task_results")>>
    BY <1>1, <1>4
  <2>2. ~begun /\ work = db
    BY <1>4 DEF DownInv, FileInv
  <2>3. work' = work /\ db' = db /\ todo' = work.results
    BY <1>1, <1>2, <2>1, <2>2, ExecutedParts
  <2>4. RowsInv'
    BY <1>2, <2>3 DEF RowsInv
  <2>5. Filling'
    BY <1>2, <2>2, <2>3 DEF Filling, FillingOf
  <2>6. DownInv'
    BY <1>1, <1>2, <2>1, <2>3, <2>5 DEF DownInv
  <2>. QED  BY <2>4, <2>6
<1>5. CASE script = <<Drop("task_results")>>
  <2>1. s = Drop("task_results") /\ script' = <<>>
    BY <1>1, <1>5
  <2>2. Filling
    BY <1>5, ScriptsDiffer DEF DownInv
  <2>3. begun' = begun /\ todo' = {}
    <3>1. s # Move /\ s # Fetch
      BY <2>1, StatementsDiffer
    <3>. QED  BY <1>1, <3>1 DEF TypeInv, TypeOK
  <2>4. /\ work'.results = {} /\ work'.tasks = work.tasks
        /\ work'.version = work.version
    BY <1>1, <1>2, <2>1, ExecutedParts DEF Objects
  <2>5. Held(work') = kept
    <3>1. InDocs(work') = InDocs(work) /\ Served(work') = {}
      BY <1>1, <2>4, HeldParts DEF InDocs
    <3>2. Served(work) = InDocs(work)
      BY <1>1, <1>2, <2>2, FillingHolds DEF Filling
    <3>. QED  BY <3>1, <3>2, HeldIs DEF RowsInv
  <2>6. db' = db \/ (db' = work' /\ work = db)
    BY <1>1, <2>3 DEF FileInv
  <2>7. RowsInv'
    BY <1>2, <2>4, <2>5, <2>6 DEF RowsInv
  <2>8. db'.version = "v3"
    BY <1>2, <2>4, <2>6
  <2>9. DownInv'
    BY <1>1, <1>2, <2>1, <2>3, <2>4, <2>8 DEF DownInv
  <2>. QED  BY <2>7, <2>9
<1>. QED  BY <1>1, <1>3, <1>4, <1>5 DEF DownInv

\* The statements of every other script: what they drop was to be dropped.
LEMMA PlainStatement ==
  ASSUME TypeInv, FileInv, RowsInv, PlainInv, Statement
  PROVE  RowsInv' /\ PlainInv'
<1> DEFINE s == Head(script)
<1>1. /\ s \in Statements /\ script # <<>>
      /\ Elements(script) = {s} \cup Elements(script')
      /\ script' = Tail(script) /\ work' = Executed(work, s) /\ work' \in Files
      /\ begun' = (begun \/ s = Move)
      /\ db' = IF begun' THEN db ELSE work'
      /\ todo' = IF s = Fetch THEN work.results ELSE {}
      /\ kept' = IF LosesDocuments(s) THEN {} ELSE kept
      /\ goal' = goal
  BY StatementDoes
<1>2. s \notin {Move, Fetch, Drop("task_results")} /\ work = db /\ work \in Files
  BY <1>1 DEF PlainInv, FileInv, TypeInv, TypeOK
<1>3. ~begun' /\ db' = work' /\ todo' = {}
  BY <1>1, <1>2 DEF PlainInv
<1>4. db.results = {} /\ db'.results = {} /\ db'.version = db.version
  BY <1>1, <1>2, <1>3, ExecutedParts DEF RowsInv, PlainInv
<1>5. \/ db'.tasks = db.tasks /\ s \notin {Drop("result_json"), Drop("tasks")}
      \/ Documented(db'.tasks) = {} /\ s \in {Drop("result_json"), Drop("tasks")}
  <2>1. ASSUME NEW o \in Objects, s = Create(o) PROVE <1>5
    BY <1>1, <1>2, <1>3, <2>1, ExecutedParts, StatementsDiffer
  <2>2. ASSUME NEW o \in Objects, s = Drop(o) PROVE <1>5
    <3>1. db'.tasks = CASE o = "tasks" -> {}
                        [] o = "result_json" -> Undocumented(work.tasks)
                        [] OTHER -> work.tasks
      BY <1>1, <1>2, <1>3, <2>2, ExecutedParts
    <3>2. Documented({}) = {} /\ Documented(Undocumented(work.tasks)) = {}
      BY <1>2, HeldParts DEF Documented
    <3>. QED  BY <1>2, <2>2, <3>1, <3>2, StatementsDiffer
  <2>. QED  BY <1>1, <1>2, <2>1, <2>2, ExecutedParts
<1>6. Held(db') = InDocs(db') /\ Held(db) = InDocs(db) /\ Held(db) = kept
  BY <1>1, <1>2, <1>3, <1>4, HeldParts DEF RowsInv
<1>7. Held(db') = kept'
  <2>1. CASE db'.tasks = db.tasks /\ s \notin {Drop("result_json"), Drop("tasks")}
    BY <1>1, <1>6, <2>1 DEF InDocs, LosesDocuments
  <2>2. CASE Documented(db'.tasks) = {} /\ s \in {Drop("result_json"), Drop("tasks")}
    <3>1. Held(db') = {}
      BY <1>6, <2>2 DEF InDocs
    <3>2. goal = "v2" => kept = {}
      BY <1>6 DEF PlainInv, RowsInv, InDocs
    <3>. QED  BY <1>1, <2>2, <3>1, <3>2 DEF LosesDocuments, PlainInv
  <2>. QED  BY <1>5, <2>1, <2>2
<1>8. RowsInv'
  BY <1>3, <1>4, <1>5, <1>7 DEF RowsInv
<1>9. PlainInv'
  <2>1. Elements(script') \subseteq Elements(script)
    BY <1>1
  <2>2. db.version = "v2" /\ Drop("result_json") \notin Elements(script')
          => Documented(db'.tasks) = {}
    BY <1>1, <1>5 DEF PlainInv
  <2>. QED  BY <1>1, <1>3, <1>4, <2>1, <2>2 DEF PlainInv
<1>. QED  BY <1>8, <1>9

\* One more row has become a document.
LEMMA FillData ==
  ASSUME TypeInv, FileInv, DataInv, FillRow
  PROVE  DataInv'
<1>1. todo # {}
  BY DEF FillRow
<1>2. /\ db.version = "v3" /\ goal = "v2" /\ script = <<Drop("task_results")>> /\ Filling
  BY <1>1 DEF DataInv, FileInv, UpInv, DownInv, PlainInv
<1>3. PICK row \in todo, tasks \in SUBSET TaskRows :
        /\ db' = db /\ work'.tasks = tasks /\ work'.results = work.results
        /\ todo' = todo \ {row} /\ script' = script /\ goal' = goal /\ kept' = kept
        /\ \A t \in tasks : \/ t \in work.tasks /\ t.id # row.id
                            \/ t.id = row.id /\ t.doc = {row}
        /\ \A t \in work.tasks : t.id # row.id => t \in tasks
        /\ \E t \in tasks : t.id = row.id /\ t.doc = {row}
  BY FillDoes
<1>4. Filling'
  <2>1. row \in work.results /\ todo' \subseteq work'.results
    BY <1>2, <1>3 DEF Filling, FillingOf
  <2>2. ASSUME NEW t \in Documented(tasks)
        PROVE  \E r \in work.results : t.id = r.id /\ t.doc = {r}
    BY <1>2, <1>3, <2>1, <2>2 DEF Filling, FillingOf, Documented
  <2>3. ASSUME NEW r \in work.results \ todo'
        PROVE  \E t \in tasks : t.id = r.id /\ t.doc = {r}
    <3>1. CASE r = row
      BY <1>3, <3>1
    <3>2. CASE r # row
      <4>1. PICK t \in work.tasks : t.id = r.id /\ t.doc = {r}
        BY <1>2, <1>3, <3>2 DEF Filling, FillingOf
      <4>2. r.id # row.id
        BY <2>1, <3>2 DEF DataInv, RowsInv
      <4>. QED  BY <1>3, <4>1, <4>2
    <3>. QED  BY <3>1, <3>2
  <2>. QED  BY <1>3, <2>1, <2>2, <2>3 DEF Filling, FillingOf
<1>5. InDocs(work) \subseteq Served(work) /\ InDocs(work') \subseteq Served(work')
  <2>1. work \in Files /\ work' \in Files
    BY TypeStep DEF Next, TypeInv, TypeOK
  <2>. QED  BY <1>2, <1>4, <2>1, FillingHolds DEF Filling
<1>6. Held(work') = Held(work)
  <2>1. Served(work') = Served(work)
    BY <1>3 DEF Served
  <2>. QED  BY <1>5, <2>1, HeldIs
<1>7. RowsInv'
  BY <1>3, <1>6 DEF DataInv, RowsInv
<1>8. DownInv'
  BY <1>2, <1>3, <1>4 DEF DownInv
<1>. QED  BY <1>7, <1>8 DEF DataInv

\* A command that ends leaves everything where the revision has its place.
LEMMA EndData ==
  ASSUME TypeInv, FileInv, DataInv, Stamp \/ Fail
  PROVE  DataInv'
<1>1. goal # "idle" /\ goal' = "idle" /\ work' = db' /\ kept' = kept
  BY EndDoes
<1>2. CASE db' = db
  BY <1>1, <1>2 DEF DataInv, RowsInv
<1>3. CASE /\ script = <<>> /\ todo = {} /\ db'.version = goal
           /\ db'.tasks = work.tasks /\ db'.results = work.results
  <2>1. /\ work.results # {} => goal = "v3"
        /\ Documented(work.tasks) # {} => goal = "v2"
    <3>1. CASE UpInv
      BY <1>3, <3>1, ScriptsDiffer DEF UpInv
    <3>2. CASE DownInv
      BY <1>3, <3>2, ScriptsDiffer DEF DownInv
    <3>3. CASE PlainInv
      <4>1. work = db /\ Drop("result_json") \notin Elements(script)
        BY <1>3, <3>3, ElementsOf DEF PlainInv, FileInv
      <4>. QED  BY <3>3, <4>1 DEF PlainInv, DataInv, RowsInv
    <3>. QED  BY <1>1, <3>1, <3>2, <3>3 DEF DataInv
  <2>2. Held(db') = Held(work)
    BY <1>3 DEF Held, Served
  <2>3. RowsInv'
    BY <1>1, <1>3, <2>1, <2>2 DEF DataInv, RowsInv
  <2>. QED  BY <1>1, <2>3 DEF DataInv
<1>. QED  BY <1>2, <1>3, EndDoes

\* What is written between two commands is counted, and has its place.
LEMMA WriteData ==
  ASSUME TypeInv, FileInv, DataInv, Next,
         \/ \E seed \in TaskSeeds : SeedTask(seed)
         \/ \E d \in DocSeeds : SeedDoc(d)
         \/ \E row \in ResultSeeds : SeedResult(row)
  PROVE  DataInv'
<1>1. goal = "idle" /\ goal' = goal /\ work' = db' /\ db'.version = db.version
  BY WriteDoes
<1>2. db \in Files /\ db' \in Files /\ db.tasks \subseteq TaskRows
  BY TypeStep DEF TypeInv, TypeOK, Files
<1>3. ASSUME NEW seed \in TaskSeeds, SeedTask(seed) PROVE RowsInv'
  <2>1. /\ db'.results = db.results /\ kept' = kept
        /\ db'.tasks = db.tasks \cup {[id |-> seed.id, name |-> seed.name, doc |-> {}]}
    BY <1>2, <1>3 DEF SeedTask, Write, Files
  <2>2. Documented(db'.tasks) = Documented(db.tasks)
    BY <2>1 DEF Documented
  <2>3. Held(db') = Held(db)
    BY <2>1, <2>2 DEF Held, Served
  <2>. QED  BY <1>1, <2>1, <2>2, <2>3 DEF DataInv, RowsInv
<1>4. ASSUME NEW d \in DocSeeds, SeedDoc(d) PROVE RowsInv'
  <2> DEFINE written(t) == [t EXCEPT !.doc = {d}]
  <2>1. PICK t \in db.tasks :
          /\ db.version = "v2" /\ t.doc = {} /\ db'.results = db.results
          /\ db'.tasks = (db.tasks \ {t}) \cup {written(t)}
          /\ kept' = kept \cup {ResultOf(written(t))}
    BY <1>2, <1>4 DEF SeedDoc, Write, Files
  <2>2. written(t).doc = {d}
    BY <1>2 DEF TaskRows
  <2> HIDE DEF written
  <2>3. Documented(db'.tasks) = Documented(db.tasks) \cup {written(t)}
    BY <2>1, <2>2 DEF Documented
  <2>4. InDocs(db') = InDocs(db) \cup {ResultOf(written(t))} /\ Served(db') = Served(db)
    BY <2>1, <2>3 DEF InDocs, Served
  <2>5. Held(db') = kept'
    BY <2>1, <2>4, HeldIs DEF DataInv, RowsInv
  <2>. QED  BY <1>1, <2>1, <2>5 DEF DataInv, RowsInv
<1>5. ASSUME NEW row \in ResultSeeds, SeedResult(row) PROVE RowsInv'
  <2>1. /\ db.version = "v3" /\ \A r \in db.results : r.id # row.id
        /\ db'.results = db.results \cup {row} /\ db'.tasks = db.tasks
        /\ kept' = kept \cup {Filled(row)}
    BY <1>2, <1>5 DEF SeedResult, Write, Files
  <2>2. Served(db') = Served(db) \cup {Filled(row)} /\ InDocs(db') = InDocs(db)
    BY <2>1 DEF Served, InDocs
  <2>3. Held(db') = kept'
    BY <2>1, <2>2, HeldIs DEF DataInv, RowsInv
  <2>. QED  BY <1>1, <2>1, <2>3 DEF DataInv, RowsInv
<1>. QED  BY <1>1, <1>3, <1>4, <1>5 DEF DataInv

\* The results are accounted for in every state.
LEMMA DataStep ==
  ASSUME TypeInv, FileInv, DataInv, [Next]_vars
  PROVE  DataInv'
<1>1. CASE BeginUpgrade \/ BeginDowngrade
  BY <1>1, BeginData
<1>2. CASE Statement
  <2>1. goal # "idle"
    BY <1>2, StatementDoes DEF FileInv
  <2>. QED  BY <1>2, <2>1, UpStatement, DownStatement, PlainStatement DEF DataInv
<1>3. CASE FillRow
  BY <1>3, FillData
<1>4. CASE Stamp \/ Fail
  BY <1>4, EndData
<1>5. CASE /\ Next
           /\ \/ \E seed \in TaskSeeds : SeedTask(seed)
              \/ \E d \in DocSeeds : SeedDoc(d)
              \/ \E row \in ResultSeeds : SeedResult(row)
  BY <1>5, WriteData
<1>6. CASE Probe \/ UNCHANGED vars
  <2>1. UNCHANGED <<db, work, begun, script, goal, todo, kept>>
    BY <1>6, ProbeDoes DEF vars, file, command
  <2>. QED  BY <2>1 DEF DataInv, RowsInv, UpInv, DownInv, PlainInv, Filling, FillingOf,
                        InDocs
<1>. QED  BY <1>1, <1>2, <1>3, <1>4, <1>5, <1>6 DEF Next, Probe

\* Before the first command there is nothing to account for.
LEMMA DataInit == Init => TypeInv /\ FileInv /\ DataInv
<1> SUFFICES ASSUME Init PROVE RowsInv /\ FileInv
  BY InitialTypes DEF DataInv, Init
<1>1. db.results = {} /\ db.tasks = {} /\ work = db /\ kept = {}
  BY DEF Init, Blank
<1>2. Documented(db.tasks) = {} /\ Held(db) = {}
  BY <1>1 DEF Documented, Held, Served
<1>. QED  BY <1>1, <1>2 DEF RowsInv, FileInv, Init

\* ResultsKept: no way through the revisions, and no failure on it, loses, merges
\* or invents a result.
THEOREM ResultsKeptCorrect == Spec => []ResultsKept
<1>1. Init => TypeInv /\ FileInv /\ DataInv
  BY DataInit
<1>2. TypeInv /\ FileInv /\ DataInv /\ [Next]_vars => (TypeInv /\ FileInv /\ DataInv)'
  BY TypeStep, FileStep, DataStep
<1>3. DataInv => ResultsKept
  BY DEF DataInv, RowsInv, ResultsKept
<1>. QED  BY <1>1, <1>2, <1>3, PTL DEF Spec

\* ReadyServesResults: whatever was upgraded, downgraded or failed before or between
\* its reads, a file that readyz calls ready has every result where the code at head
\* looks for it, and after commands that succeeded the schema of head or none.
THEOREM ReadyServesResultsCorrect == Spec => ReadyServesResults
<1> DEFINE Inv == TypeInv /\ FileInv /\ DataInv /\ SchemaInv
           Usable == /\ Served(db) = kept
                     /\ clean /\ goal = "idle" => db.objects \in {ObjectsAt["v3"], {}}
<1>1. Init => Inv
  BY DataInit, InitialSchema
<1>2. Inv /\ [Next]_vars => Inv'
  BY TypeStep, FileStep, DataStep, SchemaStep
<1>3. Inv /\ [Next]_vars => [probe # "ready" /\ probe' = "ready" => Usable]_vars
  <2> SUFFICES ASSUME Inv, Next, probe # "ready", probe' = "ready"
               PROVE  Usable
    OBVIOUS
  <2>1. Probe
    BY BeginDoes, StatementDoes, FillDoes, EndDoes, WriteDoes DEF Next, Probe
  <2>2. db.version \in {"none", "empty", "v3"}
    BY <2>1, ProbeDoes
  <2>3. Documented(db.tasks) = {}
    BY <2>2 DEF DataInv, RowsInv
  <2>4. Served(db) = kept
    BY <2>3, HeldIs DEF DataInv, RowsInv, InDocs
  <2>5. ASSUME clean, goal = "idle" PROVE db.objects \in {ObjectsAt["v3"], {}}
    BY <2>2, <2>5 DEF SchemaInv, ObjectsAt
  <2>. QED  BY <2>4, <2>5
<1>. QED  BY <1>1, <1>2, <1>3, PTL DEF Spec, ReadyServesResults

-----------------------------------------------------------------------------
(* What a failure leaves alone.                                            *)

\* Two versions of the file agree in the recorded revision and in all rows, but
\* for what a command that leads to revision `to' is meant to drop.
SameRows(f, g, to) ==
  /\ f.version = g.version
  /\ f.results = g.results
  /\ to \notin {"v1", "empty"} => f.tasks = g.tasks
  /\ to # "empty" => Undocumented(f.tasks) = Undocumented(g.tasks)

\* What is left of a script leads to its goal, and what a command has made
\* permanent is in its objects only.
StartInv == goal # "idle" => Leads(script, goal) /\ SameRows(db, start, goal)

\* The rows without their documents do not change when documents are dropped.
LEMMA UndocumentedTwice ==
  ASSUME NEW S \in SUBSET TaskRows
  PROVE  Undocumented(Undocumented(S)) = Undocumented(S)
<1> DEFINE Bare(t) == [t EXCEPT !.doc = {}]
<1>1. \A t \in S : Bare(Bare(t)) = Bare(t)
  OBVIOUS
<1>2. \A T : Undocumented(T) = {Bare(t) : t \in T}
  BY DEF Undocumented
<1> HIDE DEF Bare
<1>. QED  BY <1>1, <1>2

\* A statement outside a transaction drops rows only where it is meant to: the
\* results of v3 are copied, or there are none, before their table is dropped.
LEMMA StatementKeepsRows ==
  ASSUME TypeInv, FileInv, DataInv, StartInv, Statement
  PROVE  StartInv'
<1> DEFINE s == Head(script)
<1>1. /\ s \in Statements /\ todo = {} /\ script # <<>> /\ s \in Elements(script)
      /\ Elements(script') \subseteq Elements(script)
      /\ work' = Executed(work, s) /\ begun' = (begun \/ s = Move)
      /\ db' = IF begun' THEN db ELSE work'
      /\ goal' = goal /\ start' = start
  BY StatementDoes
<1> HIDE DEF s
<1>2. goal # "idle" /\ Leads(script, goal) /\ SameRows(db, start, goal)
  BY <1>1 DEF FileInv, StartInv
<1>3. Leads(script', goal)
  BY <1>1, <1>2 DEF Leads, Creates, Drops
<1>4. SameRows(db', start, goal)
  <2>1. CASE begun'
    BY <1>1, <1>2, <2>1
  <2>2. CASE ~begun'
    <3>1. ~begun /\ s # Move /\ work = db /\ db' = Executed(db, s) /\ db \in Files
      BY <1>1, <2>2 DEF FileInv, TypeInv, TypeOK
    <3>2. CASE s = Fetch
      BY <1>1, <1>2, <3>1, <3>2, ExecutedParts
    <3>3. ASSUME NEW o \in Objects, s = Create(o) PROVE SameRows(db', start, goal)
      <4>1. db'.version = db.version /\ db'.tasks = db.tasks /\ db'.results = db.results
        BY <1>1, <3>1, <3>3, ExecutedParts
      <4>. QED  BY <1>2, <4>1 DEF SameRows
    <3>4. ASSUME NEW o \in Objects, s = Drop(o) PROVE SameRows(db', start, goal)
      <4>1. /\ db'.version = db.version
            /\ db'.tasks = CASE o = "tasks" -> {}
                             [] o = "result_json" -> Undocumented(db.tasks)
                             [] OTHER -> db.tasks
            /\ db'.results = IF o = "task_results" THEN {} ELSE db.results
        BY <1>1, <3>1, <3>4, ExecutedParts
      <4>2. o \in Drops(script) /\ o \in PartsOf(o) /\ o \notin ObjectsAt[goal]
        <5>1. o \in Drops(script) /\ o \in PartsOf(o)
          BY <1>1, <3>4 DEF Drops, PartsOf
        <5>. QED  BY <1>2, <5>1 DEF Leads
      <4>3. o = "task_results" => db.results = {}
        <5> SUFFICES ASSUME o = "task_results" PROVE db.results = {}
          OBVIOUS
        <5>1. ~PlainInv
          BY <1>1, <3>4 DEF PlainInv
        <5>2. ~UpInv
          BY <4>2 DEF UpInv, ObjectsAt
        <5>3. DownInv
          BY <1>2, <5>1, <5>2 DEF DataInv
        <5>4. script = <<Drop("task_results")>> /\ Filling
          <6>1. s = Drop("task_results") /\ Head(V3Down) = Create("result_json")
            BY <3>4 DEF V3Down
          <6>2. Head(<<Fetch, Drop("task_results")>>) = Fetch
            OBVIOUS
          <6>. QED  BY <1>1, <5>3, <6>1, <6>2, StatementsDiffer DEF DownInv, s
        <5>5. Documented(db.tasks) = {}
          BY <5>3 DEF DataInv, RowsInv, DownInv
        <5>6. \A r \in db.results : \E t \in db.tasks : t.doc = {r}
          BY <1>1, <3>1, <5>4 DEF Filling, FillingOf
        <5>. QED  BY <5>5, <5>6 DEF Documented
      <4>4. o = "tasks" => goal = "empty"
        <5> SUFFICES ASSUME o = "tasks" PROVE goal = "empty"
          OBVIOUS
        <5>1. goal \in {"empty", "v1", "v2", "v3"} /\ "tasks" \notin ObjectsAt[goal]
          BY <1>2, <4>2 DEF TypeInv, TypeOK
        <5>. QED  BY <5>1, SchemaAt
      <4>5. o = "result_json" => goal \in {"v1", "empty"}
        <5>0. o = "result_json" => goal # "v2" /\ goal \in {"empty", "v1", "v2", "v3"}
          BY <1>2, <4>2, SchemaAt DEF TypeInv, TypeOK
        <5> SUFFICES ASSUME o = "result_json", goal = "v3" PROVE FALSE
          BY <5>0
        <5>1. UpInv
          BY <1>2 DEF DataInv, DownInv, PlainInv
        <5>2. s = Drop("result_json") /\ Head(V3Up) = Create("task_results")
              /\ Head(<<Move, Drop("result_json")>>) = Move
          BY <3>4 DEF V3Up
        <5>. QED  BY <1>1, <3>1, <5>1, <5>2, StatementsDiffer DEF UpInv, s
      <4>6. Undocumented(Undocumented(db.tasks)) = Undocumented(db.tasks)
        BY <3>1, UndocumentedTwice DEF Files
      <4>. QED  BY <1>2, <4>1, <4>3, <4>4, <4>5, <4>6 DEF SameRows
    <3>. QED  BY <1>1, <3>1, <3>2, <3>3, <3>4, ExecutedParts
  <2>. QED  BY <2>1, <2>2
<1>. QED  BY <1>1, <1>3, <1>4 DEF StartInv

\* So does every other step of a command.
LEMMA StartStep ==
  ASSUME TypeInv, FileInv, DataInv, StartInv, [Next]_vars
  PROVE  StartInv'
<1>1. CASE BeginUpgrade \/ BeginDowngrade
  <2>1. Leads(script', goal')
    BY <1>1, BeginDoes, ScriptsLead
  <2>2. start' = db'
    BY <1>1, BeginDoes
  <2>. QED  BY <2>1, <2>2 DEF StartInv, SameRows
<1>2. CASE Statement
  BY <1>2, StatementKeepsRows
<1>3. CASE FillRow
  <2>1. UNCHANGED <<db, script, goal, start>>
    BY <1>3, FillDoes
  <2>. QED  BY <2>1 DEF StartInv
<1>4. CASE Stamp \/ Fail
  BY <1>4, EndDoes DEF StartInv
<1>5. CASE \/ \E seed \in TaskSeeds : SeedTask(seed)
           \/ \E d \in DocSeeds : SeedDoc(d)
           \/ \E row \in ResultSeeds : SeedResult(row)
  BY <1>5, WriteDoes DEF StartInv
<1>6. CASE Probe \/ UNCHANGED vars
  BY <1>6, ProbeDoes DEF StartInv, vars, file, command
<1>. QED  BY <1>1, <1>2, <1>3, <1>4, <1>5, <1>6 DEF Next, Probe

\* What is true of FailureRollsBack: a command that fails, at whatever statement,
\* leaves the recorded revision and every result row as they were when it began.
\* It leaves the tasks alone too, unless it was to drop their table, and their
\* documents, unless it was to leave v2 downwards.  Only objects stay behind.
THEOREM FailureKeepsRows == Spec => [][Fail => SameRows(db', start, goal)]_vars
<1>1. Init => TypeInv /\ FileInv /\ DataInv /\ StartInv
  BY DataInit DEF StartInv, Init
<1>2. TypeInv /\ FileInv /\ DataInv /\ StartInv /\ [Next]_vars
        => (TypeInv /\ FileInv /\ DataInv /\ StartInv)'
  BY TypeStep, FileStep, DataStep, StartStep
<1>3. StartInv => [Fail => SameRows(db', start, goal)]_vars
  BY DEF StartInv, Fail, Stop, probing
<1>. QED  BY <1>1, <1>2, <1>3, PTL DEF Spec
=============================================================================
