---------------------------- MODULE MC_Migrations ----------------------------
(* Instances of Migrations for TLC.                                        *)
EXTENDS Migrations

\* Two tasks of one name, which is also the id of a result.
SomeTasks == {[id |-> <<"a">>, name |-> <<"r">>], [id |-> <<"b">>, name |-> <<"r">>]}

\* A document that says nothing, and one that names its result.
SomeDocs == {[id |-> Null, task_id |-> Null], [id |-> <<"r">>, task_id |-> Null]}

\* A result of a task, a second one of the same task, one without a task.
SomeResults == {[id |-> <<"r">>, task_id |-> <<"a">>], [id |-> <<"q">>, task_id |-> <<"a">>],
                [id |-> <<"a">>, task_id |-> Null]}
=============================================================================
