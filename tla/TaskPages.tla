----------------------------- MODULE TaskPages -----------------------------
(***************************************************************************)
(* GET /v1/tasks, the cursor-paginated list (FR-01, AC-1.7): a client      *)
(* walks from page to page while tasks are created and deleted.  Each page *)
(* is one SELECT; its cursor carries created_at and id of the last task.   *)
(*                                                                         *)
(* A column holds created_at as the text SQLAlchemy's SQLite dialect       *)
(* writes ("2026-01-01 10:00:00.000000"), the cursor as the text of        *)
(* isoformat ("2026-01-01T10:00:00").  The cursor's text reaches the       *)
(* statement unchanged, since a str is bound as a string whatever the type *)
(* of the column, and SQLite compares the two as texts.                    *)
(*                                                                         *)
(* Every session has a connection of its own: a create is seen when it has *)
(* committed.  No code changes the status of a task, so a status filter    *)
(* lets either all tasks or none through, and is left out.                 *)
(***************************************************************************)
EXTENDS Integers, FiniteSets, Sequences

CONSTANTS
  Tasks,       \* ids (uuid4): what matters of them is their order
  Limits,      \* page sizes the client asks for, below the service's MAX_LIMIT
  DayLength,   \* ticks of the clock in a day
  MaxClock     \* bound: the last instant

ASSUME TasksAssumption == Tasks \subseteq Nat
ASSUME LimitsAssumption == Limits \subseteq Nat \ {0}
ASSUME DayLengthAssumption == DayLength \in Nat \ {0}
ASSUME MaxClockAssumption == MaxClock \in Nat

Instants == 0..MaxClock

VARIABLES
  clock,        \* datetime.now(timezone.utc)
  stage,        \* of each task: new, flushed, stored (committed) or gone
  created,      \* created_at of each task, -1 before its create
  cursor,       \* next_cursor of the client's last page: one, or {} for None
  walking,      \* is a walk under way?
  pages,        \* the pages of the walk so far
  throughout    \* the tasks that were there all through the walk so far

rows == <<clock, stage, created>>
walk == <<cursor, walking, pages, throughout>>
vars == <<rows, walk>>

Init == /\ clock = 0
        /\ stage = [t \in Tasks |-> "new"]
        /\ created = [t \in Tasks |-> -1]
        /\ cursor = {}
        /\ walking = FALSE
        /\ pages = <<>>
        /\ throughout = {}

-----------------------------------------------------------------------------
(* The texts of an instant, and how they compare.                          *)

Day(at) == at \div DayLength
TimeOfDay(at) == at % DayLength

\* A text is its date, its separator (' ' is 32, 'T' is 84) and its time.
StoredText(at) == <<Day(at), 32, TimeOfDay(at)>>
IsoText(at) == <<Day(at), 84, TimeOfDay(at)>>

TextLess(a, b) == \E i \in 1..3 : /\ a[i] < b[i]
                                  /\ \A j \in 1..(i - 1) : a[j] = b[j]

BeyondForgetsCursor(t) == TRUE                                     \* mutant

\* The condition a cursor adds to the SELECT.
Beyond(t) ==
  \A c \in cursor : \/ TextLess(c.created_at, StoredText(created[t]))
                    \/ c.created_at = StoredText(created[t]) /\ t > c.id

\* ORDER BY created_at, id.
Precedes(t, u) == \/ created[t] < created[u]
                  \/ created[t] = created[u] /\ t < u

CursorOf(t) == [created_at |-> IsoText(created[t]), id |-> t]

-----------------------------------------------------------------------------
(* Tasks come and go.                                                      *)

Stored == {t \in Tasks : stage[t] = "stored"}

Tick == /\ clock < MaxClock
        /\ clock' = clock + 1
        /\ UNCHANGED <<stage, created, walk>>

StageAt(t, from, to) == /\ stage[t] = from
                        /\ stage' = [stage EXCEPT ![t] = to]
                        /\ UNCHANGED <<clock, cursor, walking, pages>>

CreateFlushNoDefault(t) ==                                         \* mutant
  StageAt(t, "new", "flushed") /\ UNCHANGED <<created, throughout>>

\* The default of created_at is evaluated when the session flushes.
CreateFlush(t) == /\ StageAt(t, "new", "flushed")
                  /\ created' = [created EXCEPT ![t] = clock]
                  /\ UNCHANGED throughout

CreateCommit(t) == StageAt(t, "flushed", "stored") /\ UNCHANGED <<created, throughout>>

DeleteTask(t) == /\ StageAt(t, "stored", "gone")
                 /\ throughout' = throughout \ {t}
                 /\ UNCHANGED created

-----------------------------------------------------------------------------
(* TaskRepository.list.                                                    *)

Matching == {t \in Stored : Beyond(t)}

\* The first `limit' rows in the order of the statement.
Page(limit) ==
  {t \in Matching : Cardinality({u \in Matching : Precedes(u, t)}) < limit}

LastOf(page) == CHOOSE t \in page : \A u \in page : ~Precedes(t, u)

NextCursorPastPage(limit) ==                                       \* mutant
  IF Cardinality(Matching) > limit THEN {CursorOf(LastOf(Page(limit + 1)))} ELSE {}

\* One row more than asked for was selected, and tells whether there is more.
NextCursor(limit) == IF Cardinality(Matching) > limit
                     THEN {CursorOf(LastOf(Page(limit)))} ELSE {}

BeginWalk == /\ ~walking
             /\ walking' = TRUE
             /\ cursor' = {}
             /\ pages' = <<>>
             /\ throughout' = Stored
             /\ UNCHANGED rows

ListTasks == /\ walking
             /\ \E limit \in Limits :
                  /\ pages' = Append(pages, Page(limit))
                  /\ cursor' = NextCursor(limit)
                  /\ walking' = (NextCursor(limit) # {})
             /\ UNCHANGED <<rows, throughout>>

-----------------------------------------------------------------------------
Next == \/ Tick
        \/ \E t \in Tasks : CreateFlush(t) \/ CreateCommit(t) \/ DeleteTask(t)
        \/ BeginWalk
        \/ ListTasks

Spec == Init /\ [][Next]_vars

-----------------------------------------------------------------------------
(* Properties.                                                             *)

\* Every variable has the shape the code gives it, and no row lacks created_at.
TypeOK ==
  /\ clock \in Instants
  /\ stage \in [Tasks -> {"new", "flushed", "stored", "gone"}]
  /\ created \in [Tasks -> Instants \cup {-1}]
  /\ \A t \in Tasks : stage[t] # "new" => created[t] # -1
  /\ cursor \subseteq [created_at : {IsoText(at) : at \in Instants}, id : Tasks]
  /\ walking \in BOOLEAN
  /\ pages \in Seq(SUBSET Tasks)
  /\ throughout \subseteq Tasks

Listed == UNION {pages[i] : i \in 1..Len(pages)}

\* Nothing is listed twice: whatever is created (also with an earlier
\* created_at than what was listed already) or deleted between two pages, all
\* of a page comes after all the pages before it.
WalkAscends ==
  [][ListTasks => \A t \in Listed, u \in pages'[Len(pages')] : Precedes(t, u)]_vars

Ended == ~walking /\ pages # <<>>

\* "next_cursor (None when exhausted)": a walk to its end lists every task that
\* was there all the time.
WalkComplete == Ended => throughout \subseteq Listed

\* What is true of WalkComplete: the only tasks a walk skips are those created
\* later on the very day of the last task of one of its pages.
SkipsRestOfDayOnly ==
  Ended => \A t \in throughout \ Listed : \E i \in 1..(Len(pages) - 1) :
             LET last == LastOf(pages[i])
             IN Precedes(last, t) /\ Day(created[last]) = Day(created[t])
=============================================================================
