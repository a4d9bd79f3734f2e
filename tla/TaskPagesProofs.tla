-------------------------- MODULE TaskPagesProofs --------------------------
(***************************************************************************)
(* A walk through the pages of GET /v1/tasks, for any set of task ids, any *)
(* page sizes and any length of the day: nothing is listed twice, what a   *)
(* walk skips lies on the day of one of its cursors, and every walk ends.  *)
(***************************************************************************)
EXTENDS TaskPages, FiniteSetTheorems, TLAPS

\* The tasks that have a created_at.
Born == {t \in Tasks : stage[t] # "new"}

-----------------------------------------------------------------------------
(* The order of the statement.                                             *)

\* In a finite set a transitive relation without loops leads to an end.
LEMMA EndExists ==
  ASSUME NEW S, IsFiniteSet(S), S # {}, NEW R,
         \A x \in S : <<x, x>> \notin R,
         \A x, y, z \in S : <<x, y>> \in R /\ <<y, z>> \in R => <<x, z>> \in R
  PROVE  \E m \in S : \A x \in S : <<m, x>> \notin R
<1> DEFINE After(x) == {y \in S : <<x, y>> \in R}
           Afters == {After(x) : x \in S}
<1>1. Afters \subseteq FiniteSubsetsOf(S) /\ Afters # {}
  <2>1. FiniteSubsetsOf(S) = SUBSET S
    BY FS_FiniteSubsetsOfFinite
  <2>2. Afters \subseteq SUBSET S
    OBVIOUS
  <2>3. \A x \in S : After(x) \in Afters
    OBVIOUS
  <2> HIDE DEF Afters
  <2>. QED
    BY <2>1, <2>2, <2>3
<1>2. PICK A \in Afters : \A B \in Afters : <<B, A>> \notin StrictSubsetOrdering(S)
  BY <1>1, FS_StrictSubsetOrderingWellFounded, WFMin
<1>3. PICK m \in S : A = After(m)
  OBVIOUS
<1>4. ASSUME NEW x \in After(m) PROVE FALSE
  <2>1. After(x) \subseteq After(m) /\ x \notin After(x)
    BY <1>4
  <2>2. <<After(x), After(m)>> \in StrictSubsetOrdering(S)
    BY <1>4, <2>1 DEF StrictSubsetOrdering
  <2>. QED
    BY <1>2, <1>3, <2>2
<1>. QED
  BY <1>4

\* Tasks are listed in a strict total order.
LEMMA PrecedesOrder ==
  ASSUME TypeOK, NEW t \in Tasks, NEW u \in Tasks, NEW v \in Tasks
  PROVE  /\ ~Precedes(t, t)
         /\ Precedes(t, u) /\ Precedes(u, v) => Precedes(t, v)
         /\ t = u \/ Precedes(t, u) \/ Precedes(u, t)
<1>1. /\ t \in Int /\ u \in Int /\ v \in Int
      /\ created[t] \in Int /\ created[u] \in Int /\ created[v] \in Int
  BY TasksAssumption, MaxClockAssumption DEF TypeOK, Instants
<1>. QED
  BY <1>1 DEF Precedes

\* A page that is not empty has a last task.
LEMMA LastSound ==
  ASSUME TypeOK, NEW p \in SUBSET Tasks, IsFiniteSet(p), p # {}
  PROVE  /\ LastOf(p) \in p
         /\ \A t \in p : t = LastOf(p) \/ Precedes(t, LastOf(p))
<1> DEFINE R == {e \in p \X p : Precedes(e[1], e[2])}
<1>1. \A x, y \in p : <<x, y>> \in R <=> Precedes(x, y)
  OBVIOUS
<1>2. /\ \A x \in p : <<x, x>> \notin R
      /\ \A x, y, z \in p : <<x, y>> \in R /\ <<y, z>> \in R => <<x, z>> \in R
  BY <1>1, PrecedesOrder
<1> HIDE DEF R
<1>3. \E m \in p : \A x \in p : <<m, x>> \notin R
  BY <1>2, EndExists
<1>4. \E m \in p : \A x \in p : ~Precedes(m, x)
  BY <1>1, <1>3
<1>5. LastOf(p) \in p /\ \A x \in p : ~Precedes(LastOf(p), x)
  BY <1>4 DEF LastOf
<1>. QED
  BY <1>5, PrecedesOrder

\* A set of tasks that is not empty has a first one.
LEMMA FirstExists ==
  ASSUME TypeOK, NEW p \in SUBSET Tasks, IsFiniteSet(p), p # {}
  PROVE  \E m \in p : \A t \in p : ~Precedes(t, m)
<1> DEFINE R == {e \in p \X p : Precedes(e[2], e[1])}
<1>1. \A x, y \in p : <<x, y>> \in R <=> Precedes(y, x)
  OBVIOUS
<1>2. /\ \A x \in p : <<x, x>> \notin R
      /\ \A x, y, z \in p : <<x, y>> \in R /\ <<y, z>> \in R => <<x, z>> \in R
  BY <1>1, PrecedesOrder
<1> HIDE DEF R
<1>3. \E m \in p : \A x \in p : <<m, x>> \notin R
  BY <1>2, EndExists
<1>. QED
  BY <1>1, <1>3

-----------------------------------------------------------------------------
(* A cursor and the statement it leads to.                                 *)

\* A later day is a later instant.
LEMMA DayMonotone ==
  ASSUME NEW a \in Nat, NEW b \in Nat, a <= b
  PROVE  Day(a) \in Nat /\ Day(a) <= Day(b)
<1>1. \A x \in Nat, d \in Nat \ {0} :
        /\ x \div d \in Nat
        /\ d * (x \div d) <= x /\ x < d * (x \div d) + d
  OBVIOUS
<1>2. \A d \in Nat \ {0}, m, n \in Nat : m > n => d * m >= d * n + d
  OBVIOUS
<1>3. Day(a) \in Nat /\ Day(b) \in Nat
  BY <1>1, DayLengthAssumption DEF Day
<1>4. ASSUME Day(a) > Day(b) PROVE FALSE
  <2>1. DayLength * Day(a) >= DayLength * Day(b) + DayLength
    BY <1>2, <1>3, <1>4, DayLengthAssumption
  <2>2. DayLength * Day(a) <= a /\ b < DayLength * Day(b) + DayLength
    BY <1>1, DayLengthAssumption DEF Day
  <2>3. DayLength * Day(a) \in Int /\ DayLength * Day(b) \in Int
    <3>1. \A x, y \in Nat : x * y \in Int
      OBVIOUS
    <3>. QED
      BY <1>3, <3>1, DayLengthAssumption
  <2>. QED
    BY <2>1, <2>2, <2>3, DayLengthAssumption
<1>. QED
  BY <1>3, <1>4

\* Since 'T' sorts behind ' ', the text of a cursor is below that of a row only
\* if the row is of a later day, and never equal to it.
LEMMA CursorSkipsDay ==
  ASSUME NEW a \in Nat, NEW b \in Nat
  PROVE  /\ TextLess(IsoText(a), StoredText(b)) <=> Day(a) < Day(b)
         /\ IsoText(a) # StoredText(b)
<1>1. Day(a) \in Nat /\ Day(b) \in Nat
  BY DayMonotone
<1>2. 1..3 = {1, 2, 3} /\ 1..(1 - 1) = {} /\ 1..(2 - 1) = {1} /\ 1..(3 - 1) = {1, 2}
  OBVIOUS
<1>3. /\ IsoText(a)[1] = Day(a) /\ StoredText(b)[1] = Day(b)
      /\ IsoText(a)[2] = 84 /\ StoredText(b)[2] = 32
  BY DEF IsoText, StoredText
<1>4. IsoText(a) # StoredText(b)
  BY <1>3
<1>5. TextLess(IsoText(a), StoredText(b)) => Day(a) < Day(b)
  <2> SUFFICES ASSUME NEW i \in 1..3, IsoText(a)[i] < StoredText(b)[i],
                      \A j \in 1..(i - 1) : IsoText(a)[j] = StoredText(b)[j]
               PROVE  Day(a) < Day(b)
    BY DEF TextLess
  <2>1. CASE i = 1
    BY <1>3, <2>1
  <2>2. CASE i = 2
    BY <1>3, <2>2
  <2>3. CASE i = 3
    BY <1>2, <1>3, <2>3
  <2>. QED
    BY <1>2, <2>1, <2>2, <2>3
<1>6. Day(a) < Day(b) => TextLess(IsoText(a), StoredText(b))
  BY <1>2, <1>3 DEF TextLess
<1>. QED
  BY <1>4, <1>5, <1>6

\* The tasks a statement may return are stored and there are finitely many.
LEMMA MatchingFinite ==
  ASSUME IsFiniteSet(Born)
  PROVE  Matching \subseteq Stored /\ Stored \subseteq Born /\ IsFiniteSet(Matching)
<1>1. Matching \subseteq Stored /\ Stored \subseteq Born
  BY DEF Matching, Stored, Born
<1>. QED
  BY <1>1, FS_Subset

\* A page is the beginning of what matches, and all of it when no cursor is
\* returned.  (A page size is positive, so a page is empty only if it is all.)
LEMMA PageSound ==
  ASSUME TypeOK, IsFiniteSet(Born), NEW limit \in Limits
  PROVE  /\ Page(limit) \subseteq Matching /\ IsFiniteSet(Page(limit))
         /\ \A u \in Page(limit), t \in Matching \ Page(limit) : Precedes(u, t)
         /\ Matching # {} => Page(limit) # {}
         /\ NextCursor(limit) = {} => Page(limit) = Matching
         /\ NextCursor(limit) # {} =>
              Matching # {} /\ NextCursor(limit) = {CursorOf(LastOf(Page(limit)))}
<1> DEFINE Before(t) == {u \in Matching : Precedes(u, t)}
<1>1. /\ Matching \subseteq Tasks /\ IsFiniteSet(Matching)
      /\ limit \in Nat /\ limit > 0
  BY MatchingFinite, LimitsAssumption DEF Born
<1>2. \A t : IsFiniteSet(Before(t)) /\ Cardinality(Before(t)) \in Nat
  <2> TAKE t
  <2>1. Before(t) \in SUBSET Matching
    OBVIOUS
  <2>. QED
    BY <1>1, <2>1, FS_Subset, FS_CardinalityType
<1>3. Page(limit) = {t \in Matching : Cardinality(Before(t)) < limit}
  BY DEF Page
<1>4. IsFiniteSet(Page(limit)) /\ Cardinality(Matching) \in Nat
  BY <1>1, <1>3, FS_Subset, FS_CardinalityType
<1>5. ASSUME NEW u \in Page(limit), NEW t \in Matching \ Page(limit)
      PROVE  Precedes(u, t)
  <2>1. Cardinality(Before(u)) < limit /\ ~(Cardinality(Before(t)) < limit)
    BY <1>3
  <2>2. ASSUME Precedes(t, u) PROVE FALSE
    <3>1. Before(t) \in SUBSET Before(u)
      BY <1>1, <1>3, <2>2, PrecedesOrder
    <3>2. Cardinality(Before(t)) <= Cardinality(Before(u))
      BY <1>2, <3>1, FS_Subset
    <3>. QED
      BY <1>1, <1>2, <2>1, <3>2
  <2>. QED
    BY <1>1, <1>3, <2>1, <2>2, PrecedesOrder
<1>6. ASSUME Matching # {} PROVE Page(limit) # {}
  <2>1. PICK m \in Matching : \A t \in Matching : ~Precedes(t, m)
    BY <1>1, <1>6, FirstExists
  <2>2. Cardinality(Before(m)) = 0
    BY <2>1, FS_EmptySet
  <2>. QED
    BY <1>1, <1>3, <2>2
<1>7. ASSUME NextCursor(limit) = {} PROVE Page(limit) = Matching
  <2>1. ~(Cardinality(Matching) > limit)
    BY <1>7 DEF NextCursor
  <2>2. ASSUME NEW t \in Matching PROVE Cardinality(Before(t)) < limit
    <3>1. Before(t) \in SUBSET Matching /\ t \notin Before(t)
      BY <1>1, PrecedesOrder
    <3>2. Cardinality(Before(t)) <= Cardinality(Matching)
          /\ Cardinality(Before(t)) # Cardinality(Matching)
      BY <1>1, <3>1, FS_Subset
    <3>. QED
      BY <1>1, <1>2, <1>4, <2>1, <3>2
  <2>. QED
    BY <1>3, <2>2
<1>8. ASSUME NextCursor(limit) # {}
      PROVE  Matching # {} /\ NextCursor(limit) = {CursorOf(LastOf(Page(limit)))}
  <2>1. Cardinality(Matching) > limit
    BY <1>8 DEF NextCursor
  <2>2. Matching # {}
    BY <1>1, <2>1, FS_EmptySet
  <2>. QED
    BY <2>1, <2>2 DEF NextCursor
<1>. QED
  BY <1>3, <1>4, <1>5, <1>6, <1>7, <1>8

-----------------------------------------------------------------------------
(* The walk.                                                               *)

IsLast(l, p) == l \in p /\ \A u \in p : u = l \/ Precedes(u, l)

LastPage == pages[Len(pages)]

\* What has been listed has a created_at; what was there throughout still is.
RowsInv == /\ TypeOK
           /\ IsFiniteSet(Born)
           /\ throughout \subseteq Stored
           /\ \A i \in 1..Len(pages) : pages[i] \subseteq Born

\* The cursor is that of the last task of the last page, and nothing that was
\* listed comes after it.
CursorInv ==
  /\ walking /\ cursor = {} => pages = <<>>
  /\ cursor # {} =>
       /\ pages # <<>>
       /\ \E l \in LastPage :
            /\ cursor = {CursorOf(l)}
            /\ \A i \in 1..Len(pages) : \A u \in pages[i] : u = l \/ Precedes(u, l)

\* The rest of the day of the last task of an earlier page.
Skipped(t) ==
  \E i \in 1..(Len(pages) - 1) : \E l \in pages[i] :
     IsLast(l, pages[i]) /\ Precedes(l, t) /\ Day(created[l]) = Day(created[t])

\* What the walk has still to reach.
Ahead(t) == walking /\ \A l \in Born : cursor = {CursorOf(l)} => Precedes(l, t)

SkipInv ==
  \A t \in throughout :
    \/ \E i \in 1..Len(pages) : t \in pages[i]
    \/ Skipped(t)
    \/ Ahead(t)

WalkInv == RowsInv /\ CursorInv /\ SkipInv

-----------------------------------------------------------------------------
\* Appending a page keeps the earlier ones where they are.
LEMMA AppendPage ==
  ASSUME pages \in Seq(SUBSET Tasks), NEW P \in SUBSET Tasks, pages' = Append(pages, P)
  PROVE  /\ pages' \in Seq(SUBSET Tasks) /\ pages' # <<>>
         /\ Len(pages) \in Nat /\ Len(pages') = Len(pages) + 1
         /\ \A i \in 1..Len(pages) : pages'[i] = pages[i] /\ i \in 1..Len(pages')
         /\ pages'[Len(pages')] = P
         /\ \A i \in 1..Len(pages') : i \in 1..Len(pages) \/ i = Len(pages')
<1>1. /\ Len(pages') = Len(pages) + 1 /\ Len(pages) \in Nat
      /\ pages'[Len(pages) + 1] = P
      /\ \A i \in 1..Len(pages) : pages'[i] = pages[i]
      /\ pages' \in Seq(SUBSET Tasks) /\ pages' # <<>>
  OBVIOUS
<1>. QED
  BY <1>1

\* What a page holds comes after all that was listed before.
LEMMA PageAscends ==
  ASSUME WalkInv, walking, NEW u \in Matching,
         NEW i \in 1..Len(pages), NEW t \in pages[i]
  PROVE  Precedes(t, u)
<1> USE DEF WalkInv, RowsInv
<1>1. u \in Stored /\ u \in Born /\ t \in Born /\ Beyond(u)
  BY MatchingFinite DEF Matching
<1>2. cursor # {}
  BY DEF CursorInv
<1>3. PICK l \in LastPage :
        cursor = {CursorOf(l)} /\ \A j \in 1..Len(pages) : \A v \in pages[j] :
                                    v = l \/ Precedes(v, l)
  BY <1>2 DEF CursorInv
<1>4. l \in Born
  <2>1. Len(pages) \in 1..Len(pages)
    BY <1>2 DEF CursorInv, TypeOK
  <2>. QED
    BY <2>1 DEF LastPage
<1>5. \A v \in Born : v \in Tasks /\ created[v] \in Nat
  BY MaxClockAssumption DEF Born, TypeOK, Instants
<1>6. \/ TextLess(IsoText(created[l]), StoredText(created[u]))
      \/ IsoText(created[l]) = StoredText(created[u])
  BY <1>1, <1>3 DEF Beyond, CursorOf
<1>7. Day(created[l]) < Day(created[u])
  BY <1>1, <1>4, <1>5, <1>6, CursorSkipsDay
<1>8. created[l] < created[u]
  <2>1. created[u] <= created[l] => Day(created[u]) <= Day(created[l])
    BY <1>1, <1>4, <1>5, DayMonotone
  <2>2. Day(created[u]) \in Nat /\ Day(created[l]) \in Nat
    BY <1>1, <1>4, <1>5, DayMonotone
  <2>. QED
    BY <1>1, <1>4, <1>5, <1>7, <2>1, <2>2
<1>9. Precedes(l, u)
  BY <1>8 DEF Precedes
<1>. QED
  BY <1>1, <1>3, <1>4, <1>5, <1>9, PrecedesOrder

\* What lies ahead of the cursor and does not match is of the cursor's day.
LEMMA MissedIsSameDay ==
  ASSUME WalkInv, NEW l \in Born, cursor = {CursorOf(l)},
         NEW t \in Stored, Precedes(l, t), t \notin Matching
  PROVE  Day(created[l]) = Day(created[t])
<1>1. created[l] \in Nat /\ created[t] \in Nat /\ created[l] <= created[t]
  BY MaxClockAssumption DEF WalkInv, RowsInv, TypeOK, Instants, Born, Stored, Precedes
<1>2. ~TextLess(IsoText(created[l]), StoredText(created[t]))
  BY DEF Matching, Beyond, CursorOf
<1>3. ~(Day(created[l]) < Day(created[t]))
  BY <1>1, <1>2, CursorSkipsDay
<1>4. /\ Day(created[l]) \in Nat /\ Day(created[t]) \in Nat
      /\ Day(created[l]) <= Day(created[t])
  BY <1>1, DayMonotone
<1>. QED
  BY <1>3, <1>4

\* Asking for a page keeps the walk sound.
LEMMA ListTasksSound ==
  ASSUME WalkInv, ListTasks
  PROVE  WalkInv'
<1> USE DEF WalkInv, RowsInv, TypeOK
<1>1. PICK limit \in Limits : /\ pages' = Append(pages, Page(limit))
                              /\ cursor' = NextCursor(limit)
                              /\ walking' = (NextCursor(limit) # {})
  BY DEF ListTasks
<1>2. walking /\ UNCHANGED <<clock, stage, created, throughout>>
  BY DEF ListTasks, rows
<1> DEFINE P == Page(limit)
<1>3. /\ P \subseteq Matching /\ IsFiniteSet(P) /\ Matching \subseteq Stored
      /\ Stored \subseteq Born /\ Born \subseteq Tasks /\ P \in SUBSET Tasks
      /\ \A u \in P, t \in Matching \ P : Precedes(u, t)
      /\ cursor' = {} => P = Matching
      /\ cursor' # {} => P # {} /\ cursor' = {CursorOf(LastOf(P))}
  BY <1>1, PageSound, MatchingFinite DEF Born
<1> HIDE DEF P
<1>4. PICK L : cursor' # {} =>
              /\ cursor' = {CursorOf(L)}
              /\ L \in P /\ L \in Tasks /\ \A u \in P : u = L \/ Precedes(u, L)
  <2>1. cursor' # {} => /\ LastOf(P) \in P
                        /\ \A u \in P : u = LastOf(P) \/ Precedes(u, LastOf(P))
    BY <1>3, LastSound
  <2>. QED
    BY <1>3, <2>1
<1>5. /\ pages' \in Seq(SUBSET Tasks) /\ pages' # <<>>
      /\ Len(pages) \in Nat /\ Len(pages') = Len(pages) + 1
      /\ \A i \in 1..Len(pages) : pages'[i] = pages[i] /\ i \in 1..Len(pages')
      /\ pages'[Len(pages')] = P
      /\ \A i \in 1..Len(pages') : i \in 1..Len(pages) \/ i = Len(pages')
  BY <1>1, <1>3, AppendPage DEF P
<1>6. \A t, u \in Tasks : Precedes(t, u)' <=> Precedes(t, u)
  BY <1>2 DEF Precedes
<1>7. Born' = Born /\ Stored' = Stored /\ \A t \in Tasks : CursorOf(t)' = CursorOf(t)
  BY <1>2 DEF Born, Stored, CursorOf
<1>8. RowsInv'
  <2>1. cursor' \subseteq [created_at : {IsoText(at) : at \in Instants}, id : Tasks]
    <3>1. cursor' # {} => L \in Tasks /\ created[L] \in Instants
      BY <1>3, <1>4 DEF Born
    <3>. QED
      BY <1>4, <3>1 DEF CursorOf
  <2>2. \A i \in 1..Len(pages') : pages'[i] \subseteq Born
    BY <1>3, <1>5
  <2>3. walking' \in BOOLEAN
    BY <1>1
  <2>. QED
    BY <1>2, <1>5, <1>7, <2>1, <2>2, <2>3
<1>9. CursorInv'
  <2>1. ASSUME cursor' # {}, NEW i \in 1..Len(pages'), NEW u \in pages'[i]
        PROVE  u = L \/ Precedes(u, L)
    <3>1. CASE i \in 1..Len(pages)
      BY <1>2, <1>3, <1>4, <1>5, <2>1, <3>1, PageAscends
    <3>2. CASE i = Len(pages')
      BY <1>4, <1>5, <2>1, <3>2
    <3>. QED
      BY <1>5, <3>1, <3>2
  <2>2. walking' => cursor' # {}
    BY <1>1
  <2>3. ASSUME cursor' # {}
        PROVE  \E l \in LastPage' :
                 /\ cursor' = {CursorOf(l)'}
                 /\ \A i \in 1..Len(pages') : \A u \in pages'[i] :
                      u = l \/ Precedes(u, l)'
    <3>1. L \in LastPage' /\ L \in Tasks
      BY <1>3, <1>4, <1>5, <2>3 DEF LastPage
    <3>2. cursor' = {CursorOf(L)'}
      BY <1>4, <1>7, <2>3, <3>1
    <3>3. \A i \in 1..Len(pages') : \A u \in pages'[i] : u \in Tasks
      BY <1>3, <1>5
    <3>4. \A i \in 1..Len(pages') : \A u \in pages'[i] : u = L \/ Precedes(u, L)'
      BY <1>6, <2>1, <2>3, <3>1, <3>3
    <3>. QED
      BY <3>1, <3>2, <3>4
  <2>. QED
    BY <1>5, <2>2, <2>3 DEF CursorInv
<1>10. SkipInv'
  <2> SUFFICES ASSUME NEW t \in throughout
               PROVE  \/ \E i \in 1..Len(pages') : t \in pages'[i]
                      \/ Skipped(t)'
                      \/ Ahead(t)'
    BY <1>2 DEF SkipInv
  <2>0. t \in Stored /\ t \in Tasks
    BY <1>3
  <2>1. CASE \E i \in 1..Len(pages) : t \in pages[i]
    BY <1>5, <2>1
  <2>2. ASSUME NEW i \in 1..Len(pages), NEW l \in pages[i],
               IsLast(l, pages[i]), Precedes(l, t), Day(created[l]) = Day(created[t])
        PROVE  Skipped(t)'
    <3>1. i \in 1..(Len(pages') - 1) /\ pages'[i] = pages[i] /\ pages[i] \subseteq Tasks
      BY <1>3, <1>5
    <3>2. IsLast(l, pages[i])' /\ Precedes(l, t)'
      BY <1>3, <1>5, <1>6, <2>0, <2>2, <3>1 DEF IsLast
    <3>3. (Day(created[l]) = Day(created[t]))'
      BY <1>2, <2>2 DEF Day
    <3>. QED
      BY <2>2, <3>1, <3>2, <3>3 DEF Skipped
  <2>3. CASE Skipped(t)
    <3>1. PICK i \in 1..(Len(pages) - 1) : \E l \in pages[i] :
            IsLast(l, pages[i]) /\ Precedes(l, t) /\ Day(created[l]) = Day(created[t])
      BY <2>3 DEF Skipped
    <3>2. i \in 1..Len(pages)
      BY <1>5
    <3>. QED
      BY <2>2, <3>1, <3>2
  <2>4. CASE Ahead(t) /\ t \in P
    <3>1. Len(pages') \in 1..Len(pages')
      BY <1>5
    <3>. QED
      BY <1>5, <2>4, <3>1
  <2>5. CASE Ahead(t) /\ t \in Matching \ P
    <3>1. cursor' = {CursorOf(L)} /\ L \in P /\ walking'
      BY <1>1, <1>3, <1>4, <2>5
    <3>2. Precedes(L, t)'
      BY <1>3, <1>4, <1>6, <2>0, <2>5, <3>1
    <3>3. ASSUME NEW l \in Born', cursor' = {CursorOf(l)'} PROVE l = L
      <4>1. CursorOf(l)' = CursorOf(L)
        BY <3>1, <3>3
      <4>2. CursorOf(l)'.id = l /\ CursorOf(L).id = L
        BY DEF CursorOf
      <4>. QED
        BY <4>1, <4>2
    <3>. QED
      BY <3>1, <3>2, <3>3 DEF Ahead
  <2>6. CASE Ahead(t) /\ t \notin Matching
    <3>1. cursor # {}
      <4>1. cursor = {} => Matching = Stored
        BY DEF Matching, Beyond
      <4>. QED
        BY <2>0, <2>6, <4>1
    <3>2. PICK l \in LastPage :
            cursor = {CursorOf(l)} /\ \A j \in 1..Len(pages) : \A v \in pages[j] :
                                        v = l \/ Precedes(v, l)
      BY <3>1 DEF CursorInv
    <3>3. Len(pages) \in 1..Len(pages)
      BY <3>1 DEF CursorInv
    <3>4. l \in Born /\ l \in pages[Len(pages)] /\ IsLast(l, pages[Len(pages)])
      BY <3>2, <3>3 DEF LastPage, IsLast
    <3>5. Precedes(l, t)
      BY <2>6, <3>2, <3>4 DEF Ahead
    <3>6. Day(created[l]) = Day(created[t])
      BY <2>0, <2>6, <3>2, <3>4, <3>5, MissedIsSameDay
    <3>. QED
      BY <2>2, <3>3, <3>4, <3>5, <3>6
  <2>. QED
    BY <2>1, <2>3, <2>4, <2>5, <2>6 DEF SkipInv
<1>. QED
  BY <1>8, <1>9, <1>10

\* Whatever becomes of the rows, what the walk knows of tasks that had a
\* created_at stays true.
LEMMA FrameSound ==
  ASSUME WalkInv, RowsInv', UNCHANGED <<cursor, walking, pages>>,
         throughout' \subseteq throughout,
         \A t \in Born : t \in Born' /\ created'[t] = created[t]
  PROVE  WalkInv'
<1> USE DEF WalkInv
<1>1. \A t, u \in Born : Precedes(t, u)' <=> Precedes(t, u)
  BY DEF Precedes
<1>2. \A t \in Born : CursorOf(t)' = CursorOf(t)
  BY DEF CursorOf, IsoText, Day, TimeOfDay
<1>3. /\ throughout \subseteq Born /\ Len(pages) \in Nat
      /\ \A i \in 1..Len(pages) : pages[i] \subseteq Born
      /\ pages # <<>> => LastPage \subseteq Born
  <2>1. pages # <<>> => Len(pages) \in 1..Len(pages)
    BY DEF RowsInv, TypeOK
  <2>. QED
    BY <2>1 DEF RowsInv, TypeOK, LastPage, Stored, Born
<1>4. CursorInv'
  <2>1. ASSUME cursor # {}
        PROVE  \E l \in LastPage' :
                 /\ cursor' = {CursorOf(l)'}
                 /\ \A i \in 1..Len(pages') : \A u \in pages'[i] :
                      u = l \/ Precedes(u, l)'
    <3>1. PICK l \in LastPage :
            cursor = {CursorOf(l)} /\ \A j \in 1..Len(pages) : \A v \in pages[j] :
                                        v = l \/ Precedes(v, l)
      BY <2>1 DEF CursorInv
    <3>2. l \in Born /\ l \in LastPage'
      BY <1>3, <2>1, <3>1 DEF CursorInv, LastPage
    <3>. QED
      BY <1>1, <1>2, <1>3, <3>1, <3>2
  <2>. QED
    BY <2>1 DEF CursorInv
<1>5. SkipInv'
  <2> SUFFICES ASSUME NEW t \in throughout
               PROVE  \/ \E i \in 1..Len(pages) : t \in pages[i]
                      \/ Skipped(t)'
                      \/ Ahead(t)'
    BY DEF SkipInv
  <2>1. CASE Skipped(t)
    <3>0. PICK i \in 1..(Len(pages) - 1) : \E l \in pages[i] :
            IsLast(l, pages[i]) /\ Precedes(l, t) /\ Day(created[l]) = Day(created[t])
      BY <2>1 DEF Skipped
    <3>1. PICK l \in pages[i] :
            IsLast(l, pages[i]) /\ Precedes(l, t) /\ Day(created[l]) = Day(created[t])
      BY <3>0
    <3>2. i \in 1..Len(pages) /\ l \in Born /\ t \in Born
      BY <1>3
    <3>3. IsLast(l, pages[i])' /\ Precedes(l, t)'
      BY <1>1, <1>3, <3>1, <3>2 DEF IsLast
    <3>4. (Day(created[l]) = Day(created[t]))'
      BY <3>1, <3>2 DEF Day
    <3>. QED
      BY <3>1, <3>3, <3>4 DEF Skipped
  <2>2. CASE Ahead(t)
    <3>1. ASSUME NEW l \in Born', cursor' = {CursorOf(l)'} PROVE Precedes(l, t)'
      <4>1. PICK m \in LastPage : cursor = {CursorOf(m)}
        BY <3>1 DEF CursorInv
      <4>2. m \in Born
        BY <1>3, <3>1, <4>1 DEF CursorInv
      <4>3. CursorOf(l)' = CursorOf(m) /\ CursorOf(l)'.id = l /\ CursorOf(m).id = m
        <5>1. CursorOf(l)' = CursorOf(m)
          BY <3>1, <4>1
        <5>2. CursorOf(l)'.id = l /\ CursorOf(m).id = m
          BY DEF CursorOf
        <5>. QED
          BY <5>1, <5>2
      <4>4. l = m
        BY <4>3
      <4>. QED
        BY <1>1, <1>3, <2>2, <4>1, <4>2, <4>4 DEF Ahead
    <3>. QED
      BY <2>2, <3>1 DEF Ahead
  <2>. QED
    BY <2>1, <2>2 DEF SkipInv
<1>. QED
  BY <1>4, <1>5

\* Tasks that come and go keep the walk sound: created_at is set once, and what
\* is deleted was not there throughout.
LEMMA RowsSound ==
  ASSUME WalkInv,
         \/ Tick
         \/ \E t \in Tasks : CreateFlush(t) \/ CreateCommit(t) \/ DeleteTask(t)
         \/ UNCHANGED vars
  PROVE  WalkInv'
<1> USE DEF WalkInv, RowsInv, TypeOK, Born, Stored, Instants
<1>1. CASE Tick
  <2>1. RowsInv' /\ UNCHANGED <<cursor, walking, pages, throughout, stage, created>>
    BY <1>1, MaxClockAssumption DEF Tick, walk
  <2>. QED
    BY <2>1, FrameSound
<1>2. ASSUME NEW t \in Tasks, CreateFlush(t) PROVE WalkInv'
  <2>1. /\ t \notin Born /\ Born' = Born \cup {t} /\ Stored' = Stored
        /\ UNCHANGED <<clock, cursor, walking, pages, throughout>>
        /\ created' = [created EXCEPT ![t] = clock]
        /\ stage' = [stage EXCEPT ![t] = "flushed"]
    BY <1>2 DEF CreateFlush, StageAt
  <2>2. IsFiniteSet(Born')
    BY <2>1, FS_AddElement
  <2>3. TypeOK'
    BY <2>1, MaxClockAssumption
  <2>4. RowsInv'
    BY <2>1, <2>2, <2>3
  <2>. QED
    BY <2>1, <2>4, FrameSound
<1>3. ASSUME NEW t \in Tasks, CreateCommit(t) \/ DeleteTask(t) PROVE WalkInv'
  <2>1. /\ Born' = Born /\ throughout' \subseteq throughout
        /\ throughout' \subseteq Stored'
        /\ UNCHANGED <<clock, cursor, walking, pages, created>>
        /\ stage[t] # "new" /\ \E to \in {"stored", "gone"} : stage' = [stage EXCEPT ![t] = to]
    BY <1>3 DEF CreateCommit, DeleteTask, StageAt
  <2>2. TypeOK'
    BY <2>1
  <2>3. RowsInv'
    BY <2>1, <2>2
  <2>. QED
    BY <2>1, <2>3, FrameSound
<1>4. CASE UNCHANGED vars
  <2>1. UNCHANGED <<clock, stage, created, cursor, walking, pages, throughout>>
    BY <1>4 DEF vars, rows, walk
  <2>2. RowsInv'
    BY <2>1
  <2>. QED
    BY <2>1, <2>2, FrameSound
<1>. QED
  BY <1>1, <1>2, <1>3, <1>4

\* A walk begins with everything ahead of it.
LEMMA BeginWalkSound ==
  ASSUME WalkInv, BeginWalk
  PROVE  WalkInv'
<1>1. /\ walking' = TRUE /\ cursor' = {} /\ pages' = <<>> /\ throughout' = Stored
      /\ UNCHANGED <<clock, stage, created>>
  BY DEF BeginWalk, rows
<1>2. RowsInv'
  BY <1>1 DEF WalkInv, RowsInv, TypeOK, Stored, Born
<1>3. CursorInv'
  BY <1>1 DEF CursorInv
<1>4. SkipInv'
  BY <1>1 DEF SkipInv, Ahead
<1>. QED
  BY <1>2, <1>3, <1>4 DEF WalkInv

\* The walk is sound in every state.
LEMMA WalkInvariant == Spec => []WalkInv
<1>1. Init => WalkInv
  <2> SUFFICES ASSUME Init PROVE WalkInv
    OBVIOUS
  <2>1. Born = {} /\ IsFiniteSet(Born)
    BY FS_EmptySet DEF Init, Born
  <2>2. /\ pages = <<>> /\ cursor = {} /\ throughout = {} /\ walking = FALSE
        /\ Stored = {} /\ pages \in Seq(SUBSET Tasks) /\ 1..Len(pages) = {}
    BY DEF Init, Stored
  <2>3. TypeOK
    <3>1. clock \in Instants
      BY MaxClockAssumption DEF Init, Instants
    <3>2. stage \in [Tasks -> {"new", "flushed", "stored", "gone"}]
      BY DEF Init
    <3>3. created \in [Tasks -> Instants \cup {-1}]
      BY DEF Init
    <3>4. \A t \in Tasks : stage[t] # "new" => created[t] # -1
      BY DEF Init
    <3>. QED
      BY <2>2, <3>1, <3>2, <3>3, <3>4 DEF TypeOK
  <2>4. RowsInv
    BY <2>1, <2>2, <2>3 DEF RowsInv
  <2>5. CursorInv /\ SkipInv
    BY <2>2 DEF CursorInv, SkipInv
  <2>. QED
    BY <2>4, <2>5 DEF WalkInv
<1>2. WalkInv /\ [Next]_vars => WalkInv'
  BY RowsSound, BeginWalkSound, ListTasksSound DEF Next
<1>. QED
  BY <1>1, <1>2, PTL DEF Spec

-----------------------------------------------------------------------------
\* Every variable keeps the shape the code gives it; in particular no row that
\* was flushed lacks created_at.
THEOREM PageTypeCorrect == Spec => []TypeOK
<1>1. WalkInv => TypeOK
  BY DEF WalkInv, RowsInv
<1>. QED
  BY WalkInvariant, <1>1, PTL

\* WalkAscends: no task is listed twice or out of order, whatever is created or
\* deleted between two pages.
THEOREM WalkAscendsCorrect == Spec => WalkAscends
<1> DEFINE Ascends ==
      ListTasks => \A t \in Listed, u \in pages'[Len(pages')] : Precedes(t, u)
<1>1. ASSUME WalkInv PROVE Ascends
  <2> SUFFICES ASSUME ListTasks, NEW t \in Listed, NEW u \in pages'[Len(pages')]
               PROVE  Precedes(t, u)
    OBVIOUS
  <2> USE <1>1 DEF WalkInv, RowsInv
  <2>1. PICK limit \in Limits : pages' = Append(pages, Page(limit))
    BY DEF ListTasks
  <2>2. Page(limit) \subseteq Matching /\ Matching \subseteq Tasks
    BY PageSound, MatchingFinite DEF Born
  <2>3. pages'[Len(pages')] = Page(limit)
    BY <2>1, <2>2, AppendPage DEF TypeOK
  <2>4. PICK i \in 1..Len(pages) : t \in pages[i]
    BY DEF Listed
  <2>. QED
    BY <2>2, <2>3, <2>4, PageAscends DEF ListTasks
<1>2. WalkInv => [Ascends]_vars
  BY <1>1
<1>. QED
  BY WalkInvariant, <1>2, PTL DEF WalkAscends

\* SkipsRestOfDayOnly: a walk to its end has listed every task that was there
\* all the time, but for those later on the day of one of its cursors.
THEOREM SkipsRestOfDayCorrect == Spec => []SkipsRestOfDayOnly
<1>1. ASSUME WalkInv, Ended, NEW t \in throughout \ Listed
      PROVE  \E i \in 1..(Len(pages) - 1) :
               LET last == LastOf(pages[i])
               IN Precedes(last, t) /\ Day(created[last]) = Day(created[t])
  <2> USE <1>1 DEF WalkInv, RowsInv
  <2>1. Skipped(t)
    BY DEF SkipInv, Listed, Ended, Ahead
  <2>0. PICK i \in 1..(Len(pages) - 1) : \E l \in pages[i] :
          IsLast(l, pages[i]) /\ Precedes(l, t) /\ Day(created[l]) = Day(created[t])
    BY <2>1 DEF Skipped
  <2>2. PICK l \in pages[i] :
          IsLast(l, pages[i]) /\ Precedes(l, t) /\ Day(created[l]) = Day(created[t])
    BY <2>0
  <2>3. pages[i] \subseteq Born /\ pages[i] \in SUBSET Tasks /\ pages[i] # {}
    BY <2>2 DEF TypeOK, Born
  <2>4. IsFiniteSet(pages[i])
    BY <2>3, FS_Subset
  <2>5. LastOf(pages[i]) = l
    <3>1. /\ LastOf(pages[i]) \in pages[i]
          /\ l = LastOf(pages[i]) \/ Precedes(l, LastOf(pages[i]))
      BY <2>2, <2>3, <2>4, LastSound
    <3>2. LastOf(pages[i]) = l \/ Precedes(LastOf(pages[i]), l)
      BY <2>2, <3>1 DEF IsLast
    <3>. QED
      BY <2>3, <3>1, <3>2, PrecedesOrder
  <2>. QED
    BY <2>2, <2>5
<1>2. WalkInv => SkipsRestOfDayOnly
  BY <1>1 DEF SkipsRestOfDayOnly
<1>. QED
  BY WalkInvariant, <1>2, PTL

-----------------------------------------------------------------------------
(* How long a walk can get.                                                *)

\* Every page that is followed by another one lists something new.
WalkBound == /\ Len(pages) <= Cardinality(Listed) + 1
             /\ walking => Len(pages) <= Cardinality(Listed)

\* A page adds its tasks to what was listed, and none of them is listed already.
LEMMA PageAddsNew ==
  ASSUME WalkInv, ListTasks
  PROVE  \E P \in SUBSET Tasks :
           /\ IsFiniteSet(Listed) /\ IsFiniteSet(P)
           /\ Listed' = Listed \cup P /\ Listed \cap P = {}
           /\ Len(pages) \in Nat /\ Len(pages') = Len(pages) + 1
           /\ walking' => P # {}
<1> USE DEF WalkInv, RowsInv
<1>1. PICK limit \in Limits : /\ walking /\ pages' = Append(pages, Page(limit))
                              /\ walking' = (NextCursor(limit) # {})
  BY DEF ListTasks
<1> DEFINE P == Page(limit)
<1>2. /\ P \subseteq Matching /\ IsFiniteSet(P) /\ P \in SUBSET Tasks
      /\ walking' => P # {}
  BY <1>1, PageSound, MatchingFinite DEF Born
<1> HIDE DEF P
<1>3. /\ Len(pages) \in Nat /\ Len(pages') = Len(pages) + 1
      /\ \A i \in 1..Len(pages) : pages'[i] = pages[i] /\ i \in 1..Len(pages')
      /\ pages'[Len(pages')] = P /\ Len(pages') \in 1..Len(pages')
      /\ \A i \in 1..Len(pages') : i \in 1..Len(pages) \/ i = Len(pages')
  BY <1>1, <1>2, AppendPage DEF P, TypeOK
<1>4. Listed' = Listed \cup P
  BY <1>3 DEF Listed
<1>5. Listed \cap P = {}
  <2> SUFFICES ASSUME NEW t \in Listed, t \in P PROVE FALSE
    OBVIOUS
  <2>1. PICK i \in 1..Len(pages) : t \in pages[i]
    BY DEF Listed
  <2>2. Precedes(t, t)
    BY <1>1, <1>2, <2>1, PageAscends
  <2>. QED
    BY <1>2, <2>2, PrecedesOrder
<1>6. IsFiniteSet(Listed)
  <2>1. Listed \in SUBSET Born
    BY DEF Listed
  <2>. QED
    BY <2>1, FS_Subset
<1>. QED
  BY <1>2, <1>3, <1>4, <1>5, <1>6

\* A walk ends: it has at most one page more than tasks it lists, whatever is
\* created and deleted meanwhile and however many ids there are.  The cursor
\* always moves on, and nothing that a walk has passed comes back.
THEOREM WalkIsBounded == Spec => [](Len(pages) <= Cardinality(Listed) + 1)
<1>1. Init => WalkBound
  <2> SUFFICES ASSUME Init PROVE WalkBound
    OBVIOUS
  <2>1. Len(pages) = 0 /\ Listed = {}
    BY DEF Init, Listed
  <2>. QED
    BY <2>1, FS_EmptySet DEF WalkBound
<1>2. ASSUME WalkInv, WalkBound, [Next]_vars PROVE WalkBound'
  <2>1. CASE UNCHANGED <<pages, walking>>
    BY <1>2, <2>1 DEF WalkBound, Listed
  <2>2. CASE BeginWalk
    <3>1. (Len(pages) = 0 /\ Listed = {})'
      BY <2>2 DEF BeginWalk, Listed
    <3>. QED
      BY <3>1, FS_EmptySet DEF WalkBound
  <2>3. CASE ListTasks
    <3>1. PICK P : /\ IsFiniteSet(Listed) /\ IsFiniteSet(P)
                   /\ Listed' = Listed \cup P /\ Listed \cap P = {}
                   /\ Len(pages) \in Nat /\ Len(pages') = Len(pages) + 1
                   /\ walking' => P # {}
      BY <1>2, <2>3, PageAddsNew
    <3>2. /\ Cardinality(Listed') = Cardinality(Listed) + Cardinality(P)
          /\ Cardinality(Listed) \in Nat /\ Cardinality(P) \in Nat
      <4>1. /\ Cardinality(Listed) \in Nat /\ Cardinality(P) \in Nat
            /\ Cardinality({}) = 0
        BY <3>1, FS_CardinalityType, FS_EmptySet
      <4>2. Cardinality(Listed \cup P) =
              Cardinality(Listed) + Cardinality(P) - Cardinality(Listed \cap P)
        BY <3>1, FS_Union
      <4>3. Cardinality(Listed \cap P) = 0
        BY <3>1, <4>1
      <4>4. Cardinality(Listed') = Cardinality(Listed \cup P)
        BY <3>1
      <4>. QED
        BY <4>1, <4>2, <4>3, <4>4
    <3>3. P # {} => Cardinality(P) > 0
      BY <3>1, <3>2, FS_EmptySet
    <3>4. walking /\ Cardinality(Listed)' = Cardinality(Listed')
      BY <2>3 DEF ListTasks
    <3>5. Len(pages) <= Cardinality(Listed) /\ Len(pages)' = Len(pages) + 1
      BY <1>2, <3>1, <3>4 DEF WalkBound
    <3>6. Len(pages)' <= Cardinality(Listed)' + 1
      BY <3>1, <3>2, <3>4, <3>5
    <3>7. walking' => Len(pages)' <= Cardinality(Listed)'
      BY <3>1, <3>2, <3>3, <3>4, <3>5
    <3>. QED
      BY <3>6, <3>7 DEF WalkBound
  <2>4. Tick \/ (\E t \in Tasks : CreateFlush(t) \/ CreateCommit(t) \/ DeleteTask(t))
        \/ UNCHANGED vars => UNCHANGED <<pages, walking>>
    BY DEF Tick, CreateFlush, CreateCommit, DeleteTask, StageAt, vars, walk
  <2>. QED
    BY <1>2, <2>1, <2>2, <2>3, <2>4 DEF Next
<1>3. WalkInv /\ WalkBound /\ [Next]_vars => WalkBound'
  BY <1>2
<1>4. WalkBound => Len(pages) <= Cardinality(Listed) + 1
  BY DEF WalkBound
<1>. QED
  BY WalkInvariant, <1>1, <1>3, <1>4, PTL DEF Spec
=============================================================================
