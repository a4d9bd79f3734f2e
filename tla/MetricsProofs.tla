---------------------------- MODULE MetricsProofs ----------------------------
(***************************************************************************)
(* Keys, scopes and revocations in front of /v1/metrics and the            *)
(* percentiles behind it, for every number of keys, requests and runs, and *)
(* any scopes.  KeyInv says what holds of the rows, the calls and the open *)
(* transaction of ApiKeys; Metrics adds steps that keep it.  FixedOK adds  *)
(* the requests that carry no issued key.                                  *)
(***************************************************************************)
EXTENDS Metrics, TLAPS

RowStatus == {"absent", "active", "revoked"}

\* A request that still has to be checked has a check left.
CallOK(c) == c = Idle \/ (c \in Calls /\ (c.stage = "asked" => c.left # 0))

TypeInv == TypeOK /\ \A r \in Requests : CallOK(call[r])

\* The row of a key: the transaction never lacks a committed row, a revocation
\* is committed with the statement, and what create reads back after its commit
\* has been committed.
RowOK(k) ==
  /\ db[k] # "absent" => work[k] # "absent"
  /\ db[k] = "revoked" <=> work[k] = "revoked"
  /\ issuePc[k] = "idle" => work[k] = "absent"
  /\ issuePc[k] = "committed" /\ work[k] # "absent" => db[k] # "absent"
  /\ issuePc[k] = "printed" => db[k] # "absent"

Opens(k, c) == scopeOf[k] \in DOMAIN Rank /\ Rank[scopeOf[k]] >= Rank[Needs[c.route]]

\* A request that carries a drawn key.
UseOK(k, c) ==
  c # Idle /\ c.key = k =>
    /\ issuePc[k] = "printed"
    /\ c.stage \in {"allowed", "counted"} => Opens(k, c)
    /\ c.stage = "refused" /\ Opens(k, c) => db[k] = "revoked" \/ c.failed

KeyInv == /\ TypeInv
          /\ \A k \in Keys : RowOK(k)
          /\ \A k \in Keys, r \in Requests : UseOK(k, call[r])

-----------------------------------------------------------------------------
\* Before the first call there is no row, and nobody asks.
LEMMA KeyInit == Init => KeyInv
BY DEF Init, KeyInv, TypeInv, TypeOK, CallOK, RowOK, UseOK, Idle

\* A commit or a rollback by whatever session disturbs no key.
LEMMA TransactionEnds ==
  ASSUME KeyInv, Commit \/ Rollback, UNCHANGED <<keyVars, call>>
  PROVE  KeyInv'
<1>1. TypeInv'
  BY DEF KeyInv, TypeInv, TypeOK, Commit, Rollback, keyVars, CallOK
<1>2. \A k \in Keys : RowOK(k)'
  BY DEF KeyInv, TypeInv, TypeOK, RowOK, Commit, Rollback, keyVars
<1>3. \A k \in Keys, r \in Requests : UseOK(k, call[r])'
  BY DEF KeyInv, TypeInv, TypeOK, RowOK, UseOK, Opens, Commit, Rollback, keyVars
<1>4. QED  BY <1>1, <1>2, <1>3 DEF KeyInv

\* The insert adds an uncommitted row to a key nobody holds yet.
LEMMA InsertSound ==
  ASSUME KeyInv, NEW k \in Keys, CreateInsert(k)
  PROVE  KeyInv'
<1> USE DEF CreateInsert, IssueAt
<1>1. TypeInv'
  BY DEF KeyInv, TypeInv, TypeOK, CallOK
<1>2. \A j \in Keys : RowOK(j)'
  BY DEF KeyInv, TypeInv, TypeOK, RowOK
<1>3. \A j \in Keys, r \in Requests : UseOK(j, call[r])'
  BY DEF KeyInv, TypeInv, TypeOK, RowOK, UseOK, Opens
<1>4. QED  BY <1>1, <1>2, <1>3 DEF KeyInv

\* The commit makes the inserted row permanent, if a rollback has not taken it.
LEMMA CreateCommitSound ==
  ASSUME KeyInv, NEW k \in Keys, CreateCommit(k)
  PROVE  KeyInv'
<1> USE DEF CreateCommit, IssueAt, Commit
<1>1. TypeInv'
  BY DEF KeyInv, TypeInv, TypeOK, CallOK
<1>2. \A j \in Keys : RowOK(j)'
  BY DEF KeyInv, TypeInv, TypeOK, RowOK
<1>3. \A j \in Keys, r \in Requests : UseOK(j, call[r])'
  BY DEF KeyInv, TypeInv, TypeOK, RowOK, UseOK, Opens
<1>4. QED  BY <1>1, <1>2, <1>3 DEF KeyInv

\* A key is printed only if its row is there, and rows there are committed.
LEMMA RefreshSound ==
  ASSUME KeyInv, NEW k \in Keys, CreateRefresh(k)
  PROVE  KeyInv'
<1> USE DEF CreateRefresh, IssueAt, Rollback
<1>1. TypeInv'
  BY DEF KeyInv, TypeInv, TypeOK, CallOK
<1>2. \A j \in Keys : RowOK(j)'
  BY DEF KeyInv, TypeInv, TypeOK, RowOK
<1>3. \A j \in Keys, r \in Requests : UseOK(j, call[r])'
  BY DEF KeyInv, TypeInv, TypeOK, RowOK, UseOK, Opens
<1>4. QED  BY <1>1, <1>2, <1>3 DEF KeyInv

\* A revocation replaces a committed row; what was served before it may stay.
LEMMA RevokeSound ==
  ASSUME KeyInv, NEW k \in Keys, Revoke(k)
  PROVE  KeyInv'
<1> USE DEF Revoke, keyVars
<1>1. TypeInv'
  BY DEF KeyInv, TypeInv, TypeOK, CallOK
<1>2. \A j \in Keys : RowOK(j)'
  BY DEF KeyInv, TypeInv, TypeOK, RowOK
<1>3. \A j \in Keys, r \in Requests : UseOK(j, call[r])'
  BY DEF KeyInv, TypeInv, TypeOK, RowOK, UseOK, Opens
<1>4. QED  BY <1>1, <1>2, <1>3 DEF KeyInv

-----------------------------------------------------------------------------
\* A step of one request leaves everything as it was if what becomes of the
\* request is sound and the rows are only rolled back.
LEMMA RequestStep ==
  ASSUME KeyInv, NEW r \in Requests, NEW c,
         CallOK(c), \A k \in Keys : UseOK(k, c),
         call' = [call EXCEPT ![r] = c],
         Rollback \/ UNCHANGED <<db, work>>, UNCHANGED keyVars
  PROVE  KeyInv'
<1> USE DEF Rollback, keyVars
<1>1. TypeInv'
  BY DEF KeyInv, TypeInv, TypeOK, CallOK
<1>2. \A k \in Keys : RowOK(k)'
  BY DEF KeyInv, TypeInv, TypeOK, RowOK
<1>3. \A k \in Keys, q \in Requests : UseOK(k, call[q])'
  <2> TAKE k \in Keys, q \in Requests
  <2>1. UseOK(k, call'[q])
    BY DEF KeyInv, TypeInv, TypeOK
  <2>2. QED  BY <2>1 DEF UseOK, Opens
<1>4. QED  BY <1>1, <1>2, <1>3 DEF KeyInv

\* A request that is not under way claims nothing.
LEMMA IdleSound == CallOK(Idle) /\ \A k \in Keys : UseOK(k, Idle)
BY DEF CallOK, UseOK

\* A request starts without any right.
LEMMA SendSound ==
  ASSUME KeyInv, NEW r \in Requests, NEW key \in Known \cup {"unknown"},
         NEW route \in DOMAIN Needs, Send(r, key, route)
  PROVE  KeyInv'
<1> DEFINE c == [stage |-> "asked", key |-> key, route |-> route,
                 left |-> Checks[route], failed |-> FALSE]
<1>1. CallOK(c)
  BY DEF CallOK, Calls, Known, Needs, Checks
<1>2. \A k \in Keys : UseOK(k, c)
  BY KeysAssumption DEF UseOK, Known
<1>3. QED
  BY <1>1, <1>2, RequestStep DEF Send, keyVars

\* A lookup with a drawn key gives its scope only, or nothing.
LEMMA HeldScope ==
  ASSUME NEW k \in Keys, NEW found, found \subseteq {scopeOf[k]}
  PROVE  /\ ScopesHeld(k, found) \subseteq found
         /\ scopeOf[k] # "" => ScopesHeld(k, found) = found
BY KeysAssumption DEF ScopesHeld

\* A lookup lets a drawn key pass only within the scope of its row.
LEMMA LookupSound ==
  ASSUME KeyInv, NEW r \in Requests, Lookup(r)
  PROVE  KeyInv'
<1> DEFINE found(failed) == IF failed THEN {} ELSE Found(call[r].key)
           passes(failed) == \E s \in ScopesHeld(call[r].key, found(failed)) :
                               Sufficient(s, Needs[call[r].route])
           stage(failed) == IF ~passes(failed) THEN "refused"
                            ELSE IF LastCheck(r) THEN "allowed" ELSE "asked"
           c(failed) == [stage |-> stage(failed), key |-> call[r].key,
                         route |-> call[r].route, left |-> call[r].left - 1,
                         failed |-> call[r].failed \/ failed]
<1>1. call[r] \in Calls /\ call[r].left # 0
  <2>1. call[r].stage = "asked"
    BY DEF Lookup
  <2>2. call[r] # Idle
    BY <2>1 DEF Idle
  <2>3. QED  BY <2>1, <2>2 DEF KeyInv, TypeInv, CallOK
<1>2. PICK failed \in BOOLEAN : call' = [call EXCEPT ![r] = c(failed)]
  BY DEF Lookup
<1>3. CallOK(c(failed))
  BY <1>1 DEF CallOK, Calls, LastCheck
<1>4. ASSUME NEW k \in Keys, call[r].key = k
      PROVE  UseOK(k, c(failed))
  <2>1. issuePc[k] = "printed" /\ RowOK(k) /\ work[k] \in RowStatus
    BY <1>1, <1>4 DEF KeyInv, UseOK, Idle, Calls, TypeInv, TypeOK, RowStatus
  <2>2. found(failed) \subseteq {scopeOf[k]}
    BY <1>4 DEF Found
  <2>3. passes(failed) => Opens(k, c(failed))
    BY <1>4, <2>2, HeldScope DEF Sufficient, Opens
  <2>4. ASSUME ~passes(failed), Opens(k, c(failed)), ~failed
        PROVE  db[k] = "revoked"
    <3>1. work[k] # "active"
      <4> SUFFICES ASSUME work[k] = "active" PROVE FALSE
        OBVIOUS
      <4>1. found(failed) = {scopeOf[k]}
        BY <1>4, <2>4 DEF Found
      <4>2. scopeOf[k] # ""
        BY <2>4 DEF Opens, Rank
      <4>3. scopeOf[k] \in ScopesHeld(call[r].key, found(failed))
        BY <1>4, <4>1, <4>2, HeldScope
      <4>4. Sufficient(scopeOf[k], Needs[call[r].route])
        BY <2>4 DEF Opens, Sufficient
      <4>5. QED  BY <2>4, <4>3, <4>4
    <3>2. QED  BY <2>1, <3>1 DEF RowOK, RowStatus
  <2>5. QED  BY <2>1, <2>3, <2>4 DEF UseOK
<1>5. \A k \in Keys : UseOK(k, c(failed))
  BY <1>4 DEF UseOK
<1>6. QED  BY <1>2, <1>3, <1>5, RequestStep DEF Lookup

\* An answer ends the request.
LEMMA AnswerSound ==
  ASSUME KeyInv, NEW r \in Requests, Answer(r)
  PROVE  KeyInv'
BY IdleSound, RequestStep DEF Answer

\* Every step of keys, requests and foreign sessions keeps the invariant.
LEMMA KeyInductive ==
  ASSUME KeyInv, [Next]_vars
  PROVE  KeyInv'
<1>1. CASE OtherCloses \/ OtherCommits
  BY <1>1, TransactionEnds DEF OtherCloses, OtherCommits
<1>2. ASSUME NEW k \in Keys, IssueStep(k)  PROVE KeyInv'
  BY <1>2, InsertSound, CreateCommitSound, RefreshSound, RevokeSound DEF IssueStep
<1>3. ASSUME NEW r \in Requests, AuthStep(r)  PROVE KeyInv'
  BY <1>3, SendSound, LookupSound DEF AuthStep
<1>4. CASE UNCHANGED vars
  <2>1. TypeInv'
    BY <1>4 DEF vars, keyVars, KeyInv, TypeInv, TypeOK, CallOK
  <2>2. \A k \in Keys : RowOK(k)'
    BY <1>4 DEF vars, keyVars, KeyInv, RowOK
  <2>3. \A k \in Keys, r \in Requests : UseOK(k, call[r])'
    BY <1>4 DEF vars, keyVars, KeyInv, UseOK, Opens
  <2>4. QED  BY <2>1, <2>2, <2>3 DEF KeyInv
<1>5. QED  BY <1>1, <1>2, <1>3, <1>4, AnswerSound DEF Next

-----------------------------------------------------------------------------
\* What KeyInv says of the properties.
LEMMA KeyInvSuffices ==
  ASSUME KeyInv
  PROVE  TypeOK /\ PrintedKeyStored /\ ServedWithinScope /\ HolderIsServed
<1>1. TypeOK
  BY DEF KeyInv, TypeInv
<1>2. PrintedKeyStored
  BY DEF KeyInv, RowOK, PrintedKeyStored
<1>3. ServedWithinScope
  BY DEF KeyInv, UseOK, Opens, ServedWithinScope, Served, Uses
<1>4. HolderIsServed
  BY DEF KeyInv, UseOK, Opens, HolderIsServed, Uses
<1>5. QED  BY <1>1, <1>2, <1>3, <1>4

-----------------------------------------------------------------------------
\* The index of every percentile is a place of the list.
LEMMA IndexInRange ==
  ASSUME NEW p \in Percents, NEW n \in Nat \ {0}
  PROVE  PctIndex(p, n) \in 0..(n - 1)
BY DEF PctIndex, RoundHalfEven, Percents

\* Rounding p percent of n - 1 ends at most one place off the nearest rank.
LEMMA IndexNearRank ==
  ASSUME NEW p \in Percents, NEW n \in Nat \ {0}
  PROVE  PctIndex(p, n) - NearestRank(p, n) \in {-1, 0, 1}
BY DEF PctIndex, RoundHalfEven, Percents, NearestRank

\* A higher percentage never leads to an earlier place.
LEMMA IndexMonotone ==
  ASSUME NEW p \in Percents, NEW q \in Percents, p <= q, NEW n \in Nat \ {0}
  PROVE  PctIndex(p, n) <= PctIndex(q, n)
BY DEF PctIndex, RoundHalfEven, Percents

-----------------------------------------------------------------------------
\* A report is nothing, or what some number of samples gives.
ReportInv ==
  /\ samples \in Nat
  /\ \A rep \in report : \E n \in Nat \ {0} :
       rep = [n |-> n, at |-> [p \in Percents |-> PctIndex(p, n)]]

\* Only a reading of the durations changes the report.
LEMMA ReportInductive ==
  ASSUME ReportInv, [MetricsNext]_allVars
  PROVE  ReportInv'
<1>1. ASSUME NEW r \in Requests, CountTasks(r)  PROVE ReportInv'
  BY <1>1 DEF ReportInv, CountTasks, metricVars
<1>2. ASSUME NEW r \in Requests, ReadDurations(r)  PROVE ReportInv'
  <2>1. samples' = samples /\ report' = LatencyPercentiles(samples)
    BY <1>2 DEF ReadDurations
  <2>2. QED  BY <2>1 DEF ReportInv, LatencyPercentiles
<1>3. CASE SamplesChange
  <2>1. samples' \in 0..MaxSamples /\ report' = report
    BY <1>3 DEF SamplesChange
  <2>2. QED  BY <2>1, MaxSamplesAssumption DEF ReportInv
<1>4. CASE UNCHANGED metricVars
  BY <1>4 DEF ReportInv, metricVars
<1>5. QED  BY <1>1, <1>2, <1>3, <1>4 DEF MetricsNext, allVars

\* PercentilesHonest holds whatever the number of runs: what the admin reads is
\* a sample, near its nearest rank, and ordered by percentage.
THEOREM PercentilesCorrect == MetricsSpec => []PercentilesHonest
<1>1. MetricsInit => ReportInv
  BY DEF MetricsInit, ReportInv
<1>2. ReportInv => PercentilesHonest
  <2> SUFFICES ASSUME ReportInv, NEW rep \in report, NEW p \in Percents
               PROVE  /\ rep.at[p] \in 0..(rep.n - 1)
                      /\ rep.at[p] - NearestRank(p, rep.n) \in {-1, 0, 1}
                      /\ \A q \in Percents : p <= q => rep.at[p] <= rep.at[q]
    BY DEF PercentilesHonest
  <2>1. PICK n \in Nat \ {0} :
          rep = [n |-> n, at |-> [x \in Percents |-> PctIndex(x, n)]]
    BY DEF ReportInv
  <2>2. rep.n = n /\ \A q \in Percents : rep.at[q] = PctIndex(q, n)
    BY <2>1
  <2>3. QED  BY <2>2, IndexInRange, IndexNearRank, IndexMonotone
<1>3. QED  BY <1>1, <1>2, ReportInductive, PTL DEF MetricsSpec

-----------------------------------------------------------------------------
\* The handler of metrics runs within the rights its request was given.
LEMMA CountSound ==
  ASSUME KeyInv, NEW r \in Requests, CountTasks(r)
  PROVE  KeyInv'
<1> DEFINE c == [stage |-> "counted", key |-> call[r].key, route |-> call[r].route,
                 left |-> call[r].left, failed |-> call[r].failed]
<1>1. call[r] \in Calls /\ call[r].stage = "allowed"
  <2>1. call[r].stage = "allowed"
    BY DEF CountTasks, Handling
  <2>2. call[r] # Idle
    BY <2>1 DEF Idle
  <2>3. QED  BY <2>1, <2>2 DEF KeyInv, TypeInv, CallOK
<1>2. CallOK(c)
  BY <1>1 DEF CallOK, Calls
<1>3. \A k \in Keys : UseOK(k, c)
  BY <1>1 DEF KeyInv, UseOK, Opens, Idle, Calls
<1>4. call' = [call EXCEPT ![r] = c]
  <2>1. [call[r] EXCEPT !.stage = "counted"] = c
    BY <1>1 DEF Calls
  <2>2. QED  BY <2>1 DEF CountTasks
<1>5. QED  BY <1>2, <1>3, <1>4, RequestStep DEF CountTasks

\* The metrics route keeps the invariant of the keys.
LEMMA MetricsKeyInductive ==
  ASSUME KeyInv, [MetricsNext]_allVars
  PROVE  KeyInv'
<1>1. ASSUME NEW r \in Requests, ReadDurations(r)  PROVE KeyInv'
  BY <1>1, IdleSound, RequestStep DEF ReadDurations
<1>2. CASE SamplesChange
  BY <1>2, TransactionEnds DEF SamplesChange
<1>3. ASSUME NEW r \in Requests, OtherAnswer(r)  PROVE KeyInv'
  BY <1>3, AnswerSound DEF OtherAnswer
<1>4. CASE Next \/ UNCHANGED vars
  BY <1>4, KeyInductive
<1>5. QED
  BY <1>1, <1>2, <1>3, <1>4, CountSound DEF MetricsNext, allVars, Next

\* The keys are sound in every state, behind the metrics route too.
LEMMA KeyInvHolds == MetricsSpec => []KeyInv
<1>1. MetricsInit => KeyInv
  BY KeyInit DEF MetricsInit
<1>2. QED  BY <1>1, MetricsKeyInductive, PTL DEF MetricsSpec

\* TypeOK: every state has the shape the code gives it.
THEOREM KeyTypeCorrect == MetricsSpec => []TypeOK
BY KeyInvHolds, KeyInvSuffices, PTL

\* PrintedKeyStored: what key_create printed has a committed row, whatever other
\* sessions of the shared connection commit and roll back.
THEOREM PrintedKeyStoredCorrect == MetricsSpec => []PrintedKeyStored
BY KeyInvHolds, KeyInvSuffices, PTL

\* ServedWithinScope: a handler runs only for a scope that ranks high enough.
THEOREM ServedWithinScopeCorrect == MetricsSpec => []ServedWithinScope
BY KeyInvHolds, KeyInvSuffices, PTL

\* HolderIsServed: a sufficient key is refused only when revoked, or when the
\* database failed during that very request.
THEOREM HolderIsServedCorrect == MetricsSpec => []HolderIsServed
BY KeyInvHolds, KeyInvSuffices, PTL

-----------------------------------------------------------------------------
\* A revoked key, and a request that is not in its handler with that key.
Locked(k, r) == db[k] = "revoked" /\ ~Served(r, k)

\* A revocation is final and every later lookup turns the key away: nothing
\* inserts a second row, and no rollback of another session undoes it.
LEMMA LockedStays ==
  ASSUME KeyInv, [MetricsNext]_allVars, NEW k \in Keys, NEW r \in Requests, Locked(k, r)
  PROVE  Locked(k, r)'
<1> USE DEF KeyInv, TypeInv, TypeOK, RowOK, Locked, keyVars
<1>1. db'[k] = "revoked"
  <2>1. CASE Commit \/ Rollback \/ UNCHANGED <<db, work>>
    BY <2>1 DEF Commit, Rollback
  <2>2. ASSUME NEW j \in Keys, CreateInsert(j) \/ Revoke(j) PROVE db'[k] = "revoked"
    BY <2>2 DEF CreateInsert, Revoke
  <2>. QED
    BY <2>1, <2>2 DEF MetricsNext, CountTasks, ReadDurations, SamplesChange, IssueStep,
       CreateCommit, CreateRefresh, AuthStep, Send, Lookup, OtherAnswer, Answer,
       OtherCloses, OtherCommits, allVars, vars
<1>2. ~Served(r, k)'
  <2> USE DEF Served, Uses, Idle
  <2>1. CASE call' = call
    BY <2>1
  <2>2. ASSUME NEW q \in Requests, ReadDurations(q) \/ OtherAnswer(q)
        PROVE  ~Served(r, k)'
    BY <2>2 DEF ReadDurations, OtherAnswer, Answer
  <2>3. ASSUME NEW q \in Requests, CountTasks(q) PROVE ~Served(r, k)'
    BY <2>3 DEF CountTasks, Handling, CallOK, Calls
  <2>4. ASSUME NEW q \in Requests, NEW key, NEW route, Send(q, key, route)
        PROVE  ~Served(r, k)'
    BY <2>4 DEF Send
  <2>5. ASSUME NEW q \in Requests, Lookup(q) PROVE ~Served(r, k)'
    <3>1. CASE q # r \/ call[q].key # k
      BY <2>5, <3>1 DEF Lookup
    <3>2. CASE q = r /\ call[q].key = k
      <4>1. Found(k) = {} /\ k \notin DOMAIN FixedScope
        BY KeysAssumption DEF Found
      <4>2. ScopesHeld(k, {}) = {}
        BY <4>1 DEF ScopesHeld
      <4>3. call'[r].stage = "refused"
        BY <2>5, <3>2, <4>1, <4>2 DEF Lookup
      <4>. QED
        BY <4>3
    <3>. QED
      BY <3>1, <3>2
  <2>. QED
    BY <2>1, <2>2, <2>3, <2>4, <2>5 DEF MetricsNext, SamplesChange, IssueStep,
       CreateInsert, CreateCommit, CreateRefresh, Revoke, IssueAt, AuthStep,
       OtherCloses, OtherCommits, allVars, vars
<1>. QED
  BY <1>1, <1>2

\* RevokedKeyStaysOut: once a key is revoked and not in use by a request, no
\* handler of that request ever runs for it again.
THEOREM RevokedKeyStaysOutCorrect == MetricsSpec => RevokedKeyStaysOut
<1> SUFFICES ASSUME NEW k \in Keys, NEW r \in Requests
             PROVE  MetricsSpec => [](db[k] = "revoked" /\ ~Uses(r, k) => []~Served(r, k))
  BY DEF RevokedKeyStaysOut
<1>1. db[k] = "revoked" /\ ~Uses(r, k) => Locked(k, r)
  BY DEF Locked, Served
<1>2. KeyInv /\ Locked(k, r) /\ [MetricsNext]_allVars => Locked(k, r)'
  BY LockedStays
<1>3. Locked(k, r) => ~Served(r, k)
  BY DEF Locked
<1>. QED
  BY KeyInvHolds, <1>1, <1>2, <1>3, PTL DEF MetricsSpec

-----------------------------------------------------------------------------
(* Requests without a drawn key.                                           *)

\* The rank by which a fixed key opens a route; no other key than the fixed ones
\* and those that were printed does.
FixedOpens(c) == /\ c.key \in DOMAIN FixedScope
                 /\ Rank[FixedScope[c.key]] >= Rank[Needs[c.route]]

\* A request with a fixed or an unknown key is decided by the fixed scopes alone.
FixedOK(c) ==
  c # Idle /\ c.key \notin Keys =>
    /\ c.stage \in {"allowed", "counted"} => FixedOpens(c)
    /\ c.stage = "refused" => ~FixedOpens(c)

\* No lookup finds such a key, whether it fails or not.
LEMMA FixedHeld ==
  ASSUME NEW key, key \notin Keys
  PROVE  /\ Found(key) = {}
         /\ ScopesHeld(key, {}) = IF key \in DOMAIN FixedScope THEN {FixedScope[key]} ELSE {}
BY DEF Found, ScopesHeld

\* The lookup decides it, and nothing of the store has a say.
LEMMA FixedStep ==
  ASSUME KeyInv, \A r \in Requests : FixedOK(call[r]), [MetricsNext]_allVars
  PROVE  \A r \in Requests : FixedOK(call[r])'
<1> USE DEF KeyInv, TypeInv, TypeOK
<1>1. CASE call' = call
  BY <1>1 DEF FixedOK, FixedOpens
<1>2. ASSUME NEW q \in Requests, NEW c, call' = [call EXCEPT ![q] = c], FixedOK(c)
      PROVE  \A r \in Requests : FixedOK(call[r])'
  <2> SUFFICES ASSUME NEW r \in Requests PROVE FixedOK(call'[r])
    BY DEF FixedOK, FixedOpens
  <2>. QED  BY <1>2
<1>3. ASSUME NEW q \in Requests, ReadDurations(q) \/ OtherAnswer(q)
      PROVE  \A r \in Requests : FixedOK(call[r])'
  <2>1. FixedOK(Idle)
    BY DEF FixedOK
  <2>. QED  BY <1>2, <1>3, <2>1 DEF ReadDurations, OtherAnswer, Answer
<1>4. ASSUME NEW q \in Requests, CountTasks(q)
      PROVE  \A r \in Requests : FixedOK(call[r])'
  <2>1. call[q] \in Calls /\ call[q].stage = "allowed"
    BY <1>4 DEF CountTasks, Handling, CallOK, Idle
  <2>2. FixedOK([call[q] EXCEPT !.stage = "counted"])
    BY <2>1 DEF FixedOK, FixedOpens, Calls, Idle
  <2>. QED  BY <1>2, <1>4, <2>2 DEF CountTasks
<1>5. ASSUME NEW q \in Requests, NEW key, NEW route, Send(q, key, route)
      PROVE  \A r \in Requests : FixedOK(call[r])'
  BY <1>2, <1>5 DEF Send, FixedOK
<1>6. ASSUME NEW q \in Requests, Lookup(q)
      PROVE  \A r \in Requests : FixedOK(call[r])'
  <2> DEFINE found(failed) == IF failed THEN {} ELSE Found(call[q].key)
             passes(failed) == \E s \in ScopesHeld(call[q].key, found(failed)) :
                                 Sufficient(s, Needs[call[q].route])
             stage(failed) == IF ~passes(failed) THEN "refused"
                              ELSE IF LastCheck(q) THEN "allowed" ELSE "asked"
             c(failed) == [stage |-> stage(failed), key |-> call[q].key,
                           route |-> call[q].route, left |-> call[q].left - 1,
                           failed |-> call[q].failed \/ failed]
  <2>1. PICK failed \in BOOLEAN : call' = [call EXCEPT ![q] = c(failed)]
    BY <1>6 DEF Lookup
  <2>2. ASSUME call[q].key \notin Keys PROVE passes(failed) <=> FixedOpens(c(failed))
    <3>1. found(failed) = {}
      BY <2>2, FixedHeld
    <3>2. \A f \in DOMAIN FixedScope : FixedScope[f] \in DOMAIN Rank
      BY DEF FixedScope, Rank
    <3>3. passes(failed) <=> /\ call[q].key \in DOMAIN FixedScope
                             /\ Sufficient(FixedScope[call[q].key], Needs[call[q].route])
      BY <2>2, <3>1, FixedHeld
    <3>4. c(failed).key = call[q].key /\ c(failed).route = call[q].route
      OBVIOUS
    <3> HIDE DEF passes, c
    <3>. QED  BY <3>2, <3>3, <3>4 DEF Sufficient, FixedOpens
  <2>3. FixedOK(c(failed))
    BY <2>2 DEF FixedOK
  <2>. QED  BY <1>2, <2>1, <2>3
<1>. QED
  BY <1>1, <1>3, <1>4, <1>5, <1>6
     DEF MetricsNext, SamplesChange, IssueStep, CreateInsert, CreateCommit, CreateRefresh,
         Revoke, IssueAt, AuthStep, OtherCloses, OtherCommits, allVars, vars

\* With ServedWithinScope and HolderIsServed this decides every request: one that
\* carries no drawn key is served only with a fixed key of sufficient rank, and
\* then it is never turned away, not even when every lookup fails.
THEOREM FixedKeysOnly == MetricsSpec => [](\A r \in Requests : FixedOK(call[r]))
<1>1. MetricsInit => \A r \in Requests : FixedOK(call[r])
  BY DEF MetricsInit, Init, FixedOK
<1>2. KeyInv /\ (\A r \in Requests : FixedOK(call[r])) /\ [MetricsNext]_allVars
        => (\A r \in Requests : FixedOK(call[r]))'
  BY FixedStep
<1>. QED  BY KeyInvHolds, <1>1, <1>2, PTL DEF MetricsSpec
=============================================================================
