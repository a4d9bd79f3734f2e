------------------------------ MODULE ApiKeys ------------------------------
(***************************************************************************)
(* API keys and scopes (FR-03, FR-04): key_create's main, the repository   *)
(* of keys, verify_api_key, and the dependency require_scope in front of   *)
(* every handler, on the engine the repositories build: all sessions of    *)
(* the process share one connection, hence one transaction (TaskStore).    *)
(*                                                                         *)
(* A key stands for its hash: main draws 32 random bytes for each, so no   *)
(* two rows share one.  main runs in the process of the API, as the tests  *)
(* call it; from a process of its own it would write to an in-memory       *)
(* database of its own.                                                    *)
(***************************************************************************)
EXTENDS Naturals

CONSTANTS
  Keys,        \* keys that main may draw
  Requests,    \* requests, each followed by the next
  Scopes       \* what --scope may say: any string, "" included

Rank == [read |-> 0, write |-> 1, admin |-> 2]

\* The fixed keys, which need no row.
FixedScope == [fixedRead |-> "read", fixedWrite |-> "write", fixedAdmin |-> "admin"]

\* The scope a route asks for.  metrics asks twice: as a dependency of the
\* route and as a parameter of the handler.
Needs == [list_tasks |-> "read", trigger_run |-> "write", metrics |-> "admin"]
Checks == [list_tasks |-> 1, trigger_run |-> 1, metrics |-> 2]

ASSUME KeysAssumption == Keys \cap (DOMAIN FixedScope \cup {"unknown"}) = {}

VARIABLES
  db,         \* the committed row of each key: absent, active or revoked
  work,       \* db under the open transaction
  scopeOf,    \* the scope each key is issued with
  issuePc,    \* where main is
  call        \* of each request: stage, key, route, checks left, lookup failed?

keyVars == <<scopeOf, issuePc>>
vars == <<db, work, keyVars, call>>

Idle == [stage |-> "idle"]

Init == /\ db = [k \in Keys |-> "absent"]
        /\ work = db
        /\ scopeOf \in [Keys -> Scopes]
        /\ issuePc = [k \in Keys |-> "idle"]
        /\ call = [r \in Requests |-> Idle]

Commit == db' = work /\ UNCHANGED work
Rollback == work' = db /\ UNCHANGED db

\* Sessions of the other repositories, in other threads.
OtherCloses == Rollback /\ UNCHANGED <<keyVars, call>>
OtherCommits == Commit /\ UNCHANGED <<keyVars, call>>

-----------------------------------------------------------------------------
(* key_create: main, APIKeyRepository.create.                              *)

IssueAt(k, from, to) == /\ issuePc[k] = from
                        /\ issuePc' = [issuePc EXCEPT ![k] = to]
                        /\ UNCHANGED <<scopeOf, call>>

CreateInsert(k) == /\ IssueAt(k, "idle", "inserted")
                   /\ work' = [work EXCEPT ![k] = "active"] /\ UNCHANGED db

CreateCommit(k) == IssueAt(k, "inserted", "committed") /\ Commit

AnswerBlindly(k) == IssueAt(k, "committed", "printed") /\ Rollback  \* mutant

\* session.refresh raises when the row is gone; main prints the key only if
\* create returned.  The session closes either way.
CreateRefresh(k) ==
  /\ IssueAt(k, "committed", IF work[k] = "absent" THEN "failed" ELSE "printed")
  /\ Rollback

\* Somebody sets revoked_at; taskq itself has no command for it.
Revoke(k) == /\ db[k] = "active" /\ work[k] = "active"
             /\ work' = [work EXCEPT ![k] = "revoked"]
             /\ db' = work'
             /\ UNCHANGED <<keyVars, call>>

-----------------------------------------------------------------------------
(* A request: require_scope, verify_api_key, lookup_active.                *)

Known == {k \in Keys : issuePc[k] = "printed"} \cup DOMAIN FixedScope

Send(r, key, route) ==
  /\ call[r] = Idle
  /\ call' = [call EXCEPT ![r] = [stage |-> "asked", key |-> key, route |-> route,
                                  left |-> Checks[route], failed |-> FALSE]]
  /\ UNCHANGED <<db, work, keyVars>>

FoundAlsoRevoked(key) ==                                           \* mutant
  IF key \in Keys /\ work[key] # "absent" THEN {scopeOf[key]} ELSE {}

\* lookup_active: the scope of the key's row, unless it is revoked.
Found(key) == IF key \in Keys /\ work[key] = "active" THEN {scopeOf[key]} ELSE {}

\* What `_lookup_scope(key) or _LEGACY_KEY_SCOPES.get(key)' leaves: an empty
\* scope counts as none.
ScopesHeld(key, found) ==
  LET real == found \ {""}
  IN IF real # {} THEN real
     ELSE {FixedScope[f] : f \in {key} \cap DOMAIN FixedScope}

SufficientStrictly(held, needed) ==                                \* mutant
  held \in DOMAIN Rank /\ Rank[held] > Rank[needed]
SufficientIfKnown(held, needed) == held \in DOMAIN Rank            \* mutant

Sufficient(held, needed) == held \in DOMAIN Rank /\ Rank[held] >= Rank[needed]

LastCheckOffByOne(r) == call[r].left = 0                           \* mutant

LastCheck(r) == call[r].left = 1

\* One lookup in a session of its own, which may fail: then the key counts as
\* unknown.  No scope is answered with 401, an insufficient one with 403.
Lookup(r) ==
  /\ call[r].stage = "asked"
  /\ \E failed \in BOOLEAN :
       LET c == call[r]
           found == IF failed THEN {} ELSE Found(c.key)
           passes == \E s \in ScopesHeld(c.key, found) : Sufficient(s, Needs[c.route])
       IN call' = [call EXCEPT ![r] =
            [stage |-> IF ~passes THEN "refused"
                       ELSE IF LastCheck(r) THEN "allowed" ELSE "asked",
             key |-> c.key, route |-> c.route, left |-> c.left - 1,
             failed |-> c.failed \/ failed]]
  /\ Rollback
  /\ UNCHANGED keyVars

\* The handler's answer, or the problem document.
Answer(r) == /\ call[r].stage \in {"allowed", "refused"}
             /\ call' = [call EXCEPT ![r] = Idle]
             /\ UNCHANGED <<db, work, keyVars>>

-----------------------------------------------------------------------------
IssueStep(k) == CreateInsert(k) \/ CreateCommit(k) \/ CreateRefresh(k) \/ Revoke(k)

AuthStep(r) == \/ \E key \in Known \cup {"unknown"}, route \in DOMAIN Needs :
                     Send(r, key, route)
               \/ Lookup(r)

Next == \/ \E k \in Keys : IssueStep(k)
        \/ \E r \in Requests : AuthStep(r) \/ Answer(r)
        \/ OtherCloses
        \/ OtherCommits

Spec == Init /\ [][Next]_vars

-----------------------------------------------------------------------------
(* Properties.                                                             *)

Calls == [stage : {"asked", "allowed", "counted", "refused"},
          key : Keys \cup DOMAIN FixedScope \cup {"unknown"},
          route : DOMAIN Needs, left : 0..2, failed : BOOLEAN]

\* Every variable has the shape the code gives it.
TypeOK ==
  /\ db \in [Keys -> {"absent", "active", "revoked"}]
  /\ work \in [Keys -> {"absent", "active", "revoked"}]
  /\ scopeOf \in [Keys -> Scopes]
  /\ issuePc \in [Keys -> {"idle", "inserted", "committed", "printed", "failed"}]
  /\ call \in [Requests -> Calls \cup {Idle}]

\* A key that was shown to the operator has a committed row, whatever sessions
\* of other threads committed or rolled back while it was being created.
PrintedKeyStored == \A k \in Keys : issuePc[k] = "printed" => db[k] # "absent"

Uses(r, k) == call[r] # Idle /\ call[r].key = k
Served(r, k) == Uses(r, k) /\ call[r].stage \in {"allowed", "counted"}

\* Once a key is revoked and no request with it is under way, no handler ever
\* runs for it again, whatever lookups fail and other sessions roll back.
RevokedKeyStaysOut ==
  \A k \in Keys, r \in Requests :
     [](db[k] = "revoked" /\ ~Uses(r, k) => []~Served(r, k))

\* A handler runs only for a fixed key or for a printed one whose scope, as the
\* operator named it, is at least the one the route asks for.
ServedWithinScope ==
  \A k \in Keys, r \in Requests : Served(r, k) =>
     /\ issuePc[k] = "printed"
     /\ scopeOf[k] \in DOMAIN Rank
     /\ Rank[scopeOf[k]] >= Rank[Needs[call[r].route]]

\* A printed key with a sufficient scope is turned away only once it was revoked
\* or when the database failed during the request.
HolderIsServed ==
  \A k \in Keys, r \in Requests :
     (/\ Uses(r, k) /\ call[r].stage = "refused"
      /\ scopeOf[k] \in DOMAIN Rank
      /\ Rank[scopeOf[k]] >= Rank[Needs[call[r].route]])
     => db[k] = "revoked" \/ call[r].failed
=============================================================================
