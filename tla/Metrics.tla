------------------------------ MODULE Metrics ------------------------------
(***************************************************************************)
(* GET /v1/metrics (FR-09) behind require_scope: the handler counts the    *)
(* tasks, reads the durations of the runs, each in a session of its own on *)
(* the shared connection, and answers with percentiles.  Durations are     *)
(* kept as their number: the value at a place of the sorted list stands    *)
(* for itself.                                                             *)
(***************************************************************************)
EXTENDS ApiKeys, Percentiles

CONSTANT MaxSamples      \* bound: rows of task_results with a duration

ASSUME MaxSamplesAssumption == MaxSamples \in Nat

VARIABLES
  samples,    \* how many rows have a duration
  report      \* the last answer, if there was one

metricVars == <<samples, report>>
allVars == <<vars, metricVars>>

MetricsInit == Init /\ samples = 0 /\ report = {}

\* A run ends, or a delete takes rows along: sessions that commit.
SamplesChange == /\ samples' \in 0..MaxSamples
                 /\ Commit
                 /\ UNCHANGED <<keyVars, call, report>>

-----------------------------------------------------------------------------
Handling(r, stage) == call[r].stage = stage /\ call[r].route = "metrics"

\* count_tasks_by_status: its session closes.
CountTasks(r) == /\ Handling(r, "allowed")
                 /\ call' = [call EXCEPT ![r] = [@ EXCEPT !.stage = "counted"]]
                 /\ Rollback
                 /\ UNCHANGED <<keyVars, metricVars>>

\* Zeros where there is no sample.
LatencyPercentiles(n) ==
  IF n = 0 THEN {} ELSE {[n |-> n, at |-> [p \in Percents |-> PctIndex(p, n)]]}

\* collect_duration_ms, and the answer.
ReadDurations(r) == /\ Handling(r, "counted")
                    /\ report' = LatencyPercentiles(samples)
                    /\ call' = [call EXCEPT ![r] = Idle]
                    /\ Rollback
                    /\ UNCHANGED <<keyVars, samples>>

OtherAnswer(r) == ~Handling(r, "allowed") /\ Answer(r)

MetricsNext ==
  \/ \E r \in Requests : CountTasks(r) \/ ReadDurations(r)
  \/ SamplesChange
  \/ /\ UNCHANGED metricVars
     /\ \/ \E k \in Keys : IssueStep(k)
        \/ \E r \in Requests : AuthStep(r) \/ OtherAnswer(r)
        \/ OtherCloses
        \/ OtherCommits

MetricsSpec == MetricsInit /\ [][MetricsNext]_allVars

-----------------------------------------------------------------------------
(* Properties.                                                             *)

\* Every percentile reported is one of the samples, a higher percentage never
\* reports a shorter duration, and each is at most one place away from the
\* nearest rank, although the code rounds p * (n - 1) / 100 instead.
PercentilesHonest ==
  \A rep \in report : \A p \in Percents :
     /\ rep.at[p] \in 0..(rep.n - 1)
     /\ rep.at[p] - NearestRank(p, rep.n) \in {-1, 0, 1}
     /\ \A q \in Percents : p <= q => rep.at[p] <= rep.at[q]
=============================================================================
