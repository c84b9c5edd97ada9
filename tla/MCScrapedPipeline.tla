-------------------------- MODULE MCScrapedPipeline --------------------------
EXTENDS ScrapedPipeline, FiniteSets, TLC

\* Items, tasks and clients are interchangeable.
Symmetry == Permutations(Items) \cup Permutations(Runs) \cup Permutations(Clients)

ActiveRuns == {r \in Runs : run[r].pc # "idle"}
ActiveCalls == {c \in Callers : call[c].pc # "idle"}

Busy == Cardinality(ActiveRuns') + Cardinality(ActiveCalls')

\* Another transcription job than the first has been written.
Again == tjob'[2].status # "absent"

\* Bound: one exception or one restart, and from then on one task and two actors
\* at a time, one once the second call has begun, which then finds no second job.
OneMishap ==
  /\ faults' + restarts' <= 1
  /\ faults' + restarts' = 1 =>
       /\ Cardinality(ActiveRuns') <= 1
       /\ Busy <= IF calls' < 2 THEN 2 ELSE 1
       /\ Again => calls' < 2

\* Bound: two calls at a time; once there is a second job, one task and one call;
\* the last call and the last job without a mishap too.
LastAlone ==
  /\ Cardinality(ActiveCalls') <= 2
  /\ Again \/ calls' = MaxCalls => Cardinality(ActiveRuns') <= 1 /\ Cardinality(ActiveCalls') <= 1
  /\ calls' = MaxCalls \/ tjob'[MaxJobs].status # "absent" => faults' + restarts' = 0

=============================================================================
