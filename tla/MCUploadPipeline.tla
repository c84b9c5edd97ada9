-------------------------- MODULE MCUploadPipeline --------------------------
(* The upload pipeline on small instances, for TLC. *)
EXTENDS UploadPipeline, TLC

\* The coroutines of each kind are interchangeable.
Symmetry == Permutations(Uploaders) \cup Permutations(Admins) \cup Permutations(Workers)

Uploading == {u \in Uploaders : upload'[u].pc # "idle"}

\* Bound: one call of the client at a time once an exception or a restart has
\* happened, and during an administration call; the calls that outlive a retry,
\* and an extraction that takes two attempts, without a mishap.
LateCallsAlone ==
  /\ (faults' + restarts' > 0 \/ \E m \in Admins : admin'[m].pc # "idle") => Cardinality(Uploading) <= 1
  /\ ((retries' > 0 /\ Uploading # {}) \/ extractor'.attempt > 1) => faults' + restarts' = 0

=============================================================================
