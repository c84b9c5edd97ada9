--------------------------- MODULE MCCorpusCursor ---------------------------
EXTENDS CorpusCursor, TLC

\* Items and coroutines are interchangeable.
Symmetry == Permutations(Items) \cup Permutations(Pullers)

Active == {p \in Pullers : pull'[p].pc # "idle"}

\* Bound: two calls overlap only when both may write a cursor and the request is
\* acquiring for both; a status, an explicit cursor and a request in another
\* status have one call at most, and the status changes during a call only if
\* the call has read acquiring.
ReadersAlone ==
  /\ (\/ request' # "acquiring"
      \/ \E p \in Active : pull'[p].mode \in {"status", "from_cursor"}) => Cardinality(Active) <= 1
  /\ \A p \in Active : pull'[p].status \in {"acquiring", request'}

=============================================================================
