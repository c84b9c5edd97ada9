------------------------ MODULE MCScrapeOrchestrator ------------------------
(* Instances of ScrapeOrchestrator for TLC. *)
EXTENDS ScrapeOrchestrator, TLC

\* Task slots and callers are interchangeable; used by the safety runs only.
Symmetry == Permutations(Tasks) \cup Permutations(Callers)

=============================================================================
