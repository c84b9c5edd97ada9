-------------------------- MODULE MCAccountServices --------------------------
(* Accounts with few wallets, secrets and services, for TLC. *)
EXTENDS AccountServices, FiniteSets, TLC

\* The coroutines and the keys are interchangeable.
Symmetry == Permutations(Callers) \cup Permutations(Keys)

Active == {c \in Coroutines : call'[c].pc # "idle"}

\* Bound: two operations at a time; after a mishap one at a time.
TwoAtATime ==
  /\ Cardinality(Active) <= 2
  /\ faults' = 1 => Cardinality(Active) <= 1

=============================================================================
