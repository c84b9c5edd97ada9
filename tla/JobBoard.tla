------------------------------ MODULE JobBoard ------------------------------
(***************************************************************************)
(* What a queue of jobs promises to those who enqueue one, without its     *)
(* table or the tasks and workers that run the jobs: a job waits, runs and *)
(* settles; at most Cap jobs run at once; a job that has settled never     *)
(* moves again; an interrupted run puts the job back or settles it.  The   *)
(* scraping jobs and the transcription jobs both keep it.                  *)
(***************************************************************************)
EXTENDS Integers, FiniteSets

CONSTANTS Jobs, Cap

VARIABLE state

In(st) == {j \in Jobs : state[j] = st}

\* Every job of J moves from one state to the other.
Move(J, from, to) ==
  /\ J # {}
  /\ J \subseteq In(from)
  /\ state' = [j \in Jobs |-> IF j \in J THEN to ELSE state[j]]

Enqueue(j) == Move({j}, "absent", "waiting")

Begin(j) ==
  /\ Cardinality(In("running")) < Cap
  /\ Move({j}, "waiting", "running")

Settle(j) == Move({j}, "running", "settled")

Withdraw(J) == Move(J, "waiting", "settled")

\* Runs are cut short, several at once when the process dies.
Interrupt(back, dropped) ==
  /\ back \cup dropped \subseteq In("running")
  /\ state' = [j \in Jobs |-> IF j \in back THEN "waiting"
                              ELSE IF j \in dropped THEN "settled" ELSE state[j]]

Init == state = [j \in Jobs |-> "absent"]

Next ==
  \/ \E j \in Jobs : Enqueue(j) \/ Begin(j) \/ Settle(j)
  \/ \E J \in SUBSET In("waiting") : Withdraw(J)
  \/ \E back, dropped \in SUBSET In("running") : Interrupt(back, dropped)

Spec == Init /\ [][Next]_state

=============================================================================
