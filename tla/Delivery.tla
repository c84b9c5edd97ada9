------------------------------ MODULE Delivery ------------------------------
(***************************************************************************)
(* What get_corpus promises to the callers of a request, without the calls *)
(* in progress, their round trips or the rows: documents come at increasing*)
(* times and may be withdrawn; a caller takes everything there is; its     *)
(* cursor only moves forward, to something it has taken, and only over     *)
(* what it has taken.                                                      *)
(***************************************************************************)
EXTENDS Naturals

CONSTANT Names  \* the callers

VARIABLES
  corpus,  \* the documents of the request, each known by its deposit time
  last,    \* the time of the last deposit
  taken,   \* what each caller has been served
  cursor   \* how far only_new considers each caller to be served

vars == <<corpus, last, taken, cursor>>

Init ==
  /\ corpus = {}
  /\ last = 0
  /\ taken = [n \in Names |-> {}]
  /\ cursor = [n \in Names |-> 0]

Publish ==
  /\ last' \in Nat
  /\ last' > last
  /\ corpus' = corpus \cup {last'}
  /\ UNCHANGED <<taken, cursor>>

\* Documents that are to be produced again.
Withdraw ==
  /\ corpus' \subseteq corpus
  /\ UNCHANGED <<last, taken, cursor>>

Take(n) ==
  /\ taken' = [taken EXCEPT ![n] = @ \cup corpus]
  /\ UNCHANGED <<corpus, last, cursor>>

Advance(n) ==
  /\ cursor'[n] \in taken[n]
  /\ cursor'[n] > cursor[n]
  /\ {t \in corpus : t <= cursor'[n]} \subseteq taken[n]
  /\ cursor' = [cursor EXCEPT ![n] = cursor'[n]]
  /\ UNCHANGED <<corpus, last, taken>>

Next == Publish \/ Withdraw \/ \E n \in Names : Take(n) \/ Advance(n)

Spec == Init /\ [][Next]_vars

=============================================================================
