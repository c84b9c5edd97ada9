------------------------------- MODULE Deposit -------------------------------
(***************************************************************************)
(* The deposit worker: one loop per deployment that takes the transcribed  *)
(* items and writes one document per item in docflow (or in the stub that  *)
(* stands for it).                                                         *)
(***************************************************************************)
EXTENDS ItemTable

CONSTANT DepositAttempts  \* deposit_max_attempts

ASSUME DepositAssumption == DepositAttempts \in Nat \ {0}

VARIABLES
  depositor,  \* the deposit worker
  docs        \* number of documents of each item in docflow

DepositorPC == {"recover", "poll", "deposit", "mark", "fail", "dead"}

DepositTyped ==
  /\ depositor \in [pc : DepositorPC, item : Items, attempt : 1 .. DepositAttempts]
  /\ docs \in [Items -> Nat]

FreshDepositor == [pc |-> "recover", item |-> AnyItem, attempt |-> 1]

DepositInit ==
  /\ depositor = FreshDepositor
  /\ docs = [i \in Items |-> 0]

DepositorAt(pc) == depositor.pc = pc
DepositorGoto(pc) == depositor' = [depositor EXCEPT !.pc = pc]

-----------------------------------------------------------------------------
\* Faulty: the recovery forgets the orphans.
DepositRecoverNothing ==
  /\ DepositorAt("recover")
  /\ DepositorGoto("poll")
  /\ UNCHANGED <<tables, docs, faults>>

DepositRecover ==
  /\ DepositorAt("recover")
  /\ RequeueDepositing
  /\ DepositorGoto("poll")
  /\ UNCHANGED <<transcript, tjob, request, docs, faults>>

\* recover is outside the try: its exception ends the loop for good.
DepositRecoverRaises ==
  /\ DepositorAt("recover")
  /\ Fault
  /\ DepositorGoto("dead")
  /\ UNCHANGED <<tables, docs>>

\* Faulty: the row is read and not written.
DepositClaimReads ==
  /\ DepositorAt("poll")
  /\ request # "cancelled"
  /\ \E i \in Items :
       /\ item[i] = "transcribed"
       /\ depositor' = [pc |-> "deposit", item |-> i, attempt |-> 1]
  /\ UNCHANGED <<tables, docs, faults>>

\* claim_next_for_deposit, except for a cancelled request; the order of
\* updated_at is not modelled.
DepositClaim ==
  /\ DepositorAt("poll")
  /\ request # "cancelled"
  /\ \E i \in Items :
       /\ item[i] = "transcribed"
       /\ Update(i, "depositing")
       /\ depositor' = [pc |-> "deposit", item |-> i, attempt |-> 1]
  /\ UNCHANGED <<transcript, tjob, request, entries, docs, faults>>

\* Faulty: mark_deposited is inside the try, its failure is a failed attempt.
DepositSucceedsOrRetries ==
  /\ DepositorAt("deposit")
  /\ docs' = [docs EXCEPT ![depositor.item] = @ + 1]
  /\ depositor' \in {[depositor EXCEPT !.pc = "mark"],
                     IF depositor.attempt < DepositAttempts
                     THEN [depositor EXCEPT !.attempt = @ + 1]
                     ELSE [depositor EXCEPT !.pc = "fail"]}
  /\ UNCHANGED <<tables, faults>>

\* Every deposit makes a new document (a new doc_id and a new slug).
DepositSucceeds ==
  /\ DepositorAt("deposit")
  /\ docs' = [docs EXCEPT ![depositor.item] = @ + 1]
  /\ DepositorGoto("mark")
  /\ UNCHANGED <<tables, faults>>

\* An attempt raises: the next one, or the last has failed.
DepositAttemptFails ==
  /\ DepositorAt("deposit")
  /\ depositor' = IF depositor.attempt < DepositAttempts
                  THEN [depositor EXCEPT !.attempt = @ + 1]
                  ELSE [depositor EXCEPT !.pc = "fail"]
  /\ UNCHANGED <<tables, docs, faults>>

\* mark_deposited.
DepositMark ==
  /\ DepositorAt("mark")
  /\ Update(depositor.item, "deposited")
  /\ DepositorGoto("poll")
  /\ UNCHANGED <<transcript, tjob, request, entries, docs, faults>>

\* mark_deposit_failed; the transcript stays.
DepositMarkFailed ==
  /\ DepositorAt("fail")
  /\ Update(depositor.item, "failed")
  /\ DepositorGoto("poll")
  /\ UNCHANGED <<transcript, tjob, request, entries, docs, faults>>

\* An exception of either UPDATE is logged by the loop: the item stays
\* "depositing" until the next restart.
DepositRaises ==
  /\ depositor.pc \in {"mark", "fail"}
  /\ Fault
  /\ DepositorGoto("poll")
  /\ UNCHANGED <<tables, docs>>

DepositStep ==
  DepositRecover \/ DepositClaim \/ DepositSucceeds \/ DepositAttemptFails \/ DepositMark \/ DepositMarkFailed

DepositNext == DepositStep \/ DepositRecoverRaises \/ DepositRaises

-----------------------------------------------------------------------------
(* Correctness.                                                            *)

\* Every document is paid for by one passage of its item through
\* "transcribed": neither the attempts of a deposit, nor an exception of
\* mark_deposited, nor a restart writes a second document on the same passage.
DocumentsAccounted == \A i \in Items : docs[i] <= entries[i]

\* "depositing" means that the deposit worker holds the item, or is about to
\* requeue it: as long as nothing raised, no item is lost in that state, so the
\* requeue at the start (which assumes a single worker) is all it takes.
DepositOwned ==
  faults = 0 =>
    \A i \in Items : item[i] = "depositing" =>
      DepositorAt("recover") \/ (depositor.pc \in {"deposit", "mark", "fail"} /\ depositor.item = i)

=============================================================================
