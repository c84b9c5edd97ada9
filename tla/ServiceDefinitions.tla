------------------------- MODULE ServiceDefinitions -------------------------
(***************************************************************************)
(* The services that refer to a secret: transcription keys, one of which   *)
(* may be the primary key of the user, and platform credentials.  Their    *)
(* routes (creation, settings, test, deletion) and the hourly credit       *)
(* monitor read the value of a secret through the store, several awaits    *)
(* before they act on it.                                                  *)
(***************************************************************************)
EXTENDS SecretStore

CONSTANT MaxPolls  \* bound: runs of the credit monitor

ASSUME ServiceAssumption == MaxPolls \in Nat

VARIABLE polls  \* number of runs of the credit monitor so far

Service(c) == call[c].service

NewService(x) ==
  service[x].status = "absent" /\ \A c \in Callers : ~(Doing(c, "add_service") /\ Service(c) = x)

-----------------------------------------------------------------------------
(* Reading the value of the secret: read_secret_by_id and                  *)
(* resolve_selected_secret, then read_value.                               *)

\* What is done with the value.
WithValue(op) == IF op = "poll" THEN "fetch" ELSE "validate"

\* No value: the test writes "invalid", the other calls end.
WithoutValue(c) == IF Doing(c, "test_service") THEN Goto(c, "mark_invalid") ELSE Ends(c)

ReadRow(c) ==
  /\ At(c, "row")
  /\ IF ~SecretRow(Secret(c)) THEN WithoutValue(c)
     ELSE call' = [call EXCEPT ![c].home = secret[Secret(c)].home,
                               ![c].pc = IF InWallet(Secret(c)) THEN "client" ELSE WithValue(call[c].op)]
  /\ UNCHANGED <<rows, vault, clients, ghosts, calls, faults, polls>>

GetValue(c) ==
  /\ At(c, "get")
  /\ IF InVault(Secret(c)) THEN Goto(c, WithValue(call[c].op)) ELSE WithoutValue(c)
  /\ UNCHANGED <<rows, vault, clients, ghosts, calls, faults, polls>>

\* The vault cannot be reached: no value either.
ReadFails(c) ==
  /\ \/ At(c, "get")
     \/ At(c, "build") /\ call[c].op \in {"add_service", "test_service", "poll"}
  /\ Fault
  /\ WithoutValue(c)
  /\ UNCHANGED <<rows, vault, clients, ghosts, calls, polls>>

-----------------------------------------------------------------------------
(* Creation.  A primary key takes the place of the former one in a         *)
(* transaction: the rows to demote are those of the snapshot of its first  *)
(* statement, as they are once their locks are free; the unique index      *)
(* rolls back the later of two promotions.                                 *)

CreateService(c, x, s, primary) ==
  /\ NewService(x)
  /\ Begins(c, [Resting EXCEPT !.pc = "row", !.op = "add_service", !.service = x, !.secret = s, !.primary = primary])
  /\ UNCHANGED <<rows, vault, clients, ghosts, faults, polls>>

\* Only a key can be the primary one.
CreateKey(c, k, s, primary) == k \in Keys /\ CreateService(c, k, s, primary)

CreateCredential(c, x, s) == x \notin Keys /\ CreateService(c, x, s, FALSE)

\* The provider answers; a rejected value ends a creation.
ValidateNew(c) ==
  /\ At(c, "validate") /\ Doing(c, "add_service")
  /\ Goto(c, IF call[c].primary THEN "demote_others" ELSE "insert_service") \/ Ends(c)
  /\ UNCHANGED <<rows, vault, clients, ghosts, calls, faults, polls>>

\* Faulty: the row is inserted on the strength of the secret read before.
InsertServiceUnchecked(c) ==
  /\ At(c, "insert_service")
  /\ service' = [service EXCEPT ![Service(c)] = [status |-> "active", primary |-> FALSE, secret |-> Secret(c)]]
  /\ Ends(c)
  /\ UNCHANGED <<wallet, secret, vault, clients, ghosts, calls, faults, polls>>

\* The secret may have been deleted since it was read: the key refuses the row.
InsertService(c) ==
  /\ At(c, "insert_service")
  /\ service' = IF SecretRow(Secret(c))
                THEN [service EXCEPT ![Service(c)] = [status |-> "active", primary |-> FALSE, secret |-> Secret(c)]]
                ELSE service
  /\ Ends(c)
  /\ UNCHANGED <<wallet, secret, vault, clients, ghosts, calls, faults, polls>>

\* Faulty: the demotion is committed on its own.
DemoteCommitted(c) ==
  /\ At(c, "demote_others")
  /\ service' = [x \in Services |-> IF x \in Keys \ {Service(c)} THEN [service[x] EXCEPT !.primary = FALSE]
                                    ELSE service[x]]
  /\ Goto(c, "commit")
  /\ UNCHANGED <<wallet, secret, vault, clients, ghosts, calls, faults, polls>>

DemoteOthers(c) ==
  /\ At(c, "demote_others")
  /\ call' = [call EXCEPT ![c].pc = "commit",
                          ![c].rows = {k \in Keys \ {Service(c)} : ServiceRow(k) /\ service[k].primary}]
  /\ UNCHANGED <<rows, vault, clients, ghosts, calls, faults, polls>>

\* The table once the transaction has demoted and promoted or inserted.
Promoted(c) ==
  [x \in Services |->
     IF x \in call[c].rows THEN [service[x] EXCEPT !.primary = FALSE]
     ELSE IF x # Service(c) THEN service[x]
     ELSE IF Doing(c, "add_service") THEN [status |-> "active", primary |-> TRUE, secret |-> Secret(c)]
     ELSE IF ServiceRow(x) THEN [service[x] EXCEPT !.primary = TRUE] ELSE service[x]]

\* A violated constraint rolls the whole transaction back.
CommitPrimary(c) ==
  /\ At(c, "commit")
  /\ service' = IF Unique(Promoted(c)) /\ (Doing(c, "add_service") => SecretRow(Secret(c)))
                THEN Promoted(c) ELSE service
  /\ Ends(c)
  /\ UNCHANGED <<wallet, secret, vault, clients, ghosts, calls, faults, polls>>

-----------------------------------------------------------------------------
(* Settings of a key.                                                      *)

PatchRead(c, k, primary) ==
  /\ ServiceRow(k)
  /\ Begins(c, [Resting EXCEPT !.pc = IF primary THEN "owner" ELSE "demote_self",
                               !.op = IF primary THEN "promote" ELSE "demote", !.service = k])
  /\ UNCHANGED <<rows, vault, clients, ghosts, faults, polls>>

\* The owner of the key, whose other keys are demoted; a key that is gone has none.
ReadOwner(c) ==
  /\ At(c, "owner")
  /\ IF ServiceRow(Service(c)) THEN Goto(c, "demote_others") ELSE Ends(c)
  /\ UNCHANGED <<rows, vault, clients, ghosts, calls, faults, polls>>

DemoteSelf(c) ==
  /\ At(c, "demote_self")
  /\ service' = IF ServiceRow(Service(c)) THEN [service EXCEPT ![Service(c)].primary = FALSE] ELSE service
  /\ Ends(c)
  /\ UNCHANGED <<wallet, secret, vault, clients, ghosts, calls, faults, polls>>

-----------------------------------------------------------------------------
(* Test and deletion of a key or of a credential.                          *)

TestService(c, x) ==
  /\ ServiceRow(x)
  /\ Begins(c, [Resting EXCEPT !.pc = "row", !.op = "test_service", !.service = x, !.secret = service[x].secret])
  /\ UNCHANGED <<rows, vault, clients, ghosts, faults, polls>>

TestKey(c, k) == k \in Keys /\ TestService(c, k)

TestCredential(c, x) == x \notin Keys /\ TestService(c, x)

ValidateTested(c) ==
  /\ At(c, "validate") /\ Doing(c, "test_service")
  /\ Goto(c, "mark_active") \/ Goto(c, "mark_invalid")
  /\ UNCHANGED <<rows, vault, clients, ghosts, calls, faults, polls>>

\* Whatever the status was, if there is no other active primary key.
MarkActive(c) ==
  /\ At(c, "mark_active")
  /\ LET table == IF ServiceRow(Service(c)) THEN [service EXCEPT ![Service(c)].status = "active"] ELSE service
     IN  service' = IF Unique(table) THEN table ELSE service
  /\ Ends(c)
  /\ UNCHANGED <<wallet, secret, vault, clients, ghosts, calls, faults, polls>>

MarkInvalid(c) ==
  /\ At(c, "mark_invalid")
  /\ SetStatus(Service(c), "invalid")
  /\ Ends(c)
  /\ UNCHANGED <<wallet, secret, vault, clients, ghosts, calls, faults, polls>>

DropRead(c, x) ==
  /\ ServiceRow(x)
  /\ Begins(c, [Resting EXCEPT !.pc = "delete_service", !.op = "drop_service", !.service = x])
  /\ UNCHANGED <<rows, vault, clients, ghosts, faults, polls>>

DropKey(c, k) == k \in Keys /\ DropRead(c, k)

DropCredential(c, x) == x \notin Keys /\ DropRead(c, x)

\* The secret stays.
DropService(c) ==
  /\ At(c, "delete_service")
  /\ SetStatus(Service(c), "deleted")
  /\ Ends(c)
  /\ UNCHANGED <<wallet, secret, vault, clients, ghosts, calls, faults, polls>>

-----------------------------------------------------------------------------
(* poll_all_balances.                                                      *)

\* The active keys, once an hour.
PollList ==
  /\ At(Monitor, "idle")
  /\ polls < MaxPolls
  /\ polls' = polls + 1
  /\ call' = [call EXCEPT ![Monitor] = [Resting EXCEPT !.pc = "next", !.op = "poll",
                                          !.rows = {k \in Keys : service[k].status = "active"}]]
  /\ UNCHANGED <<rows, vault, clients, ghosts, calls, faults>>

\* The secret of the key is that of the row listed.
PollNext(k) ==
  /\ At(Monitor, "next")
  /\ k \in call[Monitor].rows
  /\ call' = [call EXCEPT ![Monitor] = [@ EXCEPT !.pc = "row", !.service = k, !.secret = service[k].secret,
                                                  !.rows = call[Monitor].rows \ {k}]]
  /\ UNCHANGED <<rows, vault, clients, ghosts, calls, faults, polls>>

PollEnds ==
  /\ At(Monitor, "next")
  /\ call[Monitor].rows = {}
  /\ call' = [call EXCEPT ![Monitor] = Resting]
  /\ UNCHANGED <<rows, vault, clients, ghosts, calls, faults, polls>>

\* A balance that is unknown or left positive ends the turn of the key.
FetchBalance ==
  /\ At(Monitor, "fetch")
  /\ Ends(Monitor) \/ Goto(Monitor, "balance")
  /\ UNCHANGED <<rows, vault, clients, ghosts, calls, faults, polls>>

\* update_key_balance, of which nothing else depends.
WriteBalance ==
  /\ At(Monitor, "balance")
  /\ Goto(Monitor, "exhaust")
  /\ UNCHANGED <<rows, vault, clients, ghosts, calls, faults, polls>>

MarkExhausted ==
  /\ At(Monitor, "exhaust")
  /\ SetStatus(Service(Monitor), "exhausted")
  /\ Ends(Monitor)
  /\ UNCHANGED <<wallet, secret, vault, clients, ghosts, calls, faults, polls>>

-----------------------------------------------------------------------------
\* An exception ends the call; the monitor counts it and goes on.
ServiceRaises(c) ==
  /\ call[c].pc \in {"row", "validate", "insert_service", "owner", "demote_others", "commit", "demote_self",
                     "mark_active", "mark_invalid", "delete_service", "fetch", "balance", "exhaust"}
  /\ Fault
  /\ Ends(c)
  /\ UNCHANGED <<rows, vault, clients, ghosts, calls, polls>>

ServiceStep(c) ==
  \/ ReadRow(c) \/ GetValue(c) \/ ValidateNew(c) \/ InsertService(c) \/ DemoteOthers(c) \/ CommitPrimary(c)
  \/ ReadOwner(c) \/ DemoteSelf(c) \/ ValidateTested(c) \/ MarkActive(c) \/ MarkInvalid(c) \/ DropService(c)

PollStep == PollEnds \/ FetchBalance \/ WriteBalance \/ MarkExhausted \/ \E k \in Keys : PollNext(k)

ServiceNext ==
  \/ \E c \in Coroutines :
       \/ ServiceStep(c) \/ ReadFails(c) \/ ServiceRaises(c)
       \/ \E x \in Services :
            \/ TestKey(c, x) \/ TestCredential(c, x) \/ DropKey(c, x) \/ DropCredential(c, x)
            \/ \E s \in Secrets : CreateCredential(c, x, s)
            \/ \E s \in Secrets, primary \in BOOLEAN : CreateKey(c, x, s, primary)
       \/ \E k \in Keys, primary \in BOOLEAN : PatchRead(c, k, primary)
  \/ PollStep \/ PollList

=============================================================================
