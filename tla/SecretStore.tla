----------------------------- MODULE SecretStore -----------------------------
(***************************************************************************)
(* SecretStore and the routes in front of it: wallets are registered and   *)
(* deleted, secrets are created and deleted in two places that no          *)
(* transaction joins, the row in PostgreSQL and the value in the vault.    *)
(* The reads of a value are steps of the services that need one.           *)
(*                                                                         *)
(* A path of the vault contains the identifier of its secret, so only the  *)
(* calls about that secret ever touch it: resolving the path to an id and  *)
(* acting on the id is one step.                                           *)
(***************************************************************************)
EXTENDS AccountTables

Home(c) == call[c].home
Secret(c) == call[c].secret

\* The vault resolves the path of a secret to an id, or finds no such one.
InVault(s) == s \in vault

\* Identifiers are fresh: never used by a creation that failed, and nobody else
\* is about to use it.
Fresh(s) ==
  /\ secret[s].status = "absent" /\ ~InVault(s) /\ s \notin leaked
  /\ \A c \in Callers : ~(Doing(c, "add_secret") /\ Secret(c) = s)

-----------------------------------------------------------------------------
(* Wallets.                                                                *)

RegisterWallet(c, w) ==
  /\ wallet[w] = "absent"
  /\ \A d \in Callers : ~(Doing(d, "add_wallet") /\ Home(d) = w)
  /\ Begins(c, [Resting EXCEPT !.pc = "probe", !.op = "add_wallet", !.home = w])
  /\ UNCHANGED <<rows, vault, clients, ghosts, faults>>

\* The construction of a client validates the token; that client is not kept.
ProbeToken(c) ==
  /\ At(c, "probe")
  /\ Goto(c, "insert_wallet") \/ Ends(c)
  /\ UNCHANGED <<rows, vault, clients, ghosts, calls, faults>>

InsertWallet(c) ==
  /\ At(c, "insert_wallet")
  /\ wallet' = [wallet EXCEPT ![Home(c)] = "present"]
  /\ Ends(c)
  /\ UNCHANGED <<secret, service, vault, clients, ghosts, calls, faults>>

DropWalletRead(c, w) ==
  /\ WalletRow(w)
  /\ Begins(c, [Resting EXCEPT !.pc = "count_secrets", !.op = "drop_wallet", !.home = w])
  /\ UNCHANGED <<rows, vault, clients, ghosts, faults>>

CountSecrets(c) ==
  /\ At(c, "count_secrets")
  /\ IF SecretsIn(Home(c)) = {} THEN Goto(c, "delete_wallet") ELSE Ends(c)
  /\ UNCHANGED <<rows, vault, clients, ghosts, calls, faults>>

\* A secret inserted since the count makes the DELETE fail.
DropWalletDelete(c) ==
  /\ At(c, "delete_wallet")
  /\ IF CanDeleteWallet(Home(c)) THEN DeleteWallet(Home(c)) /\ Goto(c, "invalidate")
     ELSE UNCHANGED wallet /\ Ends(c)
  /\ UNCHANGED <<secret, service, vault, clients, ghosts, calls, faults>>

InvalidateWallet(c) ==
  /\ At(c, "invalidate")
  /\ clients' = clients \ {Home(c)}
  /\ Ends(c)
  /\ UNCHANGED <<rows, vault, ghosts, calls, faults>>

-----------------------------------------------------------------------------
(* _wallet_client.  The owner of the wallet is checked at every call, the  *)
(* cache is looked at afterwards, a missing client is built in a thread.   *)

\* What the client is wanted for.
WithClient(op) == CASE op = "add_secret" -> "put" [] op = "drop_secret" -> "purge" [] OTHER -> "get"

UseWallet(c) ==
  /\ At(c, "client")
  /\ WalletRow(Home(c))
  /\ Goto(c, IF Home(c) \in clients THEN WithClient(call[c].op) ELSE "build")
  /\ UNCHANGED <<rows, vault, clients, ghosts, calls, faults>>

\* UnknownWalletError ends the call; the deletion of a secret only logs it and
\* leaves the value in the vault.
UnknownWallet(c) ==
  /\ At(c, "client")
  /\ ~WalletRow(Home(c))
  /\ Ends(c)
  /\ leaked' = IF Doing(c, "drop_secret") THEN leaked \cup {Secret(c)} ELSE leaked
  /\ UNCHANGED <<rows, vault, clients, unsure, calls, faults>>

BuildClient(c) ==
  /\ At(c, "build")
  /\ clients' = clients \cup {Home(c)}
  /\ Goto(c, WithClient(call[c].op))
  /\ UNCHANGED <<rows, vault, ghosts, calls, faults>>

-----------------------------------------------------------------------------
(* The creation of a secret: the value first, then the row.                *)

CreateSecret(c, s, h) ==
  /\ Fresh(s)
  /\ Begins(c, [Resting EXCEPT !.pc = IF h = Local THEN "insert_secret" ELSE "client",
                               !.op = "add_secret", !.secret = s, !.home = h])
  /\ UNCHANGED <<rows, vault, clients, ghosts, faults>>

\* _vault_upsert: the put finds no such path, the identifier being new.
PutValue(c) ==
  /\ At(c, "put")
  /\ ~InVault(Secret(c))
  /\ Goto(c, "create")
  /\ UNCHANGED <<rows, vault, clients, ghosts, calls, faults>>

CreateValue(c) ==
  /\ At(c, "create")
  /\ vault' = vault \cup {Secret(c)}
  /\ Goto(c, "insert_secret")
  /\ UNCHANGED <<rows, clients, ghosts, calls, faults>>

\* Faulty: an insert that fails is not compensated.
InsertSecretUncompensated(c) ==
  /\ At(c, "insert_secret")
  /\ IF CanInsertSecret(Home(c)) THEN InsertSecret(Secret(c), Home(c)) ELSE UNCHANGED secret
  /\ Ends(c)
  /\ UNCHANGED <<wallet, service, vault, clients, ghosts, calls, faults>>

\* The wallet may have been deleted since it was read: the key refuses the row.
InsertSecretRow(c) ==
  /\ At(c, "insert_secret")
  /\ IF CanInsertSecret(Home(c)) THEN InsertSecret(Secret(c), Home(c)) /\ Ends(c)
     ELSE UNCHANGED secret /\ Goto(c, "undo")
  /\ UNCHANGED <<wallet, service, vault, clients, ghosts, calls, faults>>

\* The compensation: the value is taken back.
UndoValue(c) ==
  /\ At(c, "undo")
  /\ vault' = vault \ {Secret(c)}
  /\ Ends(c)
  /\ UNCHANGED <<rows, clients, ghosts, calls, faults>>

-----------------------------------------------------------------------------
(* The deletion of a secret: the row first, then the value.                *)

DropSecretRead(c, s) ==
  /\ SecretRow(s)
  /\ Begins(c, [Resting EXCEPT !.pc = "count_refs", !.op = "drop_secret", !.secret = s, !.home = secret[s].home])
  /\ UNCHANGED <<rows, vault, clients, ghosts, faults>>

CountReferences(c) ==
  /\ At(c, "count_refs")
  /\ IF ReferencesTo(Secret(c)) = {} THEN Goto(c, "delete_secret") ELSE Ends(c)
  /\ UNCHANGED <<rows, vault, clients, ghosts, calls, faults>>

\* Faulty: the value is removed before the row (BUG-38).
DropValueFirst(c) ==
  /\ At(c, "delete_secret")
  /\ vault' = vault \ {Secret(c)}
  /\ IF CanDeleteSecret(Secret(c)) THEN DeleteSecret(Secret(c)) ELSE UNCHANGED secret
  /\ Ends(c)
  /\ UNCHANGED <<wallet, service, clients, ghosts, calls, faults>>

\* A service created since the count makes the DELETE fail, and the value stays.
DropSecretDelete(c) ==
  /\ At(c, "delete_secret")
  /\ IF CanDeleteSecret(Secret(c))
     THEN DeleteSecret(Secret(c)) /\ (IF Home(c) = Local THEN Ends(c) ELSE Goto(c, "client"))
     ELSE UNCHANGED secret /\ Ends(c)
  /\ UNCHANGED <<wallet, service, vault, clients, ghosts, calls, faults>>

PurgeValue(c) ==
  /\ At(c, "purge")
  /\ vault' = vault \ {Secret(c)}
  /\ Ends(c)
  /\ UNCHANGED <<rows, clients, ghosts, calls, faults>>

-----------------------------------------------------------------------------
(* Exceptions.  The vault and the database may have done what is reported  *)
(* failed.                                                                 *)

\* An insert whose outcome is not known is compensated as a failed one.
InsertSecretRaises(c) ==
  /\ At(c, "insert_secret")
  /\ Fault
  /\ \/ UNCHANGED <<secret, unsure>>
     \/ /\ CanInsertSecret(Home(c))
        /\ InsertSecret(Secret(c), Home(c))
        /\ unsure' = unsure \cup {Secret(c)}
  /\ IF Home(c) = Local THEN Ends(c) ELSE Goto(c, "undo")
  /\ UNCHANGED <<wallet, service, vault, clients, leaked, calls>>

\* A creation, a compensation or a purge that raises: the value is there or not.
VaultRaises(c) ==
  /\ call[c].pc \in {"create", "undo", "purge"}
  /\ Fault
  /\ vault' \in (IF At(c, "create") THEN {vault, vault \cup {Secret(c)}} ELSE {vault, vault \ {Secret(c)}})
  /\ leaked' = leaked \cup {Secret(c)}
  /\ Ends(c)
  /\ UNCHANGED <<rows, clients, unsure, calls>>

\* Anywhere else an exception only ends the call, or the purge it was part of.
StoreRaises(c) ==
  /\ call[c].pc \in {"probe", "insert_wallet", "count_secrets", "delete_wallet", "put", "count_refs", "delete_secret"}
                    \cup (IF call[c].op \in {"add_secret", "drop_secret"} THEN {"client", "build"} ELSE {})
  /\ Fault
  /\ leaked' = IF Doing(c, "drop_secret") /\ call[c].pc \in {"client", "build"} THEN leaked \cup {Secret(c)} ELSE leaked
  /\ Ends(c)
  /\ UNCHANGED <<rows, vault, clients, unsure, calls>>

StoreStep(c) ==
  \/ ProbeToken(c) \/ InsertWallet(c) \/ CountSecrets(c) \/ DropWalletDelete(c) \/ InvalidateWallet(c)
  \/ UseWallet(c) \/ UnknownWallet(c) \/ BuildClient(c)
  \/ PutValue(c) \/ CreateValue(c) \/ InsertSecretRow(c) \/ UndoValue(c)
  \/ CountReferences(c) \/ DropSecretDelete(c) \/ PurgeValue(c)

StoreNext ==
  \E c \in Coroutines :
    \/ StoreStep(c) \/ InsertSecretRaises(c) \/ VaultRaises(c) \/ StoreRaises(c)
    \/ \E w \in Wallets : RegisterWallet(c, w) \/ DropWalletRead(c, w)
    \/ \E s \in Secrets : DropSecretRead(c, s) \/ \E h \in Homes : CreateSecret(c, s, h)

=============================================================================
