---------------------------- MODULE AccountTables ----------------------------
(***************************************************************************)
(* What a user configures: wallets, the secrets kept locally or in a       *)
(* wallet, and the services (transcription keys, platform credentials)     *)
(* that refer to a secret.  The tables and their foreign keys, the vault   *)
(* behind the wallets, the clients the backend has open on them, and the   *)
(* coroutines that work on all that.                                       *)
(***************************************************************************)
EXTENDS Naturals, FiniteSets

CONSTANTS
  Wallets,      \* wallets the user may register
  Secrets,      \* secrets the user may create (fresh identifiers)
  Keys,         \* transcription keys the user may define
  Credentials,  \* platform credentials the user may define
  Callers,      \* coroutines that serve the HTTP calls
  Monitor,      \* the coroutine of the credit monitor
  MaxCalls,     \* bound: HTTP calls in all
  MaxFaults     \* bound: exceptions raised by a round trip, crashes of the backend

Services == Keys \cup Credentials
Coroutines == Callers \cup {Monitor}
Local == "local"
Homes == Wallets \cup {Local}

ASSUME AccountAssumption ==
  /\ Secrets # {} /\ Services # {}
  /\ Keys \cap Credentials = {}
  /\ Monitor \notin Callers
  /\ Local \notin Wallets
  /\ MaxCalls \in Nat /\ MaxFaults \in Nat

VARIABLES
  wallet,   \* user_wallets: whether the row exists
  secret,   \* user_secrets: whether the row exists, where its value is kept
  service,  \* user_transcription_keys and user_credentials
  vault,    \* the secrets whose value is in the vault (external)
  clients,  \* SecretStore._clients: the wallets with a cached client
  call,     \* what each coroutine is doing
  unsure,   \* ghost: secrets whose insert was reported failed but had taken place
  leaked,   \* ghost: secrets whose value a failed call may have left in the vault
  calls,    \* number of calls so far
  faults    \* number of exceptions and crashes so far

rows == <<wallet, secret, service>>
ghosts == <<unsure, leaked>>

RowStatus == {"absent", "present", "deleted"}
ServiceStatus == {"absent", "active", "exhausted", "invalid", "deleted"}
AnySecret == CHOOSE s \in Secrets : TRUE
AnyService == CHOOSE x \in Services : TRUE

WalletRow(w) == wallet[w] = "present"
SecretRow(s) == secret[s].status = "present"
ServiceRow(x) == service[x].status \notin {"absent", "deleted"}
InWallet(s) == secret[s].home # Local
ReferencesTo(s) == {x \in Services : ServiceRow(x) /\ service[x].secret = s}
SecretsIn(w) == {s \in Secrets : SecretRow(s) /\ secret[s].home = w}
ActivePrimary == {k \in Keys : service[k].status = "active" /\ service[k].primary}

Operations == {"none", "add_wallet", "drop_wallet", "add_secret", "drop_secret",
               "add_service", "test_service", "drop_service", "promote", "demote", "poll"}
CallPC == {"idle", "probe", "insert_wallet", "count_secrets", "delete_wallet", "invalidate",
           "client", "build", "put", "create", "insert_secret", "undo", "count_refs", "delete_secret",
           "purge", "row", "get", "validate", "insert_service", "owner", "demote_others", "commit",
           "demote_self", "mark_active", "mark_invalid", "delete_service", "fetch", "balance", "exhaust", "next"}
CallType == [pc : CallPC, op : Operations, home : Homes, secret : Secrets, service : Services,
             primary : BOOLEAN, rows : SUBSET Keys]

Resting == [pc |-> "idle", op |-> "none", home |-> Local, secret |-> AnySecret, service |-> AnyService,
            primary |-> FALSE, rows |-> {}]

TablesTyped ==
  /\ wallet \in [Wallets -> RowStatus]
  /\ secret \in [Secrets -> [status : RowStatus, home : Homes]]
  /\ service \in [Services -> [status : ServiceStatus, primary : BOOLEAN, secret : Secrets]]
  /\ vault \in SUBSET Secrets
  /\ clients \in SUBSET Wallets
  /\ call \in [Coroutines -> CallType]
  /\ unsure \in SUBSET Secrets
  /\ leaked \in SUBSET Secrets
  /\ calls \in 0 .. MaxCalls
  /\ faults \in 0 .. MaxFaults

-----------------------------------------------------------------------------
(* The coroutines.                                                         *)

At(c, pc) == call[c].pc = pc
Doing(c, op) == call[c].op = op
Goto(c, pc) == call' = [call EXCEPT ![c].pc = pc]

\* A call begins with what its arguments name.
Begins(c, with) ==
  /\ c \in Callers /\ At(c, "idle")
  /\ calls < MaxCalls
  /\ calls' = calls + 1
  /\ call' = [call EXCEPT ![c] = with]

\* The end of a call; the credit monitor goes on with the next key.
AfterCall(c) ==
  IF Doing(c, "poll") THEN [Resting EXCEPT !.pc = "next", !.op = "poll", !.rows = call[c].rows]
  ELSE Resting
Ends(c) == call' = [call EXCEPT ![c] = AfterCall(c)]

Fault == faults < MaxFaults /\ faults' = faults + 1

-----------------------------------------------------------------------------
(* The statements, with the constraints of the schema.                     *)

\* insert_secret; the row needs its wallet.
CanInsertSecret(h) == h # Local => WalletRow(h)
InsertSecret(s, h) == secret' = [secret EXCEPT ![s] = [status |-> "present", home |-> h]]

\* delete_secret: refused (RESTRICT) as long as a service refers to the row.
CanDeleteSecret(s) == ReferencesTo(s) = {}
DeleteSecret(s) ==
  secret' = IF SecretRow(s) THEN [secret EXCEPT ![s].status = "deleted"] ELSE secret

\* delete_wallet: refused as long as a secret is kept in it.
CanDeleteWallet(w) == SecretsIn(w) = {}
DeleteWallet(w) == wallet' = IF WalletRow(w) THEN [wallet EXCEPT ![w] = "deleted"] ELSE wallet

\* The UPDATE statements on one service.
SetStatus(x, st) == service' = IF ServiceRow(x) THEN [service EXCEPT ![x].status = st] ELSE service

\* The unique index on the active primary keys of a user.
Unique(table) ==
  \A k, l \in Keys :
    (table[k].status = "active" /\ table[k].primary /\ table[l].status = "active" /\ table[l].primary) => k = l

=============================================================================
