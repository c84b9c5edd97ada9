--------------------------- MODULE AccountServices ---------------------------
(***************************************************************************)
(* Wallets, secrets and services together, from any account the user may   *)
(* have set up, through concurrent calls, the credit monitor, exceptions   *)
(* and a restart of the backend.                                           *)
(***************************************************************************)
EXTENDS ServiceDefinitions

vars == <<rows, vault, clients, call, ghosts, calls, faults, polls>>

\* The types, and the references between rows: a secret kept in a wallet has its
\* wallet, a service has its secret.
TypeOK ==
  /\ TablesTyped
  /\ polls \in 0 .. MaxPolls
  /\ \A s \in Secrets : SecretRow(s) /\ InWallet(s) => WalletRow(secret[s].home)
  /\ \A x \in Services : ServiceRow(x) => SecretRow(service[x].secret)

\* The account: its wallets, its secrets with their values, its services, at
\* most one of the keys being the active primary one.
Init ==
  /\ wallet \in [Wallets -> {"absent", "present"}]
  /\ secret \in [Secrets -> [status : {"absent", "present"}, home : Homes]]
  /\ service \in [Services -> [status : {"absent", "active", "invalid"}, primary : BOOLEAN, secret : Secrets]]
  /\ \A s \in Secrets : SecretRow(s) => CanInsertSecret(secret[s].home)
  /\ \A s \in Secrets : ~SecretRow(s) => secret[s].home = Local
  /\ \A x \in Services : ServiceRow(x) => SecretRow(service[x].secret)
  /\ \A x \in Services : ~ServiceRow(x) => service[x].secret = AnySecret
  /\ \A x \in Services : service[x].primary => x \in Keys /\ service[x].status = "active"
  /\ Unique(service)
  /\ vault = {s \in Secrets : SecretRow(s) /\ InWallet(s)}
  /\ clients = {}
  /\ call = [c \in Coroutines |-> Resting]
  /\ unsure = {}
  /\ leaked = {}
  /\ calls = 0
  /\ faults = 0
  /\ polls = 0

\* The calls in progress and the cached clients are lost, and with the calls
\* what they would have removed from the vault.
Restart ==
  /\ Fault
  /\ call' = [c \in Coroutines |-> Resting]
  /\ clients' = {}
  /\ leaked' = leaked \cup {s \in vault : ~SecretRow(s)}
  /\ UNCHANGED <<rows, vault, unsure, calls, polls>>

Next ==
  \/ StoreNext /\ UNCHANGED polls
  \/ ServiceNext
  \/ Restart

Spec == Init /\ [][Next]_vars

-----------------------------------------------------------------------------
(* Correctness.                                                            *)

\* A call that will still decide on the value of the secret.
Deciding(s) ==
  \E c \in Callers : call[c].op \in {"add_secret", "drop_secret"} /\ Secret(c) = s

\* A secret that survives in the database keeps its value in the wallet,
\* whatever calls compete with its deletion (BUG-38), unless the database had
\* taken the row whose insert it reported failed.
SurvivorKeepsValue ==
  \A s \in Secrets \ unsure : SecretRow(s) /\ InWallet(s) => s \in vault

\* No value stays in the vault without its row once the calls about it are over,
\* except where a removal was reported failed, found its wallet gone, or was
\* lost in a crash.
NoOrphanValue ==
  \A s \in vault : SecretRow(s) \/ Deciding(s) \/ s \in leaked

\* The user does not lose the active primary key by the way: it ends, the user
\* asked for it, or made a key primary that was not active or had gone.  In
\* particular a promotion that fails leaves the former one.
PrimaryKept ==
  [][ActivePrimary # {} /\ ActivePrimary' = {} =>
       \/ \E k \in ActivePrimary : service'[k].status # "active"
       \/ \E c \in Callers : At(c, "demote_self") /\ Service(c) \in ActivePrimary
       \/ \E c \in Callers : At(c, "commit") /\ Doing(c, "promote") /\ service[Service(c)].status # "active"]_vars

=============================================================================
