------------------------ MODULE AccountServicesProofs ------------------------
(***************************************************************************)
(* Proofs about AccountServices, for every set of wallets, secrets, keys,  *)
(* credentials and callers, and for every bound: the types and the foreign *)
(* keys, the values that the secrets keep and leave in the vault, and the  *)
(* active primary key.                                                     *)
(***************************************************************************)
EXTENDS AccountServices, TLAPS

-----------------------------------------------------------------------------
(* The calls.                                                              *)

\* A call that asks for the client of a wallet names a wallet.
Sound == {r \in CallType : r.pc \in {"client", "build"} => r.home # Local}
CallsSound == call \in [Coroutines -> Sound]

LEMMA RestingSound == Resting \in Sound
BY AccountAssumption DEF Resting, Sound, CallType, CallPC, Operations, Homes, AnySecret, AnyService

LEMMA EndsSound ==
  ASSUME CallsSound, NEW c \in Coroutines, Ends(c)
  PROVE  CallsSound'
<1>1. AfterCall(c) \in Sound
  BY RestingSound DEF AfterCall, CallsSound, Sound, CallType, CallPC, Operations, Resting
<1> QED  BY <1>1 DEF Ends, CallsSound

LEMMA GotoSound ==
  ASSUME CallsSound, NEW c \in Coroutines, NEW pc \in CallPC, Goto(c, pc),
         pc \in {"client", "build"} => Home(c) # Local
  PROVE  CallsSound'
BY DEF CallsSound, Goto, Sound, CallType, Home

LEMMA BeginsSound ==
  ASSUME CallsSound, NEW c \in Coroutines, NEW r \in Sound, Begins(c, r)
  PROVE  CallsSound' /\ calls' = calls + 1 /\ calls < MaxCalls
BY DEF CallsSound, Begins

\* What a service does without the value of its secret.
LEMMA WithoutValueSound ==
  ASSUME CallsSound, NEW c \in Coroutines, WithoutValue(c)
  PROVE  CallsSound'
BY EndsSound, GotoSound DEF WithoutValue, CallPC

-----------------------------------------------------------------------------
(* The rows and their foreign keys.                                        *)

RowsTyped ==
  /\ wallet \in [Wallets -> RowStatus]
  /\ secret \in [Secrets -> [status : RowStatus, home : Homes]]
  /\ service \in [Services -> [status : ServiceStatus, primary : BOOLEAN, secret : Secrets]]
  /\ \A s \in Secrets : SecretRow(s) /\ InWallet(s) => WalletRow(secret[s].home)
  /\ \A x \in Services : ServiceRow(x) => SecretRow(service[x].secret)

Bounded ==
  /\ vault \in SUBSET Secrets /\ clients \in SUBSET Wallets
  /\ unsure \in SUBSET Secrets /\ leaked \in SUBSET Secrets
  /\ calls \in 0 .. MaxCalls /\ faults \in 0 .. MaxFaults

AccountState == RowsTyped /\ CallsSound /\ Bounded

\* The facts that the steps use of the call they are a step of.
LEMMA CallFacts ==
  ASSUME AccountState, NEW c \in Coroutines
  PROVE  /\ call[c] \in CallType
         /\ Home(c) \in Homes /\ Secret(c) \in Secrets /\ Service(c) \in Services
         /\ call[c].pc \in {"client", "build"} => Home(c) \in Wallets
BY DEF AccountState, CallsSound, Sound, CallType, Home, Secret, Service, Homes

LEMMA StillRows ==
  ASSUME RowsTyped, UNCHANGED rows
  PROVE  RowsTyped'
BY DEF RowsTyped, rows, SecretRow, InWallet, WalletRow, ServiceRow

\* The rows of the wallets.
LEMMA WalletRows ==
  ASSUME RowsTyped, UNCHANGED <<secret, service>>, NEW h \in Homes,
         \/ wallet' = [wallet EXCEPT ![h] = "present"]
         \/ CanDeleteWallet(h) /\ DeleteWallet(h)
  PROVE  RowsTyped'
<1>1. wallet' \in [Wallets -> RowStatus]  BY DEF RowsTyped, DeleteWallet, RowStatus
<1>2. ASSUME NEW s \in Secrets, SecretRow(s)', InWallet(s)'  PROVE WalletRow(secret[s].home)'
  <2>1. SecretRow(s) /\ InWallet(s) /\ WalletRow(secret[s].home) /\ secret[s].home \in Wallets
    BY <1>2 DEF RowsTyped, SecretRow, InWallet, Homes
  <2> QED
    BY <2>1 DEF RowsTyped, SecretRow, WalletRow, CanDeleteWallet, SecretsIn, DeleteWallet
<1> QED  BY <1>1, <1>2 DEF RowsTyped, SecretRow, ServiceRow, InWallet

\* The rows of the secrets.
LEMMA SecretRows ==
  ASSUME RowsTyped, UNCHANGED <<wallet, service>>, NEW s \in Secrets, NEW h \in Homes,
         \/ CanInsertSecret(h) /\ InsertSecret(s, h)
         \/ CanDeleteSecret(s) /\ DeleteSecret(s)
  PROVE  RowsTyped'
<1>1. secret' \in [Secrets -> [status : RowStatus, home : Homes]]
  BY DEF RowsTyped, InsertSecret, DeleteSecret, RowStatus
<1>2. ASSUME NEW k \in Secrets, SecretRow(k)', InWallet(k)'  PROVE WalletRow(secret[k].home)'
  BY <1>2 DEF RowsTyped, SecretRow, InWallet, WalletRow, InsertSecret, DeleteSecret, CanInsertSecret
<1>3. ASSUME NEW x \in Services, ServiceRow(x)'  PROVE SecretRow(service[x].secret)'
  <2>1. ServiceRow(x) /\ SecretRow(service[x].secret) /\ service[x].secret \in Secrets
    BY <1>3 DEF RowsTyped, ServiceRow
  <2>2. CASE InsertSecret(s, h)
    BY <2>1, <2>2 DEF RowsTyped, SecretRow, InsertSecret
  <2>3. CASE CanDeleteSecret(s) /\ DeleteSecret(s)
    <3>1. service[x].secret # s  BY <2>1, <2>3 DEF CanDeleteSecret, ReferencesTo
    <3>2. secret'[service[x].secret] = secret[service[x].secret]
      BY <2>1, <2>3, <3>1 DEF RowsTyped, DeleteSecret
    <3> QED  BY <2>1, <3>2 DEF SecretRow
  <2> QED  BY <2>2, <2>3
<1> QED  BY <1>1, <1>2, <1>3 DEF RowsTyped

\* The rows of the services: one that appears has its secret.
\* Calls that note the keys they have to see to.
LEMMA RowsSound ==
  ASSUME NEW r \in CallType, NEW pc \in CallPC \ {"client", "build"}, NEW ks \in SUBSET Keys
  PROVE  [r EXCEPT !.pc = pc, !.rows = ks] \in Sound
BY DEF Sound, CallType

LEMMA PolledSound ==
  ASSUME NEW r \in CallType, NEW x \in Services, NEW s \in Secrets, NEW ks \in SUBSET Keys
  PROVE  [r EXCEPT !.pc = "row", !.service = x, !.secret = s, !.rows = ks] \in Sound
BY DEF Sound, CallType, CallPC

LEMMA ServiceRows ==
  ASSUME RowsTyped, UNCHANGED <<wallet, secret>>,
         service' \in [Services -> [status : ServiceStatus, primary : BOOLEAN, secret : Secrets]],
         \A x \in Services : ServiceRow(x)' =>
            SecretRow(service'[x].secret) \/ (ServiceRow(x) /\ service'[x].secret = service[x].secret)
  PROVE  RowsTyped'
BY DEF RowsTyped, SecretRow, InWallet, WalletRow

LEMMA StatusRows ==
  ASSUME RowsTyped, UNCHANGED <<wallet, secret>>, NEW x \in Services, NEW st \in ServiceStatus,
         SetStatus(x, st)
  PROVE  RowsTyped'
<1>1. service' \in [Services -> [status : ServiceStatus, primary : BOOLEAN, secret : Secrets]]
  BY DEF RowsTyped, SetStatus
<1>2. \A y \in Services : ServiceRow(y)' => ServiceRow(y) /\ service'[y].secret = service[y].secret
  BY DEF RowsTyped, SetStatus, ServiceRow
<1> QED  BY <1>1, <1>2, ServiceRows

-----------------------------------------------------------------------------
(* Type correctness, action by action.                                     *)

LEMMA StoreTypes ==
  ASSUME AccountState, StoreNext
  PROVE  AccountState'
<1>1. PICK c \in Coroutines :
        \/ StoreStep(c) \/ InsertSecretRaises(c) \/ VaultRaises(c) \/ StoreRaises(c)
        \/ \E w \in Wallets : RegisterWallet(c, w) \/ DropWalletRead(c, w)
        \/ \E s \in Secrets : DropSecretRead(c, s) \/ \E h \in Homes : CreateSecret(c, s, h)
  BY DEF StoreNext
<1>2. /\ call[c] \in CallType
      /\ Home(c) \in Homes /\ Secret(c) \in Secrets
      /\ call[c].pc \in {"client", "build"} => Home(c) \in Wallets
  BY CallFacts
<1> USE DEF AccountState
<1>3. ASSUME UNCHANGED <<vault, clients, unsure, leaked, calls, faults>>  PROVE Bounded'
  BY <1>3 DEF Bounded
<1>4. ASSUME Fault, UNCHANGED <<clients, calls>>,
             vault' \subseteq vault \cup {Secret(c)}, unsure' \subseteq unsure \cup {Secret(c)},
             leaked' \subseteq leaked \cup {Secret(c)}
      PROVE  Bounded'
  BY <1>2, <1>4, AccountAssumption DEF Bounded, Fault
<1>5. ASSUME NEW r \in Sound, Begins(c, r), UNCHANGED <<rows, vault, clients, ghosts, faults>>
      PROVE  AccountState'
  BY <1>5, BeginsSound, StillRows, AccountAssumption DEF Bounded, ghosts
<1>6. ASSUME NEW pc \in CallPC \ {"client", "build"}, Goto(c, pc)  PROVE CallsSound'
  BY <1>6, GotoSound
<1>7. Ends(c) => CallsSound'  BY EndsSound
<1>8. UNCHANGED rows => RowsTyped'  BY StillRows
<1>9. \A op : WithClient(op) \in CallPC \ {"client", "build"}  BY DEF WithClient, CallPC
<1>10. CASE ProbeToken(c)
  BY <1>3, <1>6, <1>7, <1>8, <1>10 DEF ProbeToken, CallPC, ghosts
<1>11. CASE InsertWallet(c)
  BY <1>2, <1>3, <1>7, <1>11, WalletRows DEF InsertWallet, ghosts
<1>12. CASE CountSecrets(c)
  BY <1>3, <1>6, <1>7, <1>8, <1>12 DEF CountSecrets, CallPC, ghosts
<1>13. CASE DropWalletDelete(c)
  <2>1. RowsTyped'  BY <1>2, <1>8, <1>13, WalletRows DEF DropWalletDelete, rows
  <2> QED  BY <1>3, <1>6, <1>7, <1>13, <2>1 DEF DropWalletDelete, CallPC, ghosts
<1>14. CASE InvalidateWallet(c)
  BY <1>7, <1>8, <1>14 DEF InvalidateWallet, Bounded, ghosts
<1>15. CASE UseWallet(c)
  <2>1. CallsSound'
    BY <1>2, <1>9, <1>15, GotoSound, AccountAssumption DEF UseWallet, At, CallPC
  <2> QED  BY <1>3, <1>8, <1>15, <2>1 DEF UseWallet, ghosts
<1>16. CASE UnknownWallet(c)
  BY <1>2, <1>7, <1>8, <1>16 DEF UnknownWallet, Bounded
<1>17. CASE BuildClient(c)
  <2>1. CallsSound'  BY <1>6, <1>9, <1>17 DEF BuildClient
  <2> QED  BY <1>2, <1>8, <1>17, <2>1 DEF BuildClient, Bounded, At, ghosts
<1>18. CASE PutValue(c)
  BY <1>3, <1>6, <1>8, <1>18 DEF PutValue, CallPC, ghosts
<1>19. CASE CreateValue(c)
  BY <1>2, <1>6, <1>8, <1>19 DEF CreateValue, CallPC, Bounded, ghosts
<1>20. CASE InsertSecretRow(c)
  <2>1. RowsTyped'  BY <1>2, <1>8, <1>20, SecretRows DEF InsertSecretRow, rows
  <2> QED  BY <1>3, <1>6, <1>7, <1>20, <2>1 DEF InsertSecretRow, CallPC, ghosts
<1>21. CASE UndoValue(c)
  BY <1>7, <1>8, <1>21 DEF UndoValue, Bounded, ghosts
<1>22. CASE CountReferences(c)
  BY <1>3, <1>6, <1>7, <1>8, <1>22 DEF CountReferences, CallPC, ghosts
<1>23. CASE DropSecretDelete(c)
  <2>1. RowsTyped'  BY <1>2, <1>8, <1>23, SecretRows DEF DropSecretDelete, rows
  <2>2. CallsSound'  BY <1>7, <1>23, GotoSound DEF DropSecretDelete, CallPC
  <2> QED  BY <1>3, <1>23, <2>1, <2>2 DEF DropSecretDelete, ghosts
<1>24. CASE PurgeValue(c)
  BY <1>7, <1>8, <1>24 DEF PurgeValue, Bounded, ghosts
<1>25. CASE InsertSecretRaises(c)
  <2>1. RowsTyped'  BY <1>2, <1>8, <1>25, SecretRows DEF InsertSecretRaises, rows
  <2>2. CallsSound'  BY <1>6, <1>7, <1>25 DEF InsertSecretRaises, CallPC
  <2> QED  BY <1>4, <1>25, <2>1, <2>2 DEF InsertSecretRaises
<1>26. CASE VaultRaises(c)
  BY <1>4, <1>7, <1>8, <1>26 DEF VaultRaises
<1>27. CASE StoreRaises(c)
  BY <1>4, <1>7, <1>8, <1>27 DEF StoreRaises
<1>28. ASSUME NEW w \in Wallets, RegisterWallet(c, w) \/ DropWalletRead(c, w)  PROVE AccountState'
  <2>1. [Resting EXCEPT !.pc = "probe", !.op = "add_wallet", !.home = w] \in Sound
    BY RestingSound DEF Sound, CallType, CallPC, Operations, Homes
  <2>2. [Resting EXCEPT !.pc = "count_secrets", !.op = "drop_wallet", !.home = w] \in Sound
    BY RestingSound DEF Sound, CallType, CallPC, Operations, Homes
  <2> QED  BY <1>5, <1>28, <2>1, <2>2 DEF RegisterWallet, DropWalletRead
<1>29. ASSUME NEW s \in Secrets, DropSecretRead(c, s)  PROVE AccountState'
  <2>1. [Resting EXCEPT !.pc = "count_refs", !.op = "drop_secret", !.secret = s, !.home = secret[s].home]
          \in Sound
    <3>1. secret[s].home \in Homes  BY DEF RowsTyped
    <3> QED  BY <3>1, RestingSound DEF Sound, CallType, CallPC, Operations
  <2> QED  BY <1>5, <1>29, <2>1 DEF DropSecretRead
<1>30. ASSUME NEW s \in Secrets, NEW h \in Homes, CreateSecret(c, s, h)  PROVE AccountState'
  <2>1. [Resting EXCEPT !.pc = IF h = Local THEN "insert_secret" ELSE "client",
                        !.op = "add_secret", !.secret = s, !.home = h] \in Sound
    <3>1. PICK pc \in CallPC :
            pc = (IF h = Local THEN "insert_secret" ELSE "client") /\ (pc = "client" => h # Local)
               /\ pc # "build"
      BY DEF CallPC
    <3>2. [Resting EXCEPT !.pc = pc, !.op = "add_secret", !.secret = s, !.home = h] \in Sound
      BY <3>1, RestingSound DEF Sound, CallType, Operations
    <3> QED  BY <3>1, <3>2
  <2> QED  BY <1>5, <1>30, <2>1 DEF CreateSecret
<1> QED
  BY <1>1, <1>10, <1>11, <1>12, <1>13, <1>14, <1>15, <1>16, <1>17, <1>18, <1>19, <1>20, <1>21, <1>22,
     <1>23, <1>24, <1>25, <1>26, <1>27, <1>28, <1>29, <1>30 DEF StoreStep

LEMMA ServiceTypes ==
  ASSUME AccountState, polls \in 0 .. MaxPolls, ServiceNext
  PROVE  AccountState' /\ polls' \in 0 .. MaxPolls
<1> USE DEF AccountState
<1>1. ASSUME NEW c \in Coroutines
      PROVE  /\ call[c] \in CallType
             /\ Home(c) \in Homes /\ Secret(c) \in Secrets /\ Service(c) \in Services
  BY CallFacts
<1>2. ASSUME UNCHANGED <<vault, clients, ghosts, calls>>, faults' = faults \/ Fault  PROVE Bounded'
  BY <1>2, AccountAssumption DEF Bounded, Fault, ghosts
<1>3. ASSUME NEW c \in Coroutines, NEW r \in Sound, Begins(c, r),
             UNCHANGED <<rows, vault, clients, ghosts, faults, polls>>
      PROVE  AccountState' /\ polls' \in 0 .. MaxPolls
  BY <1>3, BeginsSound, StillRows, AccountAssumption DEF Bounded, ghosts
<1>4. ASSUME NEW c \in Coroutines, NEW pc \in CallPC \ {"client", "build"}, Goto(c, pc)
      PROVE  CallsSound'
  BY <1>4, GotoSound
<1>5. \A c \in Coroutines : Ends(c) => CallsSound'  BY EndsSound
<1>6. \A c \in Coroutines : WithoutValue(c) => CallsSound'  BY WithoutValueSound
<1>7. UNCHANGED rows => RowsTyped'  BY StillRows
<1>8. \A op : WithValue(op) \in CallPC \ {"client", "build"}  BY DEF WithValue, CallPC
<1>9. ASSUME NEW c \in Coroutines, NEW st \in {"invalid", "exhausted", "deleted"},
             SetStatus(Service(c), st), UNCHANGED <<wallet, secret>>
      PROVE  RowsTyped'
  BY <1>1, <1>9, StatusRows DEF ServiceStatus
<1>10. Monitor \in Coroutines  BY DEF Coroutines
<1>11. ASSUME NEW c \in Coroutines, ServiceStep(c)
       PROVE  AccountState' /\ polls' \in 0 .. MaxPolls
  <2>1. Bounded' /\ polls' = polls
    BY <1>2, <1>11 DEF ServiceStep, ReadRow, GetValue, ValidateNew, InsertService, DemoteOthers,
       CommitPrimary, ReadOwner, DemoteSelf, ValidateTested, MarkActive, MarkInvalid, DropService
  <2>2. CASE ReadRow(c)
    <3>1. CASE ~SecretRow(Secret(c))  BY <1>6, <1>7, <2>1, <2>2, <3>1 DEF ReadRow
    <3>2. CASE SecretRow(Secret(c))
      <4>1. call' = [call EXCEPT ![c].home = secret[Secret(c)].home,
                       ![c].pc = IF InWallet(Secret(c)) THEN "client" ELSE WithValue(call[c].op)]
        BY <2>2, <3>2 DEF ReadRow
      <4>2. secret[Secret(c)].home \in Homes  BY <1>1 DEF RowsTyped
      <4>3. PICK pc \in CallPC \ {"build"} :
              /\ pc = IF InWallet(Secret(c)) THEN "client" ELSE WithValue(call[c].op)
              /\ pc = "client" => secret[Secret(c)].home # Local
        BY <1>8 DEF InWallet, CallPC
      <4>4. [call[c] EXCEPT !.home = secret[Secret(c)].home, !.pc = pc] \in Sound
        BY <1>1, <4>2, <4>3 DEF Sound, CallType
      <4>5. CallsSound'  BY <4>1, <4>3, <4>4 DEF CallsSound
      <4> QED  BY <1>7, <2>1, <2>2, <4>5 DEF ReadRow
    <3> QED  BY <3>1, <3>2
  <2>3. CASE GetValue(c)
    BY <1>4, <1>6, <1>7, <1>8, <2>1, <2>3 DEF GetValue
  <2>4. CASE ValidateNew(c) \/ ReadOwner(c) \/ ValidateTested(c)
    BY <1>4, <1>5, <1>7, <2>1, <2>4 DEF ValidateNew, ReadOwner, ValidateTested, CallPC
  <2>5. CASE InsertService(c)
    <3>1. service' \in [Services -> [status : ServiceStatus, primary : BOOLEAN, secret : Secrets]]
      BY <1>1, <2>5 DEF InsertService, RowsTyped, ServiceStatus
    <3>2. \A x \in Services : ServiceRow(x)' =>
             SecretRow(service'[x].secret) \/ (ServiceRow(x) /\ service'[x].secret = service[x].secret)
      BY <2>5 DEF InsertService, RowsTyped, ServiceRow
    <3>3. RowsTyped'  BY <2>5, <3>1, <3>2, ServiceRows DEF InsertService
    <3> QED  BY <1>5, <2>1, <2>5, <3>3 DEF InsertService
  <2>6. CASE DemoteOthers(c)
    <3>1. CallsSound'
      <4>1. PICK ks \in SUBSET Keys :
              call' = [call EXCEPT ![c].pc = "commit", ![c].rows = ks]
        BY <2>6 DEF DemoteOthers
      <4>2. [call[c] EXCEPT !.pc = "commit", !.rows = ks] \in Sound
        BY <1>1, RowsSound DEF CallPC
      <4>3. call' = [call EXCEPT ![c] = [call[c] EXCEPT !.pc = "commit", !.rows = ks]]
        BY <4>1
      <4> QED  BY <4>2, <4>3 DEF CallsSound
    <3> QED  BY <1>7, <2>1, <2>6, <3>1 DEF DemoteOthers
  <2>7. CASE CommitPrimary(c)
    <3>1. service' \in [Services -> [status : ServiceStatus, primary : BOOLEAN, secret : Secrets]]
      BY <1>1, <2>7 DEF CommitPrimary, Promoted, RowsTyped, ServiceStatus
    <3>2. \A x \in Services : ServiceRow(x)' =>
             SecretRow(service'[x].secret) \/ (ServiceRow(x) /\ service'[x].secret = service[x].secret)
      BY <2>7 DEF CommitPrimary, Promoted, RowsTyped, ServiceRow
    <3>3. UNCHANGED <<wallet, secret>>  BY <2>7 DEF CommitPrimary
    <3>4. RowsTyped'  BY <3>1, <3>2, <3>3, ServiceRows
    <3> QED  BY <1>5, <2>1, <2>7, <3>4 DEF CommitPrimary
  <2>8. CASE DemoteSelf(c) \/ MarkActive(c)
    <3>1. service' \in [Services -> [status : ServiceStatus, primary : BOOLEAN, secret : Secrets]]
      <4>1. CASE DemoteSelf(c)  BY <1>1, <4>1 DEF DemoteSelf, RowsTyped, ServiceStatus
      <4>2. CASE MarkActive(c)  BY <1>1, <4>2 DEF MarkActive, RowsTyped, ServiceStatus
      <4> QED  BY <2>8, <4>1, <4>2
    <3>2. \A x \in Services : ServiceRow(x)' => ServiceRow(x) /\ service'[x].secret = service[x].secret
      BY <1>1, <2>8 DEF DemoteSelf, MarkActive, RowsTyped, ServiceRow
    <3>3. RowsTyped'  BY <2>8, <3>1, <3>2, ServiceRows DEF DemoteSelf, MarkActive
    <3> QED  BY <1>5, <2>1, <2>8, <3>3 DEF DemoteSelf, MarkActive
  <2>9. CASE MarkInvalid(c) \/ DropService(c)
    BY <1>5, <1>9, <2>1, <2>9 DEF MarkInvalid, DropService
  <2> QED
    BY <1>11, <2>2, <2>3, <2>4, <2>5, <2>6, <2>7, <2>8, <2>9 DEF ServiceStep
<1>12. ASSUME NEW c \in Coroutines, ReadFails(c) \/ ServiceRaises(c)
       PROVE  AccountState' /\ polls' \in 0 .. MaxPolls
  BY <1>2, <1>5, <1>6, <1>7, <1>12 DEF ReadFails, ServiceRaises
<1>13. ASSUME NEW c \in Coroutines, NEW x \in Services, NEW s \in Secrets, NEW p \in BOOLEAN,
              p => x \in Keys, CreateService(c, x, s, p)
       PROVE  AccountState' /\ polls' \in 0 .. MaxPolls
  <2>1. [Resting EXCEPT !.pc = "row", !.op = "add_service", !.service = x, !.secret = s, !.primary = p]
          \in Sound
    BY RestingSound DEF Sound, CallType, CallPC, Operations
  <2> QED  BY <1>3, <1>13, <2>1 DEF CreateService
<1>14. ASSUME NEW c \in Coroutines, NEW k \in Keys, NEW p \in BOOLEAN, PatchRead(c, k, p)
       PROVE  AccountState' /\ polls' \in 0 .. MaxPolls
  <2>1. [Resting EXCEPT !.pc = IF p THEN "owner" ELSE "demote_self",
                        !.op = IF p THEN "promote" ELSE "demote", !.service = k] \in Sound
    <3>1. PICK pc \in {"owner", "demote_self"}, op \in {"promote", "demote"} :
            pc = (IF p THEN "owner" ELSE "demote_self") /\ op = (IF p THEN "promote" ELSE "demote")
      OBVIOUS
    <3>2. [Resting EXCEPT !.pc = pc, !.op = op, !.service = k] \in Sound
      BY RestingSound DEF Sound, CallType, CallPC, Operations, Services
    <3> QED  BY <3>1, <3>2
  <2> QED  BY <1>3, <1>14, <2>1 DEF PatchRead
<1>15. ASSUME NEW c \in Coroutines, NEW x \in Services, TestService(c, x)
       PROVE  AccountState' /\ polls' \in 0 .. MaxPolls
  <2>1. service[x].secret \in Secrets  BY DEF RowsTyped
  <2>2. [Resting EXCEPT !.pc = "row", !.op = "test_service", !.service = x, !.secret = service[x].secret]
          \in Sound
    BY <2>1, RestingSound DEF Sound, CallType, CallPC, Operations
  <2> QED  BY <1>3, <1>15, <2>2 DEF TestService
<1>16. ASSUME NEW c \in Coroutines, NEW x \in Services, DropRead(c, x)
       PROVE  AccountState' /\ polls' \in 0 .. MaxPolls
  <2>1. [Resting EXCEPT !.pc = "delete_service", !.op = "drop_service", !.service = x] \in Sound
    BY RestingSound DEF Sound, CallType, CallPC, Operations
  <2> QED  BY <1>3, <1>16, <2>1 DEF DropRead
<1>17. CASE PollList
  <2>1. [Resting EXCEPT !.pc = "next", !.op = "poll", !.rows = {k \in Keys : service[k].status = "active"}]
          \in Sound
    BY RestingSound DEF Sound, CallType, CallPC, Operations
  <2>2. CallsSound'  BY <1>17, <2>1 DEF PollList, CallsSound
  <2>3. polls' \in 0 .. MaxPolls  BY <1>17, ServiceAssumption DEF PollList
  <2> QED  BY <1>2, <1>7, <1>17, <2>2, <2>3 DEF PollList
<1>18. ASSUME NEW k \in Keys, PollNext(k)
       PROVE  AccountState' /\ polls' \in 0 .. MaxPolls
  <2>1. service[k].secret \in Secrets /\ k \in Services  BY DEF RowsTyped, Services
  <2>2. [call[Monitor] EXCEPT !.pc = "row", !.service = k, !.secret = service[k].secret,
                                !.rows = call[Monitor].rows \ {k}] \in Sound
    <3>1. call[Monitor] \in CallType  BY <1>1, <1>10
    <3>2. call[Monitor].rows \ {k} \in SUBSET Keys  BY <3>1 DEF CallType
    <3> QED  BY <2>1, <3>1, <3>2, PolledSound
  <2>3. CallsSound'  BY <1>18, <2>2 DEF PollNext, CallsSound
  <2> QED  BY <1>2, <1>7, <1>18, <2>3 DEF PollNext
<1>19. CASE PollEnds \/ FetchBalance \/ WriteBalance \/ MarkExhausted
  <2>1. CallsSound'
    BY <1>4, <1>5, <1>10, <1>19, RestingSound
       DEF PollEnds, FetchBalance, WriteBalance, MarkExhausted, CallPC, CallsSound
  <2>2. RowsTyped'
    BY <1>7, <1>9, <1>10, <1>19 DEF PollEnds, FetchBalance, WriteBalance, MarkExhausted
  <2> QED
    BY <1>2, <1>19, <2>1, <2>2 DEF PollEnds, FetchBalance, WriteBalance, MarkExhausted
<1> QED
  BY <1>11, <1>12, <1>13, <1>14, <1>15, <1>16, <1>17, <1>18, <1>19
     DEF ServiceNext, PollStep, TestKey, TestCredential, DropKey, DropCredential, CreateKey,
         CreateCredential

AccountTyped == AccountState /\ polls \in 0 .. MaxPolls

LEMMA AccountTypes == AccountTyped => TypeOK
BY DEF AccountTyped, TypeOK, TablesTyped, AccountState, RowsTyped, Bounded, CallsSound, Sound

LEMMA RestartKeepsTypes ==
  ASSUME AccountState, Restart
  PROVE  AccountState'
<1>1. RowsTyped'  BY StillRows DEF AccountState, Restart
<1>2. CallsSound'  BY RestingSound DEF AccountState, Restart, CallsSound
<1>3. Bounded'  BY AccountAssumption DEF AccountState, Restart, Bounded, Fault
<1> QED  BY <1>1, <1>2, <1>3 DEF AccountState

LEMMA InitAccount == Init => AccountTyped
<1> SUFFICES ASSUME Init PROVE AccountTyped  OBVIOUS
<1>1. RowsTyped
  <2>1. wallet \in [Wallets -> RowStatus]  BY DEF Init, RowStatus
  <2>2. secret \in [Secrets -> [status : RowStatus, home : Homes]]  BY DEF Init, RowStatus
  <2>3. service \in [Services -> [status : ServiceStatus, primary : BOOLEAN, secret : Secrets]]
    BY DEF Init, ServiceStatus
  <2> QED  BY <2>1, <2>2, <2>3 DEF Init, RowsTyped, CanInsertSecret, InWallet
<1>2. CallsSound  BY RestingSound DEF Init, CallsSound
<1>3. Bounded  BY AccountAssumption DEF Init, Bounded
<1> QED  BY <1>1, <1>2, <1>3, ServiceAssumption DEF Init, AccountState, AccountTyped

LEMMA AccountInvariant == Spec => []AccountTyped
<1>1. AccountTyped /\ [Next]_vars => AccountTyped'
  <2> SUFFICES ASSUME AccountState, polls \in 0 .. MaxPolls, [Next]_vars
               PROVE  AccountState' /\ polls' \in 0 .. MaxPolls
    BY DEF AccountTyped
  <2>1. CASE StoreNext /\ UNCHANGED polls  BY <2>1, StoreTypes
  <2>2. CASE ServiceNext  BY <2>2, ServiceTypes
  <2>3. CASE Restart  BY <2>3, RestartKeepsTypes DEF Restart
  <2>4. CASE UNCHANGED vars
    BY <2>4, StillRows DEF vars, AccountState, CallsSound, Bounded, ghosts
  <2> QED  BY <2>1, <2>2, <2>3, <2>4 DEF Next
<1> QED  BY InitAccount, <1>1, PTL DEF Spec

\* Every variable keeps its type, a secret kept in a wallet has its wallet and a
\* service has its secret, whatever the calls that compete for them.
THEOREM AccountTypeCorrect == Spec => []TypeOK
BY AccountInvariant, AccountTypes, PTL

-----------------------------------------------------------------------------
(* The values in the vault.                                                *)

Creating(c) == Doing(c, "add_secret")
Dropping(c) == Doing(c, "drop_secret")

\* A deletion decides on the value once the row is gone, a creation all along.
Decides(c) == Creating(c) \/ (Dropping(c) /\ call[c].pc \in {"client", "build", "purge"})

\* Which steps are those of a creation or of a deletion.
StageInv(c) ==
  /\ Creating(c) \/ Dropping(c) => c \in Callers
  /\ Creating(c) => call[c].pc \in {"client", "build", "put", "create", "insert_secret", "undo"}
  /\ Dropping(c) => call[c].pc \in {"count_refs", "delete_secret", "client", "build", "purge"}
  /\ call[c].pc \in {"put", "create", "insert_secret", "undo"} => Creating(c)
  /\ call[c].pc \in {"count_refs", "delete_secret", "purge"} => Dropping(c)
  /\ At(c, "next") => Doing(c, "poll")

\* A creation has no row yet, but one whose insert was reported failed; its value
\* is in the vault from the insert on, and before that it is not.
CreateInv(c) ==
  Creating(c) =>
    /\ secret[Secret(c)].status = "absent" \/ (At(c, "undo") /\ Secret(c) \in unsure)
    /\ Home(c) = Local => At(c, "insert_secret")
    /\ At(c, "insert_secret") /\ Home(c) # Local => InVault(Secret(c))
    /\ \/ At(c, "undo")
       \/ At(c, "insert_secret") /\ Home(c) # Local
       \/ ~InVault(Secret(c))

\* A deletion knows where the value is, and removes it when the row is gone.
DropInv(c) ==
  Dropping(c) =>
    /\ secret[Secret(c)].status # "absent"
    /\ Home(c) = secret[Secret(c)].home
    /\ call[c].pc \in {"client", "build", "purge"} => secret[Secret(c)].status = "deleted"

CreatedOnce ==
  \A c, d \in Callers : Creating(c) /\ Creating(d) /\ Secret(c) = Secret(d) => c = d

\* A value is that of a row, or one that a call decides on, or leaked.
Owned(s) == SecretRow(s) \/ s \in leaked \/ \E c \in Callers : Decides(c) /\ Secret(c) = s
ValueInv ==
  \A s \in vault : Owned(s) /\ (secret[s].status = "absent" \/ InWallet(s))

StoreInv ==
  /\ \A c \in Coroutines : StageInv(c) /\ CreateInv(c) /\ DropInv(c)
  /\ CreatedOnce
  /\ ValueInv
  /\ SurvivorKeepsValue

\* The call of c becomes r, and that is all that the calls do.
Becomes(c, r) == call' = [call EXCEPT ![c] = r]

LEMMA BecomesFacts ==
  ASSUME AccountState, NEW c \in Coroutines, NEW r, Becomes(c, r)
  PROVE  call'[c] = r /\ \A d \in Coroutines \ {c} : call'[d] = call[d]
BY DEF AccountState, CallsSound, Becomes

\* The secrets but s are left alone; s stays deleted if it is, does not move, and
\* is either that of the creation of c, or in the database, or left alone too.
OnlySecret(c, s) ==
  /\ \A k \in Secrets \ {s} : secret'[k] = secret[k] /\ (k \in vault' <=> k \in vault)
  /\ secret[s].status # "absent" =>
       secret'[s].status # "absent" /\ secret'[s].home = secret[s].home
  /\ secret[s].status = "deleted" => secret'[s].status = "deleted"
  /\ \/ Creating(c) /\ Secret(c) = s
     \/ secret[s].status # "absent"
     \/ secret'[s] = secret[s] /\ (s \in vault' <=> s \in vault)
  /\ unsure \subseteq unsure' /\ leaked \subseteq leaked'

\* The other calls keep their part of the invariant.
LEMMA OthersKept ==
  ASSUME AccountState, AccountState', StoreInv, NEW c \in Coroutines, NEW s \in Secrets, OnlySecret(c, s),
         NEW d \in Coroutines, d # c, call'[d] = call[d]
  PROVE  StageInv(d)' /\ CreateInv(d)' /\ DropInv(d)'
<1>1. /\ Creating(d)' = Creating(d) /\ Dropping(d)' = Dropping(d)
      /\ Secret(d)' = Secret(d) /\ Home(d)' = Home(d) /\ Secret(d) \in Secrets
      /\ StageInv(d) /\ CreateInv(d) /\ DropInv(d)
  BY CallFacts DEF Creating, Dropping, Doing, Secret, Home, StoreInv
<1>2. StageInv(d)'  BY <1>1 DEF StageInv, Creating, Dropping, Doing, At
<1>3. DropInv(d)'
  BY <1>1 DEF DropInv, OnlySecret
<1>4. CreateInv(d)'
  <2> SUFFICES ASSUME Creating(d) PROVE CreateInv(d)'  BY <1>1 DEF CreateInv
  <2>1. CASE At(d, "undo")
    <3>1. CASE Secret(d) \in unsure
      BY <1>1, <2>1, <3>1 DEF CreateInv, OnlySecret, At
    <3>2. CASE secret[Secret(d)].status = "absent"
      <4>1. Secret(d) # s \/ secret'[s] = secret[s]
        BY <1>1, <3>2 DEF OnlySecret, StoreInv, CreatedOnce, StageInv
      <4> QED  BY <1>1, <2>1, <3>2, <4>1 DEF CreateInv, OnlySecret, At
    <3> QED  BY <1>1, <2>1, <3>1, <3>2 DEF CreateInv
  <2>2. CASE ~At(d, "undo")
    <3>1. secret[Secret(d)].status = "absent"  BY <1>1, <2>2 DEF CreateInv
    <3>2. Secret(d) # s \/ (secret'[s] = secret[s] /\ (s \in vault' <=> s \in vault))
      BY <1>1, <3>1 DEF OnlySecret, StoreInv, CreatedOnce, StageInv
    <3>3. secret'[Secret(d)] = secret[Secret(d)] /\ (Secret(d) \in vault' <=> Secret(d) \in vault)
      BY <1>1, <3>2 DEF OnlySecret
    <3> QED  BY <1>1, <2>2, <3>1, <3>3 DEF CreateInv, At, InVault
  <2> QED  BY <2>1, <2>2
<1> QED  BY <1>2, <1>3, <1>4

\* What a step of c about s has to show.
LEMMA StoreStepKeeps ==
  ASSUME AccountState, AccountState', StoreInv, NEW c \in Coroutines, NEW r \in CallType, Becomes(c, r),
         NEW s \in Secrets, OnlySecret(c, s),
         StageInv(c)', CreateInv(c)', DropInv(c)',
         r.op = "add_secret" =>
            \/ Creating(c) /\ r.secret = Secret(c)
            \/ \A d \in Callers : ~(Creating(d) /\ Secret(d) = r.secret),
         \* c keeps the decision it had, or there is nothing left to decide
         \A k \in vault' : Decides(c) /\ Secret(c) = k =>
            SecretRow(k)' \/ k \in leaked' \/ (Decides(c)' /\ Secret(c)' = k),
         \* c has the decision on the value that it adds or whose row it deletes
         s \in vault' /\ ~(s \in vault /\ (SecretRow(s) => SecretRow(s)')) =>
            SecretRow(s)' \/ s \in leaked' \/ (Decides(c)' /\ Secret(c)' = s),
         s \in vault' => secret'[s].status = "absent" \/ InWallet(s)',
         s \notin unsure' /\ SecretRow(s)' /\ InWallet(s)' => s \in vault'
  PROVE  StoreInv'
<1>1. call'[c] = r /\ \A d \in Coroutines \ {c} : call'[d] = call[d]  BY BecomesFacts
<1>2. \A d \in Coroutines \ {c} : StageInv(d)' /\ CreateInv(d)' /\ DropInv(d)'
  BY <1>1, OthersKept
<1>3. Callers \subseteq Coroutines  BY DEF Coroutines
<1>4. \A d \in Coroutines \ {c} :
        /\ Creating(d)' = Creating(d) /\ Decides(d)' = Decides(d) /\ Secret(d)' = Secret(d)
  BY <1>1 DEF Creating, Dropping, Decides, Doing, Secret
<1>5. CreatedOnce'
  <2>1. Creating(c)' <=> r.op = "add_secret"  BY <1>1 DEF Creating, Doing
  <2>2. Secret(c)' = r.secret  BY <1>1 DEF Secret
  <2>3. \A d \in Callers \ {c} : Creating(d)' /\ Creating(c)' => Secret(d)' # Secret(c)'
    BY <1>3, <1>4, <2>1, <2>2 DEF StoreInv, CreatedOnce, StageInv
  <2>4. \A d, e \in Callers \ {c} : Creating(d)' /\ Creating(e)' /\ Secret(d)' = Secret(e)' => d = e
    BY <1>3, <1>4 DEF StoreInv, CreatedOnce
  <2> QED  BY <2>3, <2>4 DEF CreatedOnce
<1>6. ASSUME NEW k \in vault'  PROVE Owned(k)'
  <2>1. k \in Secrets  BY <1>6 DEF AccountState, Bounded
  <2>2. k = s \/ (k \in vault /\ secret'[k] = secret[k])
    BY <1>6, <2>1 DEF OnlySecret
  <2>4. CASE k \in vault /\ (SecretRow(k) => SecretRow(k)')
    <3>1. Owned(k)  BY <2>4 DEF StoreInv, ValueInv
    <3>2. ASSUME NEW d \in Callers, Decides(d), Secret(d) = k  PROVE Owned(k)'
      <4>1. CASE d = c
        <5>1. SecretRow(k)' \/ k \in leaked' \/ (Decides(c)' /\ Secret(c)' = k)
          BY <1>6, <3>2, <4>1
        <5> QED  BY <3>2, <4>1, <5>1 DEF Owned
      <4>2. CASE d # c  BY <1>3, <1>4, <3>2, <4>2 DEF Owned
      <4> QED  BY <4>1, <4>2
    <3>3. k \in leaked => k \in leaked'  BY DEF OnlySecret
    <3> QED  BY <2>4, <3>1, <3>2, <3>3 DEF Owned
  <2>5. CASE ~(k \in vault /\ (SecretRow(k) => SecretRow(k)'))
    <3>1. k = s  BY <2>2, <2>5 DEF SecretRow
    <3>2. Decides(c)' => c \in Callers
      BY DEF Decides, StageInv
    <3>3. SecretRow(k)' \/ k \in leaked' \/ (Decides(c)' /\ Secret(c)' = k)
      BY <1>6, <2>5, <3>1
    <3> QED  BY <3>2, <3>3 DEF Owned
  <2> QED  BY <2>4, <2>5
<1>7. \A k \in vault' : secret'[k].status = "absent" \/ InWallet(k)'
  BY DEF OnlySecret, StoreInv, ValueInv, InWallet, AccountState, Bounded
<1>8. SurvivorKeepsValue'
  BY DEF OnlySecret, StoreInv, SurvivorKeepsValue, SecretRow, InWallet
<1> QED  BY <1>1, <1>2, <1>5, <1>6, <1>7, <1>8 DEF StoreInv, ValueInv

-----------------------------------------------------------------------------
(* The steps that leave the secrets and their values alone.                *)

StorePC == {"put", "create", "insert_secret", "undo", "count_refs", "delete_secret", "purge"}

\* c gives up a decision only on what has its row, or leaked.
GivesUp(c) == \A k \in vault : Decides(c) /\ Secret(c) = k => SecretRow(k) \/ k \in leaked'

StillSecrets == UNCHANGED <<secret, vault>> /\ unsure \subseteq unsure' /\ leaked \subseteq leaked'

LEMMA QuietKeeps ==
  ASSUME AccountState, AccountState', StoreInv, NEW c \in Coroutines, NEW r, Becomes(c, r), StillSecrets,
         StageInv(c)', CreateInv(c)', DropInv(c)',
         r.op = "add_secret" =>
            \/ Creating(c) /\ r.secret = Secret(c)
            \/ \A d \in Callers : ~(Creating(d) /\ Secret(d) = r.secret),
         \A k \in vault : Decides(c) /\ Secret(c) = k =>
            SecretRow(k) \/ k \in leaked' \/ (Decides(c)' /\ Secret(c)' = k)
  PROVE  StoreInv'
<1>1. r \in CallType  BY BecomesFacts, CallFacts DEF AccountState, CallsSound, Sound
<1>2. PICK s \in Secrets : TRUE  BY AccountAssumption
<1>3. OnlySecret(c, s)  BY DEF OnlySecret, StillSecrets
<1>4. \A k \in Secrets : SecretRow(k)' = SecretRow(k) /\ InWallet(k)' = InWallet(k)
  BY DEF StillSecrets, SecretRow, InWallet
<1>5. vault' = vault /\ secret' = secret /\ unsure \subseteq unsure' /\ vault \subseteq Secrets
  BY DEF StillSecrets, AccountState, Bounded
<1>6. s \in vault' => secret'[s].status = "absent" \/ InWallet(s)'
  BY <1>4, <1>5 DEF StoreInv, ValueInv
<1>7. s \notin unsure' /\ SecretRow(s)' /\ InWallet(s)' => s \in vault'
  BY <1>4, <1>5 DEF StoreInv, SurvivorKeepsValue
<1>8. ~(s \in vault' /\ ~(s \in vault /\ (SecretRow(s) => SecretRow(s)')))
  BY <1>4, <1>5
<1>9. \A k \in vault' : Decides(c) /\ Secret(c) = k =>
         SecretRow(k)' \/ k \in leaked' \/ (Decides(c)' /\ Secret(c)' = k)
  BY <1>4, <1>5
<1> QED  BY <1>1, <1>3, <1>6, <1>7, <1>8, <1>9, StoreStepKeeps

\* The call is now none about a secret.
LEMMA NeutralKeeps ==
  ASSUME AccountState, AccountState', StoreInv, NEW c \in Coroutines, NEW r, Becomes(c, r), StillSecrets,
         r.op \notin {"add_secret", "drop_secret"}, r.pc \notin StorePC, r.pc = "next" => r.op = "poll",
         GivesUp(c)
  PROVE  StoreInv'
<1>1. call'[c] = r  BY BecomesFacts
<1>2. StageInv(c)' /\ CreateInv(c)' /\ DropInv(c)'
  BY <1>1 DEF StageInv, CreateInv, DropInv, Creating, Dropping, Doing, At, StorePC
<1> QED  BY <1>2, QuietKeeps DEF GivesUp

LEMMA EndsKeeps ==
  ASSUME AccountState, AccountState', StoreInv, NEW c \in Coroutines, Ends(c), StillSecrets, GivesUp(c)
  PROVE  StoreInv'
<1>1. Becomes(c, AfterCall(c))  BY DEF Ends, Becomes
<1>2. /\ AfterCall(c).op \notin {"add_secret", "drop_secret"} /\ AfterCall(c).pc \notin StorePC
      /\ AfterCall(c).pc = "next" => AfterCall(c).op = "poll"
  BY DEF AfterCall, Resting, StorePC
<1> QED  BY <1>1, <1>2, NeutralKeeps

\* A call that is about no secret goes on.
Unconcerned(c) == ~Creating(c) /\ ~Dropping(c)

LEMMA GotoKeeps ==
  ASSUME AccountState, AccountState', StoreInv, NEW c \in Coroutines, Unconcerned(c),
         NEW pc, Goto(c, pc), pc \notin StorePC \cup {"next"}, StillSecrets
  PROVE  StoreInv'
<1>1. Becomes(c, [call[c] EXCEPT !.pc = pc])  BY DEF Goto, Becomes
<1>2. call[c] \in CallType  BY CallFacts
<1>3. GivesUp(c)  BY DEF GivesUp, Decides, Unconcerned
<1>4. [call[c] EXCEPT !.pc = pc].op = call[c].op /\ [call[c] EXCEPT !.pc = pc].pc = pc
  BY <1>2 DEF CallType
<1> QED
  BY <1>1, <1>3, <1>4, NeutralKeeps DEF Unconcerned, Creating, Dropping, Doing

\* A creation or a deletion goes on.
LEMMA OnKeeps ==
  ASSUME AccountState, AccountState', StoreInv, NEW c \in Coroutines, Creating(c) \/ Dropping(c),
         NEW pc \in CallPC, Goto(c, pc), UNCHANGED <<secret, vault, ghosts>>,
         Creating(c) => \/ pc \in {"build", "put", "create"}
                           /\ call[c].pc \in {"client", "build", "put"}
                        \/ pc = "undo" /\ call[c].pc = "insert_secret" /\ Home(c) # Local,
         Dropping(c) => \/ pc \in {"build", "purge"} /\ call[c].pc \in {"client", "build"}
                        \/ pc = "delete_secret" /\ call[c].pc = "count_refs"
  PROVE  StoreInv'
<1>1. Becomes(c, [call[c] EXCEPT !.pc = pc]) /\ StillSecrets
  BY DEF Goto, Becomes, StillSecrets, ghosts
<1>2. call[c] \in CallType  BY CallFacts
<1>3. call'[c] = [call[c] EXCEPT !.pc = pc]  BY <1>1, BecomesFacts
<1>4. /\ call'[c].pc = pc /\ Secret(c)' = Secret(c) /\ Home(c)' = Home(c)
      /\ Creating(c)' = Creating(c) /\ Dropping(c)' = Dropping(c)
  BY <1>2, <1>3 DEF CallType, Secret, Home, Creating, Dropping, Doing
<1>5. ~(Creating(c) /\ Dropping(c))  BY DEF Creating, Dropping, Doing
<1>6. StageInv(c) /\ CreateInv(c) /\ DropInv(c)  BY DEF StoreInv
<1>7. StageInv(c)'
  BY <1>4, <1>5, <1>6 DEF StageInv, At
<1>8. CreateInv(c)'
  BY <1>4, <1>6 DEF CreateInv, At, InVault, ghosts
<1>9. DropInv(c)'
  BY <1>4, <1>6 DEF DropInv
<1>10. [call[c] EXCEPT !.pc = pc].op = call[c].op /\ [call[c] EXCEPT !.pc = pc].secret = call[c].secret
  BY <1>2 DEF CallType
<1>11. Decides(c) => Decides(c)'
  BY <1>4 DEF Decides
<1> QED
  BY <1>1, <1>4, <1>7, <1>8, <1>9, <1>10, <1>11, QuietKeeps DEF Creating, Doing, Secret

-----------------------------------------------------------------------------
(* The steps that write a row or a value.                                  *)

\* Where a call that works on a secret stands.
LEMMA StageFacts ==
  ASSUME AccountState, StoreInv, NEW c \in Coroutines
  PROVE  /\ StageInv(c) /\ CreateInv(c) /\ DropInv(c)
         /\ call[c].pc \in {"put", "create", "insert_secret", "undo"} => Creating(c) /\ ~Dropping(c)
         /\ call[c].pc \in {"count_refs", "delete_secret", "purge"} => Dropping(c) /\ ~Creating(c)
         /\ call[c].pc \notin StorePC \cup {"client", "build"} => Unconcerned(c)
         /\ Secret(c) \in Secrets /\ secret[Secret(c)].status \in RowStatus
         /\ SecretRow(Secret(c)) => secret[Secret(c)].status = "present"
BY CallFacts
   DEF StoreInv, StageInv, Creating, Dropping, Doing, Unconcerned, StorePC, SecretRow,
       AccountState, RowsTyped

\* The call that ends works on no secret any more.
LEMMA EndsStages ==
  ASSUME AccountState, NEW c \in Coroutines, Ends(c)
  PROVE  /\ Becomes(c, AfterCall(c)) /\ call'[c] = AfterCall(c)
         /\ StageInv(c)' /\ CreateInv(c)' /\ DropInv(c)' /\ ~Decides(c)'
         /\ AfterCall(c).op # "add_secret"
<1>1. Becomes(c, AfterCall(c))  BY DEF Ends, Becomes
<1>2. call'[c] = AfterCall(c)  BY <1>1, BecomesFacts
<1>3. /\ AfterCall(c).op \notin {"add_secret", "drop_secret"} /\ AfterCall(c).pc \notin StorePC
      /\ AfterCall(c).pc = "next" => AfterCall(c).op = "poll"
  BY DEF AfterCall, Resting, StorePC
<1> QED
  BY <1>1, <1>2, <1>3
     DEF StageInv, CreateInv, DropInv, Creating, Dropping, Decides, Doing, At, StorePC

\* A step that ends a call, but for the secret s that it works on.
LEMMA LastStepKeeps ==
  ASSUME AccountState, AccountState', StoreInv, NEW c \in Coroutines, Ends(c),
         NEW s \in Secrets, s = Secret(c), OnlySecret(c, s),
         s \in vault' => /\ SecretRow(s)' \/ s \in leaked'
                         /\ secret'[s].status = "absent" \/ InWallet(s)',
         s \notin unsure' /\ SecretRow(s)' /\ InWallet(s)' => s \in vault'
  PROVE  StoreInv'
<1>1. AfterCall(c) \in CallType
  BY EndsStages DEF AccountState, CallsSound, Sound
<1> QED  BY <1>1, EndsStages, StoreStepKeeps

\* The value is put in the vault.
LEMMA CreateValueKeeps ==
  ASSUME AccountState, AccountState', StoreInv, NEW c \in Coroutines, CreateValue(c)
  PROVE  StoreInv'
<1>1. PICK s \in Secrets : s = Secret(c)  BY StageFacts
<1>2. /\ call[c].pc = "create" /\ Creating(c) /\ ~Dropping(c) /\ StageInv(c)
      /\ secret[s].status = "absent" /\ Home(c) # Local
  <2>1. call[c].pc = "create"  BY DEF CreateValue, At
  <2> QED  BY <1>1, <2>1, StageFacts DEF At, CreateInv
<1>3. /\ Becomes(c, [call[c] EXCEPT !.pc = "insert_secret"])
      /\ vault' = vault \cup {s} /\ UNCHANGED <<secret, unsure, leaked>>
  BY <1>1 DEF CreateValue, Goto, Becomes, ghosts, rows
<1>4. call[c] \in CallType /\ call'[c] = [call[c] EXCEPT !.pc = "insert_secret"]
  BY <1>3, CallFacts, BecomesFacts
<1>5. /\ call'[c].pc = "insert_secret" /\ Secret(c)' = s /\ Home(c)' = Home(c)
      /\ Creating(c)' /\ ~Dropping(c)'
  BY <1>1, <1>2, <1>4 DEF CallType, Secret, Home, Creating, Dropping, Doing
<1>7. StageInv(c)' /\ DropInv(c)' /\ Decides(c)'
  BY <1>2, <1>5 DEF StageInv, DropInv, Decides, At
<1>8. CreateInv(c)'
  BY <1>2, <1>3, <1>5 DEF CreateInv, At, InVault
<1>9. OnlySecret(c, s)  BY <1>1, <1>2, <1>3 DEF OnlySecret
<1>10. /\ [call[c] EXCEPT !.pc = "insert_secret"] \in CallType
       /\ [call[c] EXCEPT !.pc = "insert_secret"].secret = Secret(c)
  BY <1>4 DEF CallType, CallPC, Secret
<1>11. ~SecretRow(s)'  BY <1>2, <1>3 DEF SecretRow
<1> QED
  BY <1>1, <1>2, <1>3, <1>4, <1>5, <1>7, <1>8, <1>9, <1>10, <1>11, StoreStepKeeps

\* The row is inserted: the value is there already, or the secret is local.
LEMMA InsertedKeeps ==
  ASSUME AccountState, AccountState', StoreInv, NEW c \in Coroutines, At(c, "insert_secret"),
         InsertSecret(Secret(c), Home(c)), Ends(c), vault' = vault,
         unsure \subseteq unsure', leaked \subseteq leaked'
  PROVE  StoreInv'
<1>1. PICK s \in Secrets, h \in Homes : s = Secret(c) /\ h = Home(c)  BY CallFacts
<1>2. /\ Creating(c) /\ secret[s].status = "absent"
      /\ h = Local => s \notin vault
      /\ h # Local => s \in vault
  BY <1>1, StageFacts DEF At, CreateInv, InVault
<1>3. /\ secret'[s] = [status |-> "present", home |-> h]
      /\ \A k \in Secrets \ {s} : secret'[k] = secret[k]
  BY <1>1 DEF InsertSecret, AccountState, RowsTyped
<1>4. OnlySecret(c, s)  BY <1>1, <1>2, <1>3 DEF OnlySecret
<1>5. SecretRow(s)' /\ (InWallet(s)' <=> h # Local)  BY <1>3 DEF SecretRow, InWallet
<1> QED  BY <1>1, <1>2, <1>4, <1>5, LastStepKeeps

\* The outcome of the insert is not known: the value is about to be taken back.
LEMMA UndecidedKeeps ==
  ASSUME AccountState, AccountState', StoreInv, NEW c \in Coroutines, At(c, "insert_secret"),
         InsertSecret(Secret(c), Home(c)), Home(c) # Local, Goto(c, "undo"), vault' = vault,
         unsure' = unsure \cup {Secret(c)}, leaked' = leaked
  PROVE  StoreInv'
<1>1. PICK s \in Secrets, h \in Homes : s = Secret(c) /\ h = Home(c)  BY CallFacts
<1>2. /\ Creating(c) /\ ~Dropping(c) /\ StageInv(c) /\ secret[s].status = "absent"
      /\ call[c].pc = "insert_secret"
  BY <1>1, StageFacts DEF At, CreateInv
<1>3. /\ secret'[s] = [status |-> "present", home |-> h]
      /\ \A k \in Secrets \ {s} : secret'[k] = secret[k]
  BY <1>1 DEF InsertSecret, AccountState, RowsTyped
<1>4. Becomes(c, [call[c] EXCEPT !.pc = "undo"])  BY DEF Goto, Becomes
<1>5. call[c] \in CallType /\ call'[c] = [call[c] EXCEPT !.pc = "undo"]
  BY <1>4, CallFacts, BecomesFacts
<1>6. /\ call'[c].pc = "undo" /\ Secret(c)' = s /\ Home(c)' = Home(c)
      /\ Creating(c)' /\ ~Dropping(c)'
  BY <1>1, <1>2, <1>5 DEF CallType, Secret, Home, Creating, Dropping, Doing
<1>7. StageInv(c)' /\ DropInv(c)' /\ Decides(c)'
  BY <1>2, <1>6 DEF StageInv, DropInv, Decides, At
<1>8. CreateInv(c)'  BY <1>1, <1>6 DEF CreateInv, At
<1>9. OnlySecret(c, s)  BY <1>1, <1>2, <1>3 DEF OnlySecret
<1>10. /\ [call[c] EXCEPT !.pc = "undo"] \in CallType
       /\ [call[c] EXCEPT !.pc = "undo"].secret = Secret(c)
  BY <1>5 DEF CallType, CallPC, Secret
<1>11. SecretRow(s)' /\ InWallet(s)' /\ s \in unsure'  BY <1>1, <1>3 DEF SecretRow, InWallet
<1> QED
  BY <1>1, <1>2, <1>4, <1>6, <1>7, <1>8, <1>9, <1>10, <1>11, StoreStepKeeps

\* The value is removed, or its removal is reported failed: its row is not there,
\* or its insert was reported failed.
LEMMA RemovalKeeps ==
  ASSUME AccountState, AccountState', StoreInv, NEW c \in Coroutines, call[c].pc \in {"create", "undo", "purge"},
         Ends(c), UNCHANGED <<secret, unsure>>,
         \/ call[c].pc # "create" /\ vault' = vault \ {Secret(c)} /\ leaked' = leaked
         \/ /\ vault' \in {vault, vault \ {Secret(c)}} \cup
                          (IF call[c].pc = "create" THEN {vault \cup {Secret(c)}} ELSE {})
            /\ leaked' = leaked \cup {Secret(c)}
  PROVE  StoreInv'
<1>1. PICK s \in Secrets : s = Secret(c)  BY CallFacts
<1>2. /\ SecretRow(s) => s \in unsure
      /\ (Creating(c) /\ Secret(c) = s) \/ secret[s].status # "absent"
      /\ call[c].pc = "create" => secret[s].status = "absent"
  BY <1>1, StageFacts DEF CreateInv, DropInv, SecretRow, At
<1>3. OnlySecret(c, s)
  BY <1>1, <1>2 DEF OnlySecret
<1>4. SecretRow(s)' = SecretRow(s) /\ InWallet(s)' = InWallet(s)  BY DEF SecretRow, InWallet
<1>5. s \in vault' => s \in leaked' /\ (secret'[s].status = "absent" \/ InWallet(s)')
  BY <1>1, <1>2, <1>4 DEF StoreInv, ValueInv
<1> QED  BY <1>1, <1>2, <1>3, <1>4, <1>5, LastStepKeeps

\* The row is deleted; the value of one that was kept in a wallet goes next.
LEMMA DropKeeps ==
  ASSUME AccountState, AccountState', StoreInv, NEW c \in Coroutines, DropSecretDelete(c)
  PROVE  StoreInv'
<1>1. PICK s \in Secrets : s = Secret(c)  BY CallFacts
<1>2. /\ call[c].pc = "delete_secret" /\ Dropping(c) /\ ~Creating(c) /\ ~Decides(c)
      /\ StageInv(c) /\ secret[s].status # "absent" /\ Home(c) = secret[s].home
  <2>1. call[c].pc = "delete_secret"  BY DEF DropSecretDelete, At
  <2> QED  BY <1>1, <2>1, StageFacts DEF DropInv, Decides
<1>3. UNCHANGED <<vault, unsure, leaked>>  BY DEF DropSecretDelete, ghosts
<1>4. CASE ~CanDeleteSecret(Secret(c))
  BY <1>2, <1>3, <1>4, EndsKeeps DEF DropSecretDelete, GivesUp, StillSecrets
<1>5. CASE CanDeleteSecret(Secret(c))
  <2>1. /\ secret'[s].status = "deleted" /\ secret'[s].home = secret[s].home
        /\ \A k \in Secrets \ {s} : secret'[k] = secret[k]
    BY <1>1, <1>2, <1>5
       DEF DropSecretDelete, DeleteSecret, SecretRow, AccountState, RowsTyped, RowStatus
  <2>2. OnlySecret(c, s)  BY <1>2, <1>3, <2>1 DEF OnlySecret
  <2>3. ~SecretRow(s)' /\ InWallet(s)' = InWallet(s)  BY <2>1 DEF SecretRow, InWallet
  <2>4. CASE Home(c) = Local
    <3>1. s \notin vault'
      BY <1>2, <1>3, <2>4 DEF StoreInv, ValueInv, InWallet
    <3> QED  BY <1>1, <1>5, <2>2, <2>3, <2>4, <3>1, LastStepKeeps DEF DropSecretDelete
  <2>5. CASE Home(c) # Local
    <3>1. Becomes(c, [call[c] EXCEPT !.pc = "client"])
      BY <1>5, <2>5 DEF DropSecretDelete, Goto, Becomes
    <3>2. call[c] \in CallType /\ call'[c] = [call[c] EXCEPT !.pc = "client"]
      BY <3>1, CallFacts, BecomesFacts
    <3>3. /\ call'[c].pc = "client" /\ Secret(c)' = s /\ Home(c)' = Home(c)
          /\ ~Creating(c)' /\ Dropping(c)'
      BY <1>1, <1>2, <3>2 DEF CallType, Secret, Home, Creating, Dropping, Doing
    <3>4. StageInv(c)' /\ CreateInv(c)' /\ Decides(c)'
      BY <1>2, <3>3 DEF StageInv, CreateInv, Decides, At
    <3>5. DropInv(c)'  BY <1>2, <2>1, <3>3 DEF DropInv
    <3>6. /\ [call[c] EXCEPT !.pc = "client"] \in CallType
          /\ [call[c] EXCEPT !.pc = "client"].op = call[c].op
      BY <3>2 DEF CallType, CallPC
    <3>7. s \in vault' => InWallet(s)'
      BY <1>2, <2>3, <2>5 DEF InWallet
    <3> QED
      BY <1>2, <2>2, <2>3, <3>1, <3>3, <3>4, <3>5, <3>6, <3>7, StoreStepKeeps
         DEF Creating, Doing
  <2> QED  BY <2>4, <2>5
<1> QED  BY <1>4, <1>5

\* The two calls that begin.
LEMMA BeginKeeps ==
  ASSUME AccountState, AccountState', StoreInv, NEW c \in Coroutines, NEW s \in Secrets,
         DropSecretRead(c, s) \/ \E h \in Homes : CreateSecret(c, s, h)
  PROVE  StoreInv'
<1>1. /\ c \in Callers /\ At(c, "idle") /\ StillSecrets
  BY DEF DropSecretRead, CreateSecret, Begins, StillSecrets, rows, ghosts
<1>2. Unconcerned(c)
  BY <1>1, StageFacts DEF At, StorePC
<1>3. ~Decides(c)  BY <1>2 DEF Decides, Unconcerned
<1>4. CASE DropSecretRead(c, s)
  <2> DEFINE r == [Resting EXCEPT !.pc = "count_refs", !.op = "drop_secret", !.secret = s,
                                  !.home = secret[s].home]
  <2>1. Becomes(c, r) /\ SecretRow(s)  BY <1>4 DEF DropSecretRead, Begins, Becomes
  <2>2. call'[c] = r  BY <2>1, BecomesFacts
  <2>3. call'[c].pc = "count_refs" /\ call'[c].op = "drop_secret" /\ Secret(c)' = s /\ Home(c)' = secret[s].home
    BY <2>2 DEF Resting, Secret, Home
  <2>4. StageInv(c)' /\ CreateInv(c)' /\ DropInv(c)'
    BY <1>1, <2>1, <2>3 DEF StageInv, CreateInv, DropInv, Creating, Dropping, Doing, At, StillSecrets, SecretRow
  <2>5. r.op # "add_secret"  BY <2>2, <2>3
  <2> HIDE DEF r
  <2> QED  BY <1>1, <1>3, <2>1, <2>4, <2>5, QuietKeeps
<1>5. ASSUME NEW h \in Homes, CreateSecret(c, s, h)  PROVE StoreInv'
  <2> DEFINE r == [Resting EXCEPT !.pc = IF h = Local THEN "insert_secret" ELSE "client",
                                  !.op = "add_secret", !.secret = s, !.home = h]
  <2>1. Becomes(c, r) /\ Fresh(s)  BY <1>5 DEF CreateSecret, Begins, Becomes
  <2>2. call'[c] = r  BY <2>1, BecomesFacts
  <2>3. /\ call'[c].pc = (IF h = Local THEN "insert_secret" ELSE "client")
        /\ call'[c].op = "add_secret" /\ Secret(c)' = s /\ Home(c)' = h
    BY <2>2 DEF Resting, Secret, Home
  <2>4. StageInv(c)' /\ CreateInv(c)' /\ DropInv(c)'
    BY <1>1, <2>1, <2>3
       DEF StageInv, CreateInv, DropInv, Creating, Dropping, Doing, At, StillSecrets, Fresh, InVault
  <2>5. r.secret = s  BY <2>2, <2>3 DEF Secret
  <2>6. \A d \in Callers : ~(Creating(d) /\ Secret(d) = s)  BY <2>1 DEF Fresh, Creating
  <2> HIDE DEF r
  <2> QED  BY <1>1, <1>3, <2>1, <2>4, <2>5, <2>6, QuietKeeps
<1> QED  BY <1>4, <1>5

-----------------------------------------------------------------------------
(* Every step of the store and of the services.                            *)

\* The client of the wallet is there: the creation, the deletion or the read
\* of the value goes on.
LEMMA ClientKeeps ==
  ASSUME AccountState, AccountState', StoreInv, NEW c \in Coroutines, At(c, "client") \/ At(c, "build"),
         Goto(c, "build") \/ Goto(c, WithClient(call[c].op)), UNCHANGED <<secret, vault, ghosts>>
  PROVE  StoreInv'
<1>1. PICK pc \in CallPC :
        /\ Goto(c, pc)
        /\ pc = "build" \/ pc = WithClient(call[c].op)
  BY DEF WithClient, CallPC
<1>2. CASE Creating(c)
  <2>1. pc \in {"build", "put"} /\ ~Dropping(c)
    BY <1>1, <1>2 DEF WithClient, Creating, Dropping, Doing
  <2> QED  BY <1>1, <1>2, <2>1, OnKeeps DEF At
<1>3. CASE Dropping(c)
  <2>1. pc \in {"build", "purge"} /\ ~Creating(c)
    BY <1>1, <1>3 DEF WithClient, Creating, Dropping, Doing
  <2> QED  BY <1>1, <1>3, <2>1, OnKeeps DEF At
<1>4. CASE Unconcerned(c)
  <2>1. pc \in {"build", "get"}
    BY <1>1, <1>4 DEF WithClient, Unconcerned, Creating, Dropping, Doing
  <2> QED
    BY <1>1, <1>4, <2>1, GotoKeeps DEF StorePC, StillSecrets, ghosts
<1> QED  BY <1>2, <1>3, <1>4 DEF Unconcerned

\* A call about no secret takes another record.
LEMMA CalmKeeps ==
  ASSUME AccountState, AccountState', StoreInv, NEW c \in Coroutines, Unconcerned(c), StillSecrets,
         NEW r, Becomes(c, r), r.op \notin {"add_secret", "drop_secret"}, r.pc \notin StorePC,
         r.pc = "next" => r.op = "poll"
  PROVE  StoreInv'
BY NeutralKeeps DEF GivesUp, Decides, Unconcerned

LEMMA StoreNextKeeps ==
  ASSUME AccountState, AccountState', StoreInv, StoreNext
  PROVE  StoreInv'
<1>1. PICK c \in Coroutines :
        \/ StoreStep(c) \/ InsertSecretRaises(c) \/ VaultRaises(c) \/ StoreRaises(c)
        \/ \E w \in Wallets : RegisterWallet(c, w) \/ DropWalletRead(c, w)
        \/ \E s \in Secrets : DropSecretRead(c, s) \/ \E h \in Homes : CreateSecret(c, s, h)
  BY DEF StoreNext
<1>2. UNCHANGED <<secret, vault, ghosts>> => StillSecrets  BY DEF StillSecrets, ghosts
<1>3. ASSUME Unconcerned(c), UNCHANGED <<secret, vault, ghosts>>,
             Ends(c) \/ \E pc \in {"insert_wallet", "delete_wallet", "invalidate"} : Goto(c, pc)
      PROVE  StoreInv'
  <2>1. GivesUp(c)  BY <1>3 DEF GivesUp, Decides, Unconcerned
  <2> QED  BY <1>2, <1>3, <2>1, EndsKeeps, GotoKeeps DEF StorePC
<1>4. call[c].pc \notin StorePC \cup {"client", "build"} => Unconcerned(c)  BY StageFacts
<1>5. CASE ProbeToken(c) \/ InsertWallet(c) \/ CountSecrets(c) \/ DropWalletDelete(c) \/ InvalidateWallet(c)
  <2>1. Unconcerned(c)
    BY <1>4, <1>5 DEF ProbeToken, InsertWallet, CountSecrets, DropWalletDelete, InvalidateWallet,
                      At, StorePC
  <2> QED
    BY <1>3, <1>5, <2>1 DEF ProbeToken, InsertWallet, CountSecrets, DropWalletDelete, InvalidateWallet, rows
<1>6. CASE UseWallet(c) \/ BuildClient(c)
  BY <1>6, ClientKeeps DEF UseWallet, BuildClient, rows
<1>7. CASE UnknownWallet(c) \/ StoreRaises(c)
  <2>1. /\ Ends(c) /\ StillSecrets
        /\ Dropping(c) /\ call[c].pc \in {"client", "build"} => Secret(c) \in leaked'
        /\ call[c].pc \notin {"create", "insert_secret", "undo", "purge"}
    BY <1>7 DEF UnknownWallet, StoreRaises, StillSecrets, rows, Dropping, At
  <2>2. Creating(c) => Secret(c) \notin vault
    BY <2>1, StageFacts DEF CreateInv, At, InVault
  <2>3. GivesUp(c)
    BY <2>1, <2>2 DEF GivesUp, Decides
  <2> QED  BY <2>1, <2>3, EndsKeeps
<1>8. CASE PutValue(c)
  <2>1. call[c].pc = "put"  BY <1>8 DEF PutValue, At
  <2>2. Creating(c) /\ ~Dropping(c) /\ "create" \in CallPC  BY <2>1, StageFacts DEF CallPC
  <2> QED  BY <1>8, <2>1, <2>2, OnKeeps DEF PutValue, rows
<1>9. CASE CreateValue(c)  BY <1>9, CreateValueKeeps
<1>10. CASE InsertSecretRow(c)
  <2>1. call[c].pc = "insert_secret" /\ UNCHANGED <<vault, ghosts>>
    BY <1>10 DEF InsertSecretRow, At
  <2>2. Creating(c) /\ ~Dropping(c) /\ "undo" \in CallPC  BY <2>1, StageFacts DEF CallPC
  <2>3. CASE CanInsertSecret(Home(c))
    BY <1>10, <2>1, <2>3, InsertedKeeps DEF InsertSecretRow, ghosts
  <2>4. CASE ~CanInsertSecret(Home(c))
    BY <1>10, <2>1, <2>2, <2>4, OnKeeps DEF InsertSecretRow, CanInsertSecret
  <2> QED  BY <2>3, <2>4
<1>11. CASE UndoValue(c) \/ PurgeValue(c)
  BY <1>11, RemovalKeeps DEF UndoValue, PurgeValue, At, rows, ghosts
<1>12. CASE CountReferences(c)
  <2>1. call[c].pc = "count_refs" /\ UNCHANGED <<secret, vault, ghosts>>
    BY <1>12 DEF CountReferences, At, rows
  <2>2. Dropping(c) /\ ~Creating(c) /\ "delete_secret" \in CallPC  BY <2>1, StageFacts DEF CallPC
  <2>3. Goto(c, "delete_secret") => StoreInv'  BY <2>1, <2>2, OnKeeps
  <2>4. GivesUp(c)  BY <2>1, <2>2 DEF GivesUp, Decides
  <2>5. Ends(c) => StoreInv'  BY <1>2, <2>1, <2>4, EndsKeeps
  <2> QED  BY <1>12, <2>3, <2>5 DEF CountReferences
<1>13. CASE DropSecretDelete(c)  BY <1>13, DropKeeps
<1>14. CASE InsertSecretRaises(c)
  <2>1. call[c].pc = "insert_secret" /\ UNCHANGED <<vault, leaked>>
    BY <1>14 DEF InsertSecretRaises, At
  <2>2. Creating(c) /\ ~Dropping(c) /\ "undo" \in CallPC /\ CreateInv(c)
    BY <2>1, StageFacts DEF CallPC
  <2>3. CASE UNCHANGED <<secret, unsure>>
    <3>1. CASE Home(c) = Local
      <4>1. GivesUp(c) /\ StillSecrets
        BY <2>1, <2>2, <2>3, <3>1 DEF GivesUp, Decides, CreateInv, At, InVault, StillSecrets
      <4> QED  BY <1>14, <3>1, <4>1, EndsKeeps DEF InsertSecretRaises
    <3>2. CASE Home(c) # Local
      BY <1>14, <2>1, <2>2, <2>3, <3>2, OnKeeps DEF InsertSecretRaises, ghosts
    <3> QED  BY <3>1, <3>2
  <2>4. CASE InsertSecret(Secret(c), Home(c)) /\ unsure' = unsure \cup {Secret(c)}
    <3>1. CASE Home(c) = Local
      BY <1>14, <2>1, <2>4, <3>1, InsertedKeeps DEF InsertSecretRaises
    <3>2. CASE Home(c) # Local
      BY <1>14, <2>1, <2>4, <3>2, UndecidedKeeps DEF InsertSecretRaises
    <3> QED  BY <3>1, <3>2
  <2> QED  BY <1>14, <2>3, <2>4 DEF InsertSecretRaises
<1>15. CASE VaultRaises(c)
  BY <1>15, RemovalKeeps DEF VaultRaises, At, rows
<1>16. ASSUME NEW w \in Wallets, RegisterWallet(c, w) \/ DropWalletRead(c, w)  PROVE StoreInv'
  <2>1. Unconcerned(c) /\ StillSecrets
    BY <1>4, <1>16 DEF RegisterWallet, DropWalletRead, Begins, At, StorePC, StillSecrets, rows, ghosts
  <2>2. CASE RegisterWallet(c, w)
    <3> DEFINE r == [Resting EXCEPT !.pc = "probe", !.op = "add_wallet", !.home = w]
    <3>1. Becomes(c, r)  BY <2>2 DEF RegisterWallet, Begins, Becomes
    <3>2. r.op = "add_wallet" /\ r.pc = "probe"  BY DEF Resting
    <3> HIDE DEF r
    <3> QED  BY <2>1, <3>1, <3>2, CalmKeeps DEF StorePC
  <2>3. CASE DropWalletRead(c, w)
    <3> DEFINE r == [Resting EXCEPT !.pc = "count_secrets", !.op = "drop_wallet", !.home = w]
    <3>1. Becomes(c, r)  BY <2>3 DEF DropWalletRead, Begins, Becomes
    <3>2. r.op = "drop_wallet" /\ r.pc = "count_secrets"  BY DEF Resting
    <3> HIDE DEF r
    <3> QED  BY <2>1, <3>1, <3>2, CalmKeeps DEF StorePC
  <2> QED  BY <1>16, <2>2, <2>3
<1> QED
  BY <1>1, <1>5, <1>6, <1>7, <1>8, <1>9, <1>10, <1>11, <1>12, <1>13, <1>14, <1>15, <1>16, BeginKeeps
     DEF StoreStep

LEMMA ServiceNextKeeps ==
  ASSUME AccountState, AccountState', StoreInv, ServiceNext
  PROVE  StoreInv'
<1>1. StillSecrets
  <2> USE DEF StillSecrets, rows, ghosts
  <2>1. ASSUME NEW c \in Coroutines, ServiceStep(c)  PROVE StillSecrets
    BY <2>1 DEF ServiceStep, ReadRow, GetValue, ValidateNew, InsertService, DemoteOthers, CommitPrimary,
       ReadOwner, DemoteSelf, ValidateTested, MarkActive, MarkInvalid, DropService
  <2>2. ASSUME NEW c \in Coroutines, ReadFails(c) \/ ServiceRaises(c)  PROVE StillSecrets
    BY <2>2 DEF ReadFails, ServiceRaises
  <2>3. ASSUME NEW c \in Coroutines, NEW x \in Services,
               \/ TestKey(c, x) \/ TestCredential(c, x) \/ DropKey(c, x) \/ DropCredential(c, x)
               \/ \E s \in Secrets : CreateCredential(c, x, s)
               \/ \E s \in Secrets, primary \in BOOLEAN : CreateKey(c, x, s, primary)
        PROVE  StillSecrets
    BY <2>3 DEF TestKey, TestCredential, TestService, DropKey, DropCredential, DropRead,
       CreateCredential, CreateKey, CreateService
  <2>4. ASSUME NEW c \in Coroutines, NEW k \in Keys, NEW primary \in BOOLEAN, PatchRead(c, k, primary)
        PROVE  StillSecrets
    BY <2>4 DEF PatchRead
  <2>5. CASE PollStep \/ PollList
    BY <2>5 DEF PollStep, PollList, PollEnds, FetchBalance, WriteBalance, MarkExhausted, PollNext
  <2> HIDE DEF StillSecrets
  <2> QED  BY <2>1, <2>2, <2>3, <2>4, <2>5 DEF ServiceNext
<1>2. ASSUME NEW c \in Coroutines, Unconcerned(c), Ends(c)  PROVE StoreInv'
  BY <1>1, <1>2, EndsKeeps DEF GivesUp, Decides, Unconcerned
<1>3. ASSUME NEW c \in Coroutines, Unconcerned(c), NEW pc, Goto(c, pc), pc \notin StorePC \cup {"next"}
      PROVE  StoreInv'
  BY <1>1, <1>3, GotoKeeps
<1>4. ASSUME NEW c \in Coroutines, Unconcerned(c), WithoutValue(c)  PROVE StoreInv'
  BY <1>2, <1>3, <1>4 DEF WithoutValue, StorePC
<1>5. ASSUME NEW c \in Coroutines, call[c].pc \notin StorePC \cup {"client", "build"}
      PROVE  Unconcerned(c)
  BY <1>5, StageFacts
<1>6. ASSUME NEW c \in Coroutines  PROVE WithValue(call[c].op) \notin StorePC \cup {"next"}
  BY DEF WithValue, StorePC
<1>7. ASSUME NEW c \in Coroutines, ServiceStep(c)  PROVE StoreInv'
  <2>1. call[c].pc \in {"row", "get", "validate", "insert_service", "demote_others", "commit", "owner",
                        "demote_self", "mark_active", "mark_invalid", "delete_service"}
    BY <1>7 DEF ServiceStep, ReadRow, GetValue, ValidateNew, InsertService, DemoteOthers,
       CommitPrimary, ReadOwner, DemoteSelf, ValidateTested, MarkActive, MarkInvalid, DropService, At
  <2>2. Unconcerned(c)  BY <1>5, <2>1 DEF StorePC
  <2>3. CASE ReadRow(c) /\ SecretRow(Secret(c))
    <3>1. PICK h, pc :
            /\ call' = [call EXCEPT ![c].home = h, ![c].pc = pc]
            /\ pc \in {"client", WithValue(call[c].op)}
      BY <2>3 DEF ReadRow
    <3>2. Becomes(c, [call[c] EXCEPT !.home = h, !.pc = pc])  BY <3>1 DEF Becomes
    <3>3. call[c] \in CallType  BY CallFacts
    <3>4. /\ [call[c] EXCEPT !.home = h, !.pc = pc].op = call[c].op
          /\ [call[c] EXCEPT !.home = h, !.pc = pc].pc = pc
      BY <3>3 DEF CallType
    <3>5. pc \notin StorePC \cup {"next"}  BY <1>6, <3>1 DEF StorePC
    <3> QED
      BY <1>1, <2>2, <3>2, <3>4, <3>5, CalmKeeps DEF Unconcerned, Creating, Dropping, Doing
  <2>4. CASE DemoteOthers(c)
    <3>1. PICK ks : call' = [call EXCEPT ![c].pc = "commit", ![c].rows = ks]
      BY <2>4 DEF DemoteOthers
    <3>2. Becomes(c, [call[c] EXCEPT !.pc = "commit", !.rows = ks])  BY <3>1 DEF Becomes
    <3>3. call[c] \in CallType  BY CallFacts
    <3>4. /\ [call[c] EXCEPT !.pc = "commit", !.rows = ks].op = call[c].op
          /\ [call[c] EXCEPT !.pc = "commit", !.rows = ks].pc = "commit"
      BY <3>3 DEF CallType
    <3>5. "commit" \notin StorePC \cup {"next"}  BY DEF StorePC
    <3> QED
      BY <1>1, <2>2, <3>2, <3>4, <3>5, CalmKeeps DEF Unconcerned, Creating, Dropping, Doing
  <2>5. CASE WithoutValue(c) \/ Ends(c)  BY <1>2, <1>4, <2>2, <2>5
  <2>6. ASSUME NEW pc \in {"demote_others", "insert_service", "mark_active", "mark_invalid"}, Goto(c, pc)
        PROVE  StoreInv'
    BY <1>3, <2>2, <2>6 DEF StorePC
  <2>7. Goto(c, WithValue(call[c].op)) => StoreInv'  BY <1>3, <1>6, <2>2
  <2> QED
    BY <1>7, <2>3, <2>4, <2>5, <2>6, <2>7
       DEF ServiceStep, ReadRow, GetValue, ValidateNew, InsertService, CommitPrimary, ReadOwner,
           DemoteSelf, ValidateTested, MarkActive, MarkInvalid, DropService
<1>8. ASSUME NEW c \in Coroutines, ReadFails(c) \/ ServiceRaises(c)  PROVE StoreInv'
  <2>1. Unconcerned(c)
    BY <1>5, <1>8 DEF ReadFails, ServiceRaises, At, StorePC, Unconcerned, Creating, Dropping, Doing
  <2> QED  BY <1>2, <1>4, <1>8, <2>1 DEF ReadFails, ServiceRaises
<1>9. ASSUME NEW c \in Coroutines, NEW r, Begins(c, r), r.op \notin {"add_secret", "drop_secret"},
             r.pc \in {"row", "delete_service", "owner", "demote_self"}
      PROVE  StoreInv'
  <2>1. Unconcerned(c)  BY <1>5, <1>9 DEF Begins, At, StorePC
  <2>2. r.pc \notin StorePC /\ r.pc # "next"  BY <1>9 DEF StorePC
  <2> QED  BY <1>1, <1>9, <2>1, <2>2, CalmKeeps DEF Begins, Becomes
<1>10. ASSUME NEW c \in Coroutines, NEW x \in Services,
              \/ TestService(c, x) \/ DropRead(c, x)
              \/ \E s \in Secrets, p \in BOOLEAN : CreateService(c, x, s, p)
              \/ \E p \in BOOLEAN : PatchRead(c, x, p)
       PROVE  StoreInv'
  BY <1>9, <1>10 DEF TestService, DropRead, CreateService, PatchRead, Resting
<1>11. CASE PollStep \/ PollList
  <2>1. Monitor \in Coroutines  BY DEF Coroutines
  <2>2. call[Monitor].pc \in {"idle", "next", "fetch", "balance", "exhaust"} /\ StageInv(Monitor)
    BY <1>11, <2>1, StageFacts
       DEF PollStep, PollList, PollEnds, FetchBalance, WriteBalance, MarkExhausted, PollNext, At
  <2>3. Unconcerned(Monitor)  BY <1>5, <2>1, <2>2 DEF StorePC
  <2>4. CASE PollList
    <3> DEFINE r == [Resting EXCEPT !.pc = "next", !.op = "poll",
                                    !.rows = {k \in Keys : service[k].status = "active"}]
    <3>1. Becomes(Monitor, r)  BY <2>4 DEF PollList, Becomes
    <3>2. r.op = "poll" /\ r.pc = "next"  BY DEF Resting
    <3> HIDE DEF r
    <3> QED  BY <1>1, <2>1, <2>3, <3>1, <3>2, CalmKeeps DEF StorePC
  <2>5. ASSUME NEW k \in Keys, PollNext(k)  PROVE StoreInv'
    <3> DEFINE r == [call[Monitor] EXCEPT !.pc = "row", !.service = k, !.secret = service[k].secret,
                                          !.rows = call[Monitor].rows \ {k}]
    <3>1. call[Monitor] \in CallType  BY <2>1, CallFacts
    <3>2. Becomes(Monitor, r)  BY <2>1, <2>5, CallFacts DEF PollNext, Becomes
    <3>3. r.op = call[Monitor].op /\ r.pc = "row"  BY <3>1 DEF CallType
    <3> HIDE DEF r
    <3>4. r.op \notin {"add_secret", "drop_secret"}
      BY <2>3, <3>3 DEF Unconcerned, Creating, Dropping, Doing
    <3> QED  BY <1>1, <2>1, <2>3, <3>2, <3>3, <3>4, CalmKeeps DEF StorePC
  <2>6. CASE PollEnds
    <3>1. Becomes(Monitor, Resting) /\ Resting.op = "none" /\ Resting.pc = "idle"
      BY <2>6 DEF PollEnds, Becomes, Resting
    <3>2. "idle" \notin StorePC  BY DEF StorePC
    <3> QED  BY <1>1, <2>1, <2>3, <3>1, <3>2, CalmKeeps
  <2>7. CASE FetchBalance \/ WriteBalance \/ MarkExhausted
    BY <1>2, <1>3, <2>1, <2>3, <2>7 DEF FetchBalance, WriteBalance, MarkExhausted, StorePC
  <2> QED  BY <1>11, <2>4, <2>5, <2>6, <2>7 DEF PollStep
<1>12. Keys \subseteq Services  BY DEF Services
<1> QED
  BY <1>7, <1>8, <1>10, <1>11, <1>12
     DEF ServiceNext, TestKey, TestCredential, DropKey, DropCredential, CreateKey, CreateCredential

LEMMA StoreRestart ==
  ASSUME AccountState, StoreInv, Restart
  PROVE  StoreInv'
<1>1. \A c \in Coroutines : call'[c] = Resting  BY DEF Restart
<1>2. \A c \in Coroutines : StageInv(c)' /\ CreateInv(c)' /\ DropInv(c)'
  BY <1>1 DEF Resting, StageInv, CreateInv, DropInv, Creating, Dropping, Doing, At
<1>3. CreatedOnce'
  BY <1>1 DEF CreatedOnce, Creating, Doing, Resting, Coroutines
<1>4. SurvivorKeepsValue'
  BY DEF Restart, rows, StoreInv, SurvivorKeepsValue, SecretRow, InWallet
<1>5. ValueInv'
  BY DEF Restart, rows, StoreInv, ValueInv, Owned, SecretRow, InWallet
<1> QED  BY <1>2, <1>3, <1>4, <1>5 DEF StoreInv

LEMMA InitStore == Init => StoreInv
<1> SUFFICES ASSUME Init PROVE StoreInv  OBVIOUS
<1>1. \A c \in Coroutines : call[c] = Resting  BY DEF Init
<1>2. \A c \in Coroutines : StageInv(c) /\ CreateInv(c) /\ DropInv(c)
  BY <1>1 DEF Resting, StageInv, CreateInv, DropInv, Creating, Dropping, Doing, At
<1>3. CreatedOnce
  BY <1>1 DEF CreatedOnce, Creating, Doing, Resting, Coroutines
<1>4. SurvivorKeepsValue /\ ValueInv
  BY DEF Init, SurvivorKeepsValue, ValueInv, Owned
<1> QED  BY <1>2, <1>3, <1>4 DEF StoreInv

LEMMA StoreInvariant == Spec => []StoreInv
<1>1. AccountTyped /\ AccountTyped' /\ StoreInv /\ [Next]_vars => StoreInv'
  <2> SUFFICES ASSUME AccountState, AccountState', StoreInv, [Next]_vars PROVE StoreInv'
    BY DEF AccountTyped
  <2>1. CASE UNCHANGED vars
    BY <2>1 DEF vars, rows, ghosts, StoreInv, StageInv, CreateInv, DropInv, CreatedOnce, ValueInv, Owned,
       SurvivorKeepsValue, Creating, Dropping, Decides, Doing, At, Secret, Home, InVault, SecretRow, InWallet
  <2> QED  BY <2>1, StoreNextKeeps, ServiceNextKeeps, StoreRestart DEF Next
<1> QED  BY InitStore, <1>1, AccountInvariant, PTL DEF Spec

\* A secret whose row survives keeps its value in its wallet, whatever deletions,
\* creations, exceptions and restarts it competes with (BUG-38), unless the
\* database had taken the row whose insert it reported failed.
THEOREM SurvivorsKeepTheirValue == Spec => []SurvivorKeepsValue
<1>1. StoreInv => SurvivorKeepsValue  BY DEF StoreInv
<1> QED  BY <1>1, StoreInvariant, PTL

\* No value stays in the vault without a row once the calls about it are over,
\* except those that a failed removal, a lost wallet or a crash left there.
THEOREM NoValueIsOrphaned == Spec => []NoOrphanValue
<1>1. StoreInv => NoOrphanValue
  BY DEF StoreInv, ValueInv, Owned, NoOrphanValue, Deciding, Decides, Creating, Dropping, Doing
<1> QED  BY <1>1, StoreInvariant, PTL
-----------------------------------------------------------------------------
(* The active primary key.                                                 *)

Adding(c) == Doing(c, "add_service")

\* Where a call stands that writes a service: a creation or a promotion takes the
\* primary place of a key, which is not among those that it demotes.
Lawful(c, r) ==
  /\ r.op \in {"add_service", "promote", "demote"} => c \in Callers
  /\ r.op = "add_service" /\ r.primary => r.service \in Keys
  /\ r.pc = "insert_service" => r.op = "add_service"
  /\ r.pc = "demote_self" => r.op = "demote"
  /\ r.pc \in {"owner", "demote_others", "commit"} =>
       r.op \in {"add_service", "promote"} /\ r.service \in Keys \ (IF r.pc = "commit" THEN r.rows ELSE {})

\* The service that a call creates has no row yet, and no other call creates it.
AddedOnce ==
  /\ \A c \in Coroutines : Adding(c) => service[Service(c)].status = "absent"
  /\ \A c, d \in Coroutines : Adding(c) /\ Adding(d) /\ Service(c) = Service(d) => c = d

ServiceInv == AddedOnce /\ \A c \in Coroutines : Lawful(c, call[c])

\* What a step of c has to show: it gives a row at most to the service that it
\* creates, and is then over.
LEMMA ServiceInvKeeps ==
  ASSUME AccountState, ServiceInv, NEW c \in Coroutines, NEW r, Becomes(c, r), Lawful(c, r),
         \A x \in Services : service[x].status = "absent" =>
            service'[x].status = "absent" \/ (Adding(c) /\ Service(c) = x /\ r.op # "add_service"),
         r.op = "add_service" =>
            \/ Adding(c) /\ r.service = Service(c)
            \/ r.service \in Services /\ NewService(r.service)
  PROVE  ServiceInv'
<1>1. call'[c] = r /\ \A d \in Coroutines \ {c} : call'[d] = call[d]  BY BecomesFacts
<1>2. \A d \in Coroutines : Lawful(d, call'[d])  BY <1>1 DEF ServiceInv
<1>3. \A d \in Coroutines \ {c} : Adding(d)' = Adding(d) /\ Service(d)' = Service(d)
  BY <1>1 DEF Adding, Doing, Service
<1>4. (Adding(c)' <=> r.op = "add_service") /\ Service(c)' = r.service
  BY <1>1 DEF Adding, Doing, Service
<1>5. \A d \in Coroutines : Service(d) \in Services /\ (Adding(d) => d \in Callers)
  BY CallFacts DEF ServiceInv, Lawful, Adding, Doing
<1>6. \A d \in Coroutines \ {c} : Adding(d) /\ r.op = "add_service" => Service(d) # r.service
  BY <1>5 DEF ServiceInv, AddedOnce, NewService, Adding
<1>7. \A d \in Coroutines \ {c} : Adding(d) => service'[Service(d)].status = "absent"
  BY <1>5 DEF ServiceInv, AddedOnce
<1>8. r.op = "add_service" => service'[r.service].status = "absent"
  BY <1>5 DEF ServiceInv, AddedOnce, NewService
<1>9. \A d \in Coroutines : Adding(d)' => service'[Service(d)'].status = "absent"
  BY <1>3, <1>4, <1>7, <1>8
<1>10. \A d, e \in Coroutines : Adding(d)' /\ Adding(e)' /\ Service(d)' = Service(e)' => d = e
  <2>1. \A d, e \in Coroutines \ {c} : Adding(d)' /\ Adding(e)' /\ Service(d)' = Service(e)' => d = e
    BY <1>3 DEF ServiceInv, AddedOnce
  <2>2. \A d \in Coroutines \ {c} : Adding(d)' /\ Adding(c)' => Service(d)' # Service(c)'
    BY <1>3, <1>4, <1>6
  <2> QED  BY <2>1, <2>2
<1> QED  BY <1>2, <1>9, <1>10 DEF ServiceInv, AddedOnce

\* The steps that lead to no write of a service: the call ends or goes on.
ReadingPC == CallPC \ {"insert_service", "demote_self", "owner", "demote_others", "commit"}

LEMMA EndsLawful ==
  ASSUME AccountState, ServiceInv, NEW c \in Coroutines, Ends(c),
         \A x \in Services : service[x].status = "absent" =>
            service'[x].status = "absent" \/ (Adding(c) /\ Service(c) = x)
  PROVE  ServiceInv'
<1>1. Becomes(c, AfterCall(c))  BY DEF Ends, Becomes
<1>2. AfterCall(c).op \in {"none", "poll"} /\ AfterCall(c).pc \in {"idle", "next"}
  BY DEF AfterCall, Resting
<1>3. Lawful(c, AfterCall(c))  BY <1>2 DEF Lawful
<1> QED  BY <1>1, <1>2, <1>3, ServiceInvKeeps

LEMMA GotoLawful ==
  ASSUME AccountState, ServiceInv, NEW c \in Coroutines, NEW pc \in CallPC, Goto(c, pc), UNCHANGED service,
         Lawful(c, [call[c] EXCEPT !.pc = pc])
  PROVE  ServiceInv'
<1> DEFINE r == [call[c] EXCEPT !.pc = pc]
<1>1. Becomes(c, r)  BY DEF AccountState, CallsSound, Sound, Goto, Becomes
<1>2. r.op = call[c].op /\ r.service = Service(c)  BY CallFacts DEF CallType, Service
<1>3. Lawful(c, r)  OBVIOUS
<1> HIDE DEF r
<1> QED  BY <1>1, <1>2, <1>3, ServiceInvKeeps DEF Adding, Doing

LEMMA ReadingLawful ==
  ASSUME AccountState, ServiceInv, NEW c \in Coroutines, NEW pc \in ReadingPC, Goto(c, pc), UNCHANGED service
  PROVE  ServiceInv'
<1>1. Lawful(c, [call[c] EXCEPT !.pc = pc])
  BY CallFacts DEF ServiceInv, Lawful, CallType, ReadingPC
<1> QED  BY <1>1, GotoLawful DEF ReadingPC

LEMMA BeginsLawful ==
  ASSUME AccountState, ServiceInv, NEW c \in Coroutines, NEW r, Begins(c, r), UNCHANGED service,
         r.op # "add_service", r.pc \in ReadingPC, r.op \notin {"promote", "demote"}
  PROVE  ServiceInv'
<1>1. Becomes(c, r)  BY DEF Begins, Becomes
<1>2. Lawful(c, r)  BY DEF Lawful, ReadingPC
<1> QED  BY <1>1, <1>2, ServiceInvKeeps

LEMMA StoreServices ==
  ASSUME AccountState, ServiceInv, StoreNext
  PROVE  ServiceInv' /\ UNCHANGED service
<1>1. PICK c \in Coroutines :
        \/ StoreStep(c) \/ InsertSecretRaises(c) \/ VaultRaises(c) \/ StoreRaises(c)
        \/ \E w \in Wallets : RegisterWallet(c, w) \/ DropWalletRead(c, w)
        \/ \E s \in Secrets : DropSecretRead(c, s) \/ \E h \in Homes : CreateSecret(c, s, h)
  BY DEF StoreNext
<1>2. UNCHANGED service
  BY <1>1 DEF StoreStep, ProbeToken, InsertWallet, CountSecrets, DropWalletDelete, InvalidateWallet, UseWallet,
     UnknownWallet, BuildClient, PutValue, CreateValue, InsertSecretRow, UndoValue, CountReferences,
     DropSecretDelete, PurgeValue, InsertSecretRaises, VaultRaises, StoreRaises, RegisterWallet,
     DropWalletRead, DropSecretRead, CreateSecret, rows
<1>3. Ends(c) => ServiceInv'  BY <1>2, EndsLawful
<1>4. \A pc \in ReadingPC : Goto(c, pc) => ServiceInv'  BY <1>2, ReadingLawful
<1>5. WithClient(call[c].op) \in ReadingPC  BY DEF WithClient, ReadingPC, CallPC
<1>6. CASE UseWallet(c) \/ BuildClient(c)
  <2>1. Goto(c, WithClient(call[c].op)) \/ Goto(c, "build")  BY <1>6 DEF UseWallet, BuildClient
  <2> QED  BY <1>2, <1>4, <1>5, <2>1 DEF ReadingPC, CallPC
<1>7. CASE \/ StoreStep(c) /\ ~UseWallet(c) /\ ~BuildClient(c)
           \/ InsertSecretRaises(c) \/ VaultRaises(c) \/ StoreRaises(c)
  <2>1. \/ Ends(c)
        \/ \E pc \in {"insert_wallet", "delete_wallet", "invalidate", "create", "insert_secret", "undo",
                      "delete_secret", "client"} : Goto(c, pc)
    BY <1>7 DEF StoreStep, ProbeToken, InsertWallet, CountSecrets, DropWalletDelete, InvalidateWallet,
       UnknownWallet, PutValue, CreateValue, InsertSecretRow, UndoValue, CountReferences,
       DropSecretDelete, PurgeValue, InsertSecretRaises, VaultRaises, StoreRaises
  <2> QED  BY <1>2, <1>3, <1>4, <2>1 DEF ReadingPC, CallPC
<1>8. ASSUME NEW r, Begins(c, r), r.op \in {"add_wallet", "drop_wallet", "add_secret", "drop_secret"},
             r.pc \in {"probe", "count_secrets", "insert_secret", "client", "count_refs"}
      PROVE  ServiceInv'
  BY <1>2, <1>8, BeginsLawful DEF ReadingPC, CallPC
<1>9. ASSUME NEW w \in Wallets, RegisterWallet(c, w) \/ DropWalletRead(c, w)  PROVE ServiceInv'
  BY <1>8, <1>9 DEF RegisterWallet, DropWalletRead, Resting
<1>10. ASSUME NEW s \in Secrets, DropSecretRead(c, s) \/ \E h \in Homes : CreateSecret(c, s, h)
       PROVE  ServiceInv'
  BY <1>8, <1>10 DEF DropSecretRead, CreateSecret, Resting
<1> QED  BY <1>1, <1>2, <1>6, <1>7, <1>9, <1>10

\* The steps of a read of the value, which do not say what it is for.
LEMMA WithoutValueLawful ==
  ASSUME AccountState, ServiceInv, NEW c \in Coroutines, WithoutValue(c), UNCHANGED service
  PROVE  ServiceInv'
BY EndsLawful, ReadingLawful DEF WithoutValue, ReadingPC, CallPC

LEMMA ReadRowLawful ==
  ASSUME AccountState, ServiceInv, NEW c \in Coroutines, ReadRow(c)
  PROVE  ServiceInv'
<1>1. UNCHANGED service  BY DEF ReadRow, rows
<1>2. CASE ~SecretRow(Secret(c))  BY <1>1, <1>2, WithoutValueLawful DEF ReadRow
<1>3. CASE SecretRow(Secret(c))
  <2>1. PICK pc \in {"client", "fetch", "validate"} :
          pc = IF InWallet(Secret(c)) THEN "client" ELSE WithValue(call[c].op)
    BY DEF WithValue
  <2> DEFINE r == [call[c] EXCEPT !.home = secret[Secret(c)].home, !.pc = pc]
  <2>2. Becomes(c, r)
    BY <1>3, <2>1 DEF ReadRow, Becomes, AccountState, CallsSound, Sound
  <2>3. /\ r.op = call[c].op /\ r.service = Service(c) /\ r.primary = call[c].primary /\ r.pc = pc
    BY CallFacts DEF CallType, Service
  <2> HIDE DEF r
  <2>4. Lawful(c, r)  BY <2>1, <2>3 DEF ServiceInv, Lawful, Service
  <2> QED  BY <1>1, <2>2, <2>3, <2>4, ServiceInvKeeps DEF Adding, Doing
<1> QED  BY <1>2, <1>3

\* The writes of the services, each followed by the end of its call.
Writing(c) ==
  \/ InsertService(c) \/ CommitPrimary(c) \/ DemoteSelf(c) \/ MarkActive(c) \/ MarkInvalid(c) \/ DropService(c)
  \/ c = Monitor /\ MarkExhausted

LEMMA WritingLawful ==
  ASSUME AccountState, ServiceInv, NEW c \in Coroutines, Writing(c)
  PROVE  ServiceInv'
<1>1. Ends(c)
  BY DEF Writing, InsertService, CommitPrimary, DemoteSelf, MarkActive, MarkInvalid, DropService, MarkExhausted
<1>2. Lawful(c, call[c]) /\ Service(c) \in Services  BY CallFacts DEF ServiceInv
<1> SUFFICES ASSUME NEW x \in Services, service[x].status = "absent"
             PROVE  service'[x].status = "absent" \/ (Adding(c) /\ Service(c) = x)
  BY <1>1, EndsLawful
<1>3. ~ServiceRow(x) /\ service \in [Services -> [status : ServiceStatus, primary : BOOLEAN, secret : Secrets]]
  BY DEF ServiceRow, AccountState, RowsTyped
<1>4. CASE InsertService(c)
  BY <1>2, <1>3, <1>4 DEF InsertService, Lawful, At, Adding, Doing
<1>5. CASE CommitPrimary(c)
  <2>1. service' = Promoted(c) \/ service' = service  BY <1>5 DEF CommitPrimary
  <2>2. CASE service' = Promoted(c)
    <3>1. CASE x \in call[c].rows
      BY <1>3, <2>2, <3>1 DEF Promoted
    <3>2. CASE x \notin call[c].rows
      BY <1>3, <2>2, <3>2 DEF Promoted, Adding
    <3> QED  BY <3>1, <3>2
  <2> QED  BY <2>1, <2>2
<1>6. CASE DemoteSelf(c) \/ MarkActive(c)
  BY <1>2, <1>3, <1>6 DEF DemoteSelf, MarkActive
<1>7. CASE MarkInvalid(c) \/ DropService(c) \/ (c = Monitor /\ MarkExhausted)
  <2>1. PICK st \in ServiceStatus : SetStatus(Service(c), st)
    BY <1>7 DEF MarkInvalid, DropService, MarkExhausted, ServiceStatus
  <2> QED  BY <1>2, <1>3, <2>1 DEF SetStatus
<1> QED  BY <1>4, <1>5, <1>6, <1>7 DEF Writing

LEMMA ServiceServices ==
  ASSUME AccountState, ServiceInv, ServiceNext
  PROVE  ServiceInv' /\ (UNCHANGED service \/ \E c \in Coroutines : Writing(c))
<1>1. ASSUME NEW c \in Coroutines, UNCHANGED service, Ends(c) \/ WithoutValue(c)  PROVE ServiceInv'
  BY <1>1, EndsLawful, WithoutValueLawful
<1>2. ASSUME NEW c \in Coroutines, UNCHANGED service, NEW pc \in ReadingPC, Goto(c, pc)  PROVE ServiceInv'
  BY <1>2, ReadingLawful
<1>3. ASSUME NEW c \in Coroutines, ServiceStep(c)
      PROVE  ServiceInv' /\ (UNCHANGED service \/ Writing(c))
  <2>1. CASE Writing(c)  BY <2>1, WritingLawful
  <2>2. CASE ReadRow(c)  BY <2>2, ReadRowLawful DEF ReadRow, rows
  <2>3. CASE GetValue(c)
    BY <1>1, <1>2, <2>3 DEF GetValue, WithValue, ReadingPC, CallPC, rows
  <2>4. CASE ValidateNew(c)
    <3>1. UNCHANGED service  BY <2>4 DEF ValidateNew, rows
    <3>2. ASSUME NEW pc \in {"demote_others", "insert_service"}, Goto(c, pc),
                 pc = IF call[c].primary THEN "demote_others" ELSE "insert_service"
          PROVE  ServiceInv'
      <4>1. Lawful(c, [call[c] EXCEPT !.pc = pc])
        BY <2>4, <3>2, CallFacts DEF ServiceInv, Lawful, ValidateNew, Doing, CallType
      <4> QED  BY <3>1, <3>2, <4>1, GotoLawful DEF CallPC
    <3> QED  BY <1>1, <2>4, <3>1, <3>2 DEF ValidateNew
  <2>5. CASE ReadOwner(c)
    <3>1. UNCHANGED service  BY <2>5 DEF ReadOwner, rows
    <3>2. Lawful(c, [call[c] EXCEPT !.pc = "demote_others"])
      BY <2>5, CallFacts DEF ServiceInv, Lawful, ReadOwner, At, CallType
    <3> QED  BY <1>1, <2>5, <3>1, <3>2, GotoLawful DEF ReadOwner, CallPC
  <2>6. CASE DemoteOthers(c)
    <3>1. UNCHANGED service /\ At(c, "demote_others")  BY <2>6 DEF DemoteOthers, rows
    <3> DEFINE ks == {k \in Keys \ {Service(c)} : ServiceRow(k) /\ service[k].primary}
               r == [call[c] EXCEPT !.pc = "commit", !.rows = ks]
    <3>2. Becomes(c, r)
      BY <2>6 DEF DemoteOthers, Becomes, AccountState, CallsSound, Sound
    <3>3. /\ r.op = call[c].op /\ r.service = Service(c) /\ r.primary = call[c].primary
          /\ r.pc = "commit" /\ r.rows = ks
      BY CallFacts DEF CallType, Service
    <3>4. Service(c) \notin ks  OBVIOUS
    <3> HIDE DEF r, ks
    <3>5. Lawful(c, r)  BY <3>1, <3>3, <3>4 DEF ServiceInv, Lawful, At, Service
    <3> QED  BY <3>1, <3>2, <3>3, <3>5, ServiceInvKeeps DEF Adding, Doing
  <2>7. CASE ValidateTested(c)
    BY <1>2, <2>7 DEF ValidateTested, ReadingPC, CallPC, rows
  <2> QED
    BY <1>3, <2>1, <2>2, <2>3, <2>4, <2>5, <2>6, <2>7 DEF ServiceStep, Writing
<1>4. ASSUME NEW c \in Coroutines, ReadFails(c) \/ ServiceRaises(c)
      PROVE  ServiceInv' /\ UNCHANGED service
  BY <1>1, <1>4 DEF ReadFails, ServiceRaises, rows
<1>5. ASSUME NEW c \in Coroutines, NEW x \in Services, TestService(c, x) \/ DropRead(c, x)
      PROVE  ServiceInv' /\ UNCHANGED service
  <2>1. UNCHANGED service  BY <1>5 DEF TestService, DropRead, rows
  <2>2. CASE TestService(c, x)
    <3> DEFINE r == [Resting EXCEPT !.pc = "row", !.op = "test_service", !.service = x,
                                    !.secret = service[x].secret]
    <3>1. Begins(c, r)  BY <2>2 DEF TestService
    <3>2. r.op = "test_service" /\ r.pc = "row"  BY DEF Resting
    <3> HIDE DEF r
    <3> QED  BY <2>1, <3>1, <3>2, BeginsLawful DEF ReadingPC, CallPC
  <2>3. CASE DropRead(c, x)
    <3> DEFINE r == [Resting EXCEPT !.pc = "delete_service", !.op = "drop_service", !.service = x]
    <3>1. Begins(c, r)  BY <2>3 DEF DropRead
    <3>2. r.op = "drop_service" /\ r.pc = "delete_service"  BY DEF Resting
    <3> HIDE DEF r
    <3> QED  BY <2>1, <3>1, <3>2, BeginsLawful DEF ReadingPC, CallPC
  <2> QED  BY <1>5, <2>2, <2>3
<1>6. ASSUME NEW c \in Coroutines, NEW x \in Services, NEW s \in Secrets, NEW p \in BOOLEAN,
             p => x \in Keys, CreateService(c, x, s, p)
      PROVE  ServiceInv' /\ UNCHANGED service
  <2> DEFINE r == [Resting EXCEPT !.pc = "row", !.op = "add_service", !.service = x, !.secret = s,
                                  !.primary = p]
  <2>1. Begins(c, r) /\ UNCHANGED service /\ NewService(x)  BY <1>6 DEF CreateService, rows
  <2>2. r.op = "add_service" /\ r.pc = "row" /\ r.service = x /\ r.primary = p  BY DEF Resting
  <2> HIDE DEF r
  <2>3. Lawful(c, r) /\ Becomes(c, r)  BY <1>6, <2>1, <2>2 DEF Lawful, Begins, Becomes
  <2> QED  BY <2>1, <2>2, <2>3, ServiceInvKeeps
<1>7. ASSUME NEW c \in Coroutines, NEW k \in Keys, NEW p \in BOOLEAN, PatchRead(c, k, p)
      PROVE  ServiceInv' /\ UNCHANGED service
  <2> DEFINE r == [Resting EXCEPT !.pc = IF p THEN "owner" ELSE "demote_self",
                                  !.op = IF p THEN "promote" ELSE "demote", !.service = k]
  <2>1. Begins(c, r) /\ UNCHANGED service  BY <1>7 DEF PatchRead, rows
  <2>2. /\ r.op = (IF p THEN "promote" ELSE "demote") /\ r.service = k
        /\ r.pc = (IF p THEN "owner" ELSE "demote_self")
    BY DEF Resting
  <2> HIDE DEF r
  <2>3. Lawful(c, r) /\ Becomes(c, r)  BY <1>7, <2>1, <2>2 DEF Lawful, Begins, Becomes
  <2> QED  BY <2>1, <2>2, <2>3, ServiceInvKeeps
<1>8. Monitor \in Coroutines  BY DEF Coroutines
<1>9. CASE PollList \/ PollEnds
  <2>1. UNCHANGED service  BY <1>9 DEF PollList, PollEnds, rows
  <2>2. PICK r : Becomes(Monitor, r) /\ r.op \in {"none", "poll"} /\ r.pc \in {"idle", "next"}
    <3>1. CASE PollEnds
      <4>1. Becomes(Monitor, Resting)  BY <3>1 DEF PollEnds, Becomes
      <4>2. Resting.op = "none" /\ Resting.pc = "idle"  BY DEF Resting
      <4> QED  BY <4>1, <4>2
    <3>2. CASE PollList
      <4> DEFINE q == [Resting EXCEPT !.pc = "next", !.op = "poll",
                                      !.rows = {k \in Keys : service[k].status = "active"}]
      <4>1. Becomes(Monitor, q)  BY <3>2 DEF PollList, Becomes
      <4>2. q.op = "poll" /\ q.pc = "next"  BY DEF Resting
      <4> HIDE DEF q
      <4> QED  BY <4>1, <4>2
    <3> QED  BY <1>9, <3>1, <3>2
  <2>3. Lawful(Monitor, r)  BY <2>2 DEF Lawful
  <2> QED  BY <1>8, <2>1, <2>2, <2>3, ServiceInvKeeps
<1>10. ASSUME NEW k \in Keys, PollNext(k)  PROVE ServiceInv' /\ UNCHANGED service
  <2>1. UNCHANGED service /\ At(Monitor, "next")  BY <1>10 DEF PollNext, rows
  <2> DEFINE r == [call[Monitor] EXCEPT !.pc = "row", !.service = k, !.secret = service[k].secret,
                                        !.rows = call[Monitor].rows \ {k}]
  <2>2. Becomes(Monitor, r)  BY <1>8, <1>10, CallFacts DEF PollNext, Becomes
  <2>3. r.op = call[Monitor].op /\ r.pc = "row"  BY <1>8, CallFacts DEF CallType
  <2> HIDE DEF r
  <2>4. r.op \notin {"add_service", "promote", "demote"}
    BY <1>8, <2>3, AccountAssumption DEF ServiceInv, Lawful
  <2>5. Lawful(Monitor, r)  BY <2>3, <2>4 DEF Lawful
  <2> QED  BY <1>8, <2>1, <2>2, <2>4, <2>5, ServiceInvKeeps
<1>11. CASE FetchBalance \/ WriteBalance
  BY <1>1, <1>2, <1>8, <1>11 DEF FetchBalance, WriteBalance, ReadingPC, CallPC, rows
<1>12. CASE MarkExhausted
  BY <1>8, <1>12, WritingLawful DEF Writing
<1>13. Keys \subseteq Services  BY DEF Services
<1> QED
  BY <1>3, <1>4, <1>5, <1>6, <1>7, <1>9, <1>10, <1>11, <1>12, <1>13
     DEF ServiceNext, PollStep, TestKey, TestCredential, DropKey, DropCredential, CreateKey, CreateCredential

LEMMA ServiceInvariant == Spec => []ServiceInv
<1>1. Init => ServiceInv
  BY DEF Init, ServiceInv, AddedOnce, Adding, Doing, Lawful, Resting
<1>2. AccountTyped /\ ServiceInv /\ [Next]_vars => ServiceInv'
  <2> SUFFICES ASSUME AccountState, ServiceInv, [Next]_vars PROVE ServiceInv'  BY DEF AccountTyped
  <2>1. CASE Restart
    BY <2>1 DEF Restart, ServiceInv, AddedOnce, Adding, Doing, Lawful, Resting
  <2>2. CASE UNCHANGED vars
    BY <2>2 DEF vars, rows, ServiceInv, AddedOnce, Adding, Doing, Service
  <2> QED  BY <2>1, <2>2, StoreServices, ServiceServices DEF Next
<1> QED  BY <1>1, <1>2, AccountInvariant, PTL DEF Spec

\* What may end the active primary key.
KeptPrimary ==
  ActivePrimary # {} /\ ActivePrimary' = {} =>
    \/ \E k \in ActivePrimary : service'[k].status # "active"
    \/ \E c \in Callers : At(c, "demote_self") /\ Service(c) \in ActivePrimary
    \/ \E c \in Callers : At(c, "commit") /\ Doing(c, "promote") /\ service[Service(c)].status # "active"

LEMMA WritingKeepsPrimary ==
  ASSUME AccountState, ServiceInv, NEW c \in Coroutines, Writing(c)
  PROVE  KeptPrimary
<1>1. Lawful(c, call[c]) /\ Service(c) \in Services  BY CallFacts DEF ServiceInv
<1>2. service \in [Services -> [status : ServiceStatus, primary : BOOLEAN, secret : Secrets]]
  BY DEF AccountState, RowsTyped
<1>3. SUFFICES ASSUME NEW k \in ActivePrimary, ActivePrimary' = {}, \A l \in ActivePrimary : service'[l].status = "active"
               PROVE  \/ \E d \in Callers : At(d, "demote_self") /\ Service(d) \in ActivePrimary
                      \/ \E d \in Callers : At(d, "commit") /\ Doing(d, "promote")
                                            /\ service[Service(d)].status # "active"
  BY DEF KeptPrimary
<1>4. k \in Keys /\ k \in Services /\ service[k].status = "active" /\ service[k].primary
  BY DEF ActivePrimary, Services
<1>5. ~service'[k].primary  BY <1>3, <1>4 DEF ActivePrimary
<1>6. CASE InsertService(c)
  <2>1. Service(c) # k
    BY <1>1, <1>4, <1>6 DEF InsertService, Lawful, At, ServiceInv, AddedOnce, Adding, Doing
  <2>2. service'[k] = service[k]  BY <1>2, <1>4, <1>6, <2>1 DEF InsertService
  <2> QED  BY <1>4, <1>5, <2>2
<1>7. CASE CommitPrimary(c)
  <2>1. At(c, "commit") /\ service' = Promoted(c)  BY <1>4, <1>5, <1>7 DEF CommitPrimary
  <2>2. /\ call[c].op \in {"add_service", "promote"} /\ c \in Callers
        /\ Service(c) \in Keys /\ Service(c) \notin call[c].rows
    BY <1>1, <2>1 DEF Lawful, At, Service
  <2>3. CASE Doing(c, "add_service")
    <3>1. service'[Service(c)].status = "active" /\ service'[Service(c)].primary
      BY <1>1, <2>1, <2>2, <2>3 DEF Promoted
    <3> QED  BY <1>3, <2>2, <3>1 DEF ActivePrimary
  <2>4. CASE Doing(c, "promote")
    <3>1. CASE service[Service(c)].status = "active"
      <4>1. service'[Service(c)] = [service[Service(c)] EXCEPT !.primary = TRUE]
        BY <1>1, <2>1, <2>2, <2>4, <3>1 DEF Promoted, Doing, ServiceRow
      <4>2. service'[Service(c)].status = "active" /\ service'[Service(c)].primary
        BY <1>1, <1>2, <3>1, <4>1
      <4> QED  BY <1>3, <2>2, <4>2 DEF ActivePrimary
    <3>2. CASE service[Service(c)].status # "active"  BY <2>1, <2>2, <2>4, <3>2
    <3> QED  BY <3>1, <3>2
  <2> QED  BY <2>2, <2>3, <2>4 DEF Doing
<1>8. CASE DemoteSelf(c)
  <2>1. At(c, "demote_self") /\ c \in Callers  BY <1>1, <1>8 DEF DemoteSelf, Lawful, At
  <2>2. Service(c) = k
    BY <1>2, <1>4, <1>5, <1>8 DEF DemoteSelf
  <2> QED  BY <2>1, <2>2
<1>9. CASE MarkActive(c)
  <2>1. service'[k].primary = service[k].primary
    BY <1>1, <1>2, <1>4, <1>9 DEF MarkActive
  <2> QED  BY <1>4, <1>5, <2>1
<1>10. CASE MarkInvalid(c) \/ DropService(c) \/ (c = Monitor /\ MarkExhausted)
  <2>1. PICK st \in ServiceStatus : SetStatus(Service(c), st)
    BY <1>10 DEF MarkInvalid, DropService, MarkExhausted, ServiceStatus
  <2>2. service'[k].primary = service[k].primary
    BY <1>1, <1>2, <1>4, <2>1 DEF SetStatus
  <2> QED  BY <1>4, <1>5, <2>2
<1> QED  BY <1>6, <1>7, <1>8, <1>9, <1>10 DEF Writing

\* The user loses the active primary key only when it ends, when the user asked for
\* it, or made primary a key that was not active or had gone: a promotion that
\* fails, or races another one, leaves one.
THEOREM PrimaryIsKept == Spec => PrimaryKept
<1>1. AccountTyped /\ ServiceInv /\ [Next]_vars => [KeptPrimary]_vars
  <2> SUFFICES ASSUME AccountState, ServiceInv, [Next]_vars PROVE [KeptPrimary]_vars  BY DEF AccountTyped
  <2>1. UNCHANGED service => KeptPrimary  BY DEF KeptPrimary, ActivePrimary
  <2>2. CASE Restart  BY <2>1, <2>2 DEF Restart, rows
  <2> QED  BY <2>1, <2>2, StoreServices, ServiceServices, WritingKeepsPrimary DEF Next
<1> QED  BY <1>1, AccountInvariant, ServiceInvariant, PTL DEF Spec, PrimaryKept, KeptPrimary

=============================================================================
