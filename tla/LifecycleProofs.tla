-------------------------- MODULE LifecycleProofs ---------------------------
(***************************************************************************)
(* Proofs about the two ends of a gateway's life.                          *)
(*                                                                         *)
(* Startup, for any pods, users, tokens, node names and files, and however *)
(* many starts and requests: its five invariants.  Each has an inductive   *)
(* invariant of its own; what they share is that the state is well typed   *)
(* (Typed) and a few effects that every step has on the accounts           *)
(* (AccountEffect), the calls (CallEffect) and the pods (the ...Pod        *)
(* lemmas).                                                                *)
(*                                                                         *)
(* UsageWriter, for any handlers and channel capacity: its type invariant, *)
(* that a usage entry is in exactly one place, and that a clean shutdown   *)
(* leaves none behind.                                                     *)
(***************************************************************************)
EXTENDS Startup, UsageWriter, FiniteSetTheorems, SequenceTheorems, TLAPS

----------------------------------------------------------------------------
(***************************************************************************)
(* What the state of Startup looks like                                    *)
(***************************************************************************)

AccountRow == [type : {"personal", "service", "admin-service"}, grants : Nat,
               balance : BOOLEAN, event : BOOLEAN, via : Tokens \cup {NoToken}]

TokenRow == [uses : Nat, max : Nat, revoked : BOOLEAN]

KeyRow == [owner : Users \cup {NoUser}, account : Nat \cup {NoAccount}]

\* The nodes table, and what a pod may have read of it.
Listing == UNION {[d -> Node] : d \in SUBSET Names}

Pod == [pc : Phases \cup {"off", "crashed", "serving"}, file : SUBSET Names,
        listed : Listing, todo : SUBSET (Names \cup Users),
        admin : Nat \cup {NoAccount}]

Call == [pc : {"idle", "consumed", "grant", "key"}, pod : Pods \cup {NoPod},
         user : Users \cup {NoUser}, account : Nat \cup {NoAccount},
         token : Tokens \cup {NoToken}]

AccountsTyped == accounts \in Seq(AccountRow)

OwnersTyped ==
    /\ DOMAIN owner \subseteq Users /\ owner \in [DOMAIN owner -> Nat \cup {NoAccount}]
    /\ tracked \subseteq DOMAIN owner
    /\ keys \subseteq KeyRow /\ \A k \in keys : k.owner \in DOMAIN owner \cup {NoUser}

TokensTyped ==
    DOMAIN tokens \subseteq Tokens /\ tokens \in [DOMAIN tokens -> TokenRow]

PodsTyped ==
    /\ pods \in [Pods -> Pod]
    /\ \A p \in Pods : /\ pods[p].pc = "accounts" => pods[p].todo \subseteq DOMAIN owner
                       /\ pods[p].pc = "merge" => pods[p].todo \subseteq pods[p].file

\* A bonus goes to a personal account, a key to a user that exists.
CallsTyped ==
    /\ call \in [Calls -> Call]
    /\ \A c \in Calls :
         /\ call[c].pc = "consumed" => call[c].token \in DOMAIN tokens
         /\ call[c].pc = "grant" => /\ call[c].account \in AccountIds
                                    /\ accounts[call[c].account].type = "personal"
         /\ call[c].pc = "key" => /\ call[c].user \in DOMAIN owner \cup {NoUser}

\* The id that findAdminServiceAccount chooses exists.
FirstAdmin ==
    AdminServiceAccounts # {}
    => \E a \in AdminServiceAccounts : \A b \in AdminServiceAccounts : a <= b

Typed == /\ AccountsTyped /\ FirstAdmin /\ OwnersTyped /\ TokensTyped /\ PodsTyped
         /\ CallsTyped /\ nodes \in Listing

----------------------------------------------------------------------------

\* Rows and records of the right kind.
LEMMA OffTyped == Off \in Pod
  <1>1. <<>> \in [{} -> Node]  OBVIOUS
  <1>2. <<>> \in Listing  BY <1>1 DEF Listing
  <1> QED  BY <1>2 DEF Off, Pod

\* A caller between requests.
LEMMA IdleTyped == Idle \in Call
  BY DEF Idle, Call

\* A listing maps names to rows, ...
LEMMA ListingFacts ==
    ASSUME NEW table \in Listing
    PROVE  /\ DOMAIN table \subseteq Names /\ table \in [DOMAIN table -> Node]
           /\ \A n \in DOMAIN table : table[n] \in Node
  BY DEF Listing

\* ... every such function is one, ...
LEMMA ListingOf ==
    ASSUME NEW table, table \in [DOMAIN table -> Node], DOMAIN table \subseteq Names
    PROVE  table \in Listing
  BY DEF Listing

\* ... and stays one when a row is written.
LEMMA PutTyped ==
    ASSUME NEW table \in Listing, NEW n \in Names, NEW row \in Node
    PROVE  Put(table, n, row) \in Listing
  <1>1. DOMAIN table \cup {n} \subseteq Names  BY ListingFacts
  <1>2. Put(table, n, row) \in [DOMAIN table \cup {n} -> Node]
    BY ListingFacts DEF Put
  <1> QED  BY <1>1, <1>2 DEF Listing

\* What an append does to the accounts.
LEMMA Appended ==
    ASSUME AccountsTyped, NEW row \in AccountRow, accounts' = Append(accounts, row)
    PROVE  /\ AccountsTyped' /\ Len(accounts) \in Nat
           /\ AccountIds' = AccountIds \cup {Len(accounts) + 1}
           /\ Len(accounts) + 1 \notin AccountIds
           /\ accounts'[Len(accounts) + 1] = row
           /\ \A a \in AccountIds : accounts'[a] = accounts[a]
  <1>1. Len(accounts) \in Nat /\ AccountIds = 1..Len(accounts)
    BY LenProperties DEF AccountsTyped, AccountIds
  <1>2. /\ accounts' \in Seq(AccountRow) /\ Len(accounts') = Len(accounts) + 1
        /\ \A i \in 1..Len(accounts) : accounts'[i] = accounts[i]
        /\ accounts'[Len(accounts) + 1] = row
    BY AppendProperties DEF AccountsTyped
  <1>3. AccountIds' = 1..(Len(accounts) + 1)
    BY <1>2, LenProperties DEF AccountIds
  <1> QED  BY <1>1, <1>2, <1>3 DEF AccountsTyped

\* The accounts have the ids 1 to their number.
LEMMA AccountFacts ==
    ASSUME AccountsTyped
    PROVE  /\ Len(accounts) \in Nat /\ AccountIds = 1..Len(accounts)
           /\ \A a \in AccountIds : accounts[a] \in AccountRow /\ a \in Nat
  <1>1. Len(accounts) \in Nat /\ AccountIds = 1..Len(accounts)
    BY LenProperties DEF AccountsTyped, AccountIds
  <1>2. \A a \in 1..Len(accounts) : accounts[a] \in AccountRow
    BY <1>1, ElementOfSeq DEF AccountsTyped
  <1> QED  BY <1>1, <1>2

\* What a statement that writes columns of every row does.
LEMMA Rewritten ==
    ASSUME AccountsTyped, DOMAIN accounts' = AccountIds,
           accounts' = [a \in AccountIds |-> accounts'[a]],
           \A a \in AccountIds : accounts'[a] \in AccountRow
    PROVE  AccountsTyped' /\ AccountIds' = AccountIds
  <1>1. Len(accounts) \in Nat /\ AccountIds = 1..Len(accounts)
    BY AccountFacts
  <1>2. accounts' \in [1..Len(accounts) -> AccountRow]  BY <1>1
  <1>3. accounts' \in Seq(AccountRow)  BY <1>1, <1>2, SeqDef
  <1> QED  BY <1>3 DEF AccountsTyped, AccountIds

----------------------------------------------------------------------------
(***************************************************************************)
(* What a step does to the accounts                                        *)
(***************************************************************************)

\* No row is added; rows keep what they are and have, and only a personal
\* account may be given credits.
Kept ==
    /\ AccountIds' = AccountIds
    /\ \A a \in AccountIds :
         /\ accounts'[a].type = accounts[a].type /\ accounts'[a].via = accounts[a].via
         /\ accounts[a].balance => accounts'[a].balance
         /\ accounts[a].event => accounts'[a].event
         /\ accounts'[a].grants = accounts[a].grants \/ accounts[a].type = "personal"

Adds(row) == row \in AccountRow /\ accounts' = Append(accounts, row)

\* A backfill adds an account without a balance row, ...
Backfills == \E p \in Pods :
    /\ pods[p].pc = "accounts" /\ pods'[p].pc \in {"accounts", "find"}
    /\ Adds(Account("personal", 0, FALSE, FALSE, NoToken))

\* ... a registration one with it, ...
Registers == Adds(Account("personal", 0, TRUE, FALSE, NoToken))

\* ... EnsureAdminServiceAccount one if it finds none, ...
Ensures == /\ findAdminServiceAccount = NoAccount
           /\ Adds(Account("admin-service", 1, TRUE, TRUE, NoToken))

\* ... and a consumed token makes one of any name.
Redeems == \E c \in Calls : \E type \in {"service", "admin-service"} :
    /\ call[c].pc = "consumed" /\ call' = [call EXCEPT ![c] = Idle]
    /\ tokens' = [tokens EXCEPT ![call[c].token].uses = @ + 1]
    /\ Adds(Account(type, 1, TRUE, TRUE, call[c].token))

\* Tokens are created and revoked, their uses stay.
TokensKept ==
    /\ DOMAIN tokens \subseteq DOMAIN tokens'
    /\ \A t \in DOMAIN tokens : /\ tokens'[t].uses = tokens[t].uses
                               /\ tokens'[t].max = tokens[t].max
    /\ \A t \in DOMAIN tokens' \ DOMAIN tokens : /\ tokens'[t].uses = 0
                                                 /\ tokens'[t].max = MaxUses

AccountEffect == \/ (Kept \/ Backfills \/ Registers \/ Ensures) /\ TokensKept
                 \/ Redeems

\* Every account made by the code is a row.
LEMMA MadeTyped ==
    /\ \A type \in {"personal", "service", "admin-service"} :
       \A n \in {0, 1}, b, e \in BOOLEAN, t \in Tokens \cup {NoToken} :
         Account(type, n, b, e, t) \in AccountRow
  BY DEF Account, AccountRow

\* EnsureAdminServiceAccount finds an account or makes one.
LEMMA EnsureEffect ==
    ASSUME Typed, EnsureAdminServiceAccount(1)
    PROVE  AccountsTyped' /\ (Kept \/ Ensures)
  <1>1. CASE accounts' = accounts
    BY <1>1 DEF Typed, AccountsTyped, Kept, AccountIds
  <1>2. CASE /\ findAdminServiceAccount = NoAccount
             /\ accounts' = Append(accounts, Account("admin-service", 1, TRUE, TRUE, NoToken))
    BY <1>2, MadeTyped, Appended DEF Typed, Ensures, Adds
  <1> QED  BY <1>1, <1>2 DEF EnsureAdminServiceAccount

\* What each pod and each call does.
LEMMA PodAccounts ==
    ASSUME Typed, NEW p \in Pods, PodStep(p)
    PROVE  AccountsTyped' /\ (Kept \/ Backfills \/ Ensures) /\ tokens' = tokens
  <1>0. AccountsTyped  BY DEF Typed
  <1>1. CASE BackfillUser(p)
    <2>1. /\ accounts' = Append(accounts, Account("personal", 0, FALSE, FALSE, NoToken))
          /\ tokens' = tokens /\ pods[p].pc = "accounts"
      BY <1>1 DEF BackfillUser, BackfillAccount
    <2>2. pods'[p].pc \in {"accounts", "find"}
      BY <1>1 DEF BackfillUser, Loop, Goto, Typed, PodsTyped, Pod
    <2> QED  BY <1>0, <2>1, <2>2, MadeTyped, Appended DEF Backfills, Adds
  <1>2. CASE EnsureAdmin(p)  BY <1>2, EnsureEffect DEF EnsureAdmin
  <1>3. CASE CreateBalances(p)
    <2>1. accounts' = [a \in AccountIds |-> [accounts[a] EXCEPT !.balance = TRUE]]
      BY <1>3 DEF CreateBalances, BackfillCreditBalances
    <2>2. \A a \in AccountIds : accounts[a] \in AccountRow  BY <1>0, AccountFacts
    <2>3. \A a \in AccountIds : /\ accounts'[a] \in AccountRow
                                /\ accounts'[a].type = accounts[a].type
                                /\ accounts'[a].via = accounts[a].via
                                /\ accounts'[a].grants = accounts[a].grants
                                /\ accounts'[a].event = accounts[a].event
                                /\ accounts'[a].balance
      BY <2>1, <2>2 DEF AccountRow
    <2>4. AccountsTyped' /\ AccountIds' = AccountIds  BY <1>0, <2>1, <2>3, Rewritten
    <2> QED  BY <1>3, <2>3, <2>4 DEF CreateBalances, Kept
  <1>4. CASE RecordEvents(p)
    <2>1. accounts' = [a \in AccountIds |->
                      [accounts[a] EXCEPT !.event = @ \/ accounts[a].type # "personal"]]
      BY <1>4 DEF RecordEvents, BackfillRegistrationEvents
    <2>2. \A a \in AccountIds : accounts[a] \in AccountRow  BY <1>0, AccountFacts
    <2>3. \A a \in AccountIds : /\ accounts'[a] \in AccountRow
                                /\ accounts'[a].type = accounts[a].type
                                /\ accounts'[a].via = accounts[a].via
                                /\ accounts'[a].grants = accounts[a].grants
                                /\ accounts[a].event => accounts'[a].event
                                /\ accounts'[a].balance = accounts[a].balance
      BY <2>1, <2>2 DEF AccountRow
    <2>4. AccountsTyped' /\ AccountIds' = AccountIds  BY <1>0, <2>1, <2>3, Rewritten
    <2> QED  BY <1>4, <2>3, <2>4 DEF RecordEvents, Kept
  <1>5. CASE UNCHANGED <<accounts, tokens>>
    BY <1>0, <1>5 DEF AccountsTyped, Kept, AccountIds
  <1>6. \/ Boot(p) \/ Crash(p) \/ Stop(p) \/ ListNodes(p) \/ MergeNode(p)
        \/ DisableUndeclared(p) \/ ListUsers(p) \/ FindAdmin(p) \/ AttachKeys(p)
        => UNCHANGED <<accounts, tokens>>
    BY DEF Boot, Crash, Stop, ListNodes, MergeNode, DisableUndeclared, ListUsers,
           FindAdmin, AttachKeys, acctVars
  <1> QED  BY <1>1, <1>2, <1>3, <1>4, <1>5, <1>6 DEF PodStep

\* A request keeps the accounts, or registers, ensures or redeems one.
LEMMA CallAccounts ==
    ASSUME Typed, NEW c \in Calls, CallStep(c)
    PROVE  AccountsTyped' /\ AccountEffect
  <1>0. AccountsTyped /\ TokensTyped  BY DEF Typed
  <1>e. tokens' = tokens => TokensKept  BY DEF TokensKept
  <1>u. accounts' = accounts => AccountsTyped' /\ Kept
    BY <1>0 DEF AccountsTyped, Kept, AccountIds
  <1>1. ASSUME NEW p \in Pods, NEW t \in Tokens, createRegistrationToken(c, p, t)
        PROVE  AccountsTyped' /\ AccountEffect
    <2>1. /\ t \notin DOMAIN tokens /\ accounts' = accounts
          /\ tokens' = [s \in DOMAIN tokens \cup {t} |->
                          IF s = t THEN NewToken(MaxUses) ELSE tokens[s]]
      BY <1>1 DEF createRegistrationToken, CreateRegistrationToken
    <2>2. TokensKept  BY <2>1 DEF TokensKept, NewToken
    <2> QED  BY <1>u, <2>1, <2>2 DEF AccountEffect
  <1>2. ASSUME NEW p \in Pods, NEW t \in Tokens, revokeRegistrationToken(c, p, t)
        PROVE  AccountsTyped' /\ AccountEffect
    <2>1. /\ t \in DOMAIN tokens /\ accounts' = accounts
          /\ tokens' = [tokens EXCEPT ![t].revoked = TRUE]
      BY <1>2 DEF revokeRegistrationToken, RevokeRegistrationToken
    <2>2. TokensKept  BY <1>0, <2>1 DEF TokensKept, TokensTyped, TokenRow
    <2> QED  BY <1>u, <2>1, <2>2 DEF AccountEffect
  <1>3. CASE registerServiceAccount(c)
    <2>1. PICK type \in {"service", "admin-service"} :
             RegisterServiceAccount(call[c].token, type)
      BY <1>3 DEF registerServiceAccount
    <2>2. call[c].pc = "consumed" /\ call' = [call EXCEPT ![c] = Idle]
      BY <1>3 DEF registerServiceAccount, End
    <2>3. call[c].token \in Tokens \cup {NoToken}
      BY DEF Typed, CallsTyped, Call
    <2>4. /\ accounts' = Append(accounts, Account(type, 1, TRUE, TRUE, call[c].token))
          /\ tokens' = [tokens EXCEPT ![call[c].token].uses = @ + 1]
      BY <2>1 DEF RegisterServiceAccount
    <2>5. Account(type, 1, TRUE, TRUE, call[c].token) \in AccountRow
      BY <2>3, MadeTyped
    <2>6. AccountsTyped'  BY <1>0, <2>4, <2>5, Appended
    <2> QED  BY <2>2, <2>4, <2>5, <2>6 DEF AccountEffect, Redeems, Adds
  <1>4. ASSUME NEW p \in Pods, NEW u \in Users, register(c, p, u) \/ CreateAdminBootstrap(c, p, u)
        PROVE  AccountsTyped' /\ AccountEffect
    <2>1. /\ accounts' = Append(accounts, Account("personal", 0, TRUE, FALSE, NoToken))
          /\ tokens' = tokens
      BY <1>4 DEF register, CreateAdminBootstrap, RegisterUser
    <2> QED  BY <1>0, <1>e, <2>1, MadeTyped, Appended DEF AccountEffect, Registers, Adds
  <1>5. ASSUME grantDefault(c), accounts' # accounts
        PROVE  AccountsTyped' /\ AccountEffect
    <2> DEFINE a == call[c].account
    <2>1. /\ a \in AccountIds /\ accounts[a].type = "personal"
      BY <1>5 DEF grantDefault, Typed, CallsTyped
    <2>2. accounts' = [accounts EXCEPT ![a].grants = @ + 1] /\ tokens' = tokens
      BY <1>5 DEF grantDefault, GrantDefault, acctVars
    <2>3. accounts[a] \in AccountRow /\ accounts[a].grants + 1 \in Nat
      BY <1>0, <2>1, AccountFacts DEF AccountRow
    <2>4. /\ accounts'[a] \in AccountRow
          /\ accounts'[a].type = accounts[a].type /\ accounts'[a].via = accounts[a].via
          /\ accounts'[a].balance = accounts[a].balance
          /\ accounts'[a].event = accounts[a].event
      BY <2>1, <2>2, <2>3 DEF AccountRow, AccountIds
    <2>5. DOMAIN accounts' = AccountIds /\ accounts' = [b \in AccountIds |-> accounts'[b]]
      BY <2>2 DEF AccountIds
    <2>6. \A b \in AccountIds : b # a => accounts'[b] = accounts[b]
      BY <2>2 DEF AccountIds
    <2>7. \A b \in AccountIds : accounts'[b] \in AccountRow
      BY <1>0, <2>4, <2>6, AccountFacts
    <2>8. AccountsTyped' /\ AccountIds' = AccountIds
      BY <1>0, <2>5, <2>7, Rewritten
    <2>9. Kept  BY <2>1, <2>4, <2>6, <2>8 DEF Kept
    <2> QED  BY <1>e, <2>2, <2>8, <2>9 DEF AccountEffect
  <1>6. ASSUME NEW p \in Pods, adminKey(c, p)
        PROVE  AccountsTyped' /\ AccountEffect
    BY <1>e, <1>6, EnsureEffect DEF adminKey, AccountEffect
  <1>7. CASE UNCHANGED <<accounts, tokens>>
    BY <1>e, <1>u, <1>7 DEF AccountEffect
  <1>8. ASSUME NEW p \in Pods
        PROVE  /\ \A t \in Tokens : ConsumeToken(c, p, t) => UNCHANGED <<accounts, tokens>>
               /\ \A u \in Users : userKey(c, p, u) => UNCHANGED <<accounts, tokens>>
               /\ createAccountKey(c, p) => UNCHANGED <<accounts, tokens>>
               /\ adminNode(c, p) => UNCHANGED <<accounts, tokens>>
    BY DEF ConsumeToken, userKey, createAccountKey, adminNode, acctVars
  <1>9. /\ RollbackRegistration(c) => UNCHANGED <<accounts, tokens>>
        /\ createKey(c) => UNCHANGED <<accounts, tokens>>
        /\ grantDefault(c) /\ accounts' = accounts => UNCHANGED <<accounts, tokens>>
    BY DEF RollbackRegistration, createKey, CreateKey, grantDefault, GrantDefault, acctVars
  <1> QED
    BY <1>1, <1>2, <1>3, <1>4, <1>5, <1>6, <1>7, <1>8, <1>9 DEF CallStep

\* Every step is one of these.
LEMMA AccountStep ==
    ASSUME Typed, [Next]_vars
    PROVE  AccountsTyped' /\ AccountEffect
  <1>1. ASSUME NEW p \in Pods, PodStep(p) PROVE AccountsTyped' /\ AccountEffect
    <2>1. tokens' = tokens => TokensKept  BY DEF TokensKept
    <2> QED  BY <1>1, <2>1, PodAccounts DEF AccountEffect
  <1>2. CASE UNCHANGED vars
    <2>1. accounts' = accounts /\ tokens' = tokens  BY <1>2 DEF vars, acctVars
    <2> QED  BY <2>1 DEF Typed, AccountsTyped, AccountEffect, Kept, TokensKept, AccountIds
  <1> QED  BY <1>1, <1>2, CallAccounts DEF Next

----------------------------------------------------------------------------
(***************************************************************************)
(* The tables, pods and calls stay well typed                              *)
(***************************************************************************)

\* The admin service accounts after a step.
LEMMA AdminsAfter ==
    ASSUME AccountsTyped
    PROVE  /\ Kept => AdminServiceAccounts' = AdminServiceAccounts
           /\ \A row \in AccountRow : Adds(row) =>
                AdminServiceAccounts' = AdminServiceAccounts
                  \cup (IF row.type = "admin-service" THEN {Len(accounts) + 1} ELSE {})
  <1>1. Kept => AdminServiceAccounts' = AdminServiceAccounts
    BY DEF Kept, AdminServiceAccounts
  <1>2. ASSUME NEW row \in AccountRow, Adds(row)
        PROVE  AdminServiceAccounts' = AdminServiceAccounts
                  \cup (IF row.type = "admin-service" THEN {Len(accounts) + 1} ELSE {})
    <2>1. /\ AccountIds' = AccountIds \cup {Len(accounts) + 1}
          /\ Len(accounts) + 1 \notin AccountIds
          /\ accounts'[Len(accounts) + 1] = row
          /\ \A a \in AccountIds : accounts'[a] = accounts[a]
      BY <1>2, Appended DEF Adds
    <2> QED  BY <2>1 DEF AdminServiceAccounts
  <1> QED  BY <1>1, <1>2

\* Admin service accounts always have a smallest id.
LEMMA FirstAdminStep ==
    ASSUME Typed, AccountEffect
    PROVE  FirstAdmin'
  <1>0. AccountsTyped /\ FirstAdmin  BY DEF Typed
  <1>1. CASE Kept  BY <1>0, <1>1, AdminsAfter DEF FirstAdmin
  <1>2. ASSUME NEW row \in AccountRow, Adds(row) PROVE FirstAdmin'
    <2>1. Len(accounts) \in Nat /\ \A a \in AdminServiceAccounts : a \in 1..Len(accounts)
      BY <1>0, AccountFacts DEF AdminServiceAccounts
    <2> DEFINE A == AdminServiceAccounts
               n == Len(accounts)
    <2>2. AdminServiceAccounts' \in {A, A \cup {n + 1}}  BY <1>0, <1>2, AdminsAfter
    <2>3. CASE AdminServiceAccounts' = A  BY <1>0, <2>3 DEF FirstAdmin
    <2>4. CASE AdminServiceAccounts' = A \cup {n + 1}
      <3>1. CASE A = {}  BY <2>1, <2>4, <3>1 DEF FirstAdmin
      <3>2. CASE A # {}
        <4>1. PICK a \in A : \A b \in A : a <= b  BY <1>0, <3>2 DEF FirstAdmin
        <4>2. a <= n + 1  BY <2>1
        <4> QED  BY <2>4, <4>1, <4>2 DEF FirstAdmin
      <3> QED  BY <3>1, <3>2
    <2> QED  BY <2>2, <2>3, <2>4
  <1> QED
    BY <1>1, <1>2 DEF AccountEffect, Backfills, Registers, Ensures, Redeems, Adds

\* findAdminServiceAccount finds the first one, if there is one.
LEMMA Finds ==
    ASSUME Typed
    PROVE  /\ AdminServiceAccounts = {} <=> findAdminServiceAccount = NoAccount
           /\ findAdminServiceAccount # NoAccount =>
                /\ findAdminServiceAccount \in AdminServiceAccounts
                /\ \A b \in AdminServiceAccounts : findAdminServiceAccount <= b
  <1>0. AccountsTyped /\ FirstAdmin  BY DEF Typed
  <1>1. \A a \in AdminServiceAccounts : a \in Nat
    BY <1>0, AccountFacts DEF AdminServiceAccounts
  <1>2. CASE AdminServiceAccounts = {}
    BY <1>2 DEF findAdminServiceAccount
  <1>3. CASE AdminServiceAccounts # {}
    <2>1. /\ findAdminServiceAccount \in AdminServiceAccounts
          /\ \A b \in AdminServiceAccounts : findAdminServiceAccount <= b
      BY <1>0, <1>3 DEF findAdminServiceAccount, FirstAdmin
    <2> QED  BY <1>1, <1>3, <2>1, NullAssumption
  <1> QED  BY <1>2, <1>3

\* EnsureAdminServiceAccount returns the first one there is afterwards.
LEMMA EnsuredFacts ==
    ASSUME Typed, EnsureAdminServiceAccount(1)
    PROVE  /\ EnsuredId \in AdminServiceAccounts' /\ EnsuredId \in AccountIds'
           /\ EnsuredId \in Nat /\ EnsuredId # NoAccount
           /\ findAdminServiceAccount # NoAccount => EnsuredId = findAdminServiceAccount
           /\ findAdminServiceAccount = NoAccount
                => AdminServiceAccounts' = {EnsuredId} /\ Ensures /\ EnsuredId = Len(accounts) + 1
  <1>0. AccountsTyped /\ AccountsTyped'  BY EnsureEffect DEF Typed
  <1>1. CASE findAdminServiceAccount # NoAccount
    <2>1. accounts' = accounts /\ EnsuredId = findAdminServiceAccount
      BY <1>1 DEF EnsureAdminServiceAccount, EnsuredId
    <2>2. EnsuredId \in AdminServiceAccounts  BY <1>1, <2>1, Finds
    <2>3. EnsuredId \in AccountIds /\ EnsuredId \in Nat
      BY <1>0, <2>2, AccountFacts DEF AdminServiceAccounts
    <2> QED
      BY <1>1, <2>1, <2>2, <2>3, NullAssumption DEF AdminServiceAccounts, AccountIds
  <1>2. CASE findAdminServiceAccount = NoAccount
    <2> DEFINE row == Account("admin-service", 1, TRUE, TRUE, NoToken)
    <2>1. row \in AccountRow /\ row.type = "admin-service"  BY MadeTyped DEF Account
    <2>2. Adds(row) /\ Ensures
      BY <1>2, <2>1 DEF EnsureAdminServiceAccount, Adds, Ensures
    <2>3. EnsuredId = Len(accounts) + 1  BY <1>2 DEF EnsuredId
    <2>4. AdminServiceAccounts = {}  BY <1>2, Finds
    <2>5. AdminServiceAccounts' = {EnsuredId}
      BY <1>0, <2>1, <2>2, <2>3, <2>4, AdminsAfter
    <2>6. EnsuredId \in Nat /\ EnsuredId \in AccountIds'
      BY <1>0, <2>3, <2>5, AccountFacts DEF AdminServiceAccounts
    <2> QED  BY <1>2, <2>2, <2>3, <2>5, <2>6, NullAssumption
  <1> QED  BY <1>1, <1>2

\* A call that begins in this step, on a pod that serves: with a token nobody
\* else has consumed, with a user it has made, or with an account for a key.
Enters(c) ==
    /\ \A d \in Calls : d # c => call'[d] = call[d]
    /\ Serving # {} /\ pods' = pods
    /\ call'[c] \in Call
    /\ LET k == call'[c]
       IN  \/ /\ k.pc = "consumed" /\ k.token \in DOMAIN tokens
              /\ TokenFree(k.token) /\ TokenValid(k.token) /\ UNCHANGED acctVars
           \/ k.pc = "grant" /\ k.account = Len(accounts) + 1 /\ Registers
           \/ /\ k.pc = "key" /\ k.user \in DOMAIN owner /\ k.account = owner[k.user]
              /\ UNCHANGED acctVars
           \/ k.pc = "key" /\ k.user = NoUser /\ k.account \in AccountIds'

CallEffect ==
    /\ call' \in [Calls -> Call]
    /\ \A c \in Calls : call'[c] = call[c] \/ call'[c] = Idle \/ Enters(c)

\* The request a caller enters.
LEMMA EnterEffect ==
    ASSUME Typed, NEW c \in Calls, NEW p \in Pods, NEW pc \in {"consumed", "grant", "key"},
           NEW u \in Users \cup {NoUser}, NEW a \in Nat \cup {NoAccount},
           NEW t \in Tokens \cup {NoToken}, Enter(c, p, pc, u, a, t)
    PROVE  /\ call' \in [Calls -> Call] /\ \A d \in Calls : d # c => call'[d] = call[d]
           /\ call'[c] \in Call
           /\ call'[c].pc = pc /\ call'[c].user = u /\ call'[c].account = a
           /\ call'[c].token = t
  BY DEF Typed, CallsTyped, Enter, Call

\* A step of a caller lets it enter, end or stay in its request.
LEMMA CallsMove ==
    ASSUME Typed, NEW c \in Calls, CallStep(c)
    PROVE  CallEffect
  <1>0. call \in [Calls -> Call] /\ AccountsTyped  BY DEF Typed, CallsTyped
  <1>u. call' = call => CallEffect  BY <1>0 DEF CallEffect
  <1>i. End(c) => CallEffect
    BY <1>0, IdleTyped DEF End, CallEffect
  <1>e. ASSUME call' \in [Calls -> Call], Enters(c) PROVE CallEffect
    BY <1>e DEF CallEffect, Enters
  <1>1. ASSUME NEW p \in Pods, NEW t \in Tokens, ConsumeToken(c, p, t) PROVE CallEffect
    <2>n. /\ Enter(c, p, "consumed", NoUser, NoAccount, t)
          /\ NoUser \in Users \cup {NoUser} /\ NoAccount \in Nat \cup {NoAccount}
          /\ t \in Tokens \cup {NoToken}
      BY <1>1 DEF ConsumeToken
    <2>1. /\ UNCHANGED acctVars
          /\ t \in DOMAIN tokens /\ TokenFree(t) /\ TokenValid(t)
          /\ Serving # {} /\ pods' = pods
      BY <1>1 DEF ConsumeToken, Arrive
    <2>e. /\ call' \in [Calls -> Call] /\ \A d \in Calls : d # c => call'[d] = call[d]
          /\ call'[c] \in Call /\ call'[c].pc = "consumed" /\ call'[c].user = NoUser
          /\ call'[c].account = NoAccount /\ call'[c].token = t
      BY <1>0, <2>n DEF Enter, Call
    <2>f. Enters(c)  BY <2>1, <2>e DEF Enters
    <2> QED  BY <1>e, <2>e, <2>f
  <1>2. ASSUME NEW p \in Pods, NEW u \in Users, register(c, p, u) PROVE CallEffect
    <2>1. /\ Enter(c, p, "grant", u, Len(accounts) + 1, NoToken)
          /\ Serving # {} /\ pods' = pods
          /\ accounts' = Append(accounts, Account("personal", 0, TRUE, FALSE, NoToken))
      BY <1>2 DEF register, RegisterUser, Arrive
    <2>2. Registers  BY <2>1, MadeTyped DEF Registers, Adds
    <2>3. Len(accounts) + 1 \in Nat  BY <1>0, AccountFacts
    <2> QED  BY <1>e, <2>1, <2>2, <2>3, EnterEffect DEF Enters
  <1>3. ASSUME NEW p \in Pods, NEW u \in Users, userKey(c, p, u) PROVE CallEffect
    <2>1. /\ Enter(c, p, "key", u, owner[u], NoToken) /\ UNCHANGED acctVars
          /\ u \in DOMAIN owner /\ Serving # {} /\ pods' = pods
      BY <1>3 DEF userKey, Arrive
    <2>2. owner[u] \in Nat \cup {NoAccount}  BY <2>1 DEF Typed, OwnersTyped
    <2> QED  BY <1>e, <2>1, <2>2, EnterEffect DEF Enters
  <1>4. ASSUME NEW p \in Pods, adminKey(c, p) PROVE CallEffect
    <2>1. /\ Enter(c, p, "key", NoUser, EnsuredId, NoToken)
          /\ EnsureAdminServiceAccount(1) /\ Serving # {} /\ pods' = pods
      BY <1>4 DEF adminKey, Arrive
    <2>2. EnsuredId \in Nat /\ EnsuredId \in AccountIds'  BY <2>1, EnsuredFacts
    <2>e. /\ call' \in [Calls -> Call] /\ \A d \in Calls : d # c => call'[d] = call[d]
          /\ call'[c] \in Call /\ call'[c].pc = "key" /\ call'[c].user = NoUser
          /\ call'[c].account = EnsuredId /\ call'[c].token = NoToken
      BY <2>1, <2>2, EnterEffect
    <2>f. Enters(c)  BY <2>1, <2>2, <2>e DEF Enters
    <2> QED  BY <1>e, <2>e, <2>f
  <1>5. ASSUME NEW p \in Pods, createAccountKey(c, p) PROVE CallEffect
    <2>1. PICK a \in AccountIds : Enter(c, p, "key", NoUser, a, NoToken)
      BY <1>5 DEF createAccountKey
    <2>2. Serving # {} /\ pods' = pods /\ accounts' = accounts
      BY <1>5 DEF createAccountKey, Arrive, acctVars
    <2>3. a \in Nat /\ a \in AccountIds'  BY <1>0, <2>2, AccountFacts DEF AccountIds
    <2>e. /\ call' \in [Calls -> Call] /\ \A d \in Calls : d # c => call'[d] = call[d]
          /\ call'[c] \in Call /\ call'[c].pc = "key" /\ call'[c].user = NoUser
          /\ call'[c].account = a /\ call'[c].token = NoToken
      BY <2>1, <2>2, <2>3, EnterEffect
    <2>f. Enters(c)  BY <2>1, <2>2, <2>3, <2>e DEF Enters
    <2> QED  BY <1>e, <2>e, <2>f
  <1>6. \/ registerServiceAccount(c) \/ RollbackRegistration(c) \/ grantDefault(c)
        \/ createKey(c)
        => End(c)
    BY DEF registerServiceAccount, RollbackRegistration, grantDefault, createKey
  <1>7. ASSUME NEW p \in Pods
        PROVE  /\ \A t \in Tokens : createRegistrationToken(c, p, t) => call' = call
               /\ \A t \in Tokens : revokeRegistrationToken(c, p, t) => call' = call
               /\ \A u \in Users : CreateAdminBootstrap(c, p, u) => call' = call
               /\ adminNode(c, p) => call' = call
    BY DEF createRegistrationToken, revokeRegistrationToken, CreateAdminBootstrap, adminNode
  <1> QED
    BY <1>u, <1>i, <1>1, <1>2, <1>3, <1>4, <1>5, <1>6, <1>7 DEF CallStep

\* So does every step; a pod that stops ends those it served.
LEMMA CallsStep ==
    ASSUME Typed, [Next]_vars
    PROVE  CallEffect
  <1>0. call \in [Calls -> Call]  BY DEF Typed, CallsTyped
  <1>1. ASSUME NEW p \in Pods, Stop(p) PROVE CallEffect
    <2>1. call' = [c \in Calls |-> IF call[c].pod = p THEN Idle ELSE call[c]]
      BY <1>1 DEF Stop
    <2> QED  BY <1>0, <2>1, IdleTyped DEF CallEffect
  <1>2. ASSUME NEW p \in Pods, PodStep(p), ~Stop(p) PROVE call' = call
    BY <1>2 DEF PodStep, Boot, Crash, ListNodes, MergeNode, DisableUndeclared,
                ListUsers, BackfillUser, FindAdmin, EnsureAdmin, AttachKeys,
                CreateBalances, RecordEvents
  <1>3. UNCHANGED vars => call' = call  BY DEF vars, ctlVars
  <1>4. CASE call' = call  BY <1>0, <1>4 DEF CallEffect
  <1> QED  BY <1>1, <1>2, <1>3, <1>4, CallsMove DEF Next

\* No user loses its account.
NobodyLoses ==
    /\ DOMAIN owner \subseteq DOMAIN owner'
    /\ \A u \in DOMAIN owner' : \/ owner'[u] \in Nat
                                \/ u \in DOMAIN owner /\ owner'[u] = owner[u]

\* What a backfill does to users and keys.
LEMMA BackfillKeys ==
    ASSUME Typed, NEW u \in DOMAIN owner, BackfillAccount(u)
    PROVE  /\ Len(accounts) + 1 \in Nat
           /\ owner' = [owner EXCEPT ![u] = Len(accounts) + 1]
           /\ keys' \subseteq KeyRow
           /\ \A k \in keys' :
                \/ k \in keys /\ ~(k.owner = u /\ k.account = NoAccount)
                \/ k.owner = u /\ k.account = Len(accounts) + 1
  <1>1. Len(accounts) + 1 \in Nat  BY AccountFacts DEF Typed
  <1>2. keys \subseteq KeyRow  BY DEF Typed, OwnersTyped
  <1>3. \A k \in keys : k.owner = u => /\ [k EXCEPT !.account = Len(accounts) + 1] \in KeyRow
                                       /\ [k EXCEPT !.account = Len(accounts) + 1].owner = u
                                       /\ [k EXCEPT !.account = Len(accounts) + 1].account
                                            = Len(accounts) + 1
    BY <1>1, <1>2 DEF KeyRow
  <1>4. keys' = {[k EXCEPT !.account = Len(accounts) + 1] : k \in Unattached({u})}
                \cup (keys \ Unattached({u}))
    BY DEF BackfillAccount, Attach
  <1> QED  BY <1>1, <1>2, <1>3, <1>4 DEF BackfillAccount, Unattached

\* What the backfill of keys does.
LEMMA AttachedKeys ==
    ASSUME Typed, NEW admin \in Nat \cup {NoAccount}, BackfillAdminKeyAccounts(admin)
    PROVE  \A j \in keys' : \E k \in keys :
             /\ j \in KeyRow /\ j.owner = k.owner
             /\ k.account # NoAccount => j = k
             /\ k.account = NoAccount => IF k.owner \in Billed THEN j.account = owner[k.owner]
                                         ELSE j.account = admin
  <1> DEFINE New(k) == CASE k.account # NoAccount -> k
                         [] k \in Unattached(Billed) -> [k EXCEPT !.account = owner[k.owner]]
                         [] OTHER -> [k EXCEPT !.account = admin]
  <1>1. keys' = {New(k) : k \in keys}  BY DEF BackfillAdminKeyAccounts
  <1>2. ASSUME NEW k \in keys
        PROVE  /\ New(k) \in KeyRow /\ New(k).owner = k.owner
               /\ k.account # NoAccount => New(k) = k
               /\ k.account = NoAccount =>
                    IF k.owner \in Billed THEN New(k).account = owner[k.owner]
                    ELSE New(k).account = admin
    <2>1. k \in KeyRow  BY DEF Typed, OwnersTyped
    <2>2. CASE k.account # NoAccount
      <3>1. New(k) = k  BY <2>2 DEF Unattached
      <3> QED  BY <2>1, <2>2, <3>1
    <2>3. CASE k.account = NoAccount /\ k.owner \in Billed
      <3>1. New(k) = [k EXCEPT !.account = owner[k.owner]]  BY <2>3 DEF Unattached
      <3>2. owner[k.owner] \in Nat \cup {NoAccount}
        BY <2>3 DEF Billed, Typed, OwnersTyped
      <3> HIDE DEF New
      <3> QED  BY <2>1, <2>3, <3>1, <3>2 DEF KeyRow
    <2>4. CASE k.account = NoAccount /\ k.owner \notin Billed
      <3>1. New(k) = [k EXCEPT !.account = admin]  BY <2>4 DEF Unattached
      <3> HIDE DEF New
      <3> QED  BY <2>1, <2>4, <3>1 DEF KeyRow
    <2> QED  BY <2>2, <2>3, <2>4
  <1> HIDE DEF New
  <1> QED  BY <1>1, <1>2

\* Users and keys stay well typed, and users keep an account.
LEMMA OwnersStep ==
    ASSUME Typed, [Next]_vars
    PROVE  OwnersTyped' /\ NobodyLoses
  <1>0. OwnersTyped  BY DEF Typed
  <1>1. ASSUME NEW p \in Pods, BackfillUser(p) PROVE OwnersTyped' /\ NobodyLoses
    <2>1. PICK u \in pods[p].todo : BackfillAccount(u)  BY <1>1 DEF BackfillUser
    <2>2. u \in DOMAIN owner  BY <1>1 DEF BackfillUser, Typed, PodsTyped
    <2>3. tracked' = tracked  BY <2>1 DEF BackfillAccount
    <2>4. /\ Len(accounts) + 1 \in Nat
          /\ owner' = [owner EXCEPT ![u] = Len(accounts) + 1]
          /\ keys' \subseteq KeyRow
          /\ \A k \in keys' : k \in keys \/ k.owner = u
      BY <2>1, <2>2, BackfillKeys
    <2> QED  BY <1>0, <2>2, <2>3, <2>4 DEF OwnersTyped, NobodyLoses
  <1>2. ASSUME NEW p \in Pods, AttachKeys(p) PROVE OwnersTyped' /\ NobodyLoses
    <2>1. BackfillAdminKeyAccounts(pods[p].admin) /\ UNCHANGED <<owner, tracked>>
      BY <1>2 DEF AttachKeys
    <2>2. pods[p].admin \in Nat \cup {NoAccount}  BY DEF Typed, PodsTyped, Pod
    <2>3. \A j \in keys' : j \in KeyRow /\ \E k \in keys : j.owner = k.owner
      BY <2>1, <2>2, AttachedKeys
    <2> QED  BY <1>0, <2>1, <2>3 DEF OwnersTyped, NobodyLoses
  <1>3. ASSUME NEW p \in Pods, RecordEvents(p) PROVE OwnersTyped' /\ NobodyLoses
    BY <1>0, <1>3
    DEF RecordEvents, BackfillRegistrationEvents, OwnersTyped, NobodyLoses
  <1>4. ASSUME NEW c \in Calls, registerServiceAccount(c)
        PROVE  OwnersTyped' /\ NobodyLoses
    <2>1. /\ keys' = keys \cup {[owner |-> NoUser, account |-> Len(accounts) + 1]}
          /\ UNCHANGED <<owner, tracked>>
      BY <1>4 DEF registerServiceAccount, RegisterServiceAccount
    <2>2. [owner |-> NoUser, account |-> Len(accounts) + 1] \in KeyRow
      BY AccountFacts DEF Typed, KeyRow
    <2> QED  BY <1>0, <2>1, <2>2 DEF OwnersTyped, NobodyLoses
  <1>5. ASSUME NEW u \in Users, RegisterUser(u) PROVE OwnersTyped' /\ NobodyLoses
    <2>1. Len(accounts) + 1 \in Nat  BY AccountFacts DEF Typed
    <2> QED  BY <1>0, <1>5, <2>1 DEF RegisterUser, OwnersTyped, NobodyLoses
  <1>6. ASSUME NEW c \in Calls, createKey(c) PROVE OwnersTyped' /\ NobodyLoses
    <2>1. /\ keys' = keys \cup {[owner |-> call[c].user, account |-> call[c].account]}
          /\ UNCHANGED <<owner, tracked>> /\ call[c].pc = "key"
      BY <1>6 DEF createKey, CreateKey
    <2>2. call[c].user \in DOMAIN owner \cup {NoUser} /\ call[c] \in Call
      BY <2>1 DEF Typed, CallsTyped
    <2>3. [owner |-> call[c].user, account |-> call[c].account] \in KeyRow
      BY <2>2 DEF KeyRow, Call
    <2> QED  BY <1>0, <2>1, <2>2, <2>3 DEF OwnersTyped, NobodyLoses
  <1>7. CASE UNCHANGED <<owner, tracked, keys>>
    BY <1>0, <1>7 DEF OwnersTyped, NobodyLoses
  <1>8. ASSUME NEW p \in Pods, PodStep(p), ~BackfillUser(p), ~AttachKeys(p), ~RecordEvents(p)
        PROVE  UNCHANGED <<owner, tracked, keys>>
    BY <1>8 DEF PodStep, Boot, Crash, Stop, ListNodes, MergeNode, DisableUndeclared,
                ListUsers, FindAdmin, EnsureAdmin, CreateBalances, acctVars
  <1>9. ASSUME NEW c \in Calls, CallStep(c), ~registerServiceAccount(c), ~createKey(c)
        PROVE  UNCHANGED <<owner, tracked, keys>> \/ \E u \in Users : RegisterUser(u)
    <2>1. ASSUME NEW p \in Pods
          PROVE  /\ \A t \in Tokens : \/ createRegistrationToken(c, p, t)
                                      \/ ConsumeToken(c, p, t)
                                      \/ revokeRegistrationToken(c, p, t)
                                      => UNCHANGED <<owner, tracked, keys>>
                 /\ \A u \in Users : userKey(c, p, u) => UNCHANGED <<owner, tracked, keys>>
                 /\ adminKey(c, p) \/ createAccountKey(c, p) \/ adminNode(c, p)
                      => UNCHANGED <<owner, tracked, keys>>
      BY DEF createRegistrationToken, CreateRegistrationToken, ConsumeToken,
             revokeRegistrationToken, RevokeRegistrationToken, userKey, adminKey,
             createAccountKey, adminNode, acctVars
    <2>2. RollbackRegistration(c) \/ grantDefault(c) => UNCHANGED <<owner, tracked, keys>>
      BY DEF RollbackRegistration, grantDefault, GrantDefault, acctVars
    <2>3. \A p \in Pods, u \in Users :
            register(c, p, u) \/ CreateAdminBootstrap(c, p, u) => RegisterUser(u)
      BY DEF register, CreateAdminBootstrap
    <2> QED  BY <1>9, <2>1, <2>2, <2>3 DEF CallStep
  <1>10. UNCHANGED vars => UNCHANGED <<owner, tracked, keys>>  BY DEF vars, acctVars
  <1> QED
    BY <1>1, <1>2, <1>3, <1>4, <1>5, <1>6, <1>7, <1>8, <1>9, <1>10 DEF Next

\* The other pods.
Alone(p) == pods' \in [Pods -> Pod] /\ \A q \in Pods : q # p => pods'[q] = pods[q]

\* A pod that goes on to a phase keeps the rest of its state.
LEMMA GotoPod ==
    ASSUME Typed, NEW p \in Pods, NEW pc \in Phases, NEW todo \in SUBSET (Names \cup Users),
           Goto(p, pc, todo)
    PROVE  /\ Alone(p) /\ pods'[p].pc = pc /\ pods'[p].todo = todo
           /\ pods'[p].file = pods[p].file /\ pods'[p].listed = pods[p].listed
           /\ pods'[p].admin = pods[p].admin
  BY DEF Typed, PodsTyped, Goto, Alone, Pod

\* A pod that starts a phase afresh has forgotten the rest.
LEMMA OffPod ==
    ASSUME Typed, NEW p \in Pods, NEW pc \in Phases \cup {"off", "crashed", "serving"},
           pods' = [pods EXCEPT ![p] = [Off EXCEPT !.pc = pc]]
    PROVE  /\ Alone(p) /\ pods'[p].pc = pc /\ pods'[p].admin = NoAccount
  <1>1. [Off EXCEPT !.pc = pc] \in Pod /\ [Off EXCEPT !.pc = pc].pc = pc
        /\ [Off EXCEPT !.pc = pc].admin = Off.admin
    BY OffTyped DEF Pod
  <1>2. Off.admin = NoAccount  BY DEF Off
  <1> QED  BY <1>1, <1>2 DEF Typed, PodsTyped, Alone

\* Which states of a pod are phases of its start.
LEMMA PhaseNames ==
    /\ "list" \in Phases /\ "merge" \in Phases /\ "disable" \in Phases
    /\ "users" \in Phases /\ "accounts" \in Phases /\ "find" \in Phases
    /\ "ensure" \in Phases /\ "keys" \in Phases /\ "balances" \in Phases
    /\ "events" \in Phases
    /\ "off" \notin Phases /\ "crashed" \notin Phases /\ "serving" \notin Phases
  BY DEF Phases

\* The starts and ends of a pod.
LEMMA BootPod ==
    ASSUME Typed, NEW p \in Pods, Boot(p)
    PROVE  /\ Alone(p) /\ pods[p].pc \in {"off", "crashed"}
           /\ pods'[p].pc = "list" /\ pods'[p].admin = NoAccount
           /\ pods'[p].file \in Files
           /\ group' = [files |-> {pods'[p].file}
                                  \cup (IF Booting = {} THEN {} ELSE group.files),
                        done |-> Booting # {} /\ group.done]
  <1>1. PICK file \in Files :
          /\ pods' = [pods EXCEPT ![p] = [Off EXCEPT !.pc = "list", !.file = file]]
          /\ group' = [files |-> {file} \cup (IF Booting = {} THEN {} ELSE group.files),
                       done |-> Booting # {} /\ group.done]
    BY DEF Boot
  <1> DEFINE q == [Off EXCEPT !.pc = "list", !.file = file]
  <1>2. file \in SUBSET Names  BY FilesAssumption
  <1>3. q \in Pod /\ q.pc = "list" /\ q.file = file /\ q.admin = Off.admin
    BY <1>2, OffTyped, PhaseNames DEF Pod
  <1>4. Off.admin = NoAccount  BY DEF Off
  <1>5. pods' = [pods EXCEPT ![p] = q]  BY <1>1
  <1> HIDE DEF q
  <1>6. pods'[p] = q /\ Alone(p)  BY <1>3, <1>5 DEF Typed, PodsTyped, Alone
  <1>7. pods[p].pc \in {"off", "crashed"}  BY DEF Boot
  <1> QED  BY <1>1, <1>3, <1>4, <1>6, <1>7

\* A pod that dies.
LEMMA CrashPod ==
    ASSUME Typed, NEW p \in Pods, Crashed(p)
    PROVE  Alone(p) /\ pods'[p].pc = "crashed" /\ pods'[p].admin = NoAccount
  BY OffPod DEF Crashed

\* A pod that stops serving.
LEMMA StopPod ==
    ASSUME Typed, NEW p \in Pods, Stop(p)
    PROVE  Alone(p) /\ pods[p].pc = "serving" /\ pods'[p].pc = "off" /\ pods'[p].admin = NoAccount
  <1>1. pods' = [pods EXCEPT ![p] = Off] /\ pods[p].pc = "serving"
    BY DEF Stop, Serving
  <1>2. Off.pc = "off" /\ Off.admin = NoAccount  BY DEF Off
  <1>3. pods'[p] = Off /\ Alone(p)
    BY <1>1, OffTyped DEF Typed, PodsTyped, Alone
  <1> QED  BY <1>1, <1>2, <1>3

\* The phases that sync the nodes.
LEMMA ListPod ==
    ASSUME Typed, NEW p \in Pods, ListNodes(p), ~Crashed(p)
    PROVE  /\ Alone(p) /\ pods[p].pc = "list" /\ pods'[p].pc = "merge"
           /\ pods'[p].file = pods[p].file /\ pods'[p].listed = nodes
           /\ pods'[p].todo = pods[p].file /\ pods'[p].admin = pods[p].admin
           /\ ~Collides(pods[p].file, nodes) /\ nodes' = nodes
  <1>1. /\ pods' = [pods EXCEPT ![p].pc = "merge", ![p].listed = nodes,
                                ![p].todo = pods[p].file]
        /\ pods[p].pc = "list" /\ ~Collides(pods[p].file, nodes) /\ nodes' = nodes
    BY DEF ListNodes
  <1>2. nodes \in Listing /\ pods \in [Pods -> Pod]  BY DEF Typed, PodsTyped
  <1>3. pods[p].file \in SUBSET (Names \cup Users)  BY <1>2 DEF Pod
  <1> QED  BY <1>1, <1>2, <1>3, PhaseNames DEF Alone, Pod

\* A declared node is merged if its name is still free for it.
LEMMA MergePod ==
    ASSUME Typed, NEW p \in Pods, MergeNode(p), ~Crashed(p)
    PROVE  \E n \in pods[p].todo :
             /\ Alone(p) /\ pods[p].pc = "merge" /\ pods'[p].pc = "merge"
             /\ pods'[p].todo = pods[p].todo \ {n}
             /\ pods'[p].file = pods[p].file /\ pods'[p].listed = pods[p].listed
             /\ pods'[p].admin = pods[p].admin
             /\ MergePossible(n, pods[p].listed) /\ Merge(n, pods[p].listed)
  <1>1. PICK n \in pods[p].todo :
          /\ MergePossible(n, pods[p].listed) /\ Merge(n, pods[p].listed)
          /\ Goto(p, "merge", pods[p].todo \ {n})
    BY DEF MergeNode
  <1>2. pods[p].todo \ {n} \in SUBSET (Names \cup Users)  BY DEF Typed, PodsTyped, Pod
  <1> QED  BY <1>1, <1>2, GotoPod, PhaseNames DEF MergeNode

\* An undeclared node is disabled, or none is left and the users come next.
LEMMA DisablePod ==
    ASSUME Typed, NEW p \in Pods, DisableUndeclared(p)
    PROVE  LET todo == IF pods[p].pc = "disable" THEN pods[p].todo
                       ELSE Undeclared(pods[p].file, pods[p].listed)
           IN  /\ Alone(p)
               /\ (pods[p].pc = "merge" /\ pods[p].todo = {}) \/ pods[p].pc = "disable"
               /\ \/ /\ todo = {} /\ nodes' = nodes
                     /\ pods'[p].pc = "users" /\ pods'[p].admin = NoAccount
                  \/ \E n \in todo :
                       /\ DisableNode(n) /\ pods'[p].pc = "disable"
                       /\ pods'[p].todo = todo \ {n} /\ pods'[p].file = pods[p].file
                       /\ pods'[p].admin = pods[p].admin
  <1> DEFINE todo == IF pods[p].pc = "disable" THEN pods[p].todo
                     ELSE Undeclared(pods[p].file, pods[p].listed)
  <1>1. (pods[p].pc = "merge" /\ pods[p].todo = {}) \/ pods[p].pc = "disable"
    BY DEF DisableUndeclared
  <1>2. pods[p] \in Pod  BY DEF Typed, PodsTyped
  <1>3. todo \in SUBSET (Names \cup Users)
    <2>1. pods[p].listed \in Listing /\ pods[p].todo \in SUBSET (Names \cup Users)
      BY <1>2 DEF Pod
    <2>2. Undeclared(pods[p].file, pods[p].listed) \subseteq Names
      BY <2>1, ListingFacts DEF Undeclared
    <2> QED  BY <2>1, <2>2
  <1>4. CASE todo = {}
    <2>1. pods' = [pods EXCEPT ![p] = [Off EXCEPT !.pc = "users"]] /\ nodes' = nodes
      BY <1>4 DEF DisableUndeclared
    <2> QED  BY <1>1, <1>4, <2>1, OffPod, PhaseNames
  <1>5. CASE todo # {}
    <2>1. PICK n \in todo : DisableNode(n) /\ Goto(p, "disable", todo \ {n})
      BY <1>5 DEF DisableUndeclared
    <2>2. todo \ {n} \in SUBSET (Names \cup Users)  BY <1>3
    <2> HIDE DEF todo
    <2>3. /\ Alone(p) /\ pods'[p].pc = "disable" /\ pods'[p].todo = todo \ {n}
          /\ pods'[p].file = pods[p].file /\ pods'[p].admin = pods[p].admin
      BY <2>1, <2>2, GotoPod, PhaseNames
    <2> USE DEF todo
    <2> QED  BY <1>1, <2>1, <2>3
  <1> QED  BY <1>4, <1>5

\* The backfills.
LEMMA LoopPod ==
    ASSUME Typed, NEW p \in Pods, NEW todo \in SUBSET Users, Loop(p, "accounts", todo, "find")
    PROVE  /\ Alone(p) /\ pods'[p].todo = todo /\ pods'[p].admin = pods[p].admin
           /\ pods'[p].pc = IF todo = {} THEN "find" ELSE "accounts"
  <1>1. todo \in SUBSET (Names \cup Users) /\ {} \in SUBSET (Names \cup Users)  OBVIOUS
  <1>2. CASE todo = {}
    <2>1. Goto(p, "find", {})  BY <1>2 DEF Loop
    <2> QED  BY <1>1, <1>2, <2>1, GotoPod, PhaseNames
  <1>3. CASE todo # {}
    <2>1. Goto(p, "accounts", todo)  BY <1>3 DEF Loop
    <2> QED  BY <1>1, <1>3, <2>1, GotoPod, PhaseNames
  <1> QED  BY <1>2, <1>3

\* The users without an account become the work of the backfill.
LEMMA ListUsersPod ==
    ASSUME Typed, NEW p \in Pods, ListUsers(p)
    PROVE  /\ Alone(p) /\ pods[p].pc = "users" /\ pods'[p].todo = UsersWithoutAccount
           /\ pods'[p].pc = IF UsersWithoutAccount = {} THEN "find" ELSE "accounts"
           /\ UsersWithoutAccount \subseteq DOMAIN owner /\ pods'[p].admin = pods[p].admin
           /\ owner' = owner
  <1>1. UsersWithoutAccount \subseteq DOMAIN owner  BY DEF UsersWithoutAccount
  <1>2. UsersWithoutAccount \in SUBSET Users  BY <1>1 DEF Typed, OwnersTyped
  <1>3. /\ Loop(p, "accounts", UsersWithoutAccount, "find") /\ pods[p].pc = "users"
        /\ owner' = owner
    BY DEF ListUsers, acctVars
  <1> QED  BY <1>1, <1>2, <1>3, LoopPod

\* The backfill takes one of them.
LEMMA BackfillPod ==
    ASSUME Typed, NEW p \in Pods, BackfillUser(p)
    PROVE  \E u \in pods[p].todo :
             /\ Alone(p) /\ pods[p].pc = "accounts" /\ u \in DOMAIN owner
             /\ BackfillAccount(u) /\ pods'[p].todo = pods[p].todo \ {u}
             /\ pods'[p].pc = IF pods[p].todo \ {u} = {} THEN "find" ELSE "accounts"
             /\ pods'[p].admin = pods[p].admin
             /\ doubled' = IF owner[u] = NoAccount THEN doubled ELSE doubled \cup {u}
  <1>1. PICK u \in pods[p].todo :
          /\ BackfillAccount(u) /\ Loop(p, "accounts", pods[p].todo \ {u}, "find")
          /\ doubled' = IF owner[u] = NoAccount THEN doubled ELSE doubled \cup {u}
    BY DEF BackfillUser
  <1>2. pods[p].pc = "accounts"  BY DEF BackfillUser
  <1>3. pods[p].todo \subseteq DOMAIN owner /\ DOMAIN owner \subseteq Users
    BY <1>2 DEF Typed, PodsTyped, OwnersTyped
  <1>4. pods[p].todo \ {u} \in SUBSET Users  BY <1>3
  <1>5. /\ Alone(p) /\ pods'[p].todo = pods[p].todo \ {u} /\ pods'[p].admin = pods[p].admin
        /\ pods'[p].pc = IF pods[p].todo \ {u} = {} THEN "find" ELSE "accounts"
    BY <1>1, <1>4, LoopPod
  <1> QED  BY <1>1, <1>2, <1>3, <1>5

\* The lookup of the admin service account.
LEMMA FindPod ==
    ASSUME Typed, NEW p \in Pods, FindAdmin(p)
    PROVE  /\ Alone(p) /\ pods[p].pc = "find"
           /\ pods'[p].admin = findAdminServiceAccount
           /\ pods'[p].pc = IF findAdminServiceAccount = NoAccount THEN "ensure" ELSE "keys"
  <1>1. findAdminServiceAccount \in Nat \cup {NoAccount}
    BY Finds, AccountFacts DEF Typed, AdminServiceAccounts
  <1>2. pods \in [Pods -> Pod]  BY DEF Typed, PodsTyped
  <1>3. CASE findAdminServiceAccount = NoAccount
    <2>1. /\ pods' = [pods EXCEPT ![p].admin = NoAccount, ![p].pc = "ensure"]
          /\ pods[p].pc = "find"
      BY <1>3 DEF FindAdmin
    <2> QED  BY <1>2, <1>3, <2>1, PhaseNames DEF Alone, Pod
  <1>4. CASE findAdminServiceAccount # NoAccount
    <2> DEFINE a == findAdminServiceAccount
    <2>1. /\ pods' = [pods EXCEPT ![p].admin = a, ![p].pc = "keys"]
          /\ pods[p].pc = "find" /\ a \in Nat \cup {NoAccount} /\ a # NoAccount
      BY <1>1, <1>4 DEF FindAdmin
    <2> HIDE DEF a
    <2>2. Alone(p) /\ pods'[p].admin = a /\ pods'[p].pc = "keys"
      BY <1>2, <2>1, PhaseNames DEF Alone, Pod
    <2> QED  BY <2>1, <2>2 DEF a
  <1> QED  BY <1>3, <1>4

\* Its creation, when the lookup found none.
LEMMA EnsurePod ==
    ASSUME Typed, NEW p \in Pods, EnsureAdmin(p)
    PROVE  /\ Alone(p) /\ pods[p].pc = "ensure" /\ pods'[p].pc = "keys"
           /\ pods'[p].admin = EnsuredId /\ EnsureAdminServiceAccount(1)
  <1>1. EnsureAdminServiceAccount(1)  BY DEF EnsureAdmin
  <1>2. EnsuredId \in Nat  BY <1>1, EnsuredFacts
  <1>3. /\ pods' = [pods EXCEPT ![p].pc = "keys", ![p].admin = EnsuredId]
        /\ pods[p].pc = "ensure"
    BY DEF EnsureAdmin
  <1> QED  BY <1>1, <1>2, <1>3, PhaseNames DEF Alone, Pod, Typed, PodsTyped

\* The backfills of keys, balances and events follow each other.
LEMMA LatePods ==
    ASSUME Typed, NEW p \in Pods
    PROVE  /\ AttachKeys(p) => /\ Alone(p) /\ pods[p].pc = "keys" /\ pods'[p].pc = "balances"
                               /\ pods'[p].admin = pods[p].admin
           /\ CreateBalances(p) => /\ Alone(p) /\ pods[p].pc = "balances"
                                   /\ pods'[p].pc = "events"
                                   /\ pods'[p].admin = pods[p].admin
           /\ RecordEvents(p) => /\ Alone(p) /\ pods[p].pc = "events"
                                 /\ pods'[p].pc = "serving" /\ pods'[p].admin = NoAccount
  <1>1. {} \in SUBSET (Names \cup Users)  OBVIOUS
  <1>2. AttachKeys(p) => Goto(p, "balances", {}) /\ pods[p].pc = "keys"  BY DEF AttachKeys
  <1>3. CreateBalances(p) => Goto(p, "events", {}) /\ pods[p].pc = "balances"
    BY DEF CreateBalances
  <1>4. RecordEvents(p) => /\ pods' = [pods EXCEPT ![p] = [Off EXCEPT !.pc = "serving"]]
                           /\ pods[p].pc = "events"
    BY DEF RecordEvents
  <1>5. Goto(p, "balances", {}) => /\ Alone(p) /\ pods'[p].pc = "balances"
                                   /\ pods'[p].admin = pods[p].admin
    BY <1>1, GotoPod, PhaseNames
  <1>6. Goto(p, "events", {}) => /\ Alone(p) /\ pods'[p].pc = "events"
                                 /\ pods'[p].admin = pods[p].admin
    BY <1>1, GotoPod, PhaseNames
  <1>7. pods' = [pods EXCEPT ![p] = [Off EXCEPT !.pc = "serving"]]
        => Alone(p) /\ pods'[p].pc = "serving" /\ pods'[p].admin = NoAccount
    BY OffPod
  <1> QED  BY <1>2, <1>3, <1>4, <1>5, <1>6, <1>7

\* Calls leave the pods alone.
LEMMA CallPods ==
    ASSUME NEW c \in Calls, CallStep(c)
    PROVE  pods' = pods /\ group' = group /\ doubled' = doubled
  BY DEF CallStep, createRegistrationToken, ConsumeToken, registerServiceAccount,
         RollbackRegistration, revokeRegistrationToken, register, grantDefault,
         CreateAdminBootstrap, userKey, adminKey, createAccountKey, createKey,
         adminNode, Arrive, Proceed

\* The pods stay well typed.
LEMMA PodsStep ==
    ASSUME Typed, [Next]_vars
    PROVE  PodsTyped'
  <1>0. PodsTyped /\ DOMAIN owner \subseteq DOMAIN owner'
    BY OwnersStep DEF Typed, NobodyLoses
  <1>1. ASSUME NEW p \in Pods, Alone(p),
               pods'[p].pc = "accounts" => pods'[p].todo \subseteq DOMAIN owner,
               pods'[p].pc = "merge" => pods'[p].todo \subseteq pods'[p].file
        PROVE  PodsTyped'
    BY <1>0, <1>1 DEF PodsTyped, Alone
  <1>2. ASSUME NEW p \in Pods, PodStep(p) PROVE PodsTyped'
    <2>1. CASE Boot(p)  BY <1>1, <2>1, BootPod
    <2>2. CASE Crashed(p)  BY <1>1, <2>2, CrashPod
    <2>3. CASE Stop(p)  BY <1>1, <2>3, StopPod
    <2>4. CASE ListNodes(p) /\ ~Crashed(p)  BY <1>1, <2>4, ListPod
    <2>5. CASE MergeNode(p) /\ ~Crashed(p)
      <3>1. /\ Alone(p) /\ pods[p].pc = "merge" /\ pods'[p].pc = "merge"
            /\ pods'[p].todo \subseteq pods[p].todo /\ pods'[p].file = pods[p].file
        BY <2>5, MergePod
      <3>2. pods[p].todo \subseteq pods[p].file  BY <1>0, <3>1 DEF PodsTyped
      <3> QED  BY <1>1, <3>1, <3>2
    <2>6. CASE DisableUndeclared(p)  BY <1>1, <2>6, DisablePod
    <2>7. CASE ListUsers(p)  BY <1>1, <2>7, ListUsersPod
    <2>8. CASE BackfillUser(p)
      <3>1. /\ Alone(p) /\ pods'[p].todo \subseteq pods[p].todo /\ pods[p].pc = "accounts"
            /\ pods'[p].pc # "merge"
        BY <2>8, BackfillPod
      <3>2. pods[p].todo \subseteq DOMAIN owner  BY <1>0, <3>1 DEF PodsTyped
      <3> QED  BY <1>1, <3>1, <3>2
    <2>9. CASE FindAdmin(p)  BY <1>1, <2>9, FindPod
    <2>10. CASE EnsureAdmin(p)  BY <1>1, <2>10, EnsurePod
    <2>11. CASE AttachKeys(p) \/ CreateBalances(p) \/ RecordEvents(p)
      BY <1>1, <2>11, LatePods
    <2>12. Crash(p) => Crashed(p)  BY DEF Crash
    <2> QED
      BY <1>2, <2>1, <2>2, <2>3, <2>4, <2>5, <2>6, <2>7, <2>8, <2>9, <2>10, <2>11, <2>12
      DEF PodStep
  <1>3. CASE pods' = pods  BY <1>0, <1>3 DEF PodsTyped
  <1>4. UNCHANGED vars => pods' = pods  BY DEF vars, ctlVars
  <1> QED  BY <1>2, <1>3, <1>4, CallPods DEF Next

\* The nodes table stays one.
LEMMA NodesStep ==
    ASSUME Typed, [Next]_vars
    PROVE  nodes' \in Listing
  <1>0. /\ nodes \in Listing /\ nodes \in [DOMAIN nodes -> Node]
        /\ DOMAIN nodes \subseteq Names
    BY ListingFacts DEF Typed
  <1>r. [source |-> "config", enabled |-> TRUE, writer |-> "config"] \in Node
    BY DEF Node
  <1>1. ASSUME NEW p \in Pods, MergeNode(p), ~Crashed(p) PROVE nodes' \in Listing
    <2>1. PICK n \in pods[p].todo : Merge(n, pods[p].listed) /\ pods[p].pc = "merge"
      BY <1>1, MergePod
    <2>2. n \in Names  BY <2>1 DEF Typed, PodsTyped, Pod
    <2>3. CASE nodes' = [nodes EXCEPT ![n].enabled = TRUE, ![n].writer = "config"]
      <3>1. nodes' \in [DOMAIN nodes -> Node]  BY <1>0, <2>3 DEF Node
      <3>2. DOMAIN nodes' = DOMAIN nodes  BY <2>3
      <3> QED  BY <1>0, <3>1, <3>2, ListingOf
    <2>4. CASE nodes' = Put(nodes, n, [source |-> "config", enabled |-> TRUE,
                                       writer |-> "config"])
      BY <1>0, <1>r, <2>2, <2>4, PutTyped
    <2> QED  BY <2>1, <2>3, <2>4 DEF Merge
  <1>2. ASSUME NEW n, DisableNode(n) PROVE nodes' \in Listing
    <2>1. nodes' = [nodes EXCEPT ![n].enabled = FALSE]  BY <1>2 DEF DisableNode
    <2>2. nodes' \in [DOMAIN nodes -> Node]  BY <1>0, <2>1 DEF Node
    <2>3. DOMAIN nodes' = DOMAIN nodes  BY <2>1
    <2> QED  BY <1>0, <2>2, <2>3, ListingOf
  <1>3. ASSUME NEW n \in Names, CreateApiNode(n) PROVE nodes' \in Listing
    <2>1. nodes' = Put(nodes, n, [source |-> "api", enabled |-> TRUE, writer |-> "api"])
      BY <1>3 DEF CreateApiNode
    <2>2. [source |-> "api", enabled |-> TRUE, writer |-> "api"] \in Node  BY DEF Node
    <2> QED  BY <1>0, <2>1, <2>2, PutTyped
  <1>4. ASSUME NEW n \in Names, NEW name \in Names, NEW enabled \in BOOLEAN,
               UpdateApiNode(n, name, enabled)
        PROVE  nodes' \in Listing
    <2> DEFINE table == [m \in DOMAIN nodes \ {n} |-> nodes[m]]
               row   == [source |-> "api", enabled |-> enabled, writer |-> "api"]
    <2>1. nodes' = Put(table, name, row)  BY <1>4 DEF UpdateApiNode
    <2>2. table \in [DOMAIN nodes \ {n} -> Node] /\ DOMAIN table \subseteq Names
      BY <1>0
    <2>3. table \in Listing  BY <2>2, ListingOf
    <2>4. row \in Node  BY DEF Node
    <2> HIDE DEF table, row
    <2> QED  BY <2>1, <2>3, <2>4, PutTyped
  <1>5. CASE nodes' = nodes  BY <1>0, <1>5
  <1>6. ASSUME NEW p \in Pods, PodStep(p), nodes' # nodes
        PROVE  \/ MergeNode(p) /\ ~Crashed(p)
               \/ DisableUndeclared(p)
    <2>1. MergeNode(p) /\ Crashed(p) => nodes' = nodes
      <3>1. ASSUME MergeNode(p), Crashed(p) PROVE nodes' = nodes
        <4>1. pods'[p].pc = "crashed"  BY <3>1, CrashPod
        <4>2. CASE \E n \in pods[p].todo : Goto(p, "merge", pods[p].todo \ {n})
          <5>1. PICK n \in pods[p].todo : Goto(p, "merge", pods[p].todo \ {n})  BY <4>2
          <5>2. pods'[p].pc = "merge"  BY <5>1 DEF Goto, Typed, PodsTyped, Pod
          <5> QED  BY <4>1, <5>2
        <4> QED  BY <3>1, <4>2 DEF MergeNode
      <3> QED  BY <3>1
    <2> QED
      BY <1>6, <2>1
      DEF PodStep, Boot, Crash, Stop, ListNodes, ListUsers, BackfillUser, FindAdmin,
          EnsureAdmin, AttachKeys, CreateBalances, RecordEvents
  <1>7. ASSUME NEW p \in Pods, PodStep(p) PROVE nodes' \in Listing
    BY <1>1, <1>2, <1>5, <1>6, <1>7, DisablePod
  <1>8. ASSUME NEW c \in Calls, CallStep(c) PROVE nodes' \in Listing
    <2>1. \/ nodes' = nodes
          \/ \E n \in Names :
               \/ CreateApiNode(n)
               \/ \E name \in Names, enabled \in BOOLEAN : UpdateApiNode(n, name, enabled)
      BY <1>8
      DEF CallStep, createRegistrationToken, ConsumeToken, registerServiceAccount,
          RollbackRegistration, revokeRegistrationToken, register, grantDefault,
          CreateAdminBootstrap, userKey, adminKey, createAccountKey, createKey,
          adminNode, Proceed
    <2> QED  BY <1>3, <1>4, <1>5, <2>1
  <1>9. UNCHANGED vars => nodes' = nodes  BY DEF vars
  <1> QED  BY <1>5, <1>7, <1>8, <1>9 DEF Next

\* Tokens stay well typed and none disappears.
LEMMA TokensStep ==
    ASSUME Typed, [Next]_vars
    PROVE  TokensTyped' /\ DOMAIN tokens \subseteq DOMAIN tokens'
  <1>0. TokensTyped  BY DEF Typed
  <1>1. ASSUME NEW t \in Tokens, CreateRegistrationToken(t, MaxUses)
        PROVE  TokensTyped' /\ DOMAIN tokens \subseteq DOMAIN tokens'
    <2>1. NewToken(MaxUses) \in TokenRow  BY MaxUsesAssumption DEF NewToken, TokenRow
    <2>2. tokens' = [s \in DOMAIN tokens \cup {t} |->
                       IF s = t THEN NewToken(MaxUses) ELSE tokens[s]]
      BY <1>1 DEF CreateRegistrationToken
    <2> QED  BY <1>0, <2>1, <2>2 DEF TokensTyped
  <1>2. ASSUME NEW t, RevokeRegistrationToken(t)
        PROVE  TokensTyped' /\ DOMAIN tokens \subseteq DOMAIN tokens'
    BY <1>0, <1>2 DEF RevokeRegistrationToken, TokensTyped, TokenRow
  <1>3. CASE Redeems
    <2>1. PICK c \in Calls : tokens' = [tokens EXCEPT ![call[c].token].uses = @ + 1]
      BY <1>3 DEF Redeems
    <2>2. \A t \in DOMAIN tokens : [tokens[t] EXCEPT !.uses = @ + 1] \in TokenRow
      BY <1>0 DEF TokensTyped, TokenRow
    <2> QED  BY <1>0, <2>1, <2>2 DEF TokensTyped
  <1>4. CASE tokens' = tokens  BY <1>0, <1>4 DEF TokensTyped
  <1>5. ASSUME NEW c \in Calls, CallStep(c)
        PROVE  \/ tokens' = tokens \/ Redeems
               \/ \E t \in Tokens : \/ CreateRegistrationToken(t, MaxUses)
                                    \/ RevokeRegistrationToken(t)
    <2>1. CASE registerServiceAccount(c)
      <3>1. PICK type \in {"service", "admin-service"} :
               RegisterServiceAccount(call[c].token, type)
        BY <2>1 DEF registerServiceAccount
      <3>2. call[c].token \in Tokens \cup {NoToken} /\ call[c].pc = "consumed"
        BY <2>1 DEF Typed, CallsTyped, Call, registerServiceAccount
      <3>3. Account(type, 1, TRUE, TRUE, call[c].token) \in AccountRow
        BY <3>2, MadeTyped
      <3> QED
        BY <2>1, <3>1, <3>2, <3>3
        DEF registerServiceAccount, RegisterServiceAccount, Redeems, Adds, End
    <2>2. CASE ~registerServiceAccount(c)
      BY <1>5, <2>2
      DEF CallStep, createRegistrationToken, ConsumeToken, RollbackRegistration,
          revokeRegistrationToken, register, RegisterUser, grantDefault, GrantDefault,
          CreateAdminBootstrap, userKey, adminKey, createAccountKey, createKey,
          CreateKey, adminNode, acctVars
    <2> QED  BY <2>1, <2>2
  <1>6. UNCHANGED vars => tokens' = tokens  BY DEF vars, acctVars
  <1> QED  BY <1>1, <1>2, <1>3, <1>4, <1>5, <1>6, PodAccounts DEF Next

\* Every step keeps the state well typed, ...
LEMMA TypedStep ==
    ASSUME Typed, [Next]_vars
    PROVE  Typed'
  <1>1. AccountsTyped' /\ AccountEffect /\ FirstAdmin'  BY AccountStep, FirstAdminStep
  <1>2. OwnersTyped' /\ DOMAIN owner \subseteq DOMAIN owner'
    BY OwnersStep DEF NobodyLoses
  <1>3. TokensTyped' /\ DOMAIN tokens \subseteq DOMAIN tokens'  BY TokensStep
  <1>4. PodsTyped' /\ nodes' \in Listing  BY PodsStep, NodesStep
  <1>5. \A a \in AccountIds : a \in AccountIds' /\ accounts'[a].type = accounts[a].type
    <2>1. CASE Kept  BY <2>1 DEF Kept
    <2>2. ASSUME NEW row \in AccountRow, accounts' = Append(accounts, row)
          PROVE  \A a \in AccountIds : a \in AccountIds' /\ accounts'[a] = accounts[a]
      BY <2>2, Appended DEF Typed
    <2> QED
      BY <1>1, <2>1, <2>2 DEF AccountEffect, Backfills, Registers, Ensures, Redeems, Adds
  <1>6. CallsTyped'
    <2>1. CallEffect  BY CallsStep
    <2>2. call' \in [Calls -> Call]  BY <2>1 DEF CallEffect
    <2> SUFFICES ASSUME NEW c \in Calls
                 PROVE  /\ call'[c].pc = "consumed" => call'[c].token \in DOMAIN tokens'
                        /\ call'[c].pc = "grant" =>
                             /\ call'[c].account \in AccountIds'
                             /\ accounts'[call'[c].account].type = "personal"
                        /\ call'[c].pc = "key" => call'[c].user \in DOMAIN owner' \cup {NoUser}
      BY <2>2 DEF CallsTyped
    <2>3. CASE call'[c] = call[c]
      BY <1>2, <1>3, <1>5, <2>3 DEF Typed, CallsTyped
    <2>4. CASE call'[c] = Idle  BY <2>4 DEF Idle
    <2>5. CASE Enters(c)
      <3>1. call'[c].pc = "grant" => call'[c].account = Len(accounts) + 1 /\ Registers
        BY <2>5 DEF Enters
      <3>2. Registers => /\ Len(accounts) + 1 \in AccountIds'
                         /\ accounts'[Len(accounts) + 1].type = "personal"
        <4>1. Account("personal", 0, TRUE, FALSE, NoToken).type = "personal"
          BY DEF Account
        <4> QED  BY <4>1, Appended DEF Registers, Adds, Typed
      <3> QED  BY <1>2, <1>3, <2>5, <3>1, <3>2 DEF Enters
    <2> QED  BY <2>1, <2>3, <2>4, <2>5 DEF CallEffect
  <1> QED  BY <1>1, <1>2, <1>3, <1>4, <1>6 DEF Typed

\* An older installation has at most one account, which no token made; one with
\* the name of the admin service account was granted when it was registered.
LEMMA LegacyAccounts ==
    ASSUME Init
    PROVE  /\ accounts \in Seq(AccountRow)
           /\ \A a \in AccountIds : /\ a = 1 /\ accounts[a].via = NoToken
                                    /\ accounts[a].type = "admin-service"
                                       => accounts[a].grants = 1
  <1> DEFINE service == Account("service", 0, FALSE, FALSE, NoToken)
             admin   == Account("admin-service", 1, TRUE, FALSE, NoToken)
  <1>1. accounts \in {<<>>, <<service>>, <<admin>>}  BY DEF Init, LegacyTables
  <1>2. /\ service \in AccountRow /\ service.via = NoToken /\ service.type = "service"
        /\ admin \in AccountRow /\ admin.via = NoToken /\ admin.grants = 1
    <2>1. service \in AccountRow /\ admin \in AccountRow  BY MadeTyped
    <2> QED  BY <2>1 DEF Account
  <1> HIDE DEF service, admin
  <1>3. ASSUME NEW row \in AccountRow, accounts = <<row>>, row.via = NoToken,
               row.type = "admin-service" => row.grants = 1
        PROVE  /\ accounts \in Seq(AccountRow)
               /\ \A a \in AccountIds : /\ a = 1 /\ accounts[a].via = NoToken
                                        /\ accounts[a].type = "admin-service"
                                           => accounts[a].grants = 1
    <2>1. <<row>> \in [1..1 -> AccountRow]  OBVIOUS
    <2>2. accounts \in Seq(AccountRow)  BY <1>3, <2>1, SeqDef
    <2>3. \A a \in AccountIds : a = 1 /\ accounts[a] = row  BY <1>3 DEF AccountIds
    <2> QED  BY <1>3, <2>2, <2>3
  <1>4. CASE accounts = <<>>
    BY <1>4 DEF AccountIds
  <1> QED  BY <1>1, <1>2, <1>3, <1>4

\* ... and it starts so.
LEMMA TypedStart ==
    ASSUME Init
    PROVE  Typed
  <1>1. AccountsTyped /\ FirstAdmin
    <2>1. accounts \in Seq(AccountRow) /\ \A a \in AccountIds : a = 1
      BY LegacyAccounts
    <2>2. \A a \in AdminServiceAccounts : a = 1  BY <2>1 DEF AdminServiceAccounts
    <2>3. FirstAdmin
      <3>1. ASSUME NEW a \in AdminServiceAccounts, NEW b \in AdminServiceAccounts
            PROVE  a <= b
        BY <2>2
      <3> QED  BY <3>1 DEF FirstAdmin
    <2> QED  BY <2>1, <2>3 DEF AccountsTyped
  <1>2. OwnersTyped
    <2>1. PICK known \in SUBSET Users :
            /\ owner = [u \in known |-> NoAccount]
            /\ keys = [owner : known \cup {NoUser}, account : {NoAccount}]
      BY DEF Init, LegacyTables
    <2>2. tracked = {}  BY DEF Init, LegacyTables
    <2> QED  BY <2>1, <2>2 DEF OwnersTyped, KeyRow
  <1>3. TokensTyped
    <2>1. PICK made \in SUBSET Tokens : tokens = [t \in made |-> NewToken(MaxUses)]
      BY DEF Init
    <2>2. NewToken(MaxUses) \in TokenRow  BY MaxUsesAssumption DEF NewToken, TokenRow
    <2> QED  BY <2>1, <2>2 DEF TokensTyped
  <1>4. PodsTyped
    <2>1. pods = [p \in Pods |-> Off] /\ Off.pc = "off"  BY DEF Init, Off
    <2> QED  BY <2>1, OffTyped DEF PodsTyped
  <1>5. CallsTyped
    <2>1. call = [c \in Calls |-> Idle] /\ Idle.pc = "idle"  BY DEF Init, Idle
    <2> QED  BY <2>1, IdleTyped DEF CallsTyped
  <1>6. nodes \in Listing
    <2>1. PICK file \in Files \cup {{}} :
            nodes = [n \in file |-> [source |-> "config", enabled |-> TRUE,
                                     writer |-> "config"]]
      BY DEF Init
    <2>2. file \subseteq Names  BY FilesAssumption
    <2>3. nodes \in [file -> Node]  BY <2>1 DEF Node
    <2> QED  BY <2>2, <2>3 DEF Listing
  <1> QED  BY <1>1, <1>2, <1>3, <1>4, <1>5, <1>6 DEF Typed

----------------------------------------------------------------------------
(***************************************************************************)
(* Token uses                                                              *)
(*                                                                         *)
(* A use is counted when its account is, and until then only the one       *)
(* registration that holds the token's row can count one.                  *)
(***************************************************************************)

UsedBy(t) == {a \in AccountIds : accounts[a].via = t}

TokenInv ==
    /\ \A t \in DOMAIN tokens : /\ tokens[t].uses = Cardinality(UsedBy(t))
                                /\ tokens[t].uses <= MaxUses /\ tokens[t].max = MaxUses
    /\ \A t \in Tokens \ DOMAIN tokens : UsedBy(t) = {}
    /\ \A c \in Calls : call[c].pc = "consumed" => tokens[call[c].token].uses < MaxUses
    /\ \A c, d \in Calls : /\ call[c].pc = "consumed" /\ call[d].pc = "consumed"
                           /\ call[c].token = call[d].token
                           => c = d

\* A token has made finitely many accounts.
LEMMA UsedFinite ==
    ASSUME AccountsTyped, NEW t
    PROVE  IsFiniteSet(UsedBy(t)) /\ Cardinality(UsedBy(t)) \in Nat
  <1>1. AccountIds = 1..Len(accounts) /\ Len(accounts) \in Nat  BY AccountFacts
  <1>2. IsFiniteSet(1..Len(accounts))  BY <1>1, FS_Interval
  <1>3. UsedBy(t) \subseteq 1..Len(accounts)  BY <1>1 DEF UsedBy
  <1> QED  BY <1>2, <1>3, FS_Subset, FS_CardinalityType

\* The accounts of a token after a step.
LEMMA UsedAfter ==
    ASSUME Typed, NEW t \in Tokens
    PROVE  /\ Kept \/ Backfills \/ Registers \/ Ensures => UsedBy(t)' = UsedBy(t)
           /\ \A row \in AccountRow : Adds(row) =>
                UsedBy(t)' = UsedBy(t) \cup (IF row.via = t THEN {Len(accounts) + 1} ELSE {})
  <1>0. AccountsTyped /\ t # NoToken  BY NullAssumption DEF Typed
  <1>1. Kept => UsedBy(t)' = UsedBy(t)  BY DEF Kept, UsedBy
  <1>2. ASSUME NEW row \in AccountRow, Adds(row)
        PROVE  UsedBy(t)' = UsedBy(t) \cup (IF row.via = t THEN {Len(accounts) + 1} ELSE {})
    <2>1. /\ AccountIds' = AccountIds \cup {Len(accounts) + 1}
          /\ Len(accounts) + 1 \notin AccountIds
          /\ accounts'[Len(accounts) + 1] = row
          /\ \A a \in AccountIds : accounts'[a] = accounts[a]
      BY <1>0, <1>2, Appended DEF Adds
    <2> QED  BY <2>1 DEF UsedBy
  <1>3. ASSUME NEW row, Adds(row), row.via = NoToken PROVE UsedBy(t)' = UsedBy(t)
    <2>1. row \in AccountRow  BY <1>3 DEF Adds
    <2> QED  BY <1>0, <1>2, <1>3, <2>1
  <1>4. /\ Account("personal", 0, FALSE, FALSE, NoToken).via = NoToken
        /\ Account("personal", 0, TRUE, FALSE, NoToken).via = NoToken
        /\ Account("admin-service", 1, TRUE, TRUE, NoToken).via = NoToken
    BY DEF Account
  <1> QED  BY <1>1, <1>2, <1>3, <1>4 DEF Backfills, Registers, Ensures

\* Uses and accounts stay in step.
LEMMA TokenStep ==
    ASSUME Typed, TokenInv, [Next]_vars
    PROVE  TokenInv'
  <1>0. AccountsTyped /\ TokensTyped /\ CallsTyped  BY DEF Typed
  <1>1. AccountEffect /\ CallEffect  BY AccountStep, CallsStep
  <1>t. DOMAIN tokens' \subseteq Tokens  BY TypedStep DEF Typed, TokensTyped
  <1>m. \A t \in DOMAIN tokens : t \in Tokens /\ tokens[t].uses \in Nat
    BY <1>0 DEF TokensTyped, TokenRow
  \* Two calls with the same token.
  <1>2. \A c, d \in Calls : /\ call'[c].pc = "consumed" /\ call'[d].pc = "consumed"
                            /\ call'[c].token = call'[d].token
                            => c = d
    <2>1. Idle.pc # "consumed"  BY DEF Idle
    <2>2. ASSUME NEW c \in Calls, NEW d \in Calls, Enters(c), call'[c].pc = "consumed",
                 call'[d].pc = "consumed", call'[c].token = call'[d].token
          PROVE  c = d
      <3>1. TokenFree(call'[c].token) /\ (d # c => call'[d] = call[d])
        BY <2>2 DEF Enters
      <3> QED  BY <2>2, <3>1 DEF TokenFree
    <2>3. \A c \in Calls : call'[c] = call[c] \/ call'[c].pc # "consumed" \/ Enters(c)
      BY <1>1, <2>1 DEF CallEffect
    <2> QED  BY <2>2, <2>3 DEF TokenInv
  \* A call that has begun with a token.
  <1>3. ASSUME NEW c \in Calls, call'[c].pc = "consumed", call'[c] # call[c]
        PROVE  tokens'[call'[c].token].uses < MaxUses
    <2>1. Enters(c)  BY <1>1, <1>3 DEF CallEffect, Idle
    <2>2. /\ call'[c].token \in DOMAIN tokens /\ TokenValid(call'[c].token)
          /\ tokens' = tokens
      BY <1>3, <2>1 DEF Enters, acctVars
    <2> QED  BY <2>2 DEF TokenValid, TokenInv
  <1>4. CASE (Kept \/ Backfills \/ Registers \/ Ensures) /\ TokensKept
    <2>1. \A t \in Tokens : UsedBy(t)' = UsedBy(t)  BY <1>4, UsedAfter
    <2>2. ASSUME NEW t \in DOMAIN tokens'
          PROVE  /\ tokens'[t].uses = Cardinality(UsedBy(t)') /\ tokens'[t].uses <= MaxUses
                 /\ tokens'[t].max = MaxUses
      <3>1. t \in Tokens  BY <1>t
      <3>2. CASE t \in DOMAIN tokens  BY <1>4, <2>1, <3>1, <3>2 DEF TokensKept, TokenInv
      <3>3. CASE t \notin DOMAIN tokens
        <4>1. UsedBy(t)' = {}  BY <2>1, <3>1, <3>3 DEF TokenInv
        <4>2. tokens'[t].uses = 0 /\ tokens'[t].max = MaxUses
          BY <1>4, <3>3 DEF TokensKept
        <4> QED  BY <4>1, <4>2, FS_EmptySet, MaxUsesAssumption
      <3> QED  BY <3>2, <3>3
    <2>3. \A t \in Tokens \ DOMAIN tokens' : UsedBy(t)' = {}
      BY <1>4, <2>1 DEF TokensKept, TokenInv
    <2>4. ASSUME NEW c \in Calls, call'[c].pc = "consumed", call'[c] = call[c]
          PROVE  tokens'[call'[c].token].uses < MaxUses
      <3>1. call[c].token \in DOMAIN tokens  BY <1>0, <2>4 DEF CallsTyped
      <3> QED  BY <1>4, <2>4, <3>1 DEF TokensKept, TokenInv
    <2> QED  BY <1>2, <1>3, <2>2, <2>3, <2>4 DEF TokenInv
  <1>5. CASE Redeems
    <2>1. PICK c \in Calls, type \in {"service", "admin-service"} :
            /\ call[c].pc = "consumed" /\ call' = [call EXCEPT ![c] = Idle]
            /\ tokens' = [tokens EXCEPT ![call[c].token].uses = @ + 1]
            /\ Adds(Account(type, 1, TRUE, TRUE, call[c].token))
      BY <1>5 DEF Redeems
    <2>2. PICK s \in Tokens : s = call[c].token /\ s \in DOMAIN tokens
      BY <1>0, <1>m, <2>1 DEF CallsTyped
    <2> DEFINE n == Len(accounts) + 1
               row == Account(type, 1, TRUE, TRUE, s)
    <2>3. row.via = s /\ row \in AccountRow /\ Adds(row)  BY <2>1, <2>2 DEF Account, Adds
    <2>4. UsedBy(s)' = UsedBy(s) \cup {n}  BY <2>2, <2>3, UsedAfter
    <2>5. \A t \in Tokens : t # s => UsedBy(t)' = UsedBy(t)  BY <2>3, UsedAfter
    <2>6. n \notin UsedBy(s)  BY <1>0, AccountFacts DEF UsedBy
    <2>7. Cardinality(UsedBy(s)') = Cardinality(UsedBy(s)) + 1
      BY <1>0, <2>4, <2>6, UsedFinite, FS_AddElement
    <2>8. /\ DOMAIN tokens' = DOMAIN tokens
          /\ tokens'[s].uses = tokens[s].uses + 1 /\ tokens'[s].max = tokens[s].max
          /\ \A t \in DOMAIN tokens : t # s => tokens'[t] = tokens[t]
      BY <1>0, <2>1, <2>2 DEF TokensTyped, TokenRow
    <2>9. tokens[s].uses < MaxUses  BY <2>1, <2>2 DEF TokenInv
    <2>10. \A t \in DOMAIN tokens' :
             /\ tokens'[t].uses = Cardinality(UsedBy(t)') /\ tokens'[t].uses <= MaxUses
             /\ tokens'[t].max = MaxUses
      <3>1. tokens[s].uses \in Nat /\ MaxUses \in Nat  BY <1>m, <2>2, MaxUsesAssumption
      <3>2. tokens[s].uses + 1 <= MaxUses  BY <2>9, <3>1
      <3>3. /\ tokens[s].uses = Cardinality(UsedBy(s)) /\ tokens[s].max = MaxUses
        BY <2>2 DEF TokenInv
      <3>4. ASSUME NEW t \in DOMAIN tokens, t # s
            PROVE  /\ tokens'[t].uses = Cardinality(UsedBy(t)') /\ tokens'[t].uses <= MaxUses
                   /\ tokens'[t].max = MaxUses
        <4>1. UsedBy(t)' = UsedBy(t) /\ tokens'[t] = tokens[t]
          BY <1>m, <2>5, <2>8, <3>4
        <4> QED  BY <4>1 DEF TokenInv
      <3>5. /\ tokens'[s].uses = Cardinality(UsedBy(s)') /\ tokens'[s].uses <= MaxUses
            /\ tokens'[s].max = MaxUses
        BY <2>7, <2>8, <3>2, <3>3
      <3> QED  BY <2>8, <3>4, <3>5
    <2>11. \A t \in Tokens \ DOMAIN tokens' : UsedBy(t)' = {}
      BY <2>2, <2>5, <2>8 DEF TokenInv
    <2>12. ASSUME NEW d \in Calls, call'[d].pc = "consumed", call'[d] = call[d]
           PROVE  tokens'[call'[d].token].uses < MaxUses
      <3>1. call[d].token \in DOMAIN tokens  BY <1>0, <2>12 DEF CallsTyped
      <3>2. d # c  BY <1>0, <2>1, <2>12 DEF CallsTyped, Idle
      <3>3. call[d].token # s  BY <2>1, <2>2, <2>12, <3>2 DEF TokenInv
      <3> QED  BY <2>8, <2>12, <3>1, <3>3 DEF TokenInv
    <2> QED  BY <1>2, <1>3, <2>10, <2>11, <2>12 DEF TokenInv
  <1> QED  BY <1>1, <1>4, <1>5 DEF AccountEffect

\* A token makes exactly as many accounts as uses it has counted, and never
\* more than it allows: the row of a token is locked by the registration that
\* consumed it until the account is committed with the use.
THEOREM TokensCounted == Spec => []TokenUsesMatchAccounts
  <1>1. Init => Typed /\ TokenInv
    <2> SUFFICES ASSUME Init PROVE TokenInv  BY TypedStart
    <2>1. PICK made \in SUBSET Tokens : tokens = [t \in made |-> NewToken(MaxUses)]
      BY DEF Init
    <2>2. \A a \in AccountIds : accounts[a].via = NoToken  BY LegacyAccounts
    <2>3. \A t \in Tokens : UsedBy(t) = {}  BY <2>2, NullAssumption DEF UsedBy
    <2>4. \A c \in Calls : call[c].pc # "consumed"  BY DEF Init, Idle
    <2>5. \A t \in made : /\ tokens[t].uses = 0 /\ tokens[t].max = MaxUses /\ t \in Tokens
      BY <2>1 DEF NewToken
    <2>6. Cardinality({}) = 0  BY FS_EmptySet
    <2>7. \A t \in DOMAIN tokens : /\ tokens[t].uses = Cardinality(UsedBy(t))
                                   /\ tokens[t].uses <= MaxUses /\ tokens[t].max = MaxUses
      <3>1. DOMAIN tokens = made  BY <2>1
      <3>2. 0 <= MaxUses  BY MaxUsesAssumption
      <3> QED  BY <2>3, <2>5, <2>6, <3>1, <3>2
    <2> QED  BY <2>3, <2>4, <2>7 DEF TokenInv
  <1>2. Typed /\ TokenInv /\ [Next]_vars => (Typed /\ TokenInv)'  BY TypedStep, TokenStep
  <1>3. TokenInv => TokenUsesMatchAccounts
    BY DEF TokenInv, TokenUsesMatchAccounts, UsedBy
  <1> QED  BY <1>1, <1>2, <1>3, PTL DEF Spec

----------------------------------------------------------------------------
(***************************************************************************)
(* The admin service account                                               *)
(*                                                                         *)
(* A caller may register an account under the same name, but only once a   *)
(* pod serves, and by then the one that counts is there with a smaller id, *)
(* created by a start or adopted from an older installation.               *)
(***************************************************************************)

Made == {a \in AdminServiceAccounts : accounts[a].via = NoToken}

\* Phases by which the admin service account exists.
PastAdmin == {"keys", "balances", "events", "serving"}

AdminInv ==
    /\ \A a, b \in Made : a = b
    /\ AdminServiceAccounts # {} =>
         \E a \in Made : \A b \in AdminServiceAccounts : a <= b
    /\ \A p \in Pods : pods[p].admin \in Made \cup {NoAccount}
    /\ \A a \in Made : accounts[a].grants = 1
    /\ \A p \in Pods : pods[p].pc \in PastAdmin => Made # {}
    /\ \A c \in Calls : call[c].pc # "idle" => Made # {}

\* The admin service accounts that the code made, after a step.
LEMMA MadeAfter ==
    ASSUME Typed
    PROVE  /\ Kept => Made' = Made /\ \A a \in Made : accounts'[a].grants = accounts[a].grants
           /\ \A row \in AccountRow : Adds(row) =>
                /\ Made' = Made \cup (IF row.type = "admin-service" /\ row.via = NoToken
                                      THEN {Len(accounts) + 1} ELSE {})
                /\ \A a \in Made : accounts'[a].grants = accounts[a].grants
                /\ accounts'[Len(accounts) + 1].grants = row.grants
  <1>0. AccountsTyped  BY DEF Typed
  <1>1. Kept => Made' = Made /\ \A a \in Made : accounts'[a].grants = accounts[a].grants
    BY DEF Kept, Made, AdminServiceAccounts
  <1>2. ASSUME NEW row \in AccountRow, Adds(row)
        PROVE  /\ Made' = Made \cup (IF row.type = "admin-service" /\ row.via = NoToken
                                     THEN {Len(accounts) + 1} ELSE {})
               /\ \A a \in Made : accounts'[a].grants = accounts[a].grants
               /\ accounts'[Len(accounts) + 1].grants = row.grants
    <2>1. /\ AccountIds' = AccountIds \cup {Len(accounts) + 1}
          /\ Len(accounts) + 1 \notin AccountIds
          /\ accounts'[Len(accounts) + 1] = row
          /\ \A a \in AccountIds : accounts'[a] = accounts[a]
      BY <1>0, <1>2, Appended DEF Adds
    <2> QED  BY <2>1 DEF Made, AdminServiceAccounts
  <1> QED  BY <1>1, <1>2

\* The first three parts and the grant follow from what happens to accounts.
LEMMA MadeStep ==
    ASSUME Typed, AdminInv, AccountEffect
    PROVE  /\ \A a, b \in Made' : a = b
           /\ AdminServiceAccounts' # {} =>
                \E a \in Made' : \A b \in AdminServiceAccounts' : a <= b
           /\ \A a \in Made' : accounts'[a].grants = 1
           /\ Made \subseteq Made'
           /\ Ensures => Made' = {Len(accounts) + 1}
  <1>0. AccountsTyped  BY DEF Typed
  <1>n. Len(accounts) \in Nat /\ \A a \in AdminServiceAccounts : a \in 1..Len(accounts)
    BY <1>0, AccountFacts DEF AdminServiceAccounts
  <1>m. Made \subseteq AdminServiceAccounts  BY DEF Made
  <1>k. \A row : ~(Kept /\ Adds(row))
    <2>1. ASSUME NEW row, Kept, Adds(row) PROVE FALSE
      BY <1>0, <2>1, Appended DEF Kept, Adds
    <2> QED  BY <2>1
  <1>e. ASSUME Ensures
        PROVE  /\ Made' = {Len(accounts) + 1} /\ Made = {}
               /\ AdminServiceAccounts' = {Len(accounts) + 1}
               /\ accounts'[Len(accounts) + 1].grants = 1
    <2> DEFINE row == Account("admin-service", 1, TRUE, TRUE, NoToken)
    <2>1. Adds(row) /\ row \in AccountRow /\ row.type = "admin-service" /\ row.via = NoToken
          /\ row.grants = 1
      BY <1>e DEF Ensures, Adds, Account
    <2>2. AdminServiceAccounts = {}  BY <1>e, Finds DEF Ensures
    <2>3. Made = {}  BY <1>m, <2>2
    <2> HIDE DEF row
    <2> QED  BY <1>0, <2>1, <2>2, <2>3, MadeAfter, AdminsAfter
  <1>1. CASE Kept
    <2>1. Made' = Made /\ AdminServiceAccounts' = AdminServiceAccounts
          /\ \A a \in Made : accounts'[a].grants = accounts[a].grants
      BY <1>0, <1>1, MadeAfter, AdminsAfter
    <2>2. ~Ensures  BY <1>1, <1>k DEF Ensures
    <2> QED  BY <2>1, <2>2 DEF AdminInv
  <1>2. CASE Ensures
    <2>1. Len(accounts) + 1 <= Len(accounts) + 1  BY <1>n
    <2> QED  BY <1>e, <1>2, <2>1
  <1>3. CASE (Backfills \/ Registers) /\ ~Ensures
    <2>1. PICK row \in AccountRow : Adds(row) /\ row.type = "personal"
      BY <1>3 DEF Backfills, Registers, Adds, Account
    <2>2. Made' = Made /\ AdminServiceAccounts' = AdminServiceAccounts
          /\ \A a \in Made : accounts'[a].grants = accounts[a].grants
      BY <1>0, <2>1, MadeAfter, AdminsAfter
    <2> QED  BY <1>3, <2>2 DEF AdminInv
  <1>4. CASE Redeems /\ ~Ensures
    <2>1. PICK c \in Calls, type \in {"service", "admin-service"} :
            /\ call[c].pc = "consumed"
            /\ Adds(Account(type, 1, TRUE, TRUE, call[c].token))
      BY <1>4 DEF Redeems
    <2>2. call[c].token \in DOMAIN tokens /\ DOMAIN tokens \subseteq Tokens
      BY <2>1 DEF Typed, CallsTyped, TokensTyped
    <2>3. call[c].token # NoToken  BY <2>2, NullAssumption
    <2>4. PICK row \in AccountRow : Adds(row) /\ row.via # NoToken
      BY <2>1, <2>3 DEF Adds, Account
    <2>5. Made # {}  BY <2>1 DEF AdminInv
    <2>6. Made' = Made /\ \A a \in Made : accounts'[a].grants = accounts[a].grants
      BY <2>4, MadeAfter
    <2>7. AdminServiceAccounts' \subseteq AdminServiceAccounts \cup {Len(accounts) + 1}
      BY <1>0, <2>4, AdminsAfter
    <2>8. PICK a \in Made : \A b \in AdminServiceAccounts : a <= b
      BY <1>m, <2>5 DEF AdminInv
    <2>9. a <= Len(accounts) + 1  BY <1>n, <1>m
    <2> QED  BY <1>4, <2>6, <2>7, <2>8, <2>9 DEF AdminInv
  <1> QED  BY <1>1, <1>2, <1>3, <1>4 DEF AccountEffect

\* The account that the code finds or makes is the one that was made.
LEMMA FoundMade ==
    ASSUME Typed, AdminInv
    PROVE  findAdminServiceAccount \in Made \cup {NoAccount}
  <1>1. CASE findAdminServiceAccount = NoAccount  BY <1>1
  <1>2. CASE findAdminServiceAccount # NoAccount
    <2> DEFINE f == findAdminServiceAccount
    <2>1. f \in AdminServiceAccounts /\ \A b \in AdminServiceAccounts : f <= b
      BY <1>2, Finds
    <2>2. PICK a \in Made : \A b \in AdminServiceAccounts : a <= b  BY <2>1 DEF AdminInv
    <2>3. a \in AdminServiceAccounts  BY DEF Made
    <2>4. \A b \in AdminServiceAccounts : b \in Nat
      BY AccountFacts DEF Typed, AdminServiceAccounts
    <2> HIDE DEF f
    <2>5. f = a  BY <2>1, <2>2, <2>3, <2>4
    <2> QED  BY <2>5 DEF f
  <1> QED  BY <1>1, <1>2

\* The admin service account stays the only one and the first.
LEMMA AdminStep ==
    ASSUME Typed, AdminInv, [Next]_vars
    PROVE  AdminInv'
  <1>0. AccountEffect /\ CallEffect  BY AccountStep, CallsStep
  <1>1. /\ \A a, b \in Made' : a = b
        /\ AdminServiceAccounts' # {} =>
             \E a \in Made' : \A b \in AdminServiceAccounts' : a <= b
        /\ \A a \in Made' : accounts'[a].grants = 1
        /\ Made \subseteq Made'
        /\ Ensures => Made' = {Len(accounts) + 1}
    BY <1>0, MadeStep
  <1>2. \A c \in Calls : call'[c].pc # "idle" => Made' # {}
    <2>1. Serving # {} => Made # {}  BY DEF Serving, AdminInv, PastAdmin
    <2>2. Idle.pc = "idle"  BY DEF Idle
    <2> QED  BY <1>0, <1>1, <2>1, <2>2 DEF CallEffect, Enters, AdminInv
  <1>3. ASSUME NEW p \in Pods, Alone(p), pods'[p].admin \in Made' \cup {NoAccount},
               pods'[p].pc \in PastAdmin => Made' # {}
        PROVE  /\ \A q \in Pods : pods'[q].admin \in Made' \cup {NoAccount}
               /\ \A q \in Pods : pods'[q].pc \in PastAdmin => Made' # {}
    BY <1>1, <1>3 DEF Alone, AdminInv
  <1>4. ASSUME NEW p \in Pods, PodStep(p)
        PROVE  /\ \A q \in Pods : pods'[q].admin \in Made' \cup {NoAccount}
               /\ \A q \in Pods : pods'[q].pc \in PastAdmin => Made' # {}
    <2>0. /\ pods[p].admin \in Made' \cup {NoAccount}
          /\ pods[p].pc \in PastAdmin => Made' # {}
      BY <1>1 DEF AdminInv
    <2> USE DEF PastAdmin
    <2>1. CASE Boot(p)  BY <1>3, <2>1, BootPod
    <2>2. CASE Crashed(p)  BY <1>3, <2>2, CrashPod
    <2>3. CASE Stop(p)  BY <1>3, <2>3, StopPod
    <2>4. CASE ListNodes(p) /\ ~Crashed(p)  BY <1>3, <2>0, <2>4, ListPod
    <2>5. CASE MergeNode(p) /\ ~Crashed(p)  BY <1>3, <2>0, <2>5, MergePod
    <2>6. CASE DisableUndeclared(p)  BY <1>3, <2>0, <2>6, DisablePod
    <2>7. CASE ListUsers(p)  BY <1>3, <2>0, <2>7, ListUsersPod
    <2>8. CASE BackfillUser(p)
      <3>1. Alone(p) /\ pods'[p].pc \in {"accounts", "find"} /\ pods'[p].admin = pods[p].admin
        BY <2>8, BackfillPod
      <3> QED  BY <1>3, <2>0, <3>1
    <2>9. CASE FindAdmin(p)
      <3>1. /\ Alone(p) /\ pods'[p].admin \in Made \cup {NoAccount}
            /\ pods'[p].pc = "keys" => Made # {}
            /\ pods'[p].pc \in {"ensure", "keys"}
        BY <2>9, FindPod, FoundMade
      <3> QED  BY <1>1, <1>3, <3>1
    <2>10. CASE EnsureAdmin(p)
      <3>1. Alone(p) /\ pods'[p].admin = EnsuredId /\ EnsureAdminServiceAccount(1)
        BY <2>10, EnsurePod
      <3>2. EnsuredId \in Made'
        <4>1. CASE findAdminServiceAccount = NoAccount
          BY <1>1, <3>1, <4>1, EnsuredFacts
        <4>2. CASE findAdminServiceAccount # NoAccount
          BY <1>1, <3>1, <4>2, EnsuredFacts, FoundMade
        <4> QED  BY <4>1, <4>2
      <3>3. pods'[p].admin \in Made' \cup {NoAccount} /\ Made' # {}  BY <3>1, <3>2
      <3> QED  BY <1>3, <3>1, <3>3
    <2>11. CASE AttachKeys(p) \/ CreateBalances(p) \/ RecordEvents(p)
      BY <1>3, <2>0, <2>11, LatePods
    <2>12. Crash(p) => Crashed(p)  BY DEF Crash
    <2> QED
      BY <1>4, <2>1, <2>2, <2>3, <2>4, <2>5, <2>6, <2>7, <2>8, <2>9, <2>10, <2>11, <2>12
      DEF PodStep
  <1>5. CASE pods' = pods
    <2>1. /\ \A q \in Pods : pods'[q].admin \in Made' \cup {NoAccount}
          /\ \A q \in Pods : pods'[q].pc \in PastAdmin => Made' # {}
      BY <1>1, <1>5 DEF AdminInv
    <2> QED  BY <1>1, <1>2, <2>1 DEF AdminInv
  <1>6. ASSUME NEW p \in Pods, PodStep(p) PROVE AdminInv'
    BY <1>1, <1>2, <1>4, <1>6 DEF AdminInv
  <1>7. UNCHANGED vars => pods' = pods  BY DEF vars, ctlVars
  <1> QED  BY <1>5, <1>6, <1>7, CallPods DEF Next

\* One admin service account is created and granted once, however pods start
\* over each other and die, or the one that was there before is adopted; and
\* every lookup finds that one and never an account that a caller registers
\* under its name.
THEOREM OneAdminAccount == Spec => []OneAdminServiceAccount
  <1>1. Init => Typed /\ AdminInv
    <2> SUFFICES ASSUME Init PROVE AdminInv  BY TypedStart
    <2>1. /\ Made = AdminServiceAccounts
          /\ \A a \in Made : a = 1 /\ accounts[a].grants = 1
      BY LegacyAccounts DEF Made, AdminServiceAccounts
    <2>2. \A p \in Pods : pods[p].admin = NoAccount /\ pods[p].pc = "off"
      BY DEF Init, Off
    <2>3. \A c \in Calls : call[c].pc = "idle"  BY DEF Init, Idle
    <2>4. AdminServiceAccounts # {} =>
            \E a \in Made : \A b \in AdminServiceAccounts : a <= b
      BY <2>1
    <2> QED  BY <2>1, <2>2, <2>3, <2>4 DEF AdminInv, PastAdmin
  <1>2. Typed /\ AdminInv /\ [Next]_vars => (Typed /\ AdminInv)'  BY TypedStep, AdminStep
  <1>3. Typed /\ AdminInv => OneAdminServiceAccount
    <2> SUFFICES ASSUME Typed, AdminInv PROVE OneAdminServiceAccount  OBVIOUS
    <2>1. Cardinality(Made) <= 1
      <3>1. CASE Made = {}  BY <3>1, FS_EmptySet
      <3>2. CASE Made # {}
        <4>1. PICK a \in Made : TRUE  BY <3>2
        <4>2. \A b \in Made : b = a  BY DEF AdminInv
        <4>3. Made = {a}  BY <4>2
        <4> QED  BY <4>3, FS_Singleton
      <3> QED  BY <3>1, <3>2
    <2>2. AdminServiceAccounts # {} => findAdminServiceAccount \in Made
      BY Finds, FoundMade
    <2> QED  BY <2>1, <2>2 DEF OneAdminServiceAccount, AdminInv, Made
  <1> QED  BY <1>1, <1>2, <1>3, PTL DEF Spec

----------------------------------------------------------------------------
(***************************************************************************)
(* Keys and their accounts                                                 *)
(*                                                                         *)
(* That no key is unbilled while a pod serves rests on the phases that     *)
(* came before: who is past the users has left none without an account,    *)
(* who is past the keys none of those, and a request that mints one reads  *)
(* its account from a user that was billed by then.                        *)
(***************************************************************************)

PastUsers == {"find", "ensure", "keys", "balances", "events", "serving"}
PastKeys  == {"balances", "events", "serving"}

UsersBilled(p) ==
    /\ pods[p].pc \in PastUsers => \A u \in DOMAIN owner : owner[u] # NoAccount
    /\ pods[p].pc = "accounts" =>
         \A u \in DOMAIN owner : owner[u] = NoAccount => u \in pods[p].todo
    /\ pods[p].pc = "keys" => pods[p].admin # NoAccount

KeysPaid(p) == pods[p].pc \in PastKeys => \A k \in keys : k.account # NoAccount

\* A key that is about to be inserted.
MintsPaid(c) ==
    call[c].pc = "key" => /\ call[c].account # NoAccount
                          /\ \/ call[c].user \in doubled \cup {NoUser}
                             \/ call[c].account = owner[call[c].user]

Own(k) == k.owner \in doubled \cup {NoUser} \/ k.account \in {NoAccount, owner[k.owner]}

KeyInv == /\ \A p \in Pods : UsersBilled(p) /\ KeysPaid(p)
          /\ \A c \in Calls : MintsPaid(c)
          /\ \A k \in keys : Own(k)

\* Users stay billed, and who has become so is past its phase.
LEMMA BilledStep ==
    ASSUME Typed, KeyInv, [Next]_vars
    PROVE  \A p \in Pods : UsersBilled(p)'
  <1>0. NobodyLoses  BY OwnersStep
  <1>1. ASSUME NEW q \in Pods, pods'[q] = pods[q] PROVE UsersBilled(q)'
    BY <1>0, <1>1, NullAssumption DEF UsersBilled, NobodyLoses, KeyInv
  <1>b. (\A u \in DOMAIN owner : owner[u] # NoAccount)
        => \A u \in DOMAIN owner' : owner'[u] # NoAccount
    BY <1>0, NullAssumption DEF NobodyLoses
  <1>2. ASSUME NEW p \in Pods, Alone(p), UsersBilled(p)' PROVE \A q \in Pods : UsersBilled(q)'
    BY <1>1, <1>2 DEF Alone
  <1>3. ASSUME NEW p \in Pods, PodStep(p) PROVE \A q \in Pods : UsersBilled(q)'
    <2>0. UsersBilled(p)  BY DEF KeyInv
    <2> USE DEF PastUsers
    <2>e. pods'[p].pc \notin {"find", "ensure", "keys", "balances", "events", "serving", "accounts"}
          => UsersBilled(p)'
      BY DEF UsersBilled
    <2>l. /\ pods[p].pc \in PastUsers
          /\ pods'[p].pc # "accounts" /\ (pods'[p].pc = "keys" => pods'[p].admin # NoAccount)
          => UsersBilled(p)'
      BY <1>b, <2>0 DEF UsersBilled
    <2>1. CASE Boot(p)  BY <1>2, <2>e, <2>1, BootPod
    <2>2. CASE Crashed(p)  BY <1>2, <2>e, <2>2, CrashPod
    <2>3. CASE Stop(p)  BY <1>2, <2>e, <2>3, StopPod
    <2>4. CASE ListNodes(p) /\ ~Crashed(p)  BY <1>2, <2>e, <2>4, ListPod
    <2>5. CASE MergeNode(p) /\ ~Crashed(p)  BY <1>2, <2>e, <2>5, MergePod
    <2>6. CASE DisableUndeclared(p)
      <3>1. Alone(p) /\ pods'[p].pc \in {"users", "disable"}  BY <2>6, DisablePod
      <3> QED  BY <1>2, <2>e, <3>1
    <2>7. CASE ListUsers(p)
      <3>1. /\ Alone(p) /\ pods'[p].todo = UsersWithoutAccount /\ owner' = owner
            /\ pods'[p].pc = IF UsersWithoutAccount = {} THEN "find" ELSE "accounts"
        BY <2>7, ListUsersPod
      <3>2. UsersBilled(p)'  BY <3>1 DEF UsersBilled, UsersWithoutAccount
      <3> QED  BY <1>2, <3>1, <3>2
    <2>8. CASE BackfillUser(p)
      <3>1. PICK u \in pods[p].todo :
              /\ Alone(p) /\ pods[p].pc = "accounts" /\ u \in DOMAIN owner
              /\ BackfillAccount(u) /\ pods'[p].todo = pods[p].todo \ {u}
              /\ pods'[p].pc = IF pods[p].todo \ {u} = {} THEN "find" ELSE "accounts"
        BY <2>8, BackfillPod
      <3>2. owner' = [owner EXCEPT ![u] = Len(accounts) + 1] /\ Len(accounts) + 1 # NoAccount
        BY <3>1, BackfillKeys, NullAssumption
      <3>3. \A v \in DOMAIN owner' : owner'[v] = NoAccount => v \in pods[p].todo \ {u}
        BY <2>0, <3>1, <3>2 DEF UsersBilled
      <3>4. UsersBilled(p)'  BY <3>1, <3>3 DEF UsersBilled
      <3> QED  BY <1>2, <3>1, <3>4
    <2>9. CASE FindAdmin(p)
      <3>1. /\ Alone(p) /\ pods[p].pc = "find" /\ pods'[p].pc \in {"ensure", "keys"}
            /\ pods'[p].pc = "keys" => pods'[p].admin # NoAccount
        BY <2>9, FindPod
      <3> QED  BY <1>2, <2>l, <3>1
    <2>10. CASE EnsureAdmin(p)
      <3>1. /\ Alone(p) /\ pods[p].pc = "ensure" /\ pods'[p].pc = "keys"
            /\ pods'[p].admin # NoAccount
        BY <2>10, EnsurePod, EnsuredFacts
      <3> QED  BY <1>2, <2>l, <3>1
    <2>11. CASE AttachKeys(p) \/ CreateBalances(p) \/ RecordEvents(p)
      <3>1. /\ Alone(p) /\ pods[p].pc \in {"keys", "balances", "events"}
            /\ pods'[p].pc \in {"balances", "events", "serving"}
        BY <2>11, LatePods
      <3> QED  BY <1>2, <2>l, <3>1
    <2>12. Crash(p) => Crashed(p)  BY DEF Crash
    <2> QED
      BY <1>3, <2>1, <2>2, <2>3, <2>4, <2>5, <2>6, <2>7, <2>8, <2>9, <2>10, <2>11, <2>12
      DEF PodStep
  <1>4. CASE pods' = pods  BY <1>1, <1>4
  <1>5. UNCHANGED vars => pods' = pods  BY DEF vars, ctlVars
  <1> QED  BY <1>3, <1>4, <1>5, CallPods DEF Next

\* A pod gets past the keys only by attaching them.
LEMMA PastKeysStep ==
    ASSUME Typed, [Next]_vars, NEW q \in Pods, pods'[q].pc \in PastKeys
    PROVE  pods[q].pc \in PastKeys \/ AttachKeys(q)
  <1> USE DEF PastKeys
  <1>1. ASSUME NEW p \in Pods, PodStep(p) PROVE pods[q].pc \in PastKeys \/ AttachKeys(q)
    <2>1. CASE Boot(p)  BY <2>1, BootPod DEF Alone
    <2>2. CASE Crashed(p)  BY <2>2, CrashPod DEF Alone
    <2>3. CASE Stop(p)  BY <2>3, StopPod DEF Alone
    <2>4. CASE ListNodes(p) /\ ~Crashed(p)  BY <2>4, ListPod DEF Alone
    <2>5. CASE MergeNode(p) /\ ~Crashed(p)  BY <2>5, MergePod DEF Alone
    <2>6. CASE DisableUndeclared(p)
      <3>1. Alone(p) /\ pods'[p].pc \in {"users", "disable"}  BY <2>6, DisablePod
      <3> QED  BY <3>1 DEF Alone
    <2>7. CASE ListUsers(p)  BY <2>7, ListUsersPod DEF Alone
    <2>8. CASE BackfillUser(p)
      <3>1. Alone(p) /\ pods'[p].pc \in {"find", "accounts"}  BY <2>8, BackfillPod
      <3> QED  BY <3>1 DEF Alone
    <2>9. CASE FindAdmin(p)  BY <2>9, FindPod DEF Alone
    <2>10. CASE EnsureAdmin(p)  BY <2>10, EnsurePod DEF Alone
    <2>11. CASE AttachKeys(p)  BY <2>11, LatePods DEF Alone
    <2>12. CASE CreateBalances(p) \/ RecordEvents(p)  BY <2>12, LatePods DEF Alone
    <2>13. Crash(p) => Crashed(p)  BY DEF Crash
    <2> QED
      BY <1>1, <2>1, <2>2, <2>3, <2>4, <2>5, <2>6, <2>7, <2>8, <2>9, <2>10, <2>11, <2>12,
         <2>13
      DEF PodStep
  <1>2. UNCHANGED vars => pods' = pods  BY DEF vars, ctlVars
  <1> QED  BY <1>1, <1>2, CallPods DEF Next

\* The keys after a step: each is an old one, or a new one with an account,
\* and on its user's account if it was not before.
LEMMA KeyEffect ==
    ASSUME Typed, KeyInv, [Next]_vars
    PROVE  /\ \A k \in keys' : Own(k)'
           /\ \A k \in keys' : k \in keys \/ k.account # NoAccount
           /\ \A c \in Calls : MintsPaid(c)'
           /\ \A p \in Pods : AttachKeys(p) => \A k \in keys' : k.account # NoAccount
  <1>0. OwnersTyped /\ NobodyLoses  BY OwnersStep DEF Typed
  <1>s. Serving # {} => \A u \in DOMAIN owner : owner[u] # NoAccount
    BY DEF Serving, KeyInv, UsersBilled, PastUsers
  <1>k. \A k \in keys : Own(k) /\ k.owner \in DOMAIN owner \cup {NoUser}
    BY <1>0 DEF KeyInv, OwnersTyped
  <1>i. AccountIds' \subseteq Nat
    <2>1. AccountsTyped'  BY TypedStep DEF Typed
    <2>2. Len(accounts') \in Nat /\ DOMAIN accounts' = 1..Len(accounts')
      BY <2>1, LenProperties DEF AccountsTyped
    <2> QED  BY <2>2 DEF AccountIds
  \* Calls: those that were minting, if no user's account changed, ...
  <1>c. ASSUME doubled \subseteq doubled',
               \A u \in DOMAIN owner : /\ u \in DOMAIN owner'
                                       /\ owner'[u] = owner[u] \/ u \in doubled'
        PROVE  \A c \in Calls : MintsPaid(c)'
    <2> TAKE c \in Calls
    <2>1. CASE call'[c] = call[c]
      <3>1. MintsPaid(c) /\ (call[c].pc = "key" => call[c].user \in DOMAIN owner \cup {NoUser})
        BY DEF KeyInv, Typed, CallsTyped
      <3> QED  BY <1>c, <2>1, <3>1 DEF MintsPaid
    <2>2. CASE call'[c] = Idle  BY <2>2 DEF MintsPaid, Idle
    <2>3. CASE Enters(c)
      <3>1. CASE /\ call'[c].pc = "key" /\ call'[c].user \in DOMAIN owner
                 /\ call'[c].account = owner[call'[c].user] /\ UNCHANGED acctVars
        <4>1. owner' = owner /\ Serving # {}  BY <2>3, <3>1 DEF acctVars, Enters
        <4> QED  BY <1>s, <3>1, <4>1 DEF MintsPaid
      <3>2. CASE call'[c].user = NoUser /\ call'[c].account \in AccountIds'
        BY <1>i, <3>2, NullAssumption DEF MintsPaid
      <3> QED  BY <2>3, <3>1, <3>2 DEF Enters, MintsPaid
    <2> QED  BY <2>1, <2>2, <2>3, CallsStep DEF CallEffect
  <1>1. ASSUME NEW p \in Pods, BackfillUser(p)
        PROVE  /\ \A k \in keys' : Own(k)'
               /\ \A k \in keys' : k \in keys \/ k.account # NoAccount
               /\ \A c \in Calls : MintsPaid(c)'
    <2>1. PICK u \in pods[p].todo :
            /\ BackfillAccount(u) /\ u \in DOMAIN owner
            /\ doubled' = IF owner[u] = NoAccount THEN doubled ELSE doubled \cup {u}
      BY <1>1, BackfillPod
    <2>2. /\ Len(accounts) + 1 # NoAccount
          /\ owner' = [owner EXCEPT ![u] = Len(accounts) + 1]
          /\ \A k \in keys' :
               \/ k \in keys /\ ~(k.owner = u /\ k.account = NoAccount)
               \/ k.owner = u /\ k.account = Len(accounts) + 1
      BY <2>1, BackfillKeys, NullAssumption
    <2>3. /\ owner'[u] = Len(accounts) + 1 /\ DOMAIN owner' = DOMAIN owner
          /\ \A v \in DOMAIN owner : v # u => owner'[v] = owner[v]
      BY <2>1, <2>2
    <2>4. doubled \subseteq doubled' /\ (u \in doubled' \/ owner[u] = NoAccount)
      BY <2>1
    <2>5. ASSUME NEW k \in keys' PROVE Own(k)'
      <3>1. CASE k.owner = u /\ k.account = Len(accounts) + 1  BY <2>3, <3>1 DEF Own
      <3>2. CASE k \in keys /\ k.owner # u  BY <1>k, <2>3, <2>4, <3>2 DEF Own
      <3>3. CASE k \in keys /\ k.owner = u /\ k.account # NoAccount
        <4>1. k.owner \in doubled \cup {NoUser} \/ k.account = owner[u]
          BY <1>k, <3>3 DEF Own
        <4> QED  BY <2>4, <3>3, <4>1 DEF Own
      <3> QED  BY <2>2, <3>1, <3>2, <3>3
    <2>6. \A c \in Calls : MintsPaid(c)'
      <3>1. CASE owner[u] # NoAccount
        <4>1. u \in doubled'  BY <2>4, <3>1
        <4> QED  BY <1>c, <2>3, <2>4, <4>1
      <3>2. CASE owner[u] = NoAccount
        <4>1. call' = call /\ doubled' = doubled  BY <1>1, <2>1, <3>2 DEF BackfillUser
        <4>2. \A c \in Calls :
                /\ MintsPaid(c)
                /\ call[c].pc = "key" => call[c].user \in DOMAIN owner \cup {NoUser}
          BY DEF KeyInv, Typed, CallsTyped
        <4> QED  BY <2>3, <3>2, <4>1, <4>2 DEF MintsPaid
      <3> QED  BY <3>1, <3>2
    <2> QED  BY <2>2, <2>5, <2>6
  <1>2. ASSUME NEW p \in Pods, AttachKeys(p)
        PROVE  /\ \A k \in keys' : Own(k)' /\ k.account # NoAccount
               /\ \A c \in Calls : MintsPaid(c)'
    <2>1. /\ BackfillAdminKeyAccounts(pods[p].admin) /\ owner' = owner /\ doubled' = doubled
          /\ pods[p].pc = "keys"
      BY <1>2 DEF AttachKeys
    <2>2. pods[p].admin \in Nat \cup {NoAccount}  BY DEF Typed, PodsTyped, Pod
    <2>3. /\ pods[p].admin # NoAccount
          /\ \A u \in DOMAIN owner : owner[u] # NoAccount
      BY <2>1 DEF KeyInv, UsersBilled, PastUsers
    <2>4. ASSUME NEW j \in keys' PROVE Own(j)' /\ j.account # NoAccount
      <3>1. PICK k \in keys :
              /\ j.owner = k.owner
              /\ k.account # NoAccount => j = k
              /\ k.account = NoAccount => IF k.owner \in Billed THEN j.account = owner[k.owner]
                                          ELSE j.account = pods[p].admin
        BY <2>1, <2>2, AttachedKeys
      <3>2. CASE k.account # NoAccount  BY <1>k, <2>1, <3>1, <3>2 DEF Own
      <3>3. CASE k.account = NoAccount /\ k.owner \in DOMAIN owner
        <4>1. k.owner \in Billed  BY <2>3, <3>3 DEF Billed
        <4> QED  BY <2>1, <2>3, <3>1, <3>3, <4>1 DEF Own
      <3>4. CASE k.account = NoAccount /\ k.owner = NoUser /\ k.owner \notin DOMAIN owner
        <4>1. k.owner \notin Billed  BY <3>4 DEF Billed
        <4> QED  BY <2>1, <2>3, <3>1, <3>4, <4>1 DEF Own
      <3> QED  BY <1>k, <3>2, <3>3, <3>4
    <2> QED  BY <1>c, <2>1, <2>4
  <1>3. ASSUME NEW u \in Users, RegisterUser(u), doubled' = doubled
        PROVE  /\ \A k \in keys' : Own(k)' /\ k \in keys
               /\ \A c \in Calls : MintsPaid(c)'
    <2>1. /\ u \notin DOMAIN owner /\ keys' = keys
          /\ owner' = [v \in DOMAIN owner \cup {u} |->
                         IF v = u THEN Len(accounts) + 1 ELSE owner[v]]
      BY <1>3 DEF RegisterUser
    <2>2. \A v \in DOMAIN owner : v \in DOMAIN owner' /\ owner'[v] = owner[v]  BY <2>1
    <2> QED  BY <1>c, <1>k, <1>3, <2>1, <2>2 DEF Own
  <1>4. ASSUME NEW c \in Calls, registerServiceAccount(c), doubled' = doubled
        PROVE  /\ \A k \in keys' : Own(k)' /\ (k \in keys \/ k.account # NoAccount)
               /\ \A d \in Calls : MintsPaid(d)'
    <2>1. /\ keys' = keys \cup {[owner |-> NoUser, account |-> Len(accounts) + 1]}
          /\ owner' = owner
      BY <1>4 DEF registerServiceAccount, RegisterServiceAccount
    <2>2. Len(accounts) + 1 # NoAccount  BY AccountFacts, NullAssumption DEF Typed
    <2> QED  BY <1>c, <1>k, <1>4, <2>1, <2>2 DEF Own
  <1>5. ASSUME NEW c \in Calls, createKey(c), doubled' = doubled
        PROVE  /\ \A k \in keys' : Own(k)' /\ (k \in keys \/ k.account # NoAccount)
               /\ \A d \in Calls : MintsPaid(d)'
    <2>1. /\ keys' = keys \cup {[owner |-> call[c].user, account |-> call[c].account]}
          /\ owner' = owner /\ call[c].pc = "key"
      BY <1>5 DEF createKey, CreateKey
    <2>2. MintsPaid(c)  BY DEF KeyInv
    <2> QED  BY <1>c, <1>k, <1>5, <2>1, <2>2 DEF Own, MintsPaid
  <1>6. ASSUME owner' = owner, keys' = keys, doubled' = doubled
        PROVE  /\ \A k \in keys' : Own(k)' /\ k \in keys
               /\ \A c \in Calls : MintsPaid(c)'
    BY <1>c, <1>k, <1>6 DEF Own
  <1>7. ASSUME NEW p \in Pods, PodStep(p), ~BackfillUser(p), ~AttachKeys(p)
        PROVE  owner' = owner /\ keys' = keys /\ doubled' = doubled
    BY <1>7 DEF PodStep, Boot, Crash, Stop, ListNodes, MergeNode, DisableUndeclared,
                ListUsers, FindAdmin, EnsureAdmin, CreateBalances, RecordEvents, acctVars
  <1>8. ASSUME NEW c \in Calls, CallStep(c)
        PROVE  /\ doubled' = doubled
               /\ \/ registerServiceAccount(c) \/ createKey(c)
                  \/ \E u \in Users : RegisterUser(u)
                  \/ owner' = owner /\ keys' = keys
    <2>1. doubled' = doubled  BY <1>8, CallPods
    <2>2. ASSUME NEW p \in Pods
          PROVE  /\ \A t \in Tokens : \/ createRegistrationToken(c, p, t)
                                      \/ ConsumeToken(c, p, t)
                                      \/ revokeRegistrationToken(c, p, t)
                                      => owner' = owner /\ keys' = keys
                 /\ \A u \in Users : userKey(c, p, u) => owner' = owner /\ keys' = keys
                 /\ adminKey(c, p) \/ createAccountKey(c, p) \/ adminNode(c, p)
                      => owner' = owner /\ keys' = keys
      BY DEF createRegistrationToken, CreateRegistrationToken, ConsumeToken,
             revokeRegistrationToken, RevokeRegistrationToken, userKey, adminKey,
             createAccountKey, adminNode, acctVars
    <2>3. RollbackRegistration(c) \/ grantDefault(c) => owner' = owner /\ keys' = keys
      BY DEF RollbackRegistration, grantDefault, GrantDefault, acctVars
    <2>4. \A p \in Pods, u \in Users :
            register(c, p, u) \/ CreateAdminBootstrap(c, p, u) => RegisterUser(u)
      BY DEF register, CreateAdminBootstrap
    <2> QED  BY <1>8, <2>1, <2>2, <2>3, <2>4 DEF CallStep
  <1>9. UNCHANGED vars => owner' = owner /\ keys' = keys /\ doubled' = doubled
    BY DEF vars, acctVars, ctlVars
  <1>10. /\ \A k \in keys' : Own(k)'
         /\ \A k \in keys' : k \in keys \/ k.account # NoAccount
         /\ \A c \in Calls : MintsPaid(c)'
    <2>1. CASE \E p \in Pods : PodStep(p)  BY <2>1, <1>1, <1>2, <1>6, <1>7
    <2>2. CASE \E c \in Calls : CallStep(c)  BY <2>2, <1>3, <1>4, <1>5, <1>6, <1>8
    <2>3. CASE UNCHANGED vars  BY <2>3, <1>6, <1>9
    <2> QED  BY <2>1, <2>2, <2>3 DEF Next
  <1> QED  BY <1>2, <1>10

\* As long as a pod serves, every key has an account to be billed, also one
\* that is minted while another pod still starts, and a user's keys are on the
\* account of the user unless two pods that started at once gave it two.
THEOREM KeysAlwaysBilled == Spec => []KeysBilled
  <1>1. Init => Typed /\ KeyInv
    <2> SUFFICES ASSUME Init PROVE KeyInv  BY TypedStart
    <2>1. \A p \in Pods : pods[p].pc = "off"  BY DEF Init, Off
    <2>2. \A c \in Calls : call[c].pc = "idle"  BY DEF Init, Idle
    <2>3. \A k \in keys : k.account = NoAccount
      <3>1. PICK known \in SUBSET Users :
              keys = [owner : known \cup {NoUser}, account : {NoAccount}]
        BY DEF Init, LegacyTables
      <3> QED  BY <3>1
    <2> QED
      BY <2>1, <2>2, <2>3
      DEF KeyInv, UsersBilled, KeysPaid, PastUsers, PastKeys, MintsPaid, Own
  <1>2. Typed /\ KeyInv /\ [Next]_vars => (Typed /\ KeyInv)'
    <2> SUFFICES ASSUME Typed, KeyInv, [Next]_vars PROVE KeyInv'  BY TypedStep
    <2>1. \A p \in Pods : UsersBilled(p)'  BY BilledStep
    <2>2. ASSUME NEW q \in Pods PROVE KeysPaid(q)'
      <3>1. CASE AttachKeys(q)  BY <3>1, KeyEffect DEF KeysPaid
      <3>2. CASE pods[q].pc \in PastKeys
        <4>1. \A k \in keys : k.account # NoAccount  BY <3>2 DEF KeyInv, KeysPaid
        <4> QED  BY <4>1, KeyEffect DEF KeysPaid
      <3>3. CASE pods'[q].pc \notin PastKeys  BY <3>3 DEF KeysPaid, PastKeys
      <3> QED  BY <3>1, <3>2, <3>3, PastKeysStep
    <2> QED  BY <2>1, <2>2, KeyEffect DEF KeyInv
  <1>3. KeyInv => KeysBilled
    BY DEF KeyInv, KeysBilled, KeysPaid, PastKeys, Serving, Own
  <1> QED  BY <1>1, <1>2, <1>3, PTL DEF Spec

----------------------------------------------------------------------------
(***************************************************************************)
(* The tables are complete when nobody is starting                         *)
(***************************************************************************)

\* A pod that is starting, or died before it served: before the balances are
\* backfilled, and before the events are.
BeforeBalances == (Phases \ {"events"}) \cup {"crashed"}
BeforeEvents   == Phases \cup {"crashed"}

AllOff == \A p \in Pods : pods[p].pc = "off"

BalancesKept == \A a \in AccountIds : accounts[a].balance
EventsKept ==
    /\ \A a \in AccountIds : accounts[a].type # "personal" => accounts[a].event
    /\ tracked = DOMAIN owner

\* Rows are missing only before the first start and while a start is, or was
\* left, somewhere before the backfill of those rows.
SettledInv ==
    /\ BalancesKept \/ AllOff \/ \E p \in Pods : pods[p].pc \in BeforeBalances
    /\ EventsKept \/ AllOff \/ \E p \in Pods : pods[p].pc \in BeforeEvents

\* A pod leaves these phases only by the backfill that ends them, and enters
\* them only from being off.
LEMMA StartingStep ==
    ASSUME Typed, [Next]_vars, NEW q \in Pods
    PROVE  /\ pods[q].pc \in BeforeBalances
              => pods'[q].pc \in BeforeBalances \/ CreateBalances(q)
           /\ pods[q].pc \in BeforeEvents
              => pods'[q].pc \in BeforeEvents \/ RecordEvents(q)
           /\ pods[q].pc = "off" => pods'[q].pc \in {"off", "list"}
  <1> DEFINE Moves == /\ pods[q].pc \in BeforeBalances
                         => pods'[q].pc \in BeforeBalances \/ CreateBalances(q)
                      /\ pods[q].pc \in BeforeEvents
                         => pods'[q].pc \in BeforeEvents \/ RecordEvents(q)
                      /\ pods[q].pc = "off" => pods'[q].pc \in {"off", "list"}
  <1> USE DEF BeforeBalances, BeforeEvents, Phases
  <1>1. ASSUME NEW p \in Pods, PodStep(p) PROVE Moves
    <2>1. CASE Boot(p)  BY <2>1, BootPod DEF Alone
    <2>2. CASE Crash(p)
      <3>1. Crashed(p) /\ pods[p].pc # "off"  BY <2>2 DEF Crash, Booting
      <3> QED  BY <3>1, CrashPod DEF Alone
    <2>3. CASE Stop(p)  BY <2>3, StopPod DEF Alone
    <2>4. CASE (ListNodes(p) \/ MergeNode(p)) /\ Crashed(p)
      <3>1. pods[p].pc # "off"  BY <2>4 DEF ListNodes, MergeNode
      <3> QED  BY <2>4, <3>1, CrashPod DEF Alone
    <2>5. CASE ListNodes(p) /\ ~Crashed(p)  BY <2>5, ListPod DEF Alone
    <2>6. CASE MergeNode(p) /\ ~Crashed(p)
      <3>1. Alone(p) /\ pods[p].pc = "merge" /\ pods'[p].pc = "merge"  BY <2>6, MergePod
      <3> QED  BY <3>1 DEF Alone
    <2>7. CASE DisableUndeclared(p)
      <3>1. /\ Alone(p) /\ pods[p].pc \in {"merge", "disable"}
            /\ pods'[p].pc \in {"users", "disable"}
        BY <2>7, DisablePod
      <3> QED  BY <3>1 DEF Alone
    <2>8. CASE ListUsers(p)  BY <2>8, ListUsersPod DEF Alone
    <2>9. CASE BackfillUser(p)
      <3>1. /\ Alone(p) /\ pods[p].pc = "accounts" /\ pods'[p].pc \in {"find", "accounts"}
        BY <2>9, BackfillPod
      <3> QED  BY <3>1 DEF Alone
    <2>10. CASE FindAdmin(p)  BY <2>10, FindPod DEF Alone
    <2>11. CASE EnsureAdmin(p)  BY <2>11, EnsurePod DEF Alone
    <2>12. CASE AttachKeys(p)  BY <2>12, LatePods DEF Alone
    <2>13. CASE CreateBalances(p)  BY <2>13, LatePods DEF Alone
    <2>14. CASE RecordEvents(p)  BY <2>14, LatePods DEF Alone
    <2> HIDE DEF Moves
    <2> QED
      BY <1>1, <2>1, <2>2, <2>3, <2>4, <2>5, <2>6, <2>7, <2>8, <2>9, <2>10, <2>11, <2>12,
         <2>13, <2>14
      DEF PodStep
  <1>2. pods' = pods => Moves  OBVIOUS
  <1>3. UNCHANGED vars => pods' = pods  BY DEF vars, ctlVars
  <1> HIDE DEF Moves
  <1>4. Moves  BY <1>1, <1>2, <1>3, CallPods DEF Next
  <1> QED  BY <1>4 DEF Moves

\* Everyone tracked stays tracked: a new user comes with its event, and no
\* other step makes one.
LEMMA TrackedStep ==
    ASSUME Typed, [Next]_vars, tracked = DOMAIN owner
    PROVE  tracked' = DOMAIN owner'
  <1>1. ASSUME NEW u, BackfillAccount(u) PROVE tracked' = DOMAIN owner'
    BY <1>1 DEF BackfillAccount
  <1>2. ASSUME NEW u, RegisterUser(u) PROVE tracked' = DOMAIN owner'
    BY <1>2 DEF RegisterUser
  <1>3. CASE tracked' = tracked /\ owner' = owner  BY <1>3
  <1>4. ASSUME NEW p \in Pods, PodStep(p) PROVE tracked' = DOMAIN owner'
    <2>1. CASE BackfillUser(p)  BY <1>1, <2>1 DEF BackfillUser
    <2>2. CASE RecordEvents(p)
      BY <2>2 DEF RecordEvents, BackfillRegistrationEvents
    <2> QED
      BY <1>3, <1>4, <2>1, <2>2
      DEF PodStep, Boot, Crash, Stop, ListNodes, MergeNode, DisableUndeclared,
          ListUsers, FindAdmin, EnsureAdmin, AttachKeys, CreateBalances, acctVars
  <1>5. ASSUME NEW c \in Calls, CallStep(c) PROVE tracked' = DOMAIN owner'
    <2>1. \/ \E u \in Users : RegisterUser(u)
          \/ tracked' = tracked /\ owner' = owner
      BY <1>5
      DEF CallStep, createRegistrationToken, CreateRegistrationToken, ConsumeToken,
          registerServiceAccount, RegisterServiceAccount, RollbackRegistration,
          revokeRegistrationToken, RevokeRegistrationToken, register, grantDefault,
          GrantDefault, CreateAdminBootstrap, userKey, adminKey, createAccountKey,
          createKey, CreateKey, adminNode, acctVars
    <2> QED  BY <1>2, <1>3, <2>1
  <1>6. UNCHANGED vars => tracked' = tracked /\ owner' = owner  BY DEF vars, acctVars
  <1> QED  BY <1>3, <1>4, <1>5, <1>6 DEF Next

\* Only a backfilled account comes without a balance row, and every service
\* account comes with its event.
LEMMA RowsAfter ==
    ASSUME Typed, [Next]_vars
    PROVE  /\ BalancesKept => BalancesKept' \/ \E p \in Pods : pods'[p].pc \in BeforeBalances
           /\ EventsKept => EventsKept'
  <1>a. AccountsTyped /\ AccountEffect  BY AccountStep DEF Typed
  <1>1. ASSUME NEW row, Adds(row), row.balance PROVE BalancesKept => BalancesKept'
    BY <1>a, <1>1, Appended DEF Adds, BalancesKept
  <1>2. ASSUME NEW row, Adds(row), row.type # "personal" => row.event
        PROVE  EventsKept => EventsKept'
    BY <1>a, <1>2, Appended, TrackedStep DEF Adds, EventsKept
  <1>3. CASE Kept
    BY <1>3, TrackedStep DEF Kept, BalancesKept, EventsKept
  <1>4. CASE Backfills
    <2>1. PICK p \in Pods : /\ pods'[p].pc \in {"accounts", "find"}
                            /\ Adds(Account("personal", 0, FALSE, FALSE, NoToken))
      BY <1>4 DEF Backfills
    <2>2. Account("personal", 0, FALSE, FALSE, NoToken).type = "personal"  BY DEF Account
    <2> QED  BY <1>2, <2>1, <2>2 DEF BeforeBalances, Phases
  <1>5. CASE Registers
    <2>1. /\ Account("personal", 0, TRUE, FALSE, NoToken).type = "personal"
          /\ Account("personal", 0, TRUE, FALSE, NoToken).balance
      BY DEF Account
    <2> QED  BY <1>1, <1>2, <1>5, <2>1 DEF Registers
  <1>6. CASE Ensures
    <2>1. /\ Account("admin-service", 1, TRUE, TRUE, NoToken).event
          /\ Account("admin-service", 1, TRUE, TRUE, NoToken).balance
      BY DEF Account
    <2> QED  BY <1>1, <1>2, <1>6, <2>1 DEF Ensures
  <1>7. CASE Redeems
    <2>1. PICK c \in Calls, type \in {"service", "admin-service"} :
            Adds(Account(type, 1, TRUE, TRUE, call[c].token))
      BY <1>7 DEF Redeems
    <2>2. /\ Account(type, 1, TRUE, TRUE, call[c].token).event
          /\ Account(type, 1, TRUE, TRUE, call[c].token).balance
      BY DEF Account
    <2> QED  BY <1>1, <1>2, <2>1, <2>2
  <1> QED  BY <1>a, <1>3, <1>4, <1>5, <1>6, <1>7 DEF AccountEffect

\* Once nobody is starting and no start was left half done, every account has
\* a balance row and every user and service account its registration event.
THEOREM TablesSettled == Spec => []SettledTables
  <1>1. Init => Typed /\ SettledInv
    <2>1. Init => AllOff  BY DEF Init, AllOff, Off
    <2> QED  BY <2>1, TypedStart DEF SettledInv
  <1>2. Typed /\ SettledInv /\ [Next]_vars => (Typed /\ SettledInv)'
    <2> SUFFICES ASSUME Typed, SettledInv, [Next]_vars PROVE SettledInv'  BY TypedStep
    <2>1. ASSUME NEW p \in Pods, CreateBalances(p) PROVE BalancesKept'
      <3>1. accounts' = [a \in AccountIds |-> [accounts[a] EXCEPT !.balance = TRUE]]
        BY <2>1 DEF CreateBalances, BackfillCreditBalances
      <3>2. \A a \in AccountIds : accounts[a] \in AccountRow  BY AccountFacts DEF Typed
      <3> QED  BY <3>1, <3>2 DEF BalancesKept, AccountIds, AccountRow
    <2>2. ASSUME NEW p \in Pods, RecordEvents(p) PROVE EventsKept'
      <3>1. /\ accounts' = [a \in AccountIds |->
                              [accounts[a] EXCEPT !.event = @ \/ accounts[a].type # "personal"]]
            /\ tracked' = tracked \cup DOMAIN owner /\ owner' = owner
        BY <2>2 DEF RecordEvents, BackfillRegistrationEvents
      <3>2. \A a \in AccountIds : accounts[a] \in AccountRow  BY AccountFacts DEF Typed
      <3>3. tracked \subseteq DOMAIN owner  BY DEF Typed, OwnersTyped
      <3>4. /\ AccountIds' = AccountIds
            /\ \A a \in AccountIds : /\ accounts'[a].type = accounts[a].type
                                     /\ accounts[a].type # "personal" => accounts'[a].event
        BY <3>1, <3>2 DEF AccountIds, AccountRow
      <3> QED  BY <3>1, <3>3, <3>4 DEF EventsKept
    <2>3. AllOff => AllOff' \/ \E p \in Pods : pods'[p].pc = "list"
      BY StartingStep DEF AllOff
    <2>4. "list" \in BeforeBalances /\ "list" \in BeforeEvents
      BY DEF BeforeBalances, BeforeEvents, Phases
    <2>5. BalancesKept' \/ AllOff' \/ \E p \in Pods : pods'[p].pc \in BeforeBalances
      BY <2>1, <2>3, <2>4, RowsAfter, StartingStep DEF SettledInv
    <2>6. EventsKept' \/ AllOff' \/ \E p \in Pods : pods'[p].pc \in BeforeEvents
      BY <2>2, <2>3, <2>4, RowsAfter, StartingStep DEF SettledInv
    <2> QED  BY <2>5, <2>6 DEF SettledInv
  <1>3. SettledInv => SettledTables
    <2> SUFFICES ASSUME SettledInv, Serving # {},
                        \A p \in Pods : pods[p].pc \in {"off", "serving"}
                 PROVE  BalancesKept /\ EventsKept
      BY DEF SettledTables, BalancesKept, EventsKept
    <2> QED  BY DEF SettledInv, AllOff, BeforeBalances, BeforeEvents, Phases, Serving
  <1> QED  BY <1>1, <1>2, <1>3, PTL DEF Spec

----------------------------------------------------------------------------
(***************************************************************************)
(* A start that finishes leaves exactly the declared nodes enabled         *)
(***************************************************************************)

\* The phases that sync the nodes, and the ones after them.
Syncing == {"list", "merge", "disable"}
Synced  == Phases \ Syncing

ConfigNodes == {n \in DOMAIN nodes : nodes[n].source = "config"}
OwnWriters  == \A n \in DOMAIN nodes : nodes[n].writer = nodes[n].source

GroupTyped ==
    /\ group \in [files : SUBSET Files, done : BOOLEAN]
    /\ IsFiniteSet(group.files)
    /\ Booting # {} => group.files # {}

\* What a pod that syncs has read is still true where it relies on it: config
\* nodes stay config nodes, and the declared names that it found are theirs.
PodNodes(p) ==
    /\ pods[p].pc \in Syncing => pods[p].file \in group.files
    /\ pods[p].pc = "merge" =>
         \A n \in DOMAIN pods[p].listed :
             /\ pods[p].listed[n].source = "config" => n \in ConfigNodes
             /\ n \in pods[p].file => pods[p].listed[n].source = "config"
    /\ pods[p].pc = "disable" => pods[p].todo \subseteq ConfigNodes \ pods[p].file

\* How far a pod has brought the nodes to the file f.
Reached(p, f) ==
    /\ pods[p].pc = "merge" => /\ f \ pods[p].todo \subseteq EnabledConfig
                               /\ EnabledConfig \ f \subseteq Undeclared(f, pods[p].listed)
    /\ pods[p].pc = "disable" => /\ f \subseteq EnabledConfig
                                 /\ EnabledConfig \ f \subseteq pods[p].todo
    /\ pods[p].pc \in Synced => EnabledConfig = f

NodesInv ==
    /\ GroupTyped /\ OwnWriters /\ \A p \in Pods : PodNodes(p)
    /\ \A f \in group.files :
         group.files = {f} => /\ \A p \in Pods : Reached(p, f)
                              /\ group.done => EnabledConfig = f

\* Config nodes stay, and nobody writes to a row of the other kind.
NodesKept == ConfigNodes \subseteq ConfigNodes' /\ OwnWriters'

\* A declared node is enabled, ...
LEMMA MergeNodes ==
    ASSUME Typed, NodesInv, NEW p \in Pods, MergeNode(p), ~Crashed(p)
    PROVE  \E n \in pods[p].todo :
             /\ Alone(p) /\ pods[p].pc = "merge" /\ pods'[p].pc = "merge"
             /\ pods'[p].todo = pods[p].todo \ {n} /\ n \in pods[p].file
             /\ pods'[p].file = pods[p].file /\ pods'[p].listed = pods[p].listed
             /\ EnabledConfig' = EnabledConfig \cup {n} /\ NodesKept
  <1>1. PICK n \in pods[p].todo :
          /\ Alone(p) /\ pods[p].pc = "merge" /\ pods'[p].pc = "merge"
          /\ pods'[p].todo = pods[p].todo \ {n}
          /\ pods'[p].file = pods[p].file /\ pods'[p].listed = pods[p].listed
          /\ MergePossible(n, pods[p].listed) /\ Merge(n, pods[p].listed)
    BY MergePod
  <1>2. n \in pods[p].file  BY <1>1 DEF Typed, PodsTyped
  <1>3. /\ nodes \in [DOMAIN nodes -> Node] /\ OwnWriters
    BY ListingFacts DEF Typed, NodesInv
  <1>4. CASE n \in DOMAIN pods[p].listed
    <2>1. n \in DOMAIN nodes /\ nodes[n].source = "config"
      BY <1>1, <1>2, <1>4 DEF NodesInv, PodNodes, ConfigNodes
    <2>2. nodes' = [nodes EXCEPT ![n].enabled = TRUE, ![n].writer = "config"]
      BY <1>1, <1>4 DEF Merge
    <2>3. /\ DOMAIN nodes' = DOMAIN nodes
          /\ \A m \in DOMAIN nodes : m # n => nodes'[m] = nodes[m]
          /\ nodes'[n].source = "config" /\ nodes'[n].enabled /\ nodes'[n].writer = "config"
      BY <1>3, <2>1, <2>2 DEF Node
    <2>4. EnabledConfig' = EnabledConfig \cup {n}  BY <2>1, <2>3 DEF EnabledConfig
    <2>5. NodesKept  BY <1>3, <2>1, <2>3 DEF NodesKept, ConfigNodes, OwnWriters
    <2> QED  BY <1>1, <1>2, <2>4, <2>5
  <1>5. CASE n \notin DOMAIN pods[p].listed
    <2> DEFINE row == [source |-> "config", enabled |-> TRUE, writer |-> "config"]
    <2>1. n \notin DOMAIN nodes /\ nodes' = Put(nodes, n, row)
      BY <1>1, <1>5 DEF Merge, MergePossible
    <2>2. row.source = "config" /\ row.enabled /\ row.writer = "config"  OBVIOUS
    <2> HIDE DEF row
    <2>3. /\ DOMAIN nodes' = DOMAIN nodes \cup {n} /\ nodes'[n] = row
          /\ \A m \in DOMAIN nodes : nodes'[m] = nodes[m]
      BY <2>1 DEF Put
    <2>4. EnabledConfig' = EnabledConfig \cup {n}  BY <2>1, <2>2, <2>3 DEF EnabledConfig
    <2>5. NodesKept  BY <1>3, <2>2, <2>3 DEF NodesKept, ConfigNodes, OwnWriters
    <2> QED  BY <1>1, <1>2, <2>4, <2>5
  <1> QED  BY <1>4, <1>5

\* ... one that is not declared any more is disabled, ...
LEMMA DisableNodes ==
    ASSUME Typed, NodesInv, NEW p \in Pods, DisableUndeclared(p)
    PROVE  LET todo == IF pods[p].pc = "disable" THEN pods[p].todo
                       ELSE Undeclared(pods[p].file, pods[p].listed)
           IN  /\ Alone(p) /\ NodesKept
               /\ (pods[p].pc = "merge" /\ pods[p].todo = {}) \/ pods[p].pc = "disable"
               /\ todo \subseteq ConfigNodes \ pods[p].file
               /\ \/ todo = {} /\ EnabledConfig' = EnabledConfig /\ pods'[p].pc = "users"
                  \/ \E n \in todo :
                       /\ EnabledConfig' = EnabledConfig \ {n} /\ n \notin pods[p].file
                       /\ pods'[p].pc = "disable" /\ pods'[p].file = pods[p].file
                       /\ pods'[p].todo = todo \ {n}
  <1> DEFINE todo == IF pods[p].pc = "disable" THEN pods[p].todo
                     ELSE Undeclared(pods[p].file, pods[p].listed)
  <1>1. /\ Alone(p)
        /\ (pods[p].pc = "merge" /\ pods[p].todo = {}) \/ pods[p].pc = "disable"
        /\ \/ todo = {} /\ nodes' = nodes /\ pods'[p].pc = "users"
           \/ \E n \in todo :
                /\ DisableNode(n) /\ pods'[p].pc = "disable"
                /\ pods'[p].todo = todo \ {n} /\ pods'[p].file = pods[p].file
    BY DisablePod
  <1>2. todo \subseteq ConfigNodes \ pods[p].file
    <2>1. CASE pods[p].pc = "disable"  BY <2>1 DEF NodesInv, PodNodes
    <2>2. CASE pods[p].pc = "merge"
      BY <2>2 DEF NodesInv, PodNodes, Undeclared
    <2> QED  BY <1>1, <2>1, <2>2
  <1> HIDE DEF todo
  <1>3. nodes \in [DOMAIN nodes -> Node] /\ OwnWriters
    BY ListingFacts DEF Typed, NodesInv
  <1>4. CASE todo = {} /\ nodes' = nodes /\ pods'[p].pc = "users"
    <2>1. EnabledConfig' = EnabledConfig /\ NodesKept
      BY <1>3, <1>4 DEF EnabledConfig, NodesKept, ConfigNodes, OwnWriters
    <2> QED  BY <1>1, <1>2, <1>4, <2>1 DEF todo
  <1>5. ASSUME NEW n \in todo, DisableNode(n)
        PROVE  NodesKept /\ EnabledConfig' = EnabledConfig \ {n}
    <2>1. n \in DOMAIN nodes /\ nodes' = [nodes EXCEPT ![n].enabled = FALSE]
      BY <1>2, <1>5 DEF DisableNode, ConfigNodes
    <2>2. /\ DOMAIN nodes' = DOMAIN nodes
          /\ \A m \in DOMAIN nodes : m # n => nodes'[m] = nodes[m]
          /\ nodes'[n].source = nodes[n].source /\ ~nodes'[n].enabled
          /\ nodes'[n].writer = nodes[n].writer
      BY <1>3, <2>1 DEF Node
    <2> QED  BY <1>3, <2>1, <2>2 DEF EnabledConfig, NodesKept, ConfigNodes, OwnWriters
  <1>6. CASE \E n \in todo : /\ DisableNode(n) /\ pods'[p].pc = "disable"
                             /\ pods'[p].todo = todo \ {n} /\ pods'[p].file = pods[p].file
    <2>1. PICK n \in todo : /\ DisableNode(n) /\ pods'[p].pc = "disable"
                            /\ pods'[p].todo = todo \ {n} /\ pods'[p].file = pods[p].file
      BY <1>6
    <2>2. NodesKept /\ EnabledConfig' = EnabledConfig \ {n}  BY <1>5, <2>1
    <2> QED  BY <1>1, <1>2, <2>1, <2>2 DEF todo
  <1> QED  BY <1>1, <1>4, <1>6

\* ... and the admin API does neither.
LEMMA ApiNodes ==
    ASSUME Typed, NodesInv, NEW n \in Names,
           \/ CreateApiNode(n)
           \/ \E name \in Names, enabled \in BOOLEAN : UpdateApiNode(n, name, enabled)
    PROVE  NodesKept /\ EnabledConfig' = EnabledConfig
  <1>1. OwnWriters  BY DEF NodesInv
  <1>2. CASE CreateApiNode(n)
    <2> DEFINE row == [source |-> "api", enabled |-> TRUE, writer |-> "api"]
    <2>1. n \notin DOMAIN nodes /\ nodes' = Put(nodes, n, row)  BY <1>2 DEF CreateApiNode
    <2>2. row.source = "api" /\ row.writer = "api"  OBVIOUS
    <2> HIDE DEF row
    <2>3. /\ DOMAIN nodes' = DOMAIN nodes \cup {n} /\ nodes'[n] = row
          /\ \A m \in DOMAIN nodes : nodes'[m] = nodes[m]
      BY <2>1 DEF Put
    <2> QED  BY <1>1, <2>1, <2>2, <2>3 DEF EnabledConfig, NodesKept, ConfigNodes, OwnWriters
  <1>3. ASSUME NEW name \in Names, NEW enabled \in BOOLEAN, UpdateApiNode(n, name, enabled)
        PROVE  NodesKept /\ EnabledConfig' = EnabledConfig
    <2> DEFINE row == [source |-> "api", enabled |-> enabled, writer |-> "api"]
               table == [m \in DOMAIN nodes \ {n} |-> nodes[m]]
    <2>1. /\ n \in DOMAIN nodes /\ nodes[n].source = "api"
          /\ name = n \/ name \notin DOMAIN nodes
          /\ nodes' = Put(table, name, row)
      BY <1>3 DEF UpdateApiNode
    <2>2. row.source = "api" /\ row.writer = "api"  OBVIOUS
    <2> HIDE DEF row
    <2>3. /\ DOMAIN nodes' = (DOMAIN nodes \ {n}) \cup {name} /\ nodes'[name] = row
          /\ \A m \in DOMAIN nodes \ {n} : nodes'[m] = nodes[m]
      BY <2>1 DEF Put
    <2> HIDE DEF table
    <2> QED  BY <1>1, <2>1, <2>2, <2>3 DEF EnabledConfig, NodesKept, ConfigNodes, OwnWriters
  <1> QED  BY <1>2, <1>3

\* The moves of a pod, as far as the nodes go.
LEMMA NodePods ==
    ASSUME Typed, [Next]_vars, NEW q \in Pods
    PROVE  \/ pods'[q] = pods[q]
           \/ pods'[q].pc \in {"crashed", "off", "serving"}
           \/ Boot(q)
           \/ (ListNodes(q) \/ MergeNode(q)) /\ ~Crashed(q)
           \/ DisableUndeclared(q)
           \/ pods[q].pc \in Synced /\ pods'[q].pc \in Synced
  <1> DEFINE Move == \/ pods'[q] = pods[q]
                     \/ pods'[q].pc \in {"crashed", "off", "serving"}
                     \/ Boot(q)
                     \/ (ListNodes(q) \/ MergeNode(q)) /\ ~Crashed(q)
                     \/ DisableUndeclared(q)
                     \/ pods[q].pc \in Synced /\ pods'[q].pc \in Synced
  <1> USE DEF Synced, Syncing, Phases
  <1>1. ASSUME NEW p \in Pods, PodStep(p) PROVE Move
    <2>1. CASE Boot(p)  BY <2>1, BootPod DEF Alone
    <2>2. CASE Crashed(p)  BY <2>2, CrashPod DEF Alone
    <2>3. CASE Stop(p)  BY <2>3, StopPod DEF Alone
    <2>4. CASE ListNodes(p) /\ ~Crashed(p)
      <3>1. Alone(p)  BY <2>4, ListPod
      <3> QED  BY <2>4, <3>1 DEF Alone
    <2>5. CASE MergeNode(p) /\ ~Crashed(p)
      <3>1. Alone(p)  BY <2>5, MergePod
      <3> QED  BY <2>5, <3>1 DEF Alone
    <2>6. CASE DisableUndeclared(p)
      <3>1. Alone(p)  BY <2>6, DisablePod
      <3> QED  BY <2>6, <3>1 DEF Alone
    <2>7. CASE ListUsers(p)  BY <2>7, ListUsersPod DEF Alone
    <2>8. CASE BackfillUser(p)
      <3>1. /\ Alone(p) /\ pods[p].pc = "accounts" /\ pods'[p].pc \in {"find", "accounts"}
        BY <2>8, BackfillPod
      <3> QED  BY <3>1 DEF Alone
    <2>9. CASE FindAdmin(p)  BY <2>9, FindPod DEF Alone
    <2>10. CASE EnsureAdmin(p)  BY <2>10, EnsurePod DEF Alone
    <2>11. CASE AttachKeys(p) \/ CreateBalances(p) \/ RecordEvents(p)
      BY <2>11, LatePods DEF Alone
    <2>12. Crash(p) => Crashed(p)  BY DEF Crash
    <2> HIDE DEF Move
    <2> QED
      BY <1>1, <2>1, <2>2, <2>3, <2>4, <2>5, <2>6, <2>7, <2>8, <2>9, <2>10, <2>11, <2>12
      DEF PodStep
  <1>2. pods' = pods => Move  OBVIOUS
  <1>3. UNCHANGED vars => pods' = pods  BY DEF vars, ctlVars
  <1> HIDE DEF Move
  <1>4. Move  BY <1>1, <1>2, <1>3, CallPods DEF Next
  <1> QED  BY <1>4 DEF Move

\* The enabled config nodes after a step.
LEMMA NodesEffect ==
    ASSUME Typed, NodesInv, [Next]_vars
    PROVE  /\ NodesKept
           /\ \/ EnabledConfig' = EnabledConfig
              \/ \E p \in Pods : \E n :
                   /\ pods[p].pc \in Syncing
                   /\ \/ n \in pods[p].file /\ EnabledConfig' = EnabledConfig \cup {n}
                      \/ n \notin pods[p].file /\ EnabledConfig' = EnabledConfig \ {n}
  <1> DEFINE Effect == \/ EnabledConfig' = EnabledConfig
                       \/ \E p \in Pods : \E n :
                            /\ pods[p].pc \in Syncing
                            /\ \/ n \in pods[p].file /\ EnabledConfig' = EnabledConfig \cup {n}
                               \/ n \notin pods[p].file /\ EnabledConfig' = EnabledConfig \ {n}
  <1>1. nodes' = nodes => NodesKept /\ EnabledConfig' = EnabledConfig
    BY DEF NodesInv, NodesKept, ConfigNodes, OwnWriters, EnabledConfig
  <1>2. ASSUME NEW p \in Pods, PodStep(p) PROVE NodesKept /\ Effect
    <2>1. CASE MergeNode(p) /\ ~Crashed(p)
      <3>1. PICK n \in pods[p].todo :
              /\ pods[p].pc = "merge" /\ n \in pods[p].file
              /\ EnabledConfig' = EnabledConfig \cup {n} /\ NodesKept
        BY <2>1, MergeNodes
      <3> QED  BY <3>1 DEF Syncing
    <2>2. CASE DisableUndeclared(p)
      <3>1. /\ NodesKept /\ pods[p].pc \in {"merge", "disable"}
            /\ \/ EnabledConfig' = EnabledConfig
               \/ \E n : EnabledConfig' = EnabledConfig \ {n} /\ n \notin pods[p].file
        BY <2>2, DisableNodes
      <3> QED  BY <3>1 DEF Syncing
    <2>3. CASE MergeNode(p) /\ Crashed(p)
      <3>1. pods'[p].pc = "crashed"  BY <2>3, CrashPod
      <3>2. ASSUME NEW n \in pods[p].todo, Goto(p, "merge", pods[p].todo \ {n}) PROVE FALSE
        <4>1. pods'[p].pc = "merge"  BY <3>2 DEF Goto, Typed, PodsTyped, Pod
        <4> QED  BY <3>1, <4>1
      <3>3. nodes' = nodes  BY <2>3, <3>2 DEF MergeNode
      <3> QED  BY <1>1, <3>3
    <2>4. CASE nodes' = nodes  BY <1>1, <2>4
    <2> HIDE DEF Effect
    <2> QED
      BY <1>2, <2>1, <2>2, <2>3, <2>4
      DEF PodStep, Boot, Crash, Stop, ListNodes, ListUsers, BackfillUser, FindAdmin,
          EnsureAdmin, AttachKeys, CreateBalances, RecordEvents
  <1>3. ASSUME NEW c \in Calls, CallStep(c) PROVE NodesKept /\ EnabledConfig' = EnabledConfig
    <2>1. \/ nodes' = nodes
          \/ \E n \in Names :
               \/ CreateApiNode(n)
               \/ \E name \in Names, enabled \in BOOLEAN : UpdateApiNode(n, name, enabled)
      BY <1>3
      DEF CallStep, createRegistrationToken, ConsumeToken, registerServiceAccount,
          RollbackRegistration, revokeRegistrationToken, register, grantDefault,
          CreateAdminBootstrap, userKey, adminKey, createAccountKey, createKey,
          adminNode, Proceed
    <2> QED  BY <1>1, <2>1, ApiNodes
  <1>4. UNCHANGED vars => nodes' = nodes  BY DEF vars
  <1> QED  BY <1>1, <1>2, <1>3, <1>4 DEF Next

\* A step that starts a group: a pod boots while none is booting.
Fresh == /\ Booting = {} /\ ~group'.done
         /\ \A q \in Pods : pods'[q].pc \in Syncing \cup Synced => pods'[q].pc = "list"

\* A step that goes on with one: files are only added to it, and the last
\* backfill marks it.
Joined == /\ Booting # {} => group.files \subseteq group'.files
          /\ Booting = {} => group'.files = group.files
          /\ group.files # {} /\ (\E f : group'.files = {f})
             => group'.files = group.files
          /\ group'.done => group.done \/ \E p \in Pods : RecordEvents(p)

\* Every step does one or the other, and a pod that boots belongs to the group.
LEMMA GroupStep ==
    ASSUME Typed, GroupTyped, [Next]_vars
    PROVE  /\ GroupTyped' /\ (Fresh \/ Joined)
           /\ \A p \in Pods : Boot(p) => pods'[p].file \in group'.files
  <1>1. ASSUME NEW p \in Pods, Boot(p)
        PROVE  GroupTyped' /\ (Fresh \/ Joined) /\ pods'[p].file \in group'.files
    <2>1. /\ Alone(p) /\ pods'[p].pc = "list" /\ pods'[p].file \in Files
          /\ group' = [files |-> {pods'[p].file} \cup (IF Booting = {} THEN {} ELSE group.files),
                       done |-> Booting # {} /\ group.done]
      BY <1>1, BootPod
    <2> DEFINE file == pods'[p].file
    <2>2. CASE Booting = {}
      <3>1. group' = [files |-> {file}, done |-> FALSE]  BY <2>1, <2>2
      <3> HIDE DEF file
      <3>2. group'.files = {file} /\ ~group'.done  BY <3>1
      <3>3. GroupTyped'
        <4>1. file \in Files  BY <2>1 DEF file
        <4>2. group' \in [files : SUBSET Files, done : BOOLEAN]  BY <3>1, <4>1
        <4> QED  BY <3>2, <4>2, FS_Singleton DEF GroupTyped
      <3>4. \A q \in Pods : pods'[q].pc \in Syncing \cup Synced => pods'[q].pc = "list"
        BY <2>1, <2>2 DEF Alone, Booting, Syncing, Synced, Phases
      <3> QED  BY <2>2, <3>2, <3>3, <3>4 DEF file, Fresh
    <2>3. CASE Booting # {}
      <3>1. group' = [files |-> {file} \cup group.files, done |-> group.done]
        BY <2>1, <2>3 DEF GroupTyped
      <3> HIDE DEF file
      <3>2. group'.files = {file} \cup group.files /\ group'.done = group.done  BY <3>1
      <3>3. GroupTyped'
        <4>1. file \in Files  BY <2>1 DEF file
        <4>2. group' \in [files : SUBSET Files, done : BOOLEAN]
          BY <3>1, <4>1 DEF GroupTyped
        <4>3. IsFiniteSet(group.files \cup {file})  BY FS_AddElement DEF GroupTyped
        <4>4. group.files \cup {file} = group'.files  BY <3>2
        <4>5. group'.files # {}  BY <3>2
        <4> QED  BY <4>2, <4>3, <4>4, <4>5 DEF GroupTyped
      <3>4. Joined  BY <2>3, <3>2 DEF Joined
      <3> QED  BY <3>2, <3>3, <3>4 DEF file
    <2> QED  BY <2>2, <2>3
  <1>2. ASSUME \A p \in Pods : ~Boot(p) PROVE Booting' \subseteq Booting
    <2>1. ASSUME NEW q \in Pods, pods'[q].pc \in Phases PROVE pods[q].pc \in Phases
      <3>1. ListNodes(q) \/ MergeNode(q) \/ DisableUndeclared(q) => pods[q].pc \in Phases
        BY PhaseNames DEF ListNodes, MergeNode, DisableUndeclared
      <3> QED  BY <1>2, <2>1, <3>1, NodePods, PhaseNames DEF Synced
    <2> QED  BY <2>1 DEF Booting
  <1>3. ASSUME group' = group, Booting' # {} => Booting # {}
        PROVE  GroupTyped' /\ Joined
    BY <1>3 DEF GroupTyped, Joined
  <1>4. ASSUME NEW p \in Pods, RecordEvents(p) PROVE GroupTyped' /\ Joined
    <2>1. group' = [group EXCEPT !.done = TRUE] /\ p \in Booting
      BY <1>4 DEF RecordEvents, Booting, Phases
    <2>2. group'.files = group.files /\ group' \in [files : SUBSET Files, done : BOOLEAN]
      BY <2>1 DEF GroupTyped
    <2> QED  BY <1>4, <2>1, <2>2 DEF GroupTyped, Joined
  <1>5. ASSUME \A p \in Pods : ~Boot(p) /\ ~RecordEvents(p) PROVE group' = group
    <2>1. ASSUME NEW p \in Pods, PodStep(p) PROVE group' = group
      BY <1>5, <2>1
      DEF PodStep, Crash, Stop, ListNodes, MergeNode, DisableUndeclared, ListUsers,
          BackfillUser, FindAdmin, EnsureAdmin, AttachKeys, CreateBalances
    <2>2. UNCHANGED vars => group' = group  BY DEF vars, ctlVars
    <2> QED  BY <2>1, <2>2, CallPods DEF Next
  <1>6. CASE \E p \in Pods : Boot(p)
    BY <1>1, <1>6
  <1>7. CASE \A p \in Pods : ~Boot(p)
    BY <1>2, <1>3, <1>4, <1>5, <1>7
  <1> QED  BY <1>6, <1>7

\* What a pod relies on stays true.
LEMMA PodNodesStep ==
    ASSUME Typed, NodesInv, [Next]_vars, NEW q \in Pods
    PROVE  PodNodes(q)'
  <1>0. PodNodes(q) /\ GroupTyped /\ ConfigNodes \subseteq ConfigNodes'
    BY NodesEffect DEF NodesInv, NodesKept
  <1>1. pods[q].pc \in Syncing => Booting # {}
    BY DEF Booting, Syncing, Phases
  <1>2. /\ pods[q].pc \in Syncing => group.files \subseteq group'.files
        /\ Boot(q) => pods'[q].file \in group'.files
    BY <1>0, <1>1, GroupStep DEF Fresh, Joined
  <1>3. CASE pods'[q] = pods[q]
    BY <1>0, <1>2, <1>3 DEF PodNodes, Syncing
  <1>4. CASE pods'[q].pc \in {"crashed", "off", "serving"} \cup Synced
    BY <1>4 DEF PodNodes, Syncing, Synced, Phases
  <1>5. CASE Boot(q)
    <2>1. pods'[q].pc = "list"  BY <1>5, BootPod
    <2> QED  BY <1>2, <1>5, <2>1 DEF PodNodes
  <1>6. CASE ListNodes(q) /\ ~Crashed(q)
    <2>1. /\ pods[q].pc = "list" /\ pods'[q].pc = "merge"
          /\ pods'[q].file = pods[q].file /\ pods'[q].listed = nodes
          /\ ~Collides(pods[q].file, nodes) /\ nodes' = nodes
      BY <1>6, ListPod
    <2>2. pods'[q].file \in group'.files  BY <1>0, <1>2, <2>1 DEF PodNodes, Syncing
    <2>3. \A n \in DOMAIN nodes : n \in pods[q].file => nodes[n].source = "config"
      BY <2>1 DEF Collides
    <2> QED  BY <2>1, <2>2, <2>3 DEF PodNodes, ConfigNodes
  <1>7. CASE MergeNode(q) /\ ~Crashed(q)
    <2>1. /\ pods[q].pc = "merge" /\ pods'[q].pc = "merge"
          /\ pods'[q].file = pods[q].file /\ pods'[q].listed = pods[q].listed
      BY <1>7, MergeNodes
    <2> QED  BY <1>0, <1>2, <2>1 DEF PodNodes, Syncing
  <1>8. CASE DisableUndeclared(q)
    <2> DEFINE todo == IF pods[q].pc = "disable" THEN pods[q].todo
                       ELSE Undeclared(pods[q].file, pods[q].listed)
    <2>1. /\ pods[q].pc \in {"merge", "disable"} /\ todo \subseteq ConfigNodes \ pods[q].file
          /\ \/ pods'[q].pc = "users"
             \/ \E n \in todo : /\ pods'[q].pc = "disable" /\ pods'[q].file = pods[q].file
                                /\ pods'[q].todo = todo \ {n}
      BY <1>8, DisableNodes
    <2> HIDE DEF todo
    <2>2. CASE pods'[q].pc = "users"  BY <2>2 DEF PodNodes, Syncing
    <2>3. CASE \E n \in todo : /\ pods'[q].pc = "disable" /\ pods'[q].file = pods[q].file
                               /\ pods'[q].todo = todo \ {n}
      BY <1>0, <1>2, <2>1, <2>3 DEF PodNodes, Syncing
    <2> QED  BY <2>1, <2>2, <2>3
  <1> QED  BY <1>3, <1>4, <1>5, <1>6, <1>7, <1>8, NodePods

\* As long as the pods that start together read the same file f, every step
\* brings the nodes closer to it: what is enabled and declared stays so, and
\* nothing else is enabled.
LEMMA Closer ==
    ASSUME Typed, NodesInv, [Next]_vars, NEW f, group.files = {f}
    PROVE  /\ EnabledConfig' \ f \subseteq EnabledConfig \ f
           /\ EnabledConfig \cap f \subseteq EnabledConfig'
  <1>1. CASE EnabledConfig' = EnabledConfig  BY <1>1
  <1>2. ASSUME NEW p \in Pods, NEW n, pods[p].pc \in Syncing,
               \/ n \in pods[p].file /\ EnabledConfig' = EnabledConfig \cup {n}
               \/ n \notin pods[p].file /\ EnabledConfig' = EnabledConfig \ {n}
        PROVE  /\ EnabledConfig' \ f \subseteq EnabledConfig \ f
               /\ EnabledConfig \cap f \subseteq EnabledConfig'
    <2>1. pods[p].file = f  BY <1>2 DEF NodesInv, PodNodes
    <2> QED  BY <1>2, <2>1
  <1> QED  BY <1>1, <1>2, NodesEffect

\* Then a pod gets as far as its phase says.
LEMMA ReachedStep ==
    ASSUME Typed, NodesInv, [Next]_vars, NEW f, group.files = {f}, NEW q \in Pods
    PROVE  Reached(q, f)'
  <1>0. Reached(q, f) /\ PodNodes(q)  BY DEF NodesInv
  <1>1. /\ EnabledConfig' \ f \subseteq EnabledConfig \ f
        /\ EnabledConfig \cap f \subseteq EnabledConfig'
    BY Closer
  <1>2. EnabledConfig = f => EnabledConfig' = f  BY <1>1
  <1>3. CASE pods'[q] = pods[q]
    <2>1. CASE pods[q].pc = "merge"
      BY <1>0, <1>1, <1>3, <2>1 DEF Reached, Synced, Syncing, Undeclared
    <2>2. CASE pods[q].pc = "disable"
      BY <1>0, <1>1, <1>3, <2>2 DEF Reached, Synced, Syncing
    <2>3. CASE pods[q].pc \notin {"merge", "disable"}
      BY <1>0, <1>2, <1>3, <2>3 DEF Reached
    <2> QED  BY <2>1, <2>2, <2>3
  <1>4. CASE pods'[q].pc \in {"crashed", "off", "serving"}
    BY <1>4 DEF Reached, Synced, Phases
  <1>5. CASE Boot(q)
    <2>1. pods'[q].pc = "list"  BY <1>5, BootPod
    <2> QED  BY <2>1 DEF Reached, Synced, Syncing
  <1>6. CASE ListNodes(q) /\ ~Crashed(q)
    <2>1. /\ pods[q].pc = "list" /\ pods'[q].pc = "merge"
          /\ pods'[q].listed = nodes /\ pods'[q].todo = pods[q].file /\ nodes' = nodes
      BY <1>6, ListPod
    <2>2. pods[q].file = f  BY <1>0, <2>1 DEF PodNodes, Syncing
    <2> QED  BY <2>1, <2>2 DEF Reached, Synced, Syncing, EnabledConfig, Undeclared
  <1>7. CASE MergeNode(q) /\ ~Crashed(q)
    <2>1. PICK n \in pods[q].todo :
            /\ pods[q].pc = "merge" /\ pods'[q].pc = "merge" /\ pods'[q].todo = pods[q].todo \ {n}
            /\ n \in pods[q].file /\ pods'[q].listed = pods[q].listed
            /\ EnabledConfig' = EnabledConfig \cup {n}
      BY <1>7, MergeNodes
    <2>2. pods[q].file = f  BY <1>0, <2>1 DEF PodNodes, Syncing
    <2>3. /\ f \ pods'[q].todo \subseteq EnabledConfig'
          /\ EnabledConfig' \ f \subseteq Undeclared(f, pods'[q].listed)
      BY <1>0, <2>1, <2>2 DEF Reached
    <2> QED  BY <2>1, <2>3 DEF Reached, Synced, Syncing, Undeclared
  <1>8. CASE DisableUndeclared(q)
    <2> DEFINE todo == IF pods[q].pc = "disable" THEN pods[q].todo
                       ELSE Undeclared(pods[q].file, pods[q].listed)
    <2>1. /\ (pods[q].pc = "merge" /\ pods[q].todo = {}) \/ pods[q].pc = "disable"
          /\ \/ todo = {} /\ EnabledConfig' = EnabledConfig /\ pods'[q].pc = "users"
             \/ \E n \in todo :
                  /\ EnabledConfig' = EnabledConfig \ {n} /\ n \notin pods[q].file
                  /\ pods'[q].pc = "disable" /\ pods'[q].todo = todo \ {n}
      BY <1>8, DisableNodes
    <2>2. pods[q].file = f  BY <1>0, <2>1 DEF PodNodes, Syncing
    <2>3. f \subseteq EnabledConfig /\ EnabledConfig \ f \subseteq todo
      BY <1>0, <2>1, <2>2 DEF Reached
    <2> HIDE DEF todo
    <2>4. CASE todo = {} /\ EnabledConfig' = EnabledConfig /\ pods'[q].pc = "users"
      <3>1. EnabledConfig' = f  BY <2>3, <2>4
      <3> QED  BY <2>4, <3>1 DEF Reached
    <2>5. CASE \E n \in todo :
                 /\ EnabledConfig' = EnabledConfig \ {n} /\ n \notin pods[q].file
                 /\ pods'[q].pc = "disable" /\ pods'[q].todo = todo \ {n}
      <3>1. /\ pods'[q].pc = "disable" /\ f \subseteq EnabledConfig'
            /\ EnabledConfig' \ f \subseteq pods'[q].todo
        BY <2>2, <2>3, <2>5
      <3> QED  BY <3>1 DEF Reached, Synced, Syncing
    <2> QED  BY <2>1, <2>4, <2>5
  <1>9. CASE pods[q].pc \in Synced /\ pods'[q].pc \in Synced
    BY <1>0, <1>2, <1>9 DEF Reached, Synced, Syncing
  <1> QED  BY <1>3, <1>4, <1>5, <1>6, <1>7, <1>8, <1>9, NodePods

\* A start that finishes leaves exactly the declared nodes enabled, if the
\* pods that started at once read the same file, and neither the file nor the
\* API takes over a row of the other.
THEOREM NodesSynced == Spec => []DeclaredNodesSynced
  <1>1. Init => Typed /\ NodesInv
    <2> SUFFICES ASSUME Init PROVE NodesInv  BY TypedStart
    <2>1. \A p \in Pods : pods[p].pc = "off"  BY DEF Init, Off
    <2>2. group = [files |-> {}, done |-> FALSE]  BY DEF Init
    <2>3. GroupTyped
      BY <2>1, <2>2, FS_EmptySet DEF GroupTyped, Booting, Phases
    <2>4. OwnWriters
      <3>1. PICK file \in Files \cup {{}} :
              nodes = [n \in file |-> [source |-> "config", enabled |-> TRUE,
                                       writer |-> "config"]]
        BY DEF Init
      <3> QED  BY <3>1 DEF OwnWriters
    <2>5. \A p \in Pods : PodNodes(p)  BY <2>1 DEF PodNodes, Syncing
    <2> QED  BY <2>2, <2>3, <2>4, <2>5 DEF NodesInv
  <1>2. Typed /\ NodesInv /\ [Next]_vars => (Typed /\ NodesInv)'
    <2> SUFFICES ASSUME Typed, NodesInv, [Next]_vars PROVE NodesInv'  BY TypedStep
    <2>1. GroupTyped' /\ OwnWriters' /\ \A p \in Pods : PodNodes(p)'
      BY GroupStep, NodesEffect, PodNodesStep DEF NodesInv, NodesKept
    <2>2. ASSUME NEW f \in group'.files, group'.files = {f}
          PROVE  (\A p \in Pods : Reached(p, f)') /\ (group'.done => EnabledConfig' = f)
      <3>g. GroupTyped  BY DEF NodesInv
      <3>1. CASE Fresh  BY <3>1 DEF Fresh, Reached, Syncing, Synced
      <3>2. CASE Joined
        <4>1. group.files = {f}  BY <2>2, <3>g, <3>2 DEF GroupTyped, Joined
        <4>2. \A p \in Pods : Reached(p, f)'  BY <4>1, ReachedStep
        <4>3. ASSUME group'.done PROVE EnabledConfig = f
          <5>1. CASE group.done  BY <4>1, <5>1 DEF NodesInv
          <5>2. ASSUME NEW p \in Pods, RecordEvents(p) PROVE EnabledConfig = f
            <6>1. pods[p].pc = "events"  BY <5>2 DEF RecordEvents
            <6>2. Reached(p, f)  BY <4>1 DEF NodesInv
            <6> QED  BY <6>1, <6>2 DEF Reached, Synced, Syncing, Phases
          <5> QED  BY <3>2, <4>3, <5>1, <5>2 DEF Joined
        <4>4. EnabledConfig = f => EnabledConfig' = f  BY <4>1, Closer
        <4> QED  BY <4>2, <4>3, <4>4
      <3> QED  BY <3>g, <3>1, <3>2, GroupStep
    <2> QED  BY <2>1, <2>2 DEF NodesInv
  <1>3. NodesInv => DeclaredNodesSynced
    <2> SUFFICES ASSUME NodesInv, group.done, Cardinality(group.files) = 1
                 PROVE  EnabledConfig \in group.files
      BY DEF DeclaredNodesSynced, NodesInv, OwnWriters
    <2>1. PICK f : group.files = {f}  BY FS_Singleton DEF NodesInv, GroupTyped
    <2> QED  BY <2>1 DEF NodesInv
  <1> QED  BY <1>1, <1>2, <1>3, PTL DEF Spec

----------------------------------------------------------------------------
(***************************************************************************)
(* The usage writer and the shutdown of main                               *)
(***************************************************************************)

\* Every step belongs to a handler, the writer, a recorder or main.
LEMMA StepKinds ==
    ASSUME WriterNext
    PROVE  \/ \E h \in Handlers : Serve(h) \/ logUsage(h) \/ RecordCapHit(h)
           \/ Receive \/ (\E ok \in BOOLEAN : LogUsage(ok))
           \/ CtxDone \/ WriterReturns
           \/ \E h \in Handlers : \/ \E wins \in BOOLEAN : FileCreditRequest(h, wins)
                                  \/ AcquireDelivery(h) \/ deliver(h)
           \/ Signal \/ ShutdownReturns \/ writerCancel \/ closeUsageCh
           \/ writerDone \/ Wait
  BY DEF WriterNext, WriterStep, RecorderStep, MainStep

\* The state stays well typed and the channel never holds more than its
\* capacity: logUsage drops an entry that finds it full.
THEOREM WriterTyped == WriterSpec => []TypeOK
  <1>1. WriterInit => TypeOK
    <2>1. <<>> \in Seq(Handlers) /\ Len(<<>>) = 0  BY EmptySeq
    <2> SUFFICES ASSUME WriterInit PROVE TypeOK  OBVIOUS
    <2>2. closed \in BOOLEAN /\ writerCtx \in BOOLEAN  BY DEF WriterInit
    <2>3. usageCh \in Seq(Handlers) /\ Len(usageCh) <= usageChannelCapacity
      BY <2>1, CapacityAssumption DEF WriterInit
    <2>4. /\ handler \in [Handlers -> {"idle", "serving", "done"}]
          /\ recorder \in [Handlers -> RecorderStates]
          /\ writer \in WriterStates /\ main \in MainStates
      BY DEF WriterInit, WriterStates, RecorderStates, MainStates
    <2>5. entry \cup written \cup failed \cup dropped \cup panicked = {} /\ late = {}
      BY DEF WriterInit
    <2> QED  BY <2>2, <2>3, <2>4, <2>5 DEF TypeOK
  <1>2. TypeOK /\ [WriterNext]_usageVars => TypeOK'
    <2> SUFFICES ASSUME TypeOK, [WriterNext]_usageVars PROVE TypeOK'  OBVIOUS
    <2> USE DEF WriterStates, RecorderStates, MainStates
    <2>1. ASSUME NEW h \in Handlers, Serve(h) \/ RecordCapHit(h) PROVE TypeOK'
      BY <2>1 DEF TypeOK, Serve, RecordCapHit, writerVars, mainVars
    <2>2. ASSUME NEW h \in Handlers, logUsage(h) PROVE TypeOK'
      <3>1. usageCh' \in Seq(Handlers) /\ Len(usageCh') <= usageChannelCapacity
        <4>1. CASE usageCh' = usageCh  BY <4>1 DEF TypeOK
        <4>2. CASE /\ usageCh' = Append(usageCh, h)
                   /\ Len(usageCh) # usageChannelCapacity
          BY <4>2, AppendProperties, LenProperties, CapacityAssumption DEF TypeOK
        <4> QED  BY <2>2, <4>1, <4>2 DEF logUsage
      <3>2. panicked' \subseteq Handlers /\ dropped' \subseteq Handlers
        BY <2>2 DEF TypeOK, logUsage
      <3>3. handler' \in [Handlers -> {"idle", "serving", "done"}]
        BY <2>2 DEF TypeOK, logUsage
      <3> QED  BY <2>2, <3>1, <3>2, <3>3 DEF TypeOK, logUsage, writerVars, mainVars
    <2>3. ASSUME Receive PROVE TypeOK'
      <3>1. /\ Head(usageCh) \in Handlers
            /\ usageCh' \in Seq(Handlers) /\ Len(usageCh') <= usageChannelCapacity
        BY <2>3, HeadTailProperties, LenProperties, CapacityAssumption
        DEF TypeOK, Receive
      <3> QED  BY <2>3, <3>1 DEF TypeOK, Receive, entryVars, mainVars
    <2>4. ASSUME NEW ok \in BOOLEAN, LogUsage(ok) PROVE TypeOK'
      BY <2>4 DEF TypeOK, LogUsage, mainVars
    <2>5. ASSUME CtxDone \/ WriterReturns PROVE TypeOK'
      BY <2>5 DEF TypeOK, CtxDone, WriterReturns, entryVars, mainVars
    <2>6. ASSUME NEW h \in Handlers,
                 \/ \E wins \in BOOLEAN : FileCreditRequest(h, wins)
                 \/ AcquireDelivery(h) \/ deliver(h)
          PROVE  TypeOK'
      BY <2>6 DEF TypeOK, FileCreditRequest, AcquireDelivery, deliver, entryVars,
                  mainVars
    <2>7. ASSUME Signal \/ ShutdownReturns \/ writerCancel \/ closeUsageCh
                 \/ writerDone \/ Wait
          PROVE  TypeOK'
      BY <2>7 DEF TypeOK, Signal, ShutdownReturns, writerCancel, closeUsageCh,
                  writerDone, Wait, writerVars, InService
    <2>8. CASE UNCHANGED usageVars  BY <2>8 DEF TypeOK, usageVars
    <2> QED  BY <2>1, <2>2, <2>3, <2>4, <2>5, <2>6, <2>7, <2>8, StepKinds
  <1> QED  BY <1>1, <1>2, PTL DEF WriterSpec

----------------------------------------------------------------------------
(***************************************************************************)
(* One outcome per entry                                                   *)
(*                                                                         *)
(* OneOutcome is not inductive: an entry that was in the channel twice     *)
(* would be in one place until the writer takes it, one that the writer    *)
(* held while it received would vanish, and a request that is not done     *)
(* could already be somewhere.                                             *)
(***************************************************************************)

Recorded == {h \in Handlers : recorder[h] # "none"}

\* No request is twice in the channel.
NoDuplicates == \A i, j \in DOMAIN usageCh : usageCh[i] = usageCh[j] => i = j

\* The writer's hands are empty outside LogUsage.
EmptyHanded == writer \notin {"log", "drainLog"} => entry = {}

\* The seven places are disjoint ...
Disjoint ==
    /\ Buffered \cap (entry \cup written \cup failed \cup dropped \cup panicked
                      \cup Recorded) = {}
    /\ entry \cap (written \cup failed \cup dropped \cup panicked \cup Recorded) = {}
    /\ written \cap (failed \cup dropped \cup panicked \cup Recorded) = {}
    /\ failed \cap (dropped \cup panicked \cup Recorded) = {}
    /\ dropped \cap (panicked \cup Recorded) = {}
    /\ panicked \cap Recorded = {}

Somewhere == Buffered \cup entry \cup written \cup failed \cup dropped
             \cup panicked \cup Recorded

\* ... and hold exactly the requests that are done.
Placed == \A h \in Handlers : h \in Somewhere <=> handler[h] = "done"

OutcomeInv == NoDuplicates /\ EmptyHanded /\ Disjoint /\ Placed

\* What an append and a receive make of the buffered entries.
LEMMA BufferedAppend ==
    ASSUME TypeOK, NoDuplicates, NEW h \in Handlers, h \notin Buffered,
           usageCh' = Append(usageCh, h)
    PROVE  Buffered' = Buffered \cup {h} /\ NoDuplicates'
  <1> DEFINE n == Len(usageCh)
  <1>1. usageCh \in Seq(Handlers)  BY DEF TypeOK
  <1>2. n \in Nat /\ DOMAIN usageCh = 1..n  BY <1>1, LenProperties
  <1>3. /\ usageCh' \in Seq(Handlers) /\ Len(usageCh') = n + 1
        /\ \A i \in 1..n : usageCh'[i] = usageCh[i]
        /\ usageCh'[n + 1] = h
    BY <1>1, AppendProperties
  <1>4. DOMAIN usageCh' = 1..(n + 1)  BY <1>3, LenProperties
  <1>5. Buffered' = Buffered \cup {h}
    BY <1>2, <1>3, <1>4 DEF Buffered
  <1>6. NoDuplicates'
    BY <1>2, <1>3, <1>4 DEF NoDuplicates, Buffered
  <1> QED  BY <1>5, <1>6

\* A receive takes exactly the head out of the channel.
LEMMA BufferedTail ==
    ASSUME TypeOK, NoDuplicates, usageCh # <<>>, usageCh' = Tail(usageCh)
    PROVE  /\ Buffered = Buffered' \cup {Head(usageCh)}
           /\ Head(usageCh) \notin Buffered'
           /\ NoDuplicates'
  <1> DEFINE n == Len(usageCh)
  <1>1. usageCh \in Seq(Handlers)  BY DEF TypeOK
  <1>2. n \in Nat \ {0} /\ DOMAIN usageCh = 1..n
    BY <1>1, LenProperties, EmptySeq
  <1>3. /\ usageCh' \in Seq(Handlers) /\ Len(usageCh') = n - 1
        /\ \A i \in 1..(n - 1) : usageCh'[i] = usageCh[i + 1]
    BY <1>1, HeadTailProperties
  <1>4. DOMAIN usageCh' = 1..(n - 1)  BY <1>3, LenProperties
  <1>5. Head(usageCh) = usageCh[1]  BY <1>1, <1>2
  <1>6. Head(usageCh) \in Buffered /\ Buffered' \subseteq Buffered
    BY <1>2, <1>3, <1>4, <1>5 DEF Buffered
  <1>7. ASSUME NEW x \in Buffered, x # Head(usageCh) PROVE x \in Buffered'
    <2>1. PICK i \in 1..n : x = usageCh[i]  BY <1>2 DEF Buffered
    <2>2. i # 1  BY <1>5, <1>7, <2>1
    <2>3. i - 1 \in 1..(n - 1) /\ usageCh'[i - 1] = x  BY <1>2, <1>3, <2>1, <2>2
    <2> QED  BY <1>4, <2>3 DEF Buffered
  <1>8. Head(usageCh) \notin Buffered'
    BY <1>2, <1>3, <1>4, <1>5 DEF NoDuplicates, Buffered
  <1>9. NoDuplicates'
    BY <1>2, <1>3, <1>4 DEF NoDuplicates
  <1> QED  BY <1>6, <1>7, <1>8, <1>9

\* A step that leaves every place as it is, and whom is done, keeps OutcomeInv.
LEMMA PlacesKept ==
    ASSUME OutcomeInv, usageCh' = usageCh, entry' = entry, UNCHANGED entryVars,
           writer' \in {"log", "drainLog"} => writer \in {"log", "drainLog"},
           EmptyHanded', Recorded' = Recorded,
           \A h \in Handlers : handler'[h] = "done" <=> handler[h] = "done"
    PROVE  OutcomeInv'
  <1>1. Buffered' = Buffered /\ Somewhere' = Somewhere
    BY DEF Buffered, Somewhere, entryVars
  <1>2. Disjoint'  BY <1>1 DEF OutcomeInv, Disjoint, entryVars
  <1>3. NoDuplicates'  BY DEF OutcomeInv, NoDuplicates
  <1>4. Placed'  BY <1>1 DEF OutcomeInv, Placed
  <1> QED  BY <1>2, <1>3, <1>4 DEF OutcomeInv

\* The steps of a handler keep one outcome per entry.
LEMMA HandlerOutcome ==
    ASSUME TypeOK, OutcomeInv, NEW h \in Handlers,
           Serve(h) \/ logUsage(h) \/ RecordCapHit(h)
    PROVE  OutcomeInv'
  <1>1. CASE Serve(h)
    <2>1. \A g \in Handlers : handler'[g] = "done" <=> handler[g] = "done"
      BY <1>1 DEF Serve, TypeOK
    <2>2. Recorded' = Recorded  BY <1>1 DEF Serve, Recorded
    <2>3. EmptyHanded'  BY <1>1 DEF Serve, writerVars, OutcomeInv, EmptyHanded
    <2> QED  BY <1>1, <2>1, <2>2, <2>3, PlacesKept DEF Serve, writerVars, entryVars
  <1>2. CASE logUsage(h)
    <2>0. /\ UNCHANGED <<recorder, writer, entry, written, failed>>
          /\ handler[h] = "serving"
          /\ \A g \in Handlers : handler'[g] = "done" <=> g = h \/ handler[g] = "done"
      BY <1>2 DEF logUsage, writerVars, TypeOK
    <2>1. h \notin Somewhere  BY <2>0 DEF OutcomeInv, Placed
    <2>2. Recorded' = Recorded  BY <2>0 DEF Recorded
    <2>3. EmptyHanded'  BY <2>0 DEF OutcomeInv, EmptyHanded
    <2>4. \/ usageCh' = usageCh /\ panicked' = panicked \cup {h} /\ dropped' = dropped
          \/ usageCh' = usageCh /\ panicked' = panicked /\ dropped' = dropped \cup {h}
          \/ /\ usageCh' = Append(usageCh, h)
             /\ panicked' = panicked /\ dropped' = dropped
      BY <1>2 DEF logUsage
    <2>5. /\ NoDuplicates'
          /\ \/ Buffered' = Buffered /\ usageCh' = usageCh
             \/ Buffered' = Buffered \cup {h} /\ usageCh' = Append(usageCh, h)
      <3>1. CASE usageCh' = usageCh
        BY <3>1 DEF OutcomeInv, NoDuplicates, Buffered
      <3>2. CASE usageCh' = Append(usageCh, h)
        BY <2>1, <3>2, BufferedAppend DEF OutcomeInv, Somewhere
      <3> QED  BY <2>4, <3>1, <3>2
    <2>6. \/ Buffered' = Buffered /\ panicked' = panicked \cup {h} /\ dropped' = dropped
          \/ Buffered' = Buffered /\ panicked' = panicked /\ dropped' = dropped \cup {h}
          \/ /\ Buffered' = Buffered \cup {h}
             /\ panicked' = panicked /\ dropped' = dropped
      BY <2>4, <2>5 DEF Buffered
    <2>7. Disjoint'
      BY <2>0, <2>1, <2>2, <2>6 DEF OutcomeInv, Disjoint, Somewhere
    <2>8. Somewhere' = Somewhere \cup {h}
      BY <2>0, <2>2, <2>6 DEF Somewhere
    <2>9. Placed'  BY <2>0, <2>8 DEF OutcomeInv, Placed
    <2> QED  BY <2>3, <2>5, <2>7, <2>9 DEF OutcomeInv
  <1>3. CASE RecordCapHit(h)
    <2>0. /\ UNCHANGED <<usageCh, writer, entry, written, failed, dropped, panicked>>
          /\ handler[h] = "serving"
          /\ \A g \in Handlers : handler'[g] = "done" <=> g = h \/ handler[g] = "done"
      BY <1>3 DEF RecordCapHit, writerVars, TypeOK
    <2>1. h \notin Somewhere  BY <2>0 DEF OutcomeInv, Placed
    <2>2. Recorded' = Recorded \cup {h}  BY <1>3 DEF RecordCapHit, Recorded, TypeOK
    <2>3. Buffered' = Buffered /\ NoDuplicates' /\ EmptyHanded'
      BY <2>0 DEF OutcomeInv, Buffered, NoDuplicates, EmptyHanded
    <2>4. Disjoint'
      BY <2>0, <2>1, <2>2, <2>3 DEF OutcomeInv, Disjoint, Somewhere
    <2>5. Somewhere' = Somewhere \cup {h}  BY <2>0, <2>2, <2>3 DEF Somewhere
    <2>6. Placed'  BY <2>0, <2>5 DEF OutcomeInv, Placed
    <2> QED  BY <2>3, <2>4, <2>6 DEF OutcomeInv
  <1> QED  BY <1>1, <1>2, <1>3

\* The steps of the writer keep one outcome per entry.
LEMMA WriterOutcome ==
    ASSUME TypeOK, OutcomeInv,
           Receive \/ (\E ok \in BOOLEAN : LogUsage(ok)) \/ CtxDone \/ WriterReturns
    PROVE  OutcomeInv'
  <1>1. CASE Receive
    <2>0. /\ UNCHANGED <<handler, recorder, written, failed, dropped, panicked>>
          /\ entry = {} /\ entry' = {Head(usageCh)}
          /\ writer' \in {"log", "drainLog"}
      BY <1>1 DEF Receive, entryVars, OutcomeInv, EmptyHanded
    <2>1. Recorded' = Recorded  BY <2>0 DEF Recorded
    <2>2. /\ Buffered = Buffered' \cup {Head(usageCh)}
          /\ Head(usageCh) \notin Buffered' /\ NoDuplicates'
      BY <1>1, BufferedTail DEF Receive, OutcomeInv
    <2>3. Disjoint'
      BY <2>0, <2>1, <2>2 DEF OutcomeInv, Disjoint
    <2>4. Somewhere' = Somewhere  BY <2>0, <2>1, <2>2 DEF Somewhere
    <2>5. Placed'  BY <2>0, <2>4 DEF OutcomeInv, Placed
    <2>6. EmptyHanded'  BY <2>0 DEF EmptyHanded
    <2> QED  BY <2>2, <2>3, <2>5, <2>6 DEF OutcomeInv
  <1>2. ASSUME NEW ok \in BOOLEAN, LogUsage(ok) PROVE OutcomeInv'
    <2>0. /\ UNCHANGED <<handler, usageCh, recorder, dropped, panicked>>
          /\ entry' = {}
          /\ \/ written' = written \cup entry /\ failed' = failed
             \/ written' = written /\ failed' = failed \cup entry
      BY <1>2 DEF LogUsage
    <2>1. Recorded' = Recorded /\ Buffered' = Buffered /\ NoDuplicates' /\ EmptyHanded'
      BY <2>0 DEF Recorded, Buffered, NoDuplicates, EmptyHanded, OutcomeInv
    <2>2. Disjoint'  BY <2>0, <2>1 DEF OutcomeInv, Disjoint
    <2>3. Somewhere' = Somewhere  BY <2>0, <2>1 DEF Somewhere
    <2>4. Placed'  BY <2>0, <2>3 DEF OutcomeInv, Placed
    <2> QED  BY <2>1, <2>2, <2>4 DEF OutcomeInv
  <1>3. CASE CtxDone \/ WriterReturns
    <2>1. /\ usageCh' = usageCh /\ entry' = entry /\ UNCHANGED entryVars
          /\ handler' = handler /\ recorder' = recorder
          /\ writer' \in {"drain", "done"} /\ writer \notin {"log", "drainLog"}
      BY <1>3 DEF CtxDone, WriterReturns
    <2>2. EmptyHanded' /\ Recorded' = Recorded
      BY <2>1 DEF OutcomeInv, EmptyHanded, Recorded
    <2> QED  BY <2>1, <2>2, PlacesKept
  <1> QED  BY <1>1, <1>2, <1>3

\* Shutdown and notifications touch no entry.
LEMMA OtherOutcome ==
    ASSUME TypeOK, OutcomeInv,
           \/ \E h \in Handlers : \/ \E wins \in BOOLEAN : FileCreditRequest(h, wins)
                                  \/ AcquireDelivery(h) \/ deliver(h)
           \/ Signal \/ ShutdownReturns \/ writerCancel \/ closeUsageCh
           \/ writerDone \/ Wait
           \/ UNCHANGED usageVars
    PROVE  OutcomeInv'
  <1>1. /\ usageCh' = usageCh /\ entry' = entry /\ UNCHANGED entryVars
        /\ handler' = handler /\ writer' = writer
    BY DEF FileCreditRequest, AcquireDelivery, deliver, Signal, ShutdownReturns,
           writerCancel, closeUsageCh, writerDone, Wait, usageVars, writerVars, entryVars
  <1>2. Recorded' = Recorded
    BY DEF FileCreditRequest, AcquireDelivery, deliver, Signal, ShutdownReturns,
           writerCancel, closeUsageCh, writerDone, Wait, usageVars, Recorded, TypeOK
  <1>3. EmptyHanded'  BY <1>1 DEF OutcomeInv, EmptyHanded
  <1> QED  BY <1>1, <1>2, <1>3, PlacesKept

\* One outcome per entry, on every reachable state.
LEMMA OutcomeInvariant == WriterSpec => []OutcomeInv
  <1>1. WriterInit => OutcomeInv
    BY DEF WriterInit, OutcomeInv, NoDuplicates, EmptyHanded, Disjoint, Placed,
           Somewhere, Buffered, Recorded
  <1>2. TypeOK /\ OutcomeInv /\ [WriterNext]_usageVars => OutcomeInv'
    BY StepKinds, HandlerOutcome, WriterOutcome, OtherOutcome
  <1> QED  BY <1>1, <1>2, WriterTyped, PTL DEF WriterSpec

\* Disjoint places that hold every request that is done are what OneOutcome
\* says of the tuple of places.
LEMMA DisjointOneOutcome ==
    ASSUME OutcomeInv PROVE OneOutcome
  <1> SUFFICES ASSUME NEW h \in Handlers, handler[h] = "done"
               PROVE  \E i \in DOMAIN Outcomes : \A j \in DOMAIN Outcomes :
                         h \in Outcomes[j] <=> j = i
    BY DEF OneOutcome
  <1>1. DOMAIN Outcomes = 1..7  BY DEF Outcomes
  <1>2. /\ Outcomes[1] = Buffered /\ Outcomes[2] = entry /\ Outcomes[3] = written
        /\ Outcomes[4] = failed /\ Outcomes[5] = dropped /\ Outcomes[6] = panicked
        /\ Outcomes[7] = Recorded
    BY DEF Outcomes, Recorded
  <1>3. h \in Somewhere  BY DEF OutcomeInv, Placed
  <1>4. ASSUME NEW i \in 1..7, h \in Outcomes[i]
        PROVE  \A j \in 1..7 : h \in Outcomes[j] <=> j = i
    <2> SUFFICES ASSUME NEW j \in 1..7, h \in Outcomes[j] PROVE j = i
      BY <1>4
    <2>1. i \in {1, 2, 3, 4, 5, 6, 7} /\ j \in {1, 2, 3, 4, 5, 6, 7}  OBVIOUS
    <2> HIDE DEF Outcomes
    <2> QED  BY <1>2, <1>4, <2>1 DEF OutcomeInv, Disjoint
  <1>5. \E i \in 1..7 : h \in Outcomes[i]
    BY <1>2, <1>3 DEF Somewhere
  <1> QED  BY <1>1, <1>4, <1>5

\* From the end of its request on, an entry is in exactly one place, whatever
\* the selects choose and however they race with the cancellation, the close
\* and the capacity of the channel: none vanishes and none is written twice.
THEOREM OneOutcomeCorrect == WriterSpec => []OneOutcome
  <1>1. OutcomeInv => OneOutcome  BY DisjointOneOutcome
  <1> QED  BY <1>1, OutcomeInvariant, PTL

----------------------------------------------------------------------------
(***************************************************************************)
(* A clean shutdown                                                        *)
(*                                                                         *)
(* What main has torn down when decides what can still happen: once        *)
(* Shutdown has returned no request starts, so only those that were late   *)
(* can touch the channel; the writer leaves its loop only after main's     *)
(* cancellation, and main goes on only after the writer has left.          *)
(***************************************************************************)

Torn == main \in {"cancel", "close", "join", "wait", "exited"}

ShutdownInv ==
    /\ closed <=> main \in {"join", "wait", "exited"}
    /\ writerCtx <=> main \in {"close", "join", "wait", "exited"}
    /\ writer \in {"drain", "drainLog", "done"} => writerCtx
    /\ Torn => InService \subseteq late
    /\ panicked \subseteq late /\ (panicked # {} => closed)
    /\ writer = "done" /\ late = {} => usageCh = <<>>
    /\ main \in {"wait", "exited"} => writer = "done"
    /\ main = "exited" => Recording = {}

\* If nobody was being served when Shutdown returned, then at exit every entry
\* the channel accepted was handed to the database, nobody sent on the closed
\* channel and no recording was cut off, however main, the writer, handlers and
\* recordings interleave.
THEOREM ShutdownDrains == WriterSpec => []CleanShutdownDrains
  <1>1. WriterInit => ShutdownInv
    BY DEF WriterInit, ShutdownInv, Torn
  <1>2. TypeOK /\ ShutdownInv /\ [WriterNext]_usageVars => ShutdownInv'
    <2> SUFFICES ASSUME TypeOK, ShutdownInv, [WriterNext]_usageVars PROVE ShutdownInv'
      OBVIOUS
    <2>1. ASSUME NEW h \in Handlers, Serve(h) PROVE ShutdownInv'
      <3>1. ~Torn /\ main' = main  BY <2>1 DEF Serve, Torn, mainVars
      <3>2. Recording' = Recording  BY <2>1 DEF Serve, Recording
      <3> QED  BY <2>1, <3>1, <3>2 DEF ShutdownInv, Torn, Serve, writerVars, mainVars
    <2>2. ASSUME NEW h \in Handlers, logUsage(h) PROVE ShutdownInv'
      <3>1. UNCHANGED <<closed, writerCtx, main, late, writer, recorder>>
        BY <2>2 DEF logUsage, writerVars, mainVars
      <3>2. h \in InService /\ InService' \subseteq InService /\ main # "exited"
        BY <2>2 DEF logUsage, InService, TypeOK, Up
      <3>3. ASSUME closed \/ writer = "done" PROVE h \in late
        BY <3>2, <3>3 DEF ShutdownInv, Torn
      <3>4. panicked' \subseteq late' /\ (panicked' # {} => closed')
        BY <2>2, <3>1, <3>3 DEF logUsage, ShutdownInv
      <3>5. writer' = "done" /\ late' = {} => usageCh' = <<>>
        BY <3>1, <3>3
      <3> QED  BY <3>1, <3>2, <3>4, <3>5 DEF ShutdownInv, Torn
    <2>3. ASSUME NEW h \in Handlers, RecordCapHit(h) PROVE ShutdownInv'
      <3>1. InService' \subseteq InService /\ main # "exited"
        BY <2>3 DEF RecordCapHit, InService, TypeOK, Up
      <3> QED  BY <2>3, <3>1 DEF ShutdownInv, Torn, RecordCapHit, writerVars, mainVars
    <2>4. ASSUME Receive \/ (\E ok \in BOOLEAN : LogUsage(ok)) \/ CtxDone
                 \/ WriterReturns
          PROVE  ShutdownInv'
      <3>1. /\ UNCHANGED <<closed, writerCtx, main, late, panicked, handler, recorder>>
            /\ main # "exited" /\ writer # "done"
        BY <2>4 DEF Receive, LogUsage, CtxDone, WriterReturns, Up, entryVars, mainVars
      <3>2. main # "wait"  BY <3>1 DEF ShutdownInv
      <3>3. InService' = InService /\ Recording' = Recording
        BY <3>1 DEF InService, Recording
      <3>4. writer' \in {"drain", "drainLog", "done"} =>
               writerCtx \/ writer \in {"drain", "drainLog", "done"}
        <4>1. CASE Receive \/ CtxDone \/ (\E ok \in BOOLEAN : LogUsage(ok))
          BY <4>1 DEF Receive, LogUsage, CtxDone
        <4>2. CASE WriterReturns
          BY <4>2, <3>1 DEF WriterReturns, ShutdownInv, TypeOK, MainStates
        <4> QED  BY <2>4, <4>1, <4>2
      <3>5. writer' = "done" => usageCh' = <<>>
        BY <2>4 DEF Receive, LogUsage, CtxDone, WriterReturns
      <3> QED  BY <3>1, <3>2, <3>3, <3>4, <3>5 DEF ShutdownInv, Torn
    <2>5. ASSUME NEW h \in Handlers,
                 \/ \E wins \in BOOLEAN : FileCreditRequest(h, wins)
                 \/ AcquireDelivery(h) \/ deliver(h)
          PROVE  ShutdownInv'
      <3>1. /\ UNCHANGED <<closed, writerCtx, main, late, panicked, handler, writer,
                           usageCh>>
            /\ main # "exited"
        BY <2>5 DEF FileCreditRequest, AcquireDelivery, deliver, Up, entryVars,
                    mainVars
      <3> QED  BY <3>1 DEF ShutdownInv, Torn, InService
    <2>6. ASSUME Signal PROVE ShutdownInv'
      BY <2>6 DEF Signal, ShutdownInv, Torn, writerVars
    <2>7. ASSUME ShutdownReturns PROVE ShutdownInv'
      <3>1. ~closed /\ ~writerCtx  BY <2>7 DEF ShutdownReturns, ShutdownInv
      <3>2. panicked = {} /\ writer # "done"  BY <3>1 DEF ShutdownInv
      <3>3. InService' = InService /\ late' = InService
        BY <2>7 DEF ShutdownReturns, InService
      <3> QED  BY <2>7, <3>1, <3>2, <3>3 DEF ShutdownReturns, ShutdownInv, writerVars
    <2>8. ASSUME writerCancel \/ closeUsageCh PROVE ShutdownInv'
      <3>1. InService' = InService  BY <2>8 DEF writerCancel, closeUsageCh, InService
      <3> QED  BY <2>8, <3>1
               DEF writerCancel, closeUsageCh, ShutdownInv, Torn, writerVars
    <2>9. ASSUME writerDone \/ Wait PROVE ShutdownInv'
      <3>1. InService' = InService /\ Recording' = Recording
        BY <2>9 DEF writerDone, Wait, InService, Recording
      <3> QED  BY <2>9, <3>1 DEF writerDone, Wait, ShutdownInv, Torn, writerVars
    <2>10. CASE UNCHANGED usageVars
      <3>1. InService' = InService /\ Recording' = Recording
        BY <2>10 DEF usageVars, InService, Recording
      <3> QED  BY <2>10, <3>1 DEF ShutdownInv, Torn, usageVars
    <2> QED  BY <2>1, <2>2, <2>3, <2>4, <2>5, <2>6, <2>7, <2>8, <2>9, <2>10, StepKinds
  <1>3. OutcomeInv /\ ShutdownInv => CleanShutdownDrains
    BY DEF OutcomeInv, EmptyHanded, ShutdownInv, CleanShutdownDrains, Buffered
  <1> QED  BY <1>1, <1>2, <1>3, OutcomeInvariant, WriterTyped, PTL DEF WriterSpec
=============================================================================
