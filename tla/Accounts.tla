------------------------------ MODULE Accounts ------------------------------
(***************************************************************************)
(* Billing accounts, the users and API keys that belong to them and the    *)
(* registration tokens that create them (internal/store).  Every operator  *)
(* is one committed transaction or one statement.                          *)
(*                                                                         *)
(* Rows are numbered in the order of their ids.  An account counts the     *)
(* grants it was given when it was created and says whether it has a       *)
(* balance row and a registration event; `via` is the token it came from.  *)
(***************************************************************************)
EXTENDS Integers, FiniteSets, Sequences

CONSTANTS Users, Tokens, NoAccount, NoUser, NoToken

\* NULL is no id.
ASSUME NullAssumption == /\ NoAccount \notin Nat
                         /\ NoUser \notin Users
                         /\ NoToken \notin Tokens

VARIABLES
    accounts,   \* the accounts, with their balance row and audit trail
    owner,      \* users.account_id, for the users that exist
    tracked,    \* users that have a registration event
    keys,       \* the api_keys table, without what tells two keys apart
    tokens      \* the registration_tokens table

acctVars == <<accounts, owner, tracked, keys, tokens>>

AccountIds == DOMAIN accounts

Account(type, grants, balance, event, via) ==
    [type |-> type, grants |-> grants, balance |-> balance, event |-> event,
     via |-> via]

\* The tables as an older installation left them: users and keys without an
\* account, perhaps a service account without an event, and that one perhaps
\* registered by a caller, with its grant, under the name "admin-service".
LegacyTables ==
    /\ accounts \in {<<>>, <<Account("service", 0, FALSE, FALSE, NoToken)>>,
                     <<Account("admin-service", 1, TRUE, FALSE, NoToken)>>}
    /\ \E known \in SUBSET Users :
         /\ owner = [u \in known |-> NoAccount]
         /\ keys = [owner : known \cup {NoUser}, account : {NoAccount}]
    /\ tracked = {}

NewToken(maxUses) == [uses |-> 0, max |-> maxUses, revoked |-> FALSE]

----------------------------------------------------------------------------
(***************************************************************************)
(* Startup                                                                 *)
(***************************************************************************)

UsersWithoutAccount == {u \in DOMAIN owner : owner[u] = NoAccount}

\* UPDATE api_keys SET account_id = a WHERE ... AND account_id IS NULL.
Attach(theirs, a) == {[k EXCEPT !.account = a] : k \in theirs} \cup (keys \ theirs)
Unattached(owners) == {k \in keys : k.owner \in owners /\ k.account = NoAccount}

\* Mutant: the keys that have no account are not narrowed to the user's.
BackfillAllKeys(u) ==
    /\ accounts' = Append(accounts, Account("personal", 0, FALSE, FALSE, NoToken))
    /\ owner' = [owner EXCEPT ![u] = Len(accounts) + 1]
    /\ keys' = Attach(Unattached(Users \cup {NoUser}), Len(accounts) + 1)
    /\ UNCHANGED <<tracked, tokens>>

\* One user's turn of BackfillAccounts: a personal account, without a balance
\* row yet, for the user and for its keys that have none.
BackfillAccount(u) ==
    /\ accounts' = Append(accounts, Account("personal", 0, FALSE, FALSE, NoToken))
    /\ owner' = [owner EXCEPT ![u] = Len(accounts) + 1]
    /\ keys' = Attach(Unattached({u}), Len(accounts) + 1)
    /\ UNCHANGED <<tracked, tokens>>

AdminServiceAccounts == {a \in AccountIds : accounts[a].type = "admin-service"}

\* The one with the smallest id, if there is one.
findAdminServiceAccount ==
    IF AdminServiceAccounts = {} THEN NoAccount
    ELSE CHOOSE a \in AdminServiceAccounts : \A b \in AdminServiceAccounts : a <= b

\* Mutant: no second look under the lock.
CreateUnchecked(grants) ==
    accounts' = Append(accounts, Account("admin-service", grants, TRUE, TRUE, NoToken))

\* Under the advisory lock the account is looked for once more and created
\* with its balance, grant, audit row and event if it is still missing.
EnsureAdminServiceAccount(grants) ==
    accounts' = IF findAdminServiceAccount # NoAccount THEN accounts
                ELSE Append(accounts,
                            Account("admin-service", grants, TRUE, TRUE, NoToken))
\* The id it returns.
EnsuredId == IF findAdminServiceAccount # NoAccount THEN findAdminServiceAccount
             ELSE Len(accounts) + 1

Billed == {u \in DOMAIN owner : owner[u] # NoAccount}

\* Keys without an account go to their owner's, the rest to the admin service
\* account.
BackfillAdminKeyAccounts(admin) ==
    keys' = {CASE k.account # NoAccount -> k
               [] k \in Unattached(Billed) -> [k EXCEPT !.account = owner[k.owner]]
               [] OTHER -> [k EXCEPT !.account = admin] : k \in keys}

\* Mutant: balance rows are not backfilled.
NoBalances == accounts' = accounts

BackfillCreditBalances ==
    accounts' = [a \in AccountIds |-> [accounts[a] EXCEPT !.balance = TRUE]]

\* Two statements: one for users, one for service accounts.
BackfillRegistrationEvents ==
    /\ tracked' = tracked \cup DOMAIN owner
    /\ accounts' = [a \in AccountIds |->
                      [accounts[a] EXCEPT !.event = @ \/ accounts[a].type # "personal"]]

----------------------------------------------------------------------------
(***************************************************************************)
(* While serving                                                           *)
(***************************************************************************)

\* RegisterUser and CreateAdminBootstrap: account, user, balance row and event
\* in one transaction.
RegisterUser(u) ==
    /\ u \notin DOMAIN owner
    /\ accounts' = Append(accounts, Account("personal", 0, TRUE, FALSE, NoToken))
    /\ owner' = [v \in DOMAIN owner \cup {u} |->
                   IF v = u THEN Len(accounts) + 1 ELSE owner[v]]
    /\ tracked' = tracked \cup {u}
    /\ UNCHANGED <<keys, tokens>>

\* AddCredits of the registration bonus, in a transaction of its own.
GrantDefault(a) ==
    /\ accounts' = [accounts EXCEPT ![a].grants = @ + 1]
    /\ UNCHANGED <<owner, tracked, keys, tokens>>

CreateRegistrationToken(t, maxUses) ==
    /\ t \notin DOMAIN tokens
    /\ tokens' = [s \in DOMAIN tokens \cup {t} |->
                    IF s = t THEN NewToken(maxUses) ELSE tokens[s]]
    /\ UNCHANGED <<accounts, owner, tracked, keys>>

\* Mutant: one use too many.
TokenValidOnceMore(t) == ~tokens[t].revoked /\ tokens[t].uses <= tokens[t].max

\* The WHERE clause that validates a token; NOW() may be past its expiry.
TokenValid(t) == ~tokens[t].revoked /\ tokens[t].uses < tokens[t].max

\* RegisterServiceAccount commits: token use, account, balance, grant, key and
\* event together.  The name is the caller's, "admin-service" included.
RegisterServiceAccount(t, type) ==
    /\ tokens' = [tokens EXCEPT ![t].uses = @ + 1]
    /\ accounts' = Append(accounts, Account(type, 1, TRUE, TRUE, t))
    /\ keys' = keys \cup {[owner |-> NoUser, account |-> Len(accounts) + 1]}
    /\ UNCHANGED <<owner, tracked>>

RevokeRegistrationToken(t) ==
    /\ tokens' = [tokens EXCEPT ![t].revoked = TRUE]
    /\ UNCHANGED <<accounts, owner, tracked, keys>>

\* CreateKeyForAccount, CreateKeyForAccountOnly and, without an account,
\* CreateKeyForUser.
CreateKey(u, a) ==
    /\ keys' = keys \cup {[owner |-> u, account |-> a]}
    /\ UNCHANGED <<accounts, owner, tracked, tokens>>
=============================================================================
