------------------------------ MODULE Startup -------------------------------
(***************************************************************************)
(* The start of the gateway (cmd/proxy/main.go) and the requests that      *)
(* create accounts, keys and nodes once it serves.                         *)
(*                                                                         *)
(* A pod syncs the declared nodes and runs the backfills one statement or  *)
(* transaction at a time, may die at any of them and be started again,     *)
(* perhaps with another NODES_FILE; a second pod may start or serve at the *)
(* same time.                                                              *)
(***************************************************************************)
EXTENDS Accounts, DeclaredNodes

CONSTANTS
    Pods, Calls, NoPod,
    Files,       \* what NODES_FILE and OLLAMA_URL may declare
    MaxUses,     \* registrations a token allows
    MaxBoots,    \* bound on starts
    MaxCalls     \* bound on requests

ASSUME NoPodAssumption   == NoPod \notin Pods
ASSUME FilesAssumption   == Files \subseteq SUBSET Names
ASSUME MaxUsesAssumption == MaxUses \in Nat \ {0}
ASSUME BoundsAssumption  == MaxBoots \in Nat /\ MaxCalls \in Nat

VARIABLES
    pods,      \* where each pod is
    call,      \* the request each caller is in
    boots, begun,
    group,     \* history: the files of the starts that overlapped last, and
               \* whether one of them finished
    doubled    \* history: users that two starts gave an account

ctlVars == <<pods, call, boots, begun, group, doubled>>
vars    == <<nodes, acctVars, ctlVars>>

Phases == {"list", "merge", "disable", "users", "accounts", "find", "ensure",
           "keys", "balances", "events"}

\* file is what the pod loaded, listed the nodes it read, todo what the loop of
\* the current phase has left, admin the admin service account it resolved.
Off == [pc |-> "off", file |-> {}, listed |-> <<>>, todo |-> {},
        admin |-> NoAccount]

\* account is the one a request read, token the one it has consumed.
Idle == [pc |-> "idle", pod |-> NoPod, user |-> NoUser, account |-> NoAccount,
         token |-> NoToken]

Booting == {p \in Pods : pods[p].pc \in Phases}
Serving == {p \in Pods : pods[p].pc = "serving"}

Init ==
    /\ \E file \in Files \cup {{}} :
         nodes = [n \in file |-> [source |-> "config", enabled |-> TRUE,
                                 writer |-> "config"]]
    /\ LegacyTables
    /\ \E made \in SUBSET Tokens : tokens = [t \in made |-> NewToken(MaxUses)]
    /\ pods = [p \in Pods |-> Off]
    /\ call = [c \in Calls |-> Idle]
    /\ boots = 0 /\ begun = 0
    /\ group = [files |-> {}, done |-> FALSE]
    /\ doubled = {}

----------------------------------------------------------------------------
(***************************************************************************)
(* Startup, in the order of main                                           *)
(***************************************************************************)

Boot(p) ==
    /\ pods[p].pc \in {"off", "crashed"} /\ boots < MaxBoots
    /\ \E file \in Files :
         /\ pods' = [pods EXCEPT ![p] = [Off EXCEPT !.pc = "list", !.file = file]]
         /\ group' = [files |-> {file} \cup (IF Booting = {} THEN {} ELSE group.files),
                      done |-> Booting # {} /\ group.done]
    /\ boots' = boots + 1
    /\ UNCHANGED <<nodes, acctVars, call, begun, doubled>>

\* os.Exit(1), or the pod dies; what was written stays.
Crashed(p) == pods' = [pods EXCEPT ![p] = [Off EXCEPT !.pc = "crashed"]]
Crash(p) ==
    /\ p \in Booting
    /\ Crashed(p)
    /\ UNCHANGED <<nodes, acctVars, call, boots, begun, group, doubled>>

\* Requests in flight roll back or end with the pod.
Stop(p) ==
    /\ p \in Serving
    /\ pods' = [pods EXCEPT ![p] = Off]
    /\ call' = [c \in Calls |-> IF call[c].pod = p THEN Idle ELSE call[c]]
    /\ UNCHANGED <<nodes, acctVars, boots, begun, group, doubled>>

Goto(p, pc, todo) == pods' = [pods EXCEPT ![p].pc = pc, ![p].todo = todo]

\* A loop over `todo` in phase pc goes on, or is over and the next one begins.
Loop(p, pc, todo, next) == IF todo = {} THEN Goto(p, next, {}) ELSE Goto(p, pc, todo)

ListNodes(p) ==
    /\ pods[p].pc = "list"
    /\ IF Collides(pods[p].file, nodes) THEN Crashed(p)
       ELSE pods' = [pods EXCEPT ![p].pc = "merge", ![p].listed = nodes,
                                 ![p].todo = pods[p].file]
    /\ UNCHANGED <<nodes, acctVars, call, boots, begun, group, doubled>>

MergeNode(p) ==
    /\ pods[p].pc = "merge"
    /\ \E n \in pods[p].todo :
         IF MergePossible(n, pods[p].listed)
         THEN Merge(n, pods[p].listed) /\ Goto(p, "merge", pods[p].todo \ {n})
         ELSE Crashed(p) /\ UNCHANGED nodes
    /\ UNCHANGED <<acctVars, call, boots, begun, group, doubled>>

\* Nodes that the file no longer declares, one by one; then the users.
DisableUndeclared(p) ==
    /\ \/ pods[p].pc = "merge" /\ pods[p].todo = {}
       \/ pods[p].pc = "disable"
    /\ LET todo == IF pods[p].pc = "disable" THEN pods[p].todo
                   ELSE Undeclared(pods[p].file, pods[p].listed)
       IN  IF todo = {}
           THEN /\ pods' = [pods EXCEPT ![p] = [Off EXCEPT !.pc = "users"]]
                /\ UNCHANGED nodes
           ELSE \E n \in todo : DisableNode(n) /\ Goto(p, "disable", todo \ {n})
    /\ UNCHANGED <<acctVars, call, boots, begun, group, doubled>>

ListUsers(p) ==
    /\ pods[p].pc = "users"
    /\ Loop(p, "accounts", UsersWithoutAccount, "find")
    /\ UNCHANGED <<nodes, acctVars, call, boots, begun, group, doubled>>

BackfillUser(p) ==
    /\ pods[p].pc = "accounts"
    /\ \E u \in pods[p].todo :
         /\ BackfillAccount(u)
         /\ doubled' = IF owner[u] = NoAccount THEN doubled ELSE doubled \cup {u}
         /\ Loop(p, "accounts", pods[p].todo \ {u}, "find")
    /\ UNCHANGED <<nodes, call, boots, begun, group>>

FindAdmin(p) ==
    /\ pods[p].pc = "find"
    /\ pods' = [pods EXCEPT ![p].admin = findAdminServiceAccount,
                  ![p].pc = IF findAdminServiceAccount = NoAccount THEN "ensure"
                            ELSE "keys"]
    /\ UNCHANGED <<nodes, acctVars, call, boots, begun, group, doubled>>

EnsureAdmin(p) ==
    /\ pods[p].pc = "ensure"
    /\ EnsureAdminServiceAccount(1)
    /\ pods' = [pods EXCEPT ![p].pc = "keys", ![p].admin = EnsuredId]
    /\ UNCHANGED <<nodes, owner, tracked, keys, tokens, call, boots, begun,
                   group, doubled>>

AttachKeys(p) ==
    /\ pods[p].pc = "keys"
    /\ BackfillAdminKeyAccounts(pods[p].admin)
    /\ Goto(p, "balances", {})
    /\ UNCHANGED <<nodes, accounts, owner, tracked, tokens, call, boots, begun,
                   group, doubled>>

CreateBalances(p) ==
    /\ pods[p].pc = "balances"
    /\ BackfillCreditBalances
    /\ Goto(p, "events", {})
    /\ UNCHANGED <<nodes, owner, tracked, keys, tokens, call, boots, begun,
                   group, doubled>>

\* The last backfill; the listener opens after it.
RecordEvents(p) ==
    /\ pods[p].pc = "events"
    /\ BackfillRegistrationEvents
    /\ pods' = [pods EXCEPT ![p] = [Off EXCEPT !.pc = "serving"]]
    /\ group' = [group EXCEPT !.done = TRUE]
    /\ UNCHANGED <<nodes, owner, keys, tokens, call, boots, begun, doubled>>

----------------------------------------------------------------------------
(***************************************************************************)
(* Requests                                                                *)
(***************************************************************************)

Arrive(c, p) ==
    /\ call[c].pc = "idle" /\ p \in Serving
    /\ begun < MaxCalls /\ begun' = begun + 1
    /\ UNCHANGED <<pods, boots, group, doubled>>

Proceed == UNCHANGED <<nodes, pods, boots, begun, group, doubled>>

Enter(c, p, pc, u, a, t) ==
    call' = [call EXCEPT ![c] = [pc |-> pc, pod |-> p, user |-> u, account |-> a,
                                 token |-> t]]
End(c) == call' = [call EXCEPT ![c] = Idle]

createRegistrationToken(c, p, t) ==
    /\ Arrive(c, p)
    /\ CreateRegistrationToken(t, MaxUses)
    /\ UNCHANGED <<nodes, call>>

\* The row of a token that a registration has consumed is locked until it ends.
TokenFree(t) == \A c \in Calls : call[c].pc = "consumed" => call[c].token # t

\* UPDATE registration_tokens: waits for the row, then looks at what it holds.
ConsumeToken(c, p, t) ==
    /\ Arrive(c, p)
    /\ t \in DOMAIN tokens /\ TokenFree(t) /\ TokenValid(t)
    /\ Enter(c, p, "consumed", NoUser, NoAccount, t)
    /\ UNCHANGED <<nodes, acctVars>>

registerServiceAccount(c) ==
    /\ call[c].pc = "consumed"
    /\ \E type \in {"service", "admin-service"} :
         RegisterServiceAccount(call[c].token, type)
    /\ End(c) /\ Proceed

RollbackRegistration(c) ==
    /\ call[c].pc = "consumed"
    /\ End(c) /\ Proceed
    /\ UNCHANGED acctVars

revokeRegistrationToken(c, p, t) ==
    /\ Arrive(c, p)
    /\ t \in DOMAIN tokens /\ TokenFree(t)
    /\ RevokeRegistrationToken(t)
    /\ UNCHANGED <<nodes, call>>

\* POST /api/auth/register: the user first, the bonus after it.
register(c, p, u) ==
    /\ Arrive(c, p)
    /\ RegisterUser(u)
    /\ Enter(c, p, "grant", u, Len(accounts) + 1, NoToken)
    /\ UNCHANGED nodes

grantDefault(c) ==
    /\ call[c].pc = "grant"
    /\ \/ GrantDefault(call[c].account)
       \/ UNCHANGED acctVars   \* AddCredits failed and was logged
    /\ End(c) /\ Proceed

\* POST /api/admin/bootstrap: an admin, without a bonus.
CreateAdminBootstrap(c, p, u) ==
    /\ Arrive(c, p)
    /\ RegisterUser(u)
    /\ UNCHANGED <<nodes, call>>

\* POST /api/users/keys: the session middleware reads the user, ...
userKey(c, p, u) ==
    /\ Arrive(c, p)
    /\ u \in DOMAIN owner
    /\ Enter(c, p, "key", u, owner[u], NoToken)
    /\ UNCHANGED <<nodes, acctVars>>

\* POST /api/admin/keys without an account resolves the admin's; ...
adminKey(c, p) ==
    /\ Arrive(c, p)
    /\ EnsureAdminServiceAccount(1)
    /\ Enter(c, p, "key", NoUser, EnsuredId, NoToken)
    /\ UNCHANGED <<nodes, owner, tracked, keys, tokens>>

\* ... with one, as POST /api/admin/accounts/{id}/keys, it looks that up, ...
createAccountKey(c, p) ==
    /\ Arrive(c, p)
    /\ \E a \in AccountIds : Enter(c, p, "key", NoUser, a, NoToken)
    /\ UNCHANGED <<nodes, acctVars>>

\* ... and the key is inserted later, for the account that was read.
createKey(c) ==
    /\ call[c].pc = "key"
    /\ CreateKey(call[c].user, call[c].account)
    /\ End(c) /\ Proceed

\* POST, PUT and DELETE /api/admin/nodes.
adminNode(c, p) ==
    /\ Arrive(c, p)
    /\ \E n \in Names :
         \/ CreateApiNode(n)
         \/ \E name \in Names, enabled \in BOOLEAN : UpdateApiNode(n, name, enabled)
    /\ UNCHANGED <<acctVars, call>>

----------------------------------------------------------------------------

PodStep(p) ==
    \/ Boot(p) \/ Crash(p) \/ Stop(p)
    \/ ListNodes(p) \/ MergeNode(p) \/ DisableUndeclared(p)
    \/ ListUsers(p) \/ BackfillUser(p)
    \/ FindAdmin(p) \/ EnsureAdmin(p)
    \/ AttachKeys(p) \/ CreateBalances(p) \/ RecordEvents(p)

CallStep(c) ==
    \/ \E p \in Pods, t \in Tokens : createRegistrationToken(c, p, t)
                                    \/ ConsumeToken(c, p, t)
                                    \/ revokeRegistrationToken(c, p, t)
    \/ registerServiceAccount(c) \/ RollbackRegistration(c)
    \/ \E p \in Pods, u \in Users : \/ register(c, p, u)
                                   \/ CreateAdminBootstrap(c, p, u)
                                   \/ userKey(c, p, u)
    \/ grantDefault(c)
    \/ \E p \in Pods : adminKey(c, p) \/ createAccountKey(c, p) \/ adminNode(c, p)
    \/ createKey(c)

Next == (\E p \in Pods : PodStep(p)) \/ (\E c \in Calls : CallStep(c))

Spec == Init /\ [][Next]_vars

----------------------------------------------------------------------------
(***************************************************************************)
(* Properties                                                              *)
(***************************************************************************)

\* EnsureAdminServiceAccount: one admin service account is created and granted
\* once however pods start over each other and die, and every later lookup
\* finds that one, not an account that a caller registers under its name.  If
\* the installation had an account of that name before its first start, that
\* one is adopted: none is created beside it and it is not granted again.
OneAdminServiceAccount ==
    LET ours == {a \in AdminServiceAccounts : accounts[a].via = NoToken}
    IN  /\ Cardinality(ours) <= 1
        /\ AdminServiceAccounts # {} => findAdminServiceAccount \in ours
        /\ \A p \in Pods : pods[p].admin \in ours \cup {NoAccount}
        /\ \A a \in ours : accounts[a].grants = 1

\* RegisterServiceAccount: a token makes exactly as many accounts as uses it
\* has counted and never more than it allows, whichever registrations ran at
\* once, rolled back or died with their pod.
TokenUsesMatchAccounts ==
    \A t \in DOMAIN tokens :
        /\ tokens[t].uses = Cardinality({a \in AccountIds : accounts[a].via = t})
        /\ tokens[t].uses <= MaxUses

\* main: as long as a pod serves, "every key is account-backed and metered",
\* keys minted while another pod is still starting included; and a user's keys
\* are billed to the user's account.  The code allows one exception: a user whom
\* two pods that start at once both give an account has keys on the one that was
\* lost.  It contradicts store.go:1014-1015, where BackfillAccounts "creates
\* personal accounts for existing users without one, and updates their keys'
\* account_id.  Idempotent - safe to call on every startup".
KeysBilled ==
    /\ Serving # {} => \A k \in keys : k.account # NoAccount
    /\ \A k \in keys : \/ k.owner \in doubled \cup {NoUser}
                        \/ k.account \in {NoAccount, owner[k.owner]}

\* Once nobody is starting and no start was left half done, every account has a
\* balance row and every user and service account its registration event.
SettledTables ==
    (Serving # {} /\ \A p \in Pods : pods[p].pc \in {"off", "serving"})
    => /\ \A a \in AccountIds :
            accounts[a].balance /\ (accounts[a].type # "personal" => accounts[a].event)
       /\ tracked = DOMAIN owner

\* SyncDeclaredNodes: a start that finishes leaves exactly the declared nodes
\* enabled, whatever earlier starts left half done (pods that start at once
\* must have read the same file); and the file never takes over a row of the
\* admin API nor the API one of the file's, though names are checked before
\* the first write and nodes are created and renamed in between.
DeclaredNodesSynced ==
    /\ (Booting = {} /\ group.done /\ Cardinality(group.files) = 1)
       => EnabledConfig \in group.files
    /\ \A n \in DOMAIN nodes : nodes[n].writer = nodes[n].source
=============================================================================
