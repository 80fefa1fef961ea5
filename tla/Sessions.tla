------------------------------ MODULE Sessions ------------------------------
(***************************************************************************)
(* Users, their roles, passwords and login sessions (internal/user, the    *)
(* user part of internal/admin and internal/store/store.go, bootstrap).    *)
(*                                                                         *)
(* A call is a record that walks through the handler's statements; every   *)
(* statement is one step and calls interleave between them.  What a        *)
(* transaction wrote becomes visible when it commits; a DELETE works on    *)
(* the sessions committed when it starts.  SELECT ... FOR UPDATE excludes  *)
(* every other writer of the user's row and, through the foreign key, the  *)
(* INSERT of a session of that user; UPDATE of the password excludes only  *)
(* the writers.                                                            *)
(*                                                                         *)
(* Passwords are numbered in the order they are set.  Time is abstracted:  *)
(* any lookup may find the session expired; `long` says which of the two   *)
(* lifetimes it was given.                                                 *)
(***************************************************************************)
EXTENDS Integers, FiniteSets

CONSTANTS
    Users,               \* user ids, those not yet registered included
    Tokens,              \* session tokens that can be handed out
    Calls,               \* concurrent requests
    NoUser, NoToken,
    BcryptConcurrency,   \* capacity of the bcrypt semaphore
    MaxCalls             \* bound on requests

ASSUME NoUserAssumption  == NoUser \notin Users
ASSUME NoTokenAssumption == NoToken \notin Tokens
ASSUME BoundsAssumption  == /\ BcryptConcurrency \in Nat \ {0}
                            /\ MaxCalls \in Nat

VARIABLES
    users,      \* the users table
    sessions,   \* the user_sessions table, by token
    call,       \* the request each caller is in
    slots,      \* length of the bcrypt semaphore's channel
    begun       \* number of requests so far

vars == <<users, sessions, call, slots, begun>>

Roles == {"admin", "user"}

\* A row; an id that is not registered has password 0 and is not active.
User    == [known : BOOLEAN, role : Roles, active : BOOLEAN, pw : Nat]
Unknown == [known |-> FALSE, role |-> "user", active |-> FALSE, pw |-> 0]

\* pw is the password its holder last proved to know, raced is history: the
\* login overlapped a change of its user that its session does not reflect.
Session == [user : Users, long : BOOLEAN, pw : Nat, raced : BOOLEAN]

UserOps  == {"logout", "password"}
AdminOps == {"promote", "demote", "deactivate", "activate"}

\* user is whom the call changes, token the session that carries it and by that
\* session's user, row what the call read, doomed what its DELETE found.
Call == [pc : {"idle", "user", "compare", "insert", "drop", "hash", "update",
               "revoke", "lock", "guard", "purge", "commit", "register"},
         op : {"none", "login", "register"} \cup UserOps \cup AdminOps,
         user : Users \cup {NoUser}, by : Users \cup {NoUser}, row : User,
         token : Tokens \cup {NoToken}, doomed : SUBSET Tokens, raced : BOOLEAN]

Idle == [pc |-> "idle", op |-> "none", user |-> NoUser, by |-> NoUser,
         row |-> Unknown, token |-> NoToken, doomed |-> {}, raced |-> FALSE]

ActiveAdmins == {u \in Users : users[u].role = "admin" /\ users[u].active}

SessionsOf(u) == {t \in DOMAIN sessions : sessions[t].user = u}

Without(tokens) == [t \in DOMAIN sessions \ tokens |-> sessions[t]]

\* Tokens are random: a new one is none that a row or a call still names.
FreshTokens == {t \in Tokens \ DOMAIN sessions :
                  \A c \in Calls : t # call[c].token /\ t \notin call[c].doomed}

Do(c, next) == call' = [call EXCEPT ![c] = next]
End(c)      == Do(c, Idle)
Goto(c, pc) == Do(c, [call[c] EXCEPT !.pc = pc])

\* hashtext('admin_mutations') is locked from its statement to the end of the
\* transaction.
AdminMutations == {c \in Calls : call[c].pc \in {"guard", "purge", "commit"}
                                 /\ call[c].op \in AdminOps}

\* Row locks: FOR UPDATE by the guarded transactions, the weaker lock of an
\* UPDATE by a password change.
LockedForUpdate(u) ==
    \E c \in AdminMutations : call[c].user = u /\ call[c].pc # "guard"
ChangingPassword(u) ==
    \E c \in Calls : /\ call[c].op = "password" /\ call[c].user = u
                     /\ call[c].pc \in {"revoke", "commit"}
RowFree(u) == ~LockedForUpdate(u) /\ ~ChangingPassword(u)

\* A password change has already found the sessions it will delete.
Revoking(u) ==
    \E c \in Calls : call[c].op = "password" /\ call[c].user = u
                     /\ call[c].pc = "commit"

\* A committed change of u overtakes the logins that read u's row before.
Overtake(c, next, u) ==
    call' = [d \in Calls |->
               IF d = c THEN next
               ELSE IF call[d].op = "login" /\ call[d].user = u
                    THEN [call[d] EXCEPT !.raced = TRUE] ELSE call[d]]

\* SessionDurationFor: true for the seven days of a user's session, false for
\* the six hours of an admin's.
SessionDurationFor(role) == role # "admin"

Init ==
    /\ users \in [Users -> {Unknown} \cup [known : {TRUE}, role : Roles,
                                            active : BOOLEAN, pw : {0}]]
    /\ \E known \in SUBSET Tokens :
         sessions \in [known -> {s \in [user : Users, long : BOOLEAN, pw : {0},
                                       raced : {FALSE}] :
                                   /\ users[s.user].active
                                   /\ s.long = SessionDurationFor(users[s.user].role)}]
    /\ call = [c \in Calls |-> Idle]
    /\ slots = 0 /\ begun = 0

Begin(c) ==
    /\ call[c].pc = "idle"
    /\ begun < MaxCalls /\ begun' = begun + 1

----------------------------------------------------------------------------
(***************************************************************************)
(* The bcrypt semaphore                                                    *)
(***************************************************************************)

\* Mutant: the semaphore has no capacity.
AcquireUncapped == slots' = slots + 1

TryAcquireBcrypt == slots < BcryptConcurrency /\ slots' = slots + 1

ReleaseBcrypt == slots' = IF slots > 0 THEN slots - 1 ELSE slots

----------------------------------------------------------------------------
(***************************************************************************)
(* Login and registration                                                  *)
(***************************************************************************)

\* Mutant: the slot is not given back when the account is disabled.
loginLeaking(c, u) ==
    /\ Begin(c)
    /\ \/ slots >= BcryptConcurrency /\ UNCHANGED <<slots, call>>
       \/ /\ users[u].known /\ ~users[u].active
          /\ TryAcquireBcrypt /\ UNCHANGED call
       \/ /\ users[u].known => users[u].active
          /\ TryAcquireBcrypt
          /\ Do(c, [Idle EXCEPT !.pc = "compare", !.op = "login",
                                !.user = u, !.row = users[u]])
    /\ UNCHANGED <<users, sessions>>

\* The user is looked up, then a slot is tried for (429 without one); a
\* disabled user is refused, an unknown one costs the same comparison.
login(c, u) ==
    /\ Begin(c)
    /\ \/ slots >= BcryptConcurrency /\ UNCHANGED <<slots, call>>
       \/ /\ users[u].known /\ ~users[u].active
          /\ slots < BcryptConcurrency /\ UNCHANGED <<slots, call>>
       \/ /\ users[u].known => users[u].active
          /\ TryAcquireBcrypt
          /\ Do(c, [Idle EXCEPT !.pc = "compare", !.op = "login",
                                !.user = u, !.row = users[u]])
    /\ UNCHANGED <<users, sessions>>

\* The password given is the one that was read, or is not.
comparePassword(c) ==
    /\ call[c].pc = "compare"
    /\ ReleaseBcrypt
    /\ \/ call[c].row.known /\ Goto(c, "insert")
       \/ End(c)
    /\ UNCHANGED <<users, sessions, begun>>

\* The session is inserted, with the lifetime of the role that was read.
CreateSession(c, t) ==
    /\ call[c].pc = "insert" /\ t \in FreshTokens
    /\ ~LockedForUpdate(call[c].user)
    /\ LET u == call[c].user
           new == [user |-> u, long |-> SessionDurationFor(call[c].row.role),
                   pw |-> call[c].row.pw,
                   raced |-> call[c].raced \/ Revoking(u)]
       IN  sessions' = [s \in DOMAIN sessions \cup {t} |->
                          IF s = t THEN new ELSE sessions[s]]
    /\ End(c)
    /\ UNCHANGED <<users, slots, begun>>

\* Self-registration hashes the password under a slot, ...
register(c, u) ==
    /\ Begin(c)
    /\ \/ slots >= BcryptConcurrency /\ UNCHANGED <<slots, call>>
       \/ /\ TryAcquireBcrypt
          /\ Do(c, [Idle EXCEPT !.pc = "hash", !.op = "register", !.user = u])
    /\ UNCHANGED <<users, sessions>>

\* ... then creates the user, unless the email is taken (409).
RegisterUser(c) ==
    /\ call[c].pc = "register"
    /\ LET u == call[c].user
       IN  users' = IF users[u].known THEN users
                    ELSE [users EXCEPT ![u] = [Unknown EXCEPT !.known = TRUE,
                                                              !.active = TRUE]]
    /\ End(c)
    /\ UNCHANGED <<sessions, slots, begun>>

\* POST /api/admin/bootstrap makes an admin; it takes no bcrypt slot.
CreateAdminBootstrap(c, u) ==
    /\ Begin(c)
    /\ users' = IF users[u].known THEN users
                ELSE [users EXCEPT ![u] = [known |-> TRUE, role |-> "admin",
                                           active |-> TRUE, pw |-> 0]]
    /\ UNCHANGED <<sessions, call, slots>>

----------------------------------------------------------------------------
(***************************************************************************)
(* Requests that carry a session                                           *)
(***************************************************************************)

\* Both middlewares look the session up, ...
GetSessionByTokenHash(c, t) ==
    /\ Begin(c)
    /\ t \in DOMAIN sessions
    /\ LET by == sessions[t].user
       IN  \E op \in UserOps \cup AdminOps, u \in Users :
             /\ op \in UserOps => u = by
             /\ Do(c, [Idle EXCEPT !.pc = "user", !.op = op, !.token = t,
                                   !.user = u, !.by = by])
    /\ UNCHANGED <<users, sessions, slots>>

\* ... and delete it if it has expired.
DeleteExpiredSession(c, t) ==
    /\ Begin(c)
    /\ t \in DOMAIN sessions
    /\ sessions' = Without({t})
    /\ UNCHANGED <<users, call, slots>>

\* SessionMiddleware loads the session's user; a disabled one is refused.
\* changePassword then needs a slot.
SessionMiddleware(c) ==
    /\ call[c].pc = "user" /\ call[c].op \in UserOps
    /\ LET row  == users[call[c].user]
           pass == [call[c] EXCEPT !.row = row]
       IN  \/ ~row.active /\ End(c) /\ UNCHANGED slots
           \/ /\ row.active /\ call[c].op = "logout"
              /\ Do(c, [pass EXCEPT !.pc = "drop"]) /\ UNCHANGED slots
           \/ /\ row.active /\ call[c].op = "password"
              /\ IF slots < BcryptConcurrency
                 THEN TryAcquireBcrypt /\ Do(c, [pass EXCEPT !.pc = "hash"])
                 ELSE End(c) /\ UNCHANGED slots
    /\ UNCHANGED <<users, sessions, begun>>

logout(c) ==
    /\ call[c].pc = "drop"
    /\ sessions' = Without({call[c].token})
    /\ End(c)
    /\ UNCHANGED <<users, slots, begun>>

\* The old password is compared with the hash the middleware read and the new
\* one hashed, under one slot; registration hashes only.
GenerateFromPassword(c) ==
    /\ call[c].pc = "hash"
    /\ ReleaseBcrypt
    /\ \/ call[c].op = "register" /\ Goto(c, "register")
       \/ call[c].op = "password" /\ Goto(c, "update")
       \/ End(c)
    /\ UNCHANGED <<users, sessions, begun>>

\* UPDATE users SET password_hash locks the row, ...
UpdatePassword(c) ==
    /\ call[c].pc = "update"
    /\ RowFree(call[c].user)
    /\ Goto(c, "revoke")
    /\ UNCHANGED <<users, sessions, slots, begun>>

\* ... the other sessions are deleted, ...
RevokeSessions(c) ==
    /\ call[c].pc = "revoke" /\ call[c].op = "password"
    /\ Do(c, [call[c] EXCEPT !.pc = "commit",
                !.doomed = SessionsOf(call[c].user) \ {call[c].token}])
    /\ UNCHANGED <<users, sessions, slots, begun>>

\* Mutant: the password is changed and no session revoked.
PasswordOnly(c) ==
    /\ call[c].pc = "commit" /\ call[c].op = "password"
    /\ LET u == call[c].user
       IN  /\ users' = [users EXCEPT ![u].pw = @ + 1]
           /\ sessions' = [t \in DOMAIN sessions |->
                             IF t = call[c].token
                             THEN [sessions[t] EXCEPT !.pw = users'[u].pw]
                             ELSE sessions[t]]
           /\ Overtake(c, Idle, u)
    /\ UNCHANGED <<slots, begun>>

\* ... and both become visible together.
UpdateUserPasswordAndRevokeSessions(c) ==
    /\ call[c].pc = "commit" /\ call[c].op = "password"
    /\ LET u == call[c].user
       IN  /\ users' = [users EXCEPT ![u].pw = @ + 1]
           /\ sessions' = [t \in DOMAIN sessions \ call[c].doomed |->
                             IF t = call[c].token
                             THEN [sessions[t] EXCEPT !.pw = users'[u].pw]
                             ELSE sessions[t]]
           /\ Overtake(c, Idle, u)
    /\ UNCHANGED <<slots, begun>>

----------------------------------------------------------------------------
(***************************************************************************)
(* Admin calls on users                                                    *)
(***************************************************************************)

\* A bearer session passes if its user, looked up now, is an active admin.
authMiddleware(c) ==
    /\ call[c].pc = "user" /\ call[c].op \in AdminOps
    /\ IF call[c].by \in ActiveAdmins THEN Goto(c, "lock") ELSE End(c)
    /\ UNCHANGED <<users, sessions, slots, begun>>

\* X-Admin-Key passes without a session.
adminKey(c, op, u) ==
    /\ Begin(c)
    /\ Do(c, [Idle EXCEPT !.pc = "lock", !.op = op, !.user = u])
    /\ UNCHANGED <<users, sessions, slots>>

\* activateUser: one unguarded UPDATE.
SetUserActive(c) ==
    /\ call[c].pc = "lock" /\ call[c].op = "activate"
    /\ LET u == call[c].user
       IN  /\ RowFree(u)
           /\ users' = [users EXCEPT ![u].active = users[u].known]
    /\ End(c)
    /\ UNCHANGED <<sessions, slots, begun>>

\* Role changes and deactivations serialize on one advisory lock.
AdvisoryLock(c) ==
    /\ call[c].pc = "lock" /\ call[c].op # "activate"
    /\ AdminMutations = {}
    /\ Goto(c, "guard")
    /\ UNCHANGED <<users, sessions, slots, begun>>

\* Deactivation locks and reads the row and refuses the last active admin.
DeactivateGuard(c) ==
    /\ call[c].pc = "guard" /\ call[c].op = "deactivate"
    /\ LET u == call[c].user
       IN  /\ RowFree(u)
           /\ IF \/ ~users[u].known
                 \/ u \in ActiveAdmins /\ Cardinality(ActiveAdmins) <= 1
              THEN End(c)
              ELSE Do(c, [call[c] EXCEPT !.pc = "purge", !.row = users[u]])
    /\ UNCHANGED <<users, sessions, slots, begun>>

NewRole(op) == IF op = "promote" THEN "admin" ELSE "user"

\* Mutant: the count leaves out "AND is_active".
CountAllAdmins(c) ==
    /\ call[c].pc = "guard" /\ call[c].op \in {"promote", "demote"}
    /\ LET u == call[c].user
       IN  /\ RowFree(u)
           /\ IF \/ ~users[u].known
                 \/ users[u].role = NewRole(call[c].op)
                 \/ /\ u \in ActiveAdmins
                    /\ Cardinality({v \in Users : users[v].role = "admin"}) <= 1
              THEN End(c)
              ELSE Do(c, [call[c] EXCEPT !.pc = "purge", !.row = users[u]])
    /\ UNCHANGED <<users, sessions, slots, begun>>

\* A role change does the same; one to the current role is over here.
RoleGuard(c) ==
    /\ call[c].pc = "guard" /\ call[c].op \in {"promote", "demote"}
    /\ LET u == call[c].user
       IN  /\ RowFree(u)
           /\ IF \/ ~users[u].known
                 \/ users[u].role = NewRole(call[c].op)
                 \/ u \in ActiveAdmins /\ Cardinality(ActiveAdmins) <= 1
              THEN End(c)
              ELSE Do(c, [call[c] EXCEPT !.pc = "purge", !.row = users[u]])
    /\ UNCHANGED <<users, sessions, slots, begun>>

\* DELETE FROM user_sessions; a deactivation of an inactive user skips it.
PurgeSessions(c) ==
    /\ call[c].pc = "purge"
    /\ LET skip == call[c].op = "deactivate" /\ ~call[c].row.active
       IN  Do(c, [call[c] EXCEPT !.pc = "commit",
                    !.doomed = IF skip THEN {} ELSE SessionsOf(call[c].user)])
    /\ UNCHANGED <<users, sessions, slots, begun>>

DeactivateUserGuarded(c) ==
    /\ call[c].pc = "commit" /\ call[c].op = "deactivate"
    /\ users' = [users EXCEPT ![call[c].user].active = FALSE]
    /\ sessions' = Without(call[c].doomed)
    /\ Overtake(c, Idle, call[c].user)
    /\ UNCHANGED <<slots, begun>>

\* Mutant: the sessions survive a role change.
RoleOnly(c) ==
    /\ call[c].pc = "commit" /\ call[c].op \in {"promote", "demote"}
    /\ users' = [users EXCEPT ![call[c].user].role = NewRole(call[c].op)]
    /\ Overtake(c, Idle, call[c].user)
    /\ UNCHANGED <<sessions, slots, begun>>

UpdateUserRoleGuarded(c) ==
    /\ call[c].pc = "commit" /\ call[c].op \in {"promote", "demote"}
    /\ users' = [users EXCEPT ![call[c].user].role = NewRole(call[c].op)]
    /\ sessions' = Without(call[c].doomed)
    /\ Overtake(c, Idle, call[c].user)
    /\ UNCHANGED <<slots, begun>>

----------------------------------------------------------------------------

\* The last statement or the commit fails and the transaction rolls back; an
\* earlier failure leaves the same rows.
Rollback(c) ==
    /\ call[c].pc \in {"insert", "drop", "register", "commit"}
    /\ End(c)
    /\ UNCHANGED <<users, sessions, slots, begun>>

Arrive(c) ==
    \/ \E u \in Users : login(c, u) \/ register(c, u) \/ CreateAdminBootstrap(c, u)
    \/ \E t \in DOMAIN sessions : GetSessionByTokenHash(c, t)
                                 \/ DeleteExpiredSession(c, t)
    \/ \E op \in AdminOps, u \in Users : adminKey(c, op, u)

Step(c) ==
    \/ comparePassword(c)
    \/ \E t \in Tokens : CreateSession(c, t)
    \/ RegisterUser(c)
    \/ SessionMiddleware(c)
    \/ logout(c)
    \/ GenerateFromPassword(c)
    \/ UpdatePassword(c) \/ RevokeSessions(c)
    \/ UpdateUserPasswordAndRevokeSessions(c)
    \/ authMiddleware(c)
    \/ SetUserActive(c)
    \/ AdvisoryLock(c)
    \/ DeactivateGuard(c) \/ RoleGuard(c)
    \/ PurgeSessions(c)
    \/ DeactivateUserGuarded(c) \/ UpdateUserRoleGuarded(c)
    \/ Rollback(c)

Next == \E c \in Calls : Arrive(c) \/ Step(c)

Spec == Init /\ [][Next]_vars

----------------------------------------------------------------------------
(***************************************************************************)
(* Properties                                                              *)
(***************************************************************************)

\* Rows, sessions and calls are well typed, the semaphore is within its
\* capacity and a call in progress is about some user.
TypeOK ==
    /\ users \in [Users -> User]
    /\ DOMAIN sessions \subseteq Tokens
    /\ \A t \in DOMAIN sessions : sessions[t] \in Session
    /\ call \in [Calls -> Call]
    /\ \A c \in Calls : call[c].pc # "idle" => call[c].user \in Users
    /\ slots \in 0..BcryptConcurrency
    /\ begun \in 0..MaxCalls

\* DeactivateUserGuarded and UpdateUserRoleGuarded: however admins demote and
\* deactivate each other at once, with requests authorized before they lost
\* the role themselves, a system with an active admin keeps one.
ActiveAdminRemains == [][ActiveAdmins # {} => ActiveAdmins' # {}]_vars

\* changePassword: the sessions of the old password are dead, through concurrent
\* password changes, logins and revocations.  The code allows one exception: a
\* login that read the old password before the change committed and inserts its
\* session after the DELETE has looked.  It contradicts user/handler.go:393-397,
\* "a 200 always means every other session is dead", and store.go:751-754, "a
\* password change can never report success while stale sessions remain usable".
OldPasswordSessionsRaced ==
    \A t \in DOMAIN sessions :
        sessions[t].pw = users[sessions[t].user].pw \/ sessions[t].raced

\* A role change or a deactivation ends the user's sessions: an admin has no
\* seven-day session and a disabled user none at all.  The exception is a login
\* that was in flight: store.go:677-679 speaks of "existing sessions", so it is
\* outside what the comment says, and a seven-day session of a new admin can
\* still come from it.
RoleSessionsRaced ==
    \A t \in DOMAIN sessions :
        LET u == users[sessions[t].user]
        IN  \/ u.active /\ sessions[t].long = SessionDurationFor(u.role)
            \/ sessions[t].raced

\* A slot of the bcrypt semaphore is taken exactly by each call that is
\* hashing: no path through login, registration or password change keeps one.
SlotsMatchHashing ==
    slots = Cardinality({c \in Calls : call[c].pc \in {"compare", "hash"}})
=============================================================================
