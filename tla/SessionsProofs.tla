--------------------------- MODULE SessionsProofs ---------------------------
(***************************************************************************)
(* Proofs about Sessions, for any numbers of users, sessions and           *)
(* concurrent requests: its type invariant, that a system with an active   *)
(* admin keeps one, that no path keeps a bcrypt slot, and that a session   *)
(* outlives a change of its user only if its login raced with the change.  *)
(***************************************************************************)
EXTENDS Sessions, FiniteSetTheorems, TLAPS

CallsTyped ==
    /\ call \in [Calls -> Call]
    /\ \A c \in Calls : call[c].pc # "idle" => call[c].user \in Users

SessionsTyped ==
    /\ DOMAIN sessions \subseteq Tokens
    /\ \A t \in DOMAIN sessions : sessions[t] \in Session

\* Idle is a call.
LEMMA IdleTyped == Idle \in Call /\ Idle.pc = "idle"
  BY DEF Idle, Call, Unknown, User, Roles

\* Changing one call to another well-typed one keeps the calls well typed.
LEMMA DoTyped ==
    ASSUME TypeOK, NEW c \in Calls, NEW next \in Call,
           next.pc # "idle" => next.user \in Users, Do(c, next)
    PROVE  CallsTyped'
  BY DEF TypeOK, CallsTyped, Do

\* A call that ends leaves the calls typed.
LEMMA EndTyped ==
    ASSUME TypeOK, NEW c \in Calls, End(c)
    PROVE  CallsTyped'
  BY IdleTyped, DoTyped DEF End

\* A call that moves on leaves the calls typed.
LEMMA GotoTyped ==
    ASSUME TypeOK, NEW c \in Calls, NEW pc, call[c].pc # "idle",
           pc \in {"insert", "register", "update", "revoke", "lock", "guard"},
           Goto(c, pc)
    PROVE  CallsTyped'
  <1>1. [call[c] EXCEPT !.pc = pc] \in Call
    BY DEF TypeOK, Call
  <1>2. [call[c] EXCEPT !.pc = pc].user \in Users
    BY DEF TypeOK, Call
  <1> QED  BY <1>1, <1>2, DoTyped DEF Goto

\* A commit that marks overtaken logins ends its own call.
LEMMA OvertakeTyped ==
    ASSUME TypeOK, NEW c \in Calls, NEW u, Overtake(c, Idle, u)
    PROVE  CallsTyped'
  <1>1. ASSUME NEW d \in Calls
        PROVE  /\ call'[d] \in Call
               /\ call'[d].pc # "idle" => call'[d].user \in Users
    <2>1. CASE call'[d] = Idle  BY <2>1, IdleTyped
    <2>2. CASE call'[d] = call[d]  BY <2>2 DEF TypeOK
    <2>3. CASE call'[d] = [call[d] EXCEPT !.raced = TRUE]
      <3>1. call[d] \in Call /\ (call[d].pc # "idle" => call[d].user \in Users)
        BY DEF TypeOK
      <3>2. call'[d] \in Call  BY <2>3, <3>1 DEF Call
      <3>3. call'[d].pc = call[d].pc /\ call'[d].user = call[d].user
        BY <2>3, <3>1 DEF Call
      <3> QED  BY <3>1, <3>2, <3>3
    <2> QED  BY <2>1, <2>2, <2>3 DEF Overtake
  <1> QED  BY <1>1 DEF Overtake, CallsTyped

\* Deleting sessions keeps the rest well typed.
LEMMA WithoutTyped ==
    ASSUME TypeOK, NEW tokens, sessions' = Without(tokens)
    PROVE  SessionsTyped'
  BY DEF TypeOK, SessionsTyped, Without

\* Taking and returning a bcrypt slot stays within the pool.
LEMMA SlotsTyped ==
    ASSUME TypeOK, TryAcquireBcrypt \/ ReleaseBcrypt \/ UNCHANGED slots
    PROVE  slots' \in 0..BcryptConcurrency
  BY BoundsAssumption DEF TypeOK, TryAcquireBcrypt, ReleaseBcrypt

\* A call that begins stays within the bound on calls.
LEMMA BeginTyped ==
    ASSUME TypeOK, NEW c \in Calls, Begin(c)
    PROVE  begun' \in 0..MaxCalls
  BY BoundsAssumption DEF TypeOK, Begin

\* A row of the users table is well typed.
LEMMA UserRowTyped == ASSUME TypeOK, NEW u \in Users PROVE users[u] \in User
  BY DEF TypeOK

\* The initial tables are well typed.
LEMMA InitTyped == Init => TypeOK
  <1> SUFFICES ASSUME Init PROVE TypeOK  OBVIOUS
  <1>1. users \in [Users -> User]
    <2> DEFINE Rows == {Unknown} \cup [known : {TRUE}, role : Roles,
                                      active : BOOLEAN, pw : {0}]
    <2>1. ASSUME NEW r \in Rows PROVE r \in User
      <3>1. CASE r = Unknown  BY <3>1 DEF User, Unknown, Roles
      <3>2. CASE r \in [known : {TRUE}, role : Roles, active : BOOLEAN, pw : {0}]
        <4>1. r = [known |-> r.known, role |-> r.role, active |-> r.active,
                   pw |-> r.pw]
          BY <3>2
        <4>2. r.known \in {TRUE} /\ r.role \in Roles /\ r.active \in BOOLEAN
              /\ r.pw \in {0}
          BY <3>2
        <4>3. r.known \in BOOLEAN  BY <4>2, Zenon
        <4>4. r.pw \in Nat  BY <4>2
        <4> QED  BY <4>1, <4>2, <4>3, <4>4 DEF User
      <3> QED  BY <3>1, <3>2
    <2>2. users \in [Users -> Rows]  BY DEF Init
    <2> QED  BY <2>1, <2>2
  <1>2. SessionsTyped
    <2> DEFINE Fresh == {s \in [user : Users, long : BOOLEAN, pw : {0},
                               raced : {FALSE}] :
                           /\ users[s.user].active
                           /\ s.long = SessionDurationFor(users[s.user].role)}
    <2>1. ASSUME NEW s \in Fresh PROVE s \in Session
      <3>1. s \in [user : Users, long : BOOLEAN, pw : {0}, raced : {FALSE}]
        OBVIOUS
      <3>2. s = [user |-> s.user, long |-> s.long, pw |-> s.pw, raced |-> s.raced]
        BY <3>1
      <3>3. s.user \in Users /\ s.long \in BOOLEAN /\ s.pw \in {0}
            /\ s.raced \in {FALSE}
        BY <3>1
      <3>4. s.raced \in BOOLEAN  BY <3>3, Zenon
      <3>5. s.pw \in Nat  BY <3>3
      <3> QED  BY <3>2, <3>3, <3>4, <3>5 DEF Session
    <2>2. PICK known \in SUBSET Tokens : sessions \in [known -> Fresh]
      BY DEF Init
    <2> QED  BY <2>1, <2>2 DEF SessionsTyped
  <1>3. CallsTyped
    BY IdleTyped DEF Init, CallsTyped
  <1>4. slots \in 0..BcryptConcurrency /\ begun \in 0..MaxCalls
    BY BoundsAssumption DEF Init
  <1> QED  BY <1>1, <1>2, <1>3, <1>4 DEF TypeOK, SessionsTyped, CallsTyped

----------------------------------------------------------------------------
(***************************************************************************)
(* Type correctness, one lemma per group of actions                        *)
(***************************************************************************)

\* The parts of TypeOK' put together.
LEMMA TypeParts ==
    ASSUME users' \in [Users -> User], SessionsTyped', CallsTyped',
           slots' \in 0..BcryptConcurrency, begun' \in 0..MaxCalls
    PROVE  TypeOK'
  BY DEF TypeOK, SessionsTyped, CallsTyped

\* The arrival of a call keeps the types.
LEMMA ArriveTyped ==
    ASSUME TypeOK, NEW c \in Calls, Arrive(c)
    PROVE  TypeOK'
  <1> USE BeginTyped
  <1>u. users \in [Users -> User] /\ SessionsTyped /\ CallsTyped
        /\ slots \in 0..BcryptConcurrency
    BY DEF TypeOK, SessionsTyped, CallsTyped
  <1>1. ASSUME NEW u \in Users, login(c, u) PROVE TypeOK'
    <2>1. CallsTyped'
      <3>1. CASE UNCHANGED call  BY <3>1, <1>u DEF CallsTyped
      <3>2. CASE Do(c, [Idle EXCEPT !.pc = "compare", !.op = "login",
                                    !.user = u, !.row = users[u]])
        <4>1. [Idle EXCEPT !.pc = "compare", !.op = "login",
                           !.user = u, !.row = users[u]] \in Call
          BY IdleTyped, UserRowTyped DEF Call
        <4> QED  BY <3>2, <4>1, DoTyped DEF Idle
      <3> QED  BY <1>1, <3>1, <3>2 DEF login
    <2>2. slots' \in 0..BcryptConcurrency  BY <1>1, SlotsTyped DEF login
    <2>3. begun' \in 0..MaxCalls  BY <1>1 DEF login
    <2>4. UNCHANGED <<users, sessions>>  BY <1>1 DEF login
    <2> QED  BY <2>1, <2>2, <2>3, <2>4, <1>u, TypeParts DEF SessionsTyped
  <1>2. ASSUME NEW u \in Users, register(c, u) PROVE TypeOK'
    <2>1. CallsTyped'
      <3>1. CASE UNCHANGED call  BY <3>1, <1>u DEF CallsTyped
      <3>2. CASE Do(c, [Idle EXCEPT !.pc = "hash", !.op = "register", !.user = u])
        <4>1. [Idle EXCEPT !.pc = "hash", !.op = "register", !.user = u] \in Call
          BY IdleTyped DEF Call
        <4> QED  BY <3>2, <4>1, DoTyped DEF Idle
      <3> QED  BY <1>2, <3>1, <3>2 DEF register
    <2>2. slots' \in 0..BcryptConcurrency  BY <1>2, SlotsTyped DEF register
    <2>3. begun' \in 0..MaxCalls  BY <1>2 DEF register
    <2>4. UNCHANGED <<users, sessions>>  BY <1>2 DEF register
    <2> QED  BY <2>1, <2>2, <2>3, <2>4, <1>u, TypeParts DEF SessionsTyped
  <1>3. ASSUME NEW u \in Users, CreateAdminBootstrap(c, u) PROVE TypeOK'
    <2>1. users' \in [Users -> User]
      BY <1>3, <1>u DEF CreateAdminBootstrap, User, Roles
    <2>2. begun' \in 0..MaxCalls  BY <1>3 DEF CreateAdminBootstrap
    <2>3. UNCHANGED <<sessions, call, slots>>  BY <1>3 DEF CreateAdminBootstrap
    <2> QED  BY <2>1, <2>2, <2>3, <1>u, TypeParts DEF SessionsTyped, CallsTyped
  <1>4. ASSUME NEW t \in DOMAIN sessions, GetSessionByTokenHash(c, t) PROVE TypeOK'
    <2>1. sessions[t] \in Session /\ t \in Tokens  BY <1>u DEF SessionsTyped
    <2>2. sessions[t].user \in Users  BY <2>1 DEF Session
    <2>3. PICK op \in UserOps \cup AdminOps, u \in Users :
            Do(c, [Idle EXCEPT !.pc = "user", !.op = op, !.token = t,
                               !.user = u, !.by = sessions[t].user])
      BY <1>4 DEF GetSessionByTokenHash
    <2>4. [Idle EXCEPT !.pc = "user", !.op = op, !.token = t,
                       !.user = u, !.by = sessions[t].user] \in Call
      BY <2>1, <2>2, IdleTyped DEF Call
    <2>5. CallsTyped'  BY <2>3, <2>4, DoTyped DEF Idle
    <2>6. begun' \in 0..MaxCalls  BY <1>4 DEF GetSessionByTokenHash
    <2>7. UNCHANGED <<users, sessions, slots>>  BY <1>4 DEF GetSessionByTokenHash
    <2> QED  BY <2>5, <2>6, <2>7, <1>u, TypeParts DEF SessionsTyped
  <1>5. ASSUME NEW t \in DOMAIN sessions, DeleteExpiredSession(c, t) PROVE TypeOK'
    <2>1. SessionsTyped'  BY <1>5, WithoutTyped DEF DeleteExpiredSession
    <2>2. begun' \in 0..MaxCalls  BY <1>5 DEF DeleteExpiredSession
    <2>3. UNCHANGED <<users, call, slots>>  BY <1>5 DEF DeleteExpiredSession
    <2> QED  BY <2>1, <2>2, <2>3, <1>u, TypeParts DEF CallsTyped
  <1>6. ASSUME NEW op \in AdminOps, NEW u \in Users, adminKey(c, op, u) PROVE TypeOK'
    <2>1. [Idle EXCEPT !.pc = "lock", !.op = op, !.user = u] \in Call
      BY IdleTyped DEF Call
    <2>2. CallsTyped'  BY <1>6, <2>1, DoTyped DEF adminKey, Idle
    <2>3. begun' \in 0..MaxCalls  BY <1>6 DEF adminKey
    <2>4. UNCHANGED <<users, sessions, slots>>  BY <1>6 DEF adminKey
    <2> QED  BY <2>2, <2>3, <2>4, <1>u, TypeParts DEF SessionsTyped
  <1> QED  BY <1>1, <1>2, <1>3, <1>4, <1>5, <1>6 DEF Arrive

\* Every step of a call keeps the types.
LEMMA StepTyped ==
    ASSUME TypeOK, NEW c \in Calls, Step(c)
    PROVE  TypeOK'
  <1>u. users \in [Users -> User] /\ SessionsTyped /\ CallsTyped
        /\ slots \in 0..BcryptConcurrency /\ begun \in 0..MaxCalls
    BY DEF TypeOK, SessionsTyped, CallsTyped
  <1>c. call[c] \in Call /\ (call[c].pc # "idle" => call[c].user \in Users)
    BY <1>u DEF CallsTyped
  <1>r. call[c].row \in User /\ call[c].user \in Users \cup {NoUser}
    BY <1>c DEF Call
  <1>1. ASSUME comparePassword(c) PROVE TypeOK'
    <2>1. CallsTyped'
      BY <1>1, EndTyped, GotoTyped DEF comparePassword
    <2>2. slots' \in 0..BcryptConcurrency  BY <1>1, SlotsTyped DEF comparePassword
    <2>3. UNCHANGED <<users, sessions, begun>>  BY <1>1 DEF comparePassword
    <2> QED  BY <2>1, <2>2, <2>3, <1>u, TypeParts DEF SessionsTyped
  <1>2. ASSUME NEW t \in Tokens, CreateSession(c, t) PROVE TypeOK'
    <2> DEFINE new == [user |-> call[c].user,
                       long |-> SessionDurationFor(call[c].row.role),
                       pw |-> call[c].row.pw,
                       raced |-> call[c].raced \/ Revoking(call[c].user)]
    <2>1. call[c].user \in Users  BY <1>2, <1>c DEF CreateSession
    <2>2. call[c].row.pw \in Nat  BY <1>r DEF User
    <2>3. SessionDurationFor(call[c].row.role) \in BOOLEAN
          /\ (call[c].raced \/ Revoking(call[c].user)) \in BOOLEAN
      BY Zenon DEF SessionDurationFor
    <2>4. new \in Session  BY <2>1, <2>2, <2>3 DEF Session
    <2>5. sessions' = [s \in DOMAIN sessions \cup {t} |->
                         IF s = t THEN new ELSE sessions[s]]
      BY <1>2 DEF CreateSession
    <2>6. SessionsTyped'
      <3> HIDE DEF new
      <3> QED  BY <2>4, <2>5, <1>u DEF SessionsTyped
    <2>7. CallsTyped'  BY <1>2, EndTyped DEF CreateSession
    <2>8. UNCHANGED <<users, slots, begun>>  BY <1>2 DEF CreateSession
    <2> QED  BY <2>6, <2>7, <2>8, <1>u, TypeParts
  <1>3. ASSUME RegisterUser(c) PROVE TypeOK'
    <2>1. users' \in [Users -> User]
      <3>1. [Unknown EXCEPT !.known = TRUE, !.active = TRUE] \in User
        BY DEF User, Unknown, Roles
      <3> QED  BY <3>1, <1>3, <1>u DEF RegisterUser
    <2>2. CallsTyped'  BY <1>3, EndTyped DEF RegisterUser
    <2>3. UNCHANGED <<sessions, slots, begun>>  BY <1>3 DEF RegisterUser
    <2> QED  BY <2>1, <2>2, <2>3, <1>u, TypeParts DEF SessionsTyped
  <1>4. ASSUME SessionMiddleware(c) PROVE TypeOK'
    <2> DEFINE pass == [call[c] EXCEPT !.row = users[call[c].user]]
    <2>1. call[c].user \in Users  BY <1>4, <1>c DEF SessionMiddleware
    <2>2. users[call[c].user] \in User  BY <2>1, UserRowTyped
    <2>3. [pass EXCEPT !.pc = "drop"] \in Call
          /\ [pass EXCEPT !.pc = "drop"].user = call[c].user
      BY <2>2, <1>c DEF Call
    <2>4. [pass EXCEPT !.pc = "hash"] \in Call
          /\ [pass EXCEPT !.pc = "hash"].user = call[c].user
      BY <2>2, <1>c DEF Call
    <2>5. \/ End(c)
          \/ Do(c, [pass EXCEPT !.pc = "drop"])
          \/ Do(c, [pass EXCEPT !.pc = "hash"])
      BY <1>4 DEF SessionMiddleware
    <2>6. CallsTyped'
      <3> HIDE DEF pass
      <3> QED  BY <2>1, <2>3, <2>4, <2>5, EndTyped, DoTyped
    <2>7. slots' \in 0..BcryptConcurrency
      BY <1>4, SlotsTyped DEF SessionMiddleware
    <2>8. UNCHANGED <<users, sessions, begun>>  BY <1>4 DEF SessionMiddleware
    <2> QED  BY <2>6, <2>7, <2>8, <1>u, TypeParts DEF SessionsTyped
  <1>5. ASSUME logout(c) PROVE TypeOK'
    <2>1. SessionsTyped'  BY <1>5, WithoutTyped DEF logout
    <2>2. CallsTyped'  BY <1>5, EndTyped DEF logout
    <2>3. UNCHANGED <<users, slots, begun>>  BY <1>5 DEF logout
    <2> QED  BY <2>1, <2>2, <2>3, <1>u, TypeParts
  <1>6. ASSUME GenerateFromPassword(c) PROVE TypeOK'
    <2>1. CallsTyped'
      BY <1>6, EndTyped, GotoTyped DEF GenerateFromPassword
    <2>2. slots' \in 0..BcryptConcurrency
      BY <1>6, SlotsTyped DEF GenerateFromPassword
    <2>3. UNCHANGED <<users, sessions, begun>>  BY <1>6 DEF GenerateFromPassword
    <2> QED  BY <2>1, <2>2, <2>3, <1>u, TypeParts DEF SessionsTyped
  <1>7. ASSUME UpdatePassword(c) \/ authMiddleware(c) \/ AdvisoryLock(c) \/ Rollback(c)
        PROVE TypeOK'
    <2>1. CallsTyped'
      BY <1>7, EndTyped, GotoTyped
      DEF UpdatePassword, authMiddleware, AdvisoryLock, Rollback
    <2>2. UNCHANGED <<users, sessions, slots, begun>>
      BY <1>7 DEF UpdatePassword, authMiddleware, AdvisoryLock, Rollback
    <2> QED  BY <2>1, <2>2, <1>u, TypeParts DEF SessionsTyped
  <1>8. ASSUME RevokeSessions(c) \/ PurgeSessions(c) PROVE TypeOK'
    <2>1. PICK doomed \in SUBSET Tokens :
            Do(c, [call[c] EXCEPT !.pc = "commit", !.doomed = doomed])
      <3>1. ASSUME NEW u PROVE SessionsOf(u) \subseteq Tokens
        BY <1>u DEF SessionsOf, SessionsTyped
      <3> QED  BY <1>8, <3>1 DEF RevokeSessions, PurgeSessions
    <2>2. [call[c] EXCEPT !.pc = "commit", !.doomed = doomed] \in Call
          /\ [call[c] EXCEPT !.pc = "commit", !.doomed = doomed].user = call[c].user
      BY <1>c DEF Call
    <2>3. call[c].user \in Users  BY <1>8, <1>c DEF RevokeSessions, PurgeSessions
    <2>4. CallsTyped'  BY <2>1, <2>2, <2>3, DoTyped
    <2>5. UNCHANGED <<users, sessions, slots, begun>>
      BY <1>8 DEF RevokeSessions, PurgeSessions
    <2> QED  BY <2>4, <2>5, <1>u, TypeParts DEF SessionsTyped
  <1>9. ASSUME UpdateUserPasswordAndRevokeSessions(c) PROVE TypeOK'
    <2>1. call[c].user \in Users
      BY <1>9, <1>c DEF UpdateUserPasswordAndRevokeSessions
    <2>2. users[call[c].user] \in User  BY <2>1, UserRowTyped
    <2>3. [users[call[c].user] EXCEPT !.pw = @ + 1] \in User
      BY <2>2 DEF User
    <2>4. users' = [users EXCEPT ![call[c].user] =
                      [users[call[c].user] EXCEPT !.pw = @ + 1]]
      BY <1>9, <2>1, <2>2, <1>u DEF UpdateUserPasswordAndRevokeSessions, User
    <2>5. users' \in [Users -> User]  BY <2>3, <2>4, <1>u
    <2>6. users'[call[c].user].pw \in Nat  BY <2>5, <2>1 DEF User
    <2>7. SessionsTyped'
      <3>1. ASSUME NEW t \in DOMAIN sessions
            PROVE  [sessions[t] EXCEPT !.pw = users'[call[c].user].pw] \in Session
        BY <2>6, <1>u DEF SessionsTyped, Session
      <3> QED
        BY <1>9, <3>1, <1>u DEF UpdateUserPasswordAndRevokeSessions, SessionsTyped
    <2>8. CallsTyped'
      BY <1>9, OvertakeTyped DEF UpdateUserPasswordAndRevokeSessions
    <2>9. UNCHANGED <<slots, begun>>
      BY <1>9 DEF UpdateUserPasswordAndRevokeSessions
    <2> QED  BY <2>5, <2>7, <2>8, <2>9, <1>u, TypeParts
  <1>10. ASSUME SetUserActive(c) PROVE TypeOK'
    <2>1. call[c].user \in Users  BY <1>10, <1>c DEF SetUserActive
    <2>2. users' \in [Users -> User]
      BY <1>10, <2>1, <1>u DEF SetUserActive, User
    <2>3. CallsTyped'  BY <1>10, EndTyped DEF SetUserActive
    <2>4. UNCHANGED <<sessions, slots, begun>>  BY <1>10 DEF SetUserActive
    <2> QED  BY <2>2, <2>3, <2>4, <1>u, TypeParts DEF SessionsTyped
  <1>11. ASSUME DeactivateGuard(c) \/ RoleGuard(c) PROVE TypeOK'
    <2>1. call[c].user \in Users  BY <1>11, <1>c DEF DeactivateGuard, RoleGuard
    <2>2. users[call[c].user] \in User  BY <2>1, UserRowTyped
    <2>3. [call[c] EXCEPT !.pc = "purge", !.row = users[call[c].user]] \in Call
          /\ [call[c] EXCEPT !.pc = "purge",
                             !.row = users[call[c].user]].user = call[c].user
      BY <2>2, <1>c DEF Call
    <2>4. \/ End(c)
          \/ Do(c, [call[c] EXCEPT !.pc = "purge", !.row = users[call[c].user]])
      BY <1>11 DEF DeactivateGuard, RoleGuard
    <2>5. CallsTyped'  BY <2>1, <2>3, <2>4, EndTyped, DoTyped
    <2>6. UNCHANGED <<users, sessions, slots, begun>>
      BY <1>11 DEF DeactivateGuard, RoleGuard
    <2> QED  BY <2>5, <2>6, <1>u, TypeParts DEF SessionsTyped
  <1>12. ASSUME DeactivateUserGuarded(c) \/ UpdateUserRoleGuarded(c) PROVE TypeOK'
    <2>1. call[c].user \in Users
      BY <1>12, <1>c DEF DeactivateUserGuarded, UpdateUserRoleGuarded
    <2>2. users' \in [Users -> User]
      <3>1. CASE DeactivateUserGuarded(c)
        BY <3>1, <2>1, <1>u DEF DeactivateUserGuarded, User
      <3>2. CASE UpdateUserRoleGuarded(c)
        BY <3>2, <2>1, <1>u DEF UpdateUserRoleGuarded, NewRole, User, Roles
      <3> QED  BY <1>12, <3>1, <3>2
    <2>3. SessionsTyped'
      BY <1>12, WithoutTyped DEF DeactivateUserGuarded, UpdateUserRoleGuarded
    <2>4. CallsTyped'
      BY <1>12, OvertakeTyped DEF DeactivateUserGuarded, UpdateUserRoleGuarded
    <2>5. UNCHANGED <<slots, begun>>
      BY <1>12 DEF DeactivateUserGuarded, UpdateUserRoleGuarded
    <2> QED  BY <2>2, <2>3, <2>4, <2>5, <1>u, TypeParts
  <1> QED
    BY <1>1, <1>2, <1>3, <1>4, <1>5, <1>6, <1>7, <1>8, <1>9, <1>10, <1>11, <1>12
    DEF Step

\* Users, sessions, calls and the bcrypt semaphore keep their types: slots never
\* exceed AUTH_BCRYPT_CONCURRENCY, whatever login, register and changePassword
\* do at once.
THEOREM SessionsTypeCorrect == Spec => []TypeOK
  <1>1. Init => TypeOK  BY InitTyped
  <1>2. TypeOK /\ [Next]_vars => TypeOK'
    <2>1. ASSUME TypeOK, Next PROVE TypeOK'
      BY <2>1, ArriveTyped, StepTyped DEF Next
    <2>2. ASSUME TypeOK, UNCHANGED vars PROVE TypeOK'
      BY <2>2 DEF vars, TypeOK
    <2> QED  BY <2>1, <2>2
  <1> QED  BY <1>1, <1>2, PTL DEF Spec

----------------------------------------------------------------------------
(***************************************************************************)
(* One active admin remains.                                               *)
(*                                                                         *)
(* ActiveAdminRemains is no state predicate and does not follow from one   *)
(* step's guard: the guard counts admins two steps before the commit.  The *)
(* invariant carries the count's outcome to the commit: while a guarded    *)
(* call is past its guard no other is (the advisory lock), its row is      *)
(* known (so a bootstrap cannot remake it), and if it is about to take an  *)
(* active admin away another one exists.                                   *)
(***************************************************************************)

\* Past the guard of a guarded transaction.
Cleared(c) == call[c].pc \in {"purge", "commit"} /\ call[c].op \in AdminOps

OneMutation == \A c, d \in Calls : c \in AdminMutations /\ d \in AdminMutations => c = d

KnownUsers ==
    /\ \A u \in Users : users[u].active => users[u].known
    /\ \A c \in Calls : Cleared(c) => users[call[c].user].known

AnotherAdmin ==
    \A c \in Calls :
        Cleared(c) /\ call[c].op # "promote" /\ call[c].user \in ActiveAdmins
        => \E v \in ActiveAdmins : v # call[c].user

AdminInv == OneMutation /\ KnownUsers /\ AnotherAdmin

\* Only an admin mutation passes the last-admin guard.
LEMMA ClearedIsMutation ==
    ASSUME NEW c \in Calls, Cleared(c) PROVE c \in AdminMutations
  BY DEF Cleared, AdminMutations

\* A step that leaves the users alone and takes its call outside the guarded
\* transactions keeps the invariant.
LEMMA QuietStep ==
    ASSUME AdminInv, CallsTyped, NEW c \in Calls, NEW next, users' = users,
           Do(c, next),
           next.pc \notin {"guard", "purge", "commit"} \/ next.op \notin AdminOps
    PROVE  AdminInv'
  <1>1. ActiveAdmins' = ActiveAdmins  BY DEF ActiveAdmins
  <1>2. \A d \in Calls : d \in AdminMutations' => d # c /\ call'[d] = call[d]
    BY DEF AdminMutations, Do, CallsTyped
  <1>3. \A d \in Calls : d \in AdminMutations' => d \in AdminMutations
    BY <1>2 DEF AdminMutations
  <1>4. \A d \in Calls : Cleared(d)' => Cleared(d) /\ call'[d] = call[d]
    BY DEF Cleared, Do, CallsTyped
  <1>5. OneMutation'  BY <1>3 DEF AdminInv, OneMutation
  <1>6. KnownUsers'  BY <1>4 DEF AdminInv, KnownUsers
  <1>7. AnotherAdmin'  BY <1>1, <1>4 DEF AdminInv, AnotherAdmin
  <1> QED  BY <1>5, <1>6, <1>7 DEF AdminInv

\* A call that ends without touching users keeps the admins.
LEMMA QuietEnd ==
    ASSUME AdminInv, CallsTyped, NEW c \in Calls, users' = users, End(c)
    PROVE  AdminInv'
  BY QuietStep DEF End, Idle

\* So does one that adds known users or active admins, none of them a row that
\* a guarded transaction has locked, and takes no call past a guard.
LEMMA GrowingStep ==
    ASSUME AdminInv, CallsTyped, NEW c \in Calls,
           call' = call \/ End(c),
           ActiveAdmins \subseteq ActiveAdmins',
           \A u \in Users : users'[u].active => users'[u].known,
           \A u \in Users : users[u].known => users'[u].known,
           \A d \in Calls : Cleared(d) /\ call[d].user \in ActiveAdmins'
                           => call[d].user \in ActiveAdmins,
           \A d \in Calls : Cleared(d) => call[d].user \in Users
    PROVE  AdminInv'
  <1>1. \A d \in Calls : d \in AdminMutations' => d \in AdminMutations
    BY DEF AdminMutations, End, Do, Idle, CallsTyped
  <1>2. \A d \in Calls : Cleared(d)' => Cleared(d) /\ call'[d] = call[d]
    BY DEF Cleared, End, Do, Idle, CallsTyped
  <1>3. OneMutation'  BY <1>1 DEF AdminInv, OneMutation
  <1>4. KnownUsers'  BY <1>2 DEF AdminInv, KnownUsers
  <1>5. AnotherAdmin'
    <2> SUFFICES ASSUME NEW d \in Calls, Cleared(d)', call'[d].op # "promote",
                        call'[d].user \in ActiveAdmins'
                 PROVE  \E v \in ActiveAdmins' : v # call'[d].user
      BY DEF AnotherAdmin
    <2>1. Cleared(d) /\ call'[d] = call[d]  BY <1>2
    <2>2. PICK v \in ActiveAdmins : v # call[d].user
      BY <2>1 DEF AdminInv, AnotherAdmin
    <2> QED  BY <2>1, <2>2
  <1> QED  BY <1>3, <1>4, <1>5 DEF AdminInv

\* An active admin that is not the only one leaves another.
LEMMA CountOthers ==
    ASSUME NEW S, NEW u \in S, ~(Cardinality(S) <= 1)
    PROVE  \E v \in S : v # u
  <1> SUFFICES ASSUME ~\E v \in S : v # u PROVE FALSE  OBVIOUS
  <1>1. S = {u}  OBVIOUS
  <1>2. Cardinality(S) = 1  BY <1>1, FS_Singleton
  <1> QED  BY <1>2

\* Nothing of the invariant changes when users and calls do not.
LEMMA IdleStep ==
    ASSUME AdminInv, users' = users, call' = call
    PROVE  AdminInv' /\ ActiveAdmins' = ActiveAdmins
  BY DEF AdminInv, OneMutation, KnownUsers, AnotherAdmin, Cleared, AdminMutations,
         ActiveAdmins

\* A guarded call's row is locked.
LEMMA ClearedRowLocked ==
    ASSUME NEW d \in Calls, Cleared(d) PROVE ~RowFree(call[d].user)
  <1>1. call[d].pc # "guard"  BY DEF Cleared
  <1>2. LockedForUpdate(call[d].user)
    BY <1>1, ClearedIsMutation DEF LockedForUpdate
  <1> QED  BY <1>2 DEF RowFree

\* No admin mutation is under way at the start.
LEMMA InitAdmin == Init => AdminInv
  <1> SUFFICES ASSUME Init PROVE AdminInv  OBVIOUS
  <1>1. \A c \in Calls : call[c].pc = "idle"  BY DEF Init, Idle
  <1>2. OneMutation  BY <1>1 DEF OneMutation, AdminMutations
  <1>3. KnownUsers
    <2>1. ASSUME NEW u \in Users, users[u].active PROVE users[u].known
      <3>1. \/ users[u] = Unknown
            \/ users[u] \in [known : {TRUE}, role : Roles, active : BOOLEAN, pw : {0}]
        BY DEF Init
      <3>2. CASE users[u] = Unknown  BY <2>1, <3>2 DEF Unknown
      <3>3. CASE users[u] \in [known : {TRUE}, role : Roles, active : BOOLEAN,
                               pw : {0}]
        <4>1. users[u].known \in {TRUE}  BY <3>3
        <4> QED  BY <4>1
      <3> QED  BY <3>1, <3>2, <3>3
    <2> QED  BY <2>1, <1>1 DEF KnownUsers, Cleared
  <1>4. AnotherAdmin  BY <1>1 DEF AnotherAdmin, Cleared
  <1> QED  BY <1>2, <1>3, <1>4 DEF AdminInv

\* A request that arrives keeps the invariant and every active admin.
LEMMA ArriveAdmin ==
    ASSUME TypeOK, AdminInv, NEW c \in Calls, Arrive(c)
    PROVE  AdminInv' /\ ActiveAdmins \subseteq ActiveAdmins'
  <1>t. CallsTyped  BY DEF TypeOK, CallsTyped
  <1>s. users' = users => ActiveAdmins' = ActiveAdmins  BY DEF ActiveAdmins
  <1>1. ASSUME NEW u \in Users, login(c, u)
        PROVE  AdminInv' /\ ActiveAdmins \subseteq ActiveAdmins'
    <2>1. CASE UNCHANGED call  BY <1>1, <2>1, IdleStep DEF login
    <2>2. CASE Do(c, [Idle EXCEPT !.pc = "compare", !.op = "login",
                                  !.user = u, !.row = users[u]])
      BY <1>1, <2>2, <1>t, <1>s, QuietStep DEF login, Idle
    <2> QED  BY <1>1, <2>1, <2>2 DEF login
  <1>2. ASSUME NEW u \in Users, register(c, u)
        PROVE  AdminInv' /\ ActiveAdmins \subseteq ActiveAdmins'
    <2>1. CASE UNCHANGED call  BY <1>2, <2>1, IdleStep DEF register
    <2>2. CASE Do(c, [Idle EXCEPT !.pc = "hash", !.op = "register", !.user = u])
      BY <1>2, <2>2, <1>t, <1>s, QuietStep DEF register, Idle
    <2> QED  BY <1>2, <2>1, <2>2 DEF register
  <1>3. ASSUME NEW u \in Users, CreateAdminBootstrap(c, u)
        PROVE  AdminInv' /\ ActiveAdmins \subseteq ActiveAdmins'
    <2>1. CASE users[u].known
      BY <1>3, <2>1, IdleStep DEF CreateAdminBootstrap
    <2>2. CASE ~users[u].known
      <3>1. users' = [users EXCEPT ![u] = [known |-> TRUE, role |-> "admin",
                                           active |-> TRUE, pw |-> 0]]
            /\ call' = call
        BY <1>3, <2>2 DEF CreateAdminBootstrap
      <3>2. ActiveAdmins' = ActiveAdmins \cup {u}
        BY <3>1 DEF ActiveAdmins, TypeOK
      <3>3. \A v \in Users : users'[v].active => users'[v].known
        BY <3>1 DEF AdminInv, KnownUsers, TypeOK
      <3>4. \A v \in Users : users[v].known => users'[v].known
        BY <3>1, <2>2 DEF TypeOK
      <3>5. \A d \in Calls : Cleared(d) => call[d].user # u /\ call[d].user \in Users
        BY <2>2 DEF AdminInv, KnownUsers, TypeOK, Cleared
      <3> QED  BY <3>1, <3>2, <3>3, <3>4, <3>5, <1>t, GrowingStep
    <2> QED  BY <2>1, <2>2
  <1>4. ASSUME NEW t \in DOMAIN sessions, GetSessionByTokenHash(c, t)
        PROVE  AdminInv' /\ ActiveAdmins \subseteq ActiveAdmins'
    <2>1. PICK op \in UserOps \cup AdminOps, u \in Users :
            Do(c, [Idle EXCEPT !.pc = "user", !.op = op, !.token = t,
                               !.user = u, !.by = sessions[t].user])
      BY <1>4 DEF GetSessionByTokenHash
    <2>2. [Idle EXCEPT !.pc = "user", !.op = op, !.token = t, !.user = u,
                       !.by = sessions[t].user].pc = "user"
      BY DEF Idle
    <2> QED  BY <1>4, <2>1, <2>2, <1>t, <1>s, QuietStep DEF GetSessionByTokenHash
  <1>5. ASSUME NEW t \in DOMAIN sessions, DeleteExpiredSession(c, t)
        PROVE  AdminInv' /\ ActiveAdmins \subseteq ActiveAdmins'
    BY <1>5, IdleStep DEF DeleteExpiredSession
  <1>6. ASSUME NEW op \in AdminOps, NEW u \in Users, adminKey(c, op, u)
        PROVE  AdminInv' /\ ActiveAdmins \subseteq ActiveAdmins'
    <2>1. [Idle EXCEPT !.pc = "lock", !.op = op, !.user = u].pc = "lock"
      BY DEF Idle
    <2> QED  BY <1>6, <2>1, <1>t, <1>s, QuietStep DEF adminKey
  <1> QED  BY <1>1, <1>2, <1>3, <1>4, <1>5, <1>6 DEF Arrive

\* So does a step of a call, except for the two commits, which keep one.
LEMMA StepAdmin ==
    ASSUME TypeOK, AdminInv, NEW c \in Calls, Step(c)
    PROVE  AdminInv' /\ (ActiveAdmins # {} => ActiveAdmins' # {})
  <1>t. CallsTyped  BY DEF TypeOK, CallsTyped
  <1>c. call[c] \in Call  BY DEF TypeOK
  <1>s. users' = users => ActiveAdmins' = ActiveAdmins  BY DEF ActiveAdmins
  <1>g. ASSUME NEW pc, Goto(c, pc), users' = users, call[c].op \notin AdminOps
               \/ pc \notin {"guard", "purge", "commit"}
        PROVE  AdminInv'
    <2>1. [call[c] EXCEPT !.pc = pc].pc = pc
          /\ [call[c] EXCEPT !.pc = pc].op = call[c].op
      BY <1>c DEF Call
    <2> QED  BY <1>g, <2>1, <1>t, QuietStep DEF Goto
  <1>1. CASE comparePassword(c) \/ GenerateFromPassword(c) \/ authMiddleware(c)
             \/ Rollback(c) \/ UpdatePassword(c)
    BY <1>1, <1>g, <1>s, <1>t, QuietEnd
    DEF comparePassword, GenerateFromPassword, authMiddleware, Rollback,
        UpdatePassword
  <1>2. CASE logout(c) \/ \E t \in Tokens : CreateSession(c, t)
    BY <1>2, <1>s, <1>t, QuietEnd DEF logout, CreateSession
  <1>3. CASE RegisterUser(c)
    <2>1. CASE users' = users  BY <1>3, <2>1, <1>s, <1>t, QuietEnd DEF RegisterUser
    <2>2. CASE ~users[call[c].user].known
      <3> DEFINE u == call[c].user
      <3>0. u \in Users  BY <1>3 DEF TypeOK, RegisterUser
      <3>1. users'[u] = [known |-> TRUE, role |-> "user", active |-> TRUE, pw |-> 0]
            /\ \A v \in Users : v # u => users'[v] = users[v]
        BY <1>3, <2>2, <3>0 DEF RegisterUser, Unknown, TypeOK
      <3>2. ~users[u].active
        BY <2>2, <3>0 DEF AdminInv, KnownUsers
      <3>3. ActiveAdmins' = ActiveAdmins
        <4> HIDE DEF u
        <4> QED  BY <3>1, <3>2 DEF ActiveAdmins
      <3>4. \A v \in Users : users'[v].active => users'[v].known
        BY <3>1 DEF AdminInv, KnownUsers
      <3>5. \A v \in Users : users[v].known => users'[v].known
        BY <3>1
      <3>6. \A d \in Calls : Cleared(d) => call[d].user \in Users
        BY DEF TypeOK, Cleared
      <3>7. End(c)  BY <1>3 DEF RegisterUser
      <3> QED  BY <3>3, <3>4, <3>5, <3>6, <3>7, <1>t, GrowingStep
    <2> QED  BY <1>3, <2>1, <2>2 DEF RegisterUser
  <1>4. CASE SessionMiddleware(c)
    <2> DEFINE pass == [call[c] EXCEPT !.row = users[call[c].user]]
    <2>1. \/ End(c)
          \/ Do(c, [pass EXCEPT !.pc = "drop"])
          \/ Do(c, [pass EXCEPT !.pc = "hash"])
      BY <1>4 DEF SessionMiddleware
    <2>2. [pass EXCEPT !.pc = "drop"].pc = "drop" /\ [pass EXCEPT !.pc = "hash"].pc = "hash"
      BY <1>c DEF Call
    <2>3. users' = users  BY <1>4 DEF SessionMiddleware
    <2> HIDE DEF pass
    <2> QED  BY <2>1, <2>2, <2>3, <1>s, <1>t, QuietEnd, QuietStep
  <1>5. CASE RevokeSessions(c)
    <2>1. PICK doomed : Do(c, [call[c] EXCEPT !.pc = "commit", !.doomed = doomed])
      BY <1>5 DEF RevokeSessions
    <2>2. [call[c] EXCEPT !.pc = "commit", !.doomed = doomed].op \notin AdminOps
      BY <1>5, <1>c DEF RevokeSessions, Call, AdminOps
    <2> QED  BY <1>5, <2>1, <2>2, <1>s, <1>t, QuietStep DEF RevokeSessions
  <1>6. CASE UpdateUserPasswordAndRevokeSessions(c)
    <2>1. call[c].user \in Users
      BY <1>6 DEF UpdateUserPasswordAndRevokeSessions, TypeOK
    <2>2. \A v \in Users : /\ users'[v].known = users[v].known
                           /\ users'[v].active = users[v].active
                           /\ users'[v].role = users[v].role
      BY <1>6, <2>1 DEF UpdateUserPasswordAndRevokeSessions, TypeOK, User
    <2>3. ActiveAdmins' = ActiveAdmins  BY <2>2 DEF ActiveAdmins
    <2>4. \A d \in Calls : d # c => /\ call'[d].pc = call[d].pc
                                    /\ call'[d].op = call[d].op
                                    /\ call'[d].user = call[d].user
      BY <1>6 DEF UpdateUserPasswordAndRevokeSessions, Overtake, TypeOK, Call
    <2>5. call'[c].pc = "idle"
      BY <1>6 DEF UpdateUserPasswordAndRevokeSessions, Overtake, Idle
    <2>6. \A d \in Calls : d \in AdminMutations' => d \in AdminMutations
      BY <2>4, <2>5 DEF AdminMutations
    <2>7. \A d \in Calls : Cleared(d)' => Cleared(d) /\ d # c
      BY <2>4, <2>5 DEF Cleared
    <2>8. \A d \in Calls : Cleared(d) => call[d].user \in Users
      BY DEF Cleared, TypeOK
    <2>9. OneMutation'  BY <2>6 DEF AdminInv, OneMutation
    <2>10. KnownUsers'  BY <2>2, <2>4, <2>7, <2>8 DEF AdminInv, KnownUsers
    <2>11. AnotherAdmin'  BY <2>3, <2>4, <2>7 DEF AdminInv, AnotherAdmin
    <2> QED  BY <2>3, <2>9, <2>10, <2>11 DEF AdminInv
  <1>7. CASE SetUserActive(c)
    <2> DEFINE u == call[c].user
    <2>0. u \in Users /\ RowFree(u)  BY <1>7 DEF TypeOK, SetUserActive
    <2>1. /\ users'[u].active = users[u].known /\ users'[u].known = users[u].known
          /\ users'[u].role = users[u].role
          /\ \A v \in Users : v # u => users'[v] = users[v]
      BY <1>7, <2>0 DEF SetUserActive, TypeOK, User
    <2>2. \A d \in Calls : Cleared(d) => call[d].user # u /\ call[d].user \in Users
      BY <2>0, ClearedRowLocked DEF TypeOK, Cleared
    <2>3. End(c)  BY <1>7 DEF SetUserActive
    <2> HIDE DEF u
    <2>4. ActiveAdmins \subseteq ActiveAdmins'
      BY <2>0, <2>1 DEF ActiveAdmins, AdminInv, KnownUsers
    <2>5. \A v \in Users : v \in ActiveAdmins' /\ v # u => v \in ActiveAdmins
      BY <2>1 DEF ActiveAdmins
    <2>6. \A v \in Users : users'[v].active => users'[v].known
      BY <2>1 DEF AdminInv, KnownUsers
    <2>7. \A v \in Users : users[v].known => users'[v].known
      BY <2>1
    <2> QED  BY <2>2, <2>3, <2>4, <2>5, <2>6, <2>7, <1>t, GrowingStep
  <1>8. CASE AdvisoryLock(c)
    <2>0. AdminMutations = {} /\ users' = users /\ Goto(c, "guard")
      BY <1>8 DEF AdvisoryLock
    <2>1. \A d \in Calls : d # c => call'[d] = call[d]
      BY <2>0 DEF Goto, Do, TypeOK
    <2>2. call'[c].pc = "guard"  BY <2>0, <1>c DEF Goto, Do, Call, TypeOK
    <2>3. \A d \in Calls : d \in AdminMutations' => d = c
      BY <2>0, <2>1 DEF AdminMutations
    <2>4. \A d \in Calls : ~Cleared(d)'
      BY <2>0, <2>1, <2>2 DEF Cleared, AdminMutations
    <2>5. OneMutation'  BY <2>3 DEF OneMutation
    <2>6. KnownUsers'  BY <2>0, <2>4 DEF AdminInv, KnownUsers
    <2>7. AnotherAdmin'  BY <2>4 DEF AnotherAdmin
    <2> QED  BY <2>0, <2>5, <2>6, <2>7, <1>s DEF AdminInv
  <1>9. CASE DeactivateGuard(c) \/ RoleGuard(c)
    <2> DEFINE next == [call[c] EXCEPT !.pc = "purge", !.row = users[call[c].user]]
    <2>0. call[c].pc = "guard" /\ call[c].op \in AdminOps /\ users' = users
          /\ call[c].user \in Users
      BY <1>9 DEF DeactivateGuard, RoleGuard, AdminOps, TypeOK
    <2>1. CASE End(c)  BY <2>0, <2>1, <1>s, <1>t, QuietEnd
    <2>2. CASE /\ Do(c, next) /\ users[call[c].user].known
               /\ ~(call[c].user \in ActiveAdmins /\ Cardinality(ActiveAdmins) <= 1)
      <3>1. /\ call'[c].pc = "purge" /\ call'[c].op = call[c].op
            /\ call'[c].user = call[c].user
            /\ \A d \in Calls : d # c => call'[d] = call[d]
        BY <2>2, <1>c DEF Do, TypeOK, Call
      <3>2. \A d \in Calls : d \in AdminMutations' => d \in AdminMutations
        BY <2>0, <3>1 DEF AdminMutations
      <3>3. \A d \in Calls : Cleared(d)' => (Cleared(d) /\ call'[d] = call[d]) \/ d = c
        BY <3>1 DEF Cleared
      <3>4. OneMutation'  BY <3>2 DEF AdminInv, OneMutation
      <3>5. KnownUsers'  BY <2>0, <2>2, <3>1, <3>3 DEF AdminInv, KnownUsers
      <3>6. call[c].user \in ActiveAdmins => \E v \in ActiveAdmins : v # call[c].user
        BY <2>2, CountOthers
      <3>7. AnotherAdmin'
        BY <2>0, <3>1, <3>3, <3>6, <1>s DEF AdminInv, AnotherAdmin
      <3> QED  BY <2>0, <3>4, <3>5, <3>7, <1>s DEF AdminInv
    <2> QED  BY <1>9, <2>1, <2>2 DEF DeactivateGuard, RoleGuard
  <1>10. CASE PurgeSessions(c)
    <2>1. PICK doomed : Do(c, [call[c] EXCEPT !.pc = "commit", !.doomed = doomed])
      BY <1>10 DEF PurgeSessions
    <2>2. /\ call'[c].pc = "commit" /\ call'[c].op = call[c].op
          /\ call'[c].user = call[c].user
          /\ \A d \in Calls : d # c => call'[d] = call[d]
      BY <2>1, <1>c DEF Do, TypeOK, Call
    <2>3. call[c].pc = "purge" /\ users' = users  BY <1>10 DEF PurgeSessions
    <2>4. \A d \in Calls : d \in AdminMutations' => d \in AdminMutations
      BY <2>2, <2>3 DEF AdminMutations
    <2>5. \A d \in Calls : Cleared(d)' => /\ Cleared(d) /\ call'[d].op = call[d].op
                                          /\ call'[d].user = call[d].user
      BY <2>2, <2>3 DEF Cleared
    <2>6. OneMutation'  BY <2>4 DEF AdminInv, OneMutation
    <2>7. KnownUsers'  BY <2>3, <2>5 DEF AdminInv, KnownUsers
    <2>8. AnotherAdmin'  BY <2>3, <2>5, <1>s DEF AdminInv, AnotherAdmin
    <2> QED  BY <2>3, <2>6, <2>7, <2>8, <1>s DEF AdminInv
  <1>11. CASE DeactivateUserGuarded(c) \/ UpdateUserRoleGuarded(c)
    <2> DEFINE u == call[c].user
    <2>0. Cleared(c) /\ u \in Users
      BY <1>11 DEF DeactivateUserGuarded, UpdateUserRoleGuarded, Cleared, AdminOps,
                   TypeOK
    <2>1. /\ users'[u].known = users[u].known
          /\ \A v \in Users : v # u => users'[v] = users[v]
          /\ users'[u].active => users[u].active
      BY <1>11, <2>0 DEF DeactivateUserGuarded, UpdateUserRoleGuarded, TypeOK, User
    <2>2. call'[c].pc = "idle"
      BY <1>11 DEF DeactivateUserGuarded, UpdateUserRoleGuarded, Overtake, Idle
    <2>3. \A d \in Calls : d # c => /\ call'[d].pc = call[d].pc
                                    /\ call'[d].op = call[d].op
      BY <1>11 DEF DeactivateUserGuarded, UpdateUserRoleGuarded, Overtake, TypeOK,
                   Call
    <2>4. \A d \in Calls : d # c => d \notin AdminMutations
      BY <2>0, ClearedIsMutation DEF AdminInv, OneMutation
    <2>5. \A d \in Calls : d \notin AdminMutations'
      BY <2>2, <2>3, <2>4 DEF AdminMutations
    <2>6. \A d \in Calls : ~Cleared(d)'
      BY <2>5 DEF Cleared, AdminMutations
    <2>7. OneMutation'  BY <2>5 DEF OneMutation
    <2>8. KnownUsers'  BY <2>0, <2>1, <2>6 DEF AdminInv, KnownUsers
    <2>9. AnotherAdmin'  BY <2>6 DEF AnotherAdmin
    <2>10. ASSUME ActiveAdmins # {} PROVE ActiveAdmins' # {}
      <3>1. CASE call[c].op = "promote"
        <4>1. users'[u].role = "admin" /\ users'[u].active = users[u].active
          BY <1>11, <2>0, <3>1
          DEF DeactivateUserGuarded, UpdateUserRoleGuarded, NewRole, TypeOK, User
        <4> HIDE DEF u
        <4>2. ActiveAdmins \subseteq ActiveAdmins'  BY <2>1, <4>1 DEF ActiveAdmins
        <4> QED  BY <2>10, <4>2
      <3>2. CASE call[c].op # "promote"
        <4>1. PICK v \in ActiveAdmins : v # u
          BY <2>0, <2>10, <3>2 DEF AdminInv, AnotherAdmin
        <4>2. v \in ActiveAdmins'  BY <2>1, <4>1 DEF ActiveAdmins
        <4> QED  BY <4>2
      <3> QED  BY <3>1, <3>2
    <2> QED  BY <2>7, <2>8, <2>9, <2>10 DEF AdminInv
  <1> QED
    BY <1>1, <1>2, <1>3, <1>4, <1>5, <1>6, <1>7, <1>8, <1>9, <1>10, <1>11 DEF Step

\* DeactivateUserGuarded and UpdateUserRoleGuarded never leave a system that has
\* an active admin without one, for any number of admins that deactivate and
\* demote each other at once, in any interleaving with bootstrap, activation,
\* registration and password changes.
THEOREM ActiveAdminKept == Spec => ActiveAdminRemains
  <1>1. Init => AdminInv  BY InitAdmin
  <1>2. TypeOK /\ AdminInv /\ [Next]_vars
        => AdminInv' /\ (ActiveAdmins # {} => ActiveAdmins' # {})
    <2>1. ASSUME TypeOK, AdminInv, Next
          PROVE  AdminInv' /\ (ActiveAdmins # {} => ActiveAdmins' # {})
      BY <2>1, ArriveAdmin, StepAdmin DEF Next
    <2>2. ASSUME AdminInv, UNCHANGED vars
          PROVE  AdminInv' /\ (ActiveAdmins # {} => ActiveAdmins' # {})
      BY <2>2, IdleStep DEF vars
    <2> QED  BY <2>1, <2>2
  <1>3. TypeOK /\ AdminInv /\ [Next]_vars
        => [ActiveAdmins # {} => ActiveAdmins' # {}]_vars
    BY <1>2
  <1> QED  BY <1>1, <1>2, <1>3, SessionsTypeCorrect, PTL DEF Spec, ActiveAdminRemains

----------------------------------------------------------------------------
(***************************************************************************)
(* Every slot of the bcrypt semaphore is held by a call that is hashing.   *)
(***************************************************************************)

Hashing == {c \in Calls : call[c].pc \in {"compare", "hash"}}

\* The set is finite although Calls need not be: calls enter it one by one.
SlotsInv == IsFiniteSet(Hashing) /\ slots = Cardinality(Hashing)

\* A step takes its call into the set with a slot, out of it with ReleaseBcrypt,
\* or does neither.
Holds(c) == call[c].pc \in {"compare", "hash"}

SlotStep(c) ==
    /\ \A d \in Calls \ {c} : call'[d].pc = call[d].pc
    /\ \/ ~Holds(c) /\ Holds(c)' /\ slots' = slots + 1
       \/ Holds(c) /\ ~Holds(c)' /\ ReleaseBcrypt
       \/ (Holds(c)' <=> Holds(c)) /\ slots' = slots

\* A step that moves the slots with the hashing keeps them matched.
LEMMA SlotStepKeeps ==
    ASSUME TypeOK, SlotsInv, NEW c \in Calls, SlotStep(c)
    PROVE  SlotsInv'
  <1>1. CASE ~Holds(c) /\ Holds(c)' /\ slots' = slots + 1
    <2>1. Hashing' = Hashing \cup {c} /\ c \notin Hashing
      BY <1>1 DEF Hashing, Holds, SlotStep
    <2> QED  BY <1>1, <2>1, FS_AddElement DEF SlotsInv
  <1>2. CASE Holds(c) /\ ~Holds(c)' /\ ReleaseBcrypt
    <2>1. Hashing' = Hashing \ {c} /\ c \in Hashing
      BY <1>2 DEF Hashing, Holds, SlotStep
    <2>2. /\ IsFiniteSet(Hashing') /\ Cardinality(Hashing') = Cardinality(Hashing) - 1
      BY <2>1, FS_RemoveElement DEF SlotsInv
    <2>3. Cardinality(Hashing') \in Nat /\ Cardinality(Hashing) \in Nat
      BY <2>2, FS_CardinalityType DEF SlotsInv
    <2> QED  BY <1>2, <2>2, <2>3 DEF SlotsInv, ReleaseBcrypt
  <1>3. CASE (Holds(c)' <=> Holds(c)) /\ slots' = slots
    <2>1. Hashing' = Hashing  BY <1>3 DEF Hashing, Holds, SlotStep
    <2> QED  BY <1>3, <2>1 DEF SlotsInv
  <1> QED  BY <1>1, <1>2, <1>3 DEF SlotStep

\* What Do, Goto and End make of the calls' states.
LEMMA DoPc ==
    ASSUME TypeOK, NEW c \in Calls, NEW next, Do(c, next)
    PROVE  call'[c] = next /\ \A d \in Calls \ {c} : call'[d] = call[d]
  BY DEF Do, TypeOK

\* A call that moves on keeps everything but its step.
LEMMA GotoPc ==
    ASSUME TypeOK, NEW c \in Calls, NEW pc, Goto(c, pc)
    PROVE  /\ call'[c].pc = pc /\ call'[c].op = call[c].op
           /\ call'[c].user = call[c].user /\ call'[c].row = call[c].row
           /\ call'[c].token = call[c].token /\ call'[c].doomed = call[c].doomed
           /\ call'[c].raced = call[c].raced
           /\ \A d \in Calls \ {c} : call'[d] = call[d]
  <1>1. call[c] \in Call  BY DEF TypeOK
  <1> QED  BY <1>1, DoPc DEF Goto, Call

\* A call that ends is at rest, and the others stay.
LEMMA EndPc ==
    ASSUME TypeOK, NEW c \in Calls, End(c)
    PROVE  call'[c] = Idle /\ \A d \in Calls \ {c} : call'[d] = call[d]
  BY DoPc DEF End

\* Overtaking the other calls changes no step of theirs.
LEMMA OvertakePc ==
    ASSUME TypeOK, NEW c \in Calls, NEW u, Overtake(c, Idle, u)
    PROVE  /\ call'[c] = Idle
           /\ \A d \in Calls \ {c} : call'[d].pc = call[d].pc
  <1>1. call'[c] = Idle  BY DEF Overtake
  <1>2. ASSUME NEW d \in Calls \ {c} PROVE call'[d].pc = call[d].pc
    <2>1. call[d] \in Call  BY DEF TypeOK
    <2> QED  BY <2>1 DEF Overtake, Call
  <1> QED  BY <1>1, <1>2

\* Every step of a call moves the slots with the hashing.
LEMMA NextSlot ==
    ASSUME TypeOK, NEW c \in Calls, Arrive(c) \/ Step(c)
    PROVE  SlotStep(c)
  <1> USE DEF SlotStep, Holds
  <1>c. call[c] \in Call /\ slots \in Nat  BY BoundsAssumption DEF TypeOK
  <1>i. Idle.pc = "idle"  BY IdleTyped
  <1>1. ASSUME NEW u \in Users, login(c, u) PROVE SlotStep(c)
    <2>1. call[c].pc = "idle"  BY <1>1 DEF login, Begin
    <2>2. CASE UNCHANGED <<slots, call>>  BY <2>2
    <2>3. CASE /\ TryAcquireBcrypt
               /\ Do(c, [Idle EXCEPT !.pc = "compare", !.op = "login",
                                     !.user = u, !.row = users[u]])
      <3>0. /\ call'[c] = [Idle EXCEPT !.pc = "compare", !.op = "login",
                                       !.user = u, !.row = users[u]]
            /\ \A d \in Calls \ {c} : call'[d] = call[d]
        BY <2>3, DoPc
      <3>1. call'[c].pc = "compare"  BY <3>0 DEF Idle
      <3> QED  BY <2>1, <2>3, <3>0, <3>1 DEF TryAcquireBcrypt
    <2> QED  BY <1>1, <2>2, <2>3 DEF login
  <1>2. ASSUME NEW u \in Users, register(c, u) PROVE SlotStep(c)
    <2>1. call[c].pc = "idle"  BY <1>2 DEF register, Begin
    <2>2. CASE UNCHANGED <<slots, call>>  BY <2>2
    <2>3. CASE /\ TryAcquireBcrypt
               /\ Do(c, [Idle EXCEPT !.pc = "hash", !.op = "register", !.user = u])
      <3>0. /\ call'[c] = [Idle EXCEPT !.pc = "hash", !.op = "register", !.user = u]
            /\ \A d \in Calls \ {c} : call'[d] = call[d]
        BY <2>3, DoPc
      <3>1. call'[c].pc = "hash"  BY <3>0 DEF Idle
      <3> QED  BY <2>1, <2>3, <3>0, <3>1 DEF TryAcquireBcrypt
    <2> QED  BY <1>2, <2>2, <2>3 DEF register
  <1>3. ASSUME \/ \E u \in Users : CreateAdminBootstrap(c, u)
               \/ \E t \in DOMAIN sessions : DeleteExpiredSession(c, t)
        PROVE  SlotStep(c)
    BY <1>3 DEF CreateAdminBootstrap, DeleteExpiredSession
  <1>4. ASSUME NEW t \in DOMAIN sessions, GetSessionByTokenHash(c, t)
        PROVE  SlotStep(c)
    <2>1. PICK op \in UserOps \cup AdminOps, u \in Users :
            Do(c, [Idle EXCEPT !.pc = "user", !.op = op, !.token = t,
                               !.user = u, !.by = sessions[t].user])
      BY <1>4 DEF GetSessionByTokenHash
    <2>2. /\ call'[c] = [Idle EXCEPT !.pc = "user", !.op = op, !.token = t,
                                     !.user = u, !.by = sessions[t].user]
          /\ \A d \in Calls \ {c} : call'[d] = call[d]
      BY <2>1, DoPc
    <2>3. call'[c].pc = "user"  BY <2>2 DEF Idle
    <2> QED  BY <1>4, <2>2, <2>3 DEF GetSessionByTokenHash, Begin
  <1>5. ASSUME NEW op \in AdminOps, NEW u \in Users, adminKey(c, op, u)
        PROVE  SlotStep(c)
    <2>1. /\ call'[c] = [Idle EXCEPT !.pc = "lock", !.op = op, !.user = u]
          /\ \A d \in Calls \ {c} : call'[d] = call[d]
      BY <1>5, DoPc DEF adminKey
    <2>2. call'[c].pc = "lock"  BY <2>1 DEF Idle
    <2> QED  BY <1>5, <2>1, <2>2 DEF adminKey, Begin
  <1>6. CASE comparePassword(c)
    <2>1. call'[c].pc \in {"insert", "idle"} /\ \A d \in Calls \ {c} : call'[d] = call[d]
      BY <1>6, <1>i, GotoPc, EndPc DEF comparePassword
    <2> QED  BY <1>6, <2>1 DEF comparePassword
  <1>7. CASE GenerateFromPassword(c)
    <2>1. /\ call'[c].pc \in {"register", "update", "idle"}
          /\ \A d \in Calls \ {c} : call'[d] = call[d]
      BY <1>7, <1>i, GotoPc, EndPc DEF GenerateFromPassword
    <2> QED  BY <1>7, <2>1 DEF GenerateFromPassword
  <1>8. CASE SessionMiddleware(c)
    <2> DEFINE pass == [call[c] EXCEPT !.row = users[call[c].user]]
    <2>0. call[c].pc = "user"  BY <1>8 DEF SessionMiddleware
    <2>1. CASE End(c) /\ UNCHANGED slots  BY <1>i, <2>0, <2>1, EndPc
    <2>2. CASE Do(c, [pass EXCEPT !.pc = "drop"]) /\ UNCHANGED slots
      <3>0. /\ call'[c] = [pass EXCEPT !.pc = "drop"]
            /\ \A d \in Calls \ {c} : call'[d] = call[d]
        <4> HIDE DEF pass
        <4> QED  BY <2>2, DoPc
      <3>1. call'[c].pc = "drop"  BY <3>0, <1>c DEF Call
      <3> QED  BY <2>0, <2>2, <3>0, <3>1
    <2>3. CASE TryAcquireBcrypt /\ Do(c, [pass EXCEPT !.pc = "hash"])
      <3>0. /\ call'[c] = [pass EXCEPT !.pc = "hash"]
            /\ \A d \in Calls \ {c} : call'[d] = call[d]
        <4> HIDE DEF pass
        <4> QED  BY <2>3, DoPc
      <3>1. call'[c].pc = "hash"  BY <3>0, <1>c DEF Call
      <3> QED  BY <2>0, <2>3, <3>0, <3>1 DEF TryAcquireBcrypt
    <2> QED  BY <1>8, <2>1, <2>2, <2>3 DEF SessionMiddleware
  <1>9. CASE \/ \E t \in Tokens : CreateSession(c, t)
             \/ RegisterUser(c) \/ logout(c) \/ SetUserActive(c) \/ Rollback(c)
    BY <1>9, <1>i, EndPc DEF CreateSession, RegisterUser, logout, SetUserActive, Rollback
  <1>10. CASE UpdatePassword(c) \/ authMiddleware(c) \/ AdvisoryLock(c)
    <2>1. /\ call'[c].pc \in {"revoke", "lock", "guard", "idle"}
          /\ \A d \in Calls \ {c} : call'[d] = call[d]
      BY <1>10, <1>i, GotoPc, EndPc DEF UpdatePassword, authMiddleware, AdvisoryLock
    <2> QED  BY <1>10, <2>1 DEF UpdatePassword, authMiddleware, AdvisoryLock
  <1>11. CASE RevokeSessions(c) \/ PurgeSessions(c)
    <2>1. PICK doomed : Do(c, [call[c] EXCEPT !.pc = "commit", !.doomed = doomed])
      BY <1>11 DEF RevokeSessions, PurgeSessions
    <2>2. /\ call'[c] = [call[c] EXCEPT !.pc = "commit", !.doomed = doomed]
          /\ \A d \in Calls \ {c} : call'[d] = call[d]
      BY <2>1, DoPc
    <2>3. call'[c].pc = "commit"  BY <2>2, <1>c DEF Call
    <2> QED  BY <1>11, <2>2, <2>3 DEF RevokeSessions, PurgeSessions
  <1>12. CASE DeactivateGuard(c) \/ RoleGuard(c)
    <2>1. \/ End(c)
          \/ Do(c, [call[c] EXCEPT !.pc = "purge", !.row = users[call[c].user]])
      BY <1>12 DEF DeactivateGuard, RoleGuard
    <2>2. /\ \/ call'[c] = Idle
             \/ call'[c] = [call[c] EXCEPT !.pc = "purge", !.row = users[call[c].user]]
          /\ \A d \in Calls \ {c} : call'[d] = call[d]
      BY <2>1, EndPc, DoPc
    <2>3. call'[c].pc \in {"idle", "purge"}  BY <2>2, <1>c, <1>i DEF Call
    <2> QED  BY <1>12, <2>2, <2>3 DEF DeactivateGuard, RoleGuard
  <1>13. CASE \/ UpdateUserPasswordAndRevokeSessions(c)
              \/ DeactivateUserGuarded(c) \/ UpdateUserRoleGuarded(c)
    BY <1>13, <1>i, OvertakePc
    DEF UpdateUserPasswordAndRevokeSessions, DeactivateUserGuarded, UpdateUserRoleGuarded
  <1> QED
    BY <1>1, <1>2, <1>3, <1>4, <1>5, <1>6, <1>7, <1>8, <1>9, <1>10, <1>11, <1>12, <1>13
    DEF Arrive, Step

\* login, register and changePassword (user/handler.go) give their bcrypt slot
\* back on every path: the semaphore counts exactly the calls that are hashing.
THEOREM SlotsAreHeld == Spec => []SlotsMatchHashing
  <1>1. Init => SlotsInv
    <2>1. ASSUME Init PROVE Hashing = {} /\ slots = 0
      BY <2>1, IdleTyped DEF Init, Hashing
    <2> QED  BY <2>1, FS_EmptySet DEF SlotsInv
  <1>2. TypeOK /\ SlotsInv /\ [Next]_vars => SlotsInv'
    <2>1. ASSUME TypeOK, SlotsInv, Next PROVE SlotsInv'
      BY <2>1, NextSlot, SlotStepKeeps DEF Next
    <2>2. ASSUME SlotsInv, UNCHANGED vars PROVE SlotsInv'
      BY <2>2 DEF SlotsInv, Hashing, vars
    <2> QED  BY <2>1, <2>2
  <1>3. SlotsInv => SlotsMatchHashing  BY DEF SlotsInv, Hashing, SlotsMatchHashing
  <1> QED  BY <1>1, <1>2, <1>3, SessionsTypeCorrect, PTL DEF Spec

----------------------------------------------------------------------------
(***************************************************************************)
(* A session outlives a change of its user only if its login raced.        *)
(*                                                                         *)
(* The two properties speak of sessions that exist.  What carries them     *)
(* over the commits is what the calls hold: the row a login has read is    *)
(* still the user's unless the login was overtaken, and what a transaction *)
(* about to commit has found to delete is every session of its user,       *)
(* except those it knows or that raced with it.                            *)
(***************************************************************************)

Guarded == {"promote", "demote", "deactivate"}

\* Which operation a call in some states is in, and what it knows by then.
Shape(d) ==
    /\ call[d].op = "login" <=> call[d].pc \in {"compare", "insert"}
    /\ call[d].pc = "insert" => call[d].row.known
    /\ call[d].pc = "purge" => call[d].op \in Guarded

\* A login's row is current, or the login was overtaken.
LoginCurrent(d) ==
    call[d].op = "login" =>
        LET row == call[d].row
            u   == users[call[d].user]
        IN  \/ row.pw = u.pw /\ (row.known => u.active /\ row.role = u.role)
            \/ call[d].raced

\* A password change is about a registered user and carried by its session.
OwnPassword(d) ==
    /\ call[d].op = "password" /\ call[d].pc \in {"hash", "update", "revoke", "commit"}
       => users[call[d].user].known
    /\ call[d].op \in UserOps /\ call[d].token \in DOMAIN sessions
       => sessions[call[d].token].user = call[d].user

\* What the DELETE of a password change did not find raced with it.
Revoked(d) ==
    call[d].op = "password" /\ call[d].pc = "commit"
    => \A t \in DOMAIN sessions :
         sessions[t].user = call[d].user
         => t \in call[d].doomed \/ t = call[d].token \/ sessions[t].raced

\* A deactivation knows whether its user is active, ...
RowRead(d) ==
    call[d].op = "deactivate" /\ call[d].pc = "purge"
    => (call[d].row.active <=> users[call[d].user].active)

\* ... and a guarded change has found every session, or needs none.
Purged(d) ==
    call[d].op \in Guarded /\ call[d].pc = "commit"
    => \/ call[d].op = "deactivate" /\ ~users[call[d].user].active
       \/ \A t \in DOMAIN sessions :
            sessions[t].user = call[d].user => t \in call[d].doomed \/ sessions[t].raced

CallInv(d) == /\ Shape(d) /\ LoginCurrent(d) /\ OwnPassword(d)
              /\ Revoked(d) /\ RowRead(d) /\ Purged(d)

\* A session is current, or raced.
SessionCurrent(t) ==
    LET u == users[sessions[t].user]
    IN  \/ sessions[t].pw = u.pw /\ u.active
           /\ (sessions[t].long <=> SessionDurationFor(u.role))
        \/ sessions[t].raced

\* Who is not registered has never had a password.
NoPassword(u) == ~users[u].known => users[u].pw = 0

SessionInv ==
    /\ \A d \in Calls : CallInv(d)
    /\ \A t \in DOMAIN sessions : SessionCurrent(t)
    /\ \A u \in Users : NoPassword(u)

\* A call that took no step may at most have been overtaken.
Stays(d) ==
    /\ call'[d].pc = call[d].pc /\ call'[d].op = call[d].op
    /\ call'[d].user = call[d].user /\ call'[d].row = call[d].row
    /\ call'[d].token = call[d].token /\ call'[d].doomed = call[d].doomed
    /\ call[d].raced => call'[d].raced

\* An untouched call stays as it is.
LEMMA SameStays == ASSUME NEW d \in Calls, call'[d] = call[d] PROVE Stays(d)
  BY DEF Stays

\* A call at rest claims nothing.
LEMMA IdleCall == ASSUME NEW d \in Calls, call'[d] = Idle PROVE CallInv(d)'
  BY DEF CallInv, Shape, LoginCurrent, OwnPassword, Revoked, RowRead, Purged, Idle,
         UserOps, Guarded

\* Whom a call is about.
LEMMA UserOf ==
    ASSUME TypeOK, NEW d \in Calls, CallInv(d)
    PROVE  /\ call[d].op = "login" => call[d].user \in Users
           /\ call[d].pc # "idle" => call[d].user \in Users
  BY DEF TypeOK, CallInv, Shape

\* Sessions may go while the users stay.
LEMMA ShrinkingStep ==
    ASSUME SessionInv, users' = users,
           \A t \in DOMAIN sessions' : t \in DOMAIN sessions /\ sessions'[t] = sessions[t],
           \A d \in Calls : Stays(d) \/ CallInv(d)'
    PROVE  SessionInv'
  <1>1. ASSUME NEW d \in Calls PROVE CallInv(d)'
    <2> SUFFICES ASSUME Stays(d) PROVE CallInv(d)'  OBVIOUS
    <2>0. CallInv(d)  BY DEF SessionInv
    <2>1. Shape(d)'  BY <2>0 DEF CallInv, Shape, Stays
    <2>2. LoginCurrent(d)'  BY <2>0 DEF CallInv, LoginCurrent, Stays
    <2>3. OwnPassword(d)'  BY <2>0 DEF CallInv, OwnPassword, Stays
    <2>4. Revoked(d)'  BY <2>0 DEF CallInv, Revoked, Stays
    <2>5. RowRead(d)'  BY <2>0 DEF CallInv, RowRead, Stays
    <2>6. Purged(d)'  BY <2>0 DEF CallInv, Purged, Stays
    <2> QED  BY <2>1, <2>2, <2>3, <2>4, <2>5, <2>6 DEF CallInv
  <1>2. \A t \in DOMAIN sessions' : SessionCurrent(t)'
    BY DEF SessionInv, SessionCurrent
  <1>3. \A u \in Users : NoPassword(u)'  BY DEF SessionInv, NoPassword
  <1> QED  BY <1>1, <1>2, <1>3 DEF SessionInv

\* The login's session is as current as the row it read; a password change that
\* is about to commit makes it a raced one, a guarded change keeps it out.
LEMMA CreateSessionKeeps ==
    ASSUME TypeOK, SessionInv, NEW c \in Calls, NEW t \in Tokens, CreateSession(c, t)
    PROVE  SessionInv'
  <1> DEFINE u == call[c].user
             new == [user |-> u, long |-> SessionDurationFor(call[c].row.role),
                     pw |-> call[c].row.pw, raced |-> call[c].raced \/ Revoking(u)]
  <1>0. /\ call[c].pc = "insert" /\ ~LockedForUpdate(u) /\ users' = users /\ End(c)
        /\ t \notin DOMAIN sessions
        /\ \A d \in Calls : t # call[d].token /\ t \notin call[d].doomed
    BY DEF CreateSession, FreshTokens
  <1>1. /\ sessions' = [s \in DOMAIN sessions \cup {t} |-> IF s = t THEN new ELSE sessions[s]]
    BY DEF CreateSession
  <1>2. /\ new.user = u /\ new.pw = call[c].row.pw
        /\ new.long <=> SessionDurationFor(call[c].row.role)
        /\ new.raced <=> (call[c].raced \/ Revoking(u))
    OBVIOUS
  <1> HIDE DEF new
  <1>3. /\ DOMAIN sessions' = DOMAIN sessions \cup {t} /\ sessions'[t] = new
        /\ \A s \in DOMAIN sessions : sessions'[s] = sessions[s]
    BY <1>0, <1>1
  <1>4. call'[c] = Idle /\ \A d \in Calls \ {c} : call'[d] = call[d]
    BY <1>0, EndPc
  <1>5. ASSUME NEW d \in Calls PROVE CallInv(d)'
    <2>1. CASE d = c  BY <1>4, <2>1, IdleCall
    <2>2. CASE d # c
      <3>0. CallInv(d) /\ call'[d] = call[d]  BY <1>4, <2>2 DEF SessionInv
      <3>1. Shape(d)'  BY <3>0 DEF CallInv, Shape
      <3>2. LoginCurrent(d)'  BY <3>0, <1>0 DEF CallInv, LoginCurrent
      <3>3. OwnPassword(d)'  BY <3>0, <1>0, <1>3 DEF CallInv, OwnPassword
      <3>4. Revoked(d)'
        <4>1. (call[d].op = "password" /\ call[d].pc = "commit" /\ call[d].user = u)
              => Revoking(u)
          BY DEF Revoking
        <4> QED  BY <3>0, <4>1, <1>2, <1>3 DEF CallInv, Revoked
      <3>5. RowRead(d)'  BY <3>0, <1>0 DEF CallInv, RowRead
      <3>6. Purged(d)'
        <4>1. (call[d].op \in Guarded /\ call[d].pc = "commit") => call[d].user # u
          BY <1>0 DEF LockedForUpdate, AdminMutations, Guarded, AdminOps
        <4> QED  BY <3>0, <4>1, <1>0, <1>2, <1>3 DEF CallInv, Purged
      <3> QED  BY <3>1, <3>2, <3>3, <3>4, <3>5, <3>6 DEF CallInv
    <2> QED  BY <2>1, <2>2
  <1>6. ASSUME NEW s \in DOMAIN sessions' PROVE SessionCurrent(s)'
    <2>1. CASE s = t
      <3>1. CallInv(c)  BY DEF SessionInv
      <3>2. call[c].op = "login" /\ call[c].row.known
        BY <1>0, <3>1 DEF CallInv, Shape
      <3>3. \/ /\ call[c].row.pw = users[u].pw /\ users[u].active
               /\ call[c].row.role = users[u].role
            \/ call[c].raced
        BY <3>1, <3>2 DEF CallInv, LoginCurrent
      <3> QED  BY <2>1, <3>3, <1>0, <1>2, <1>3 DEF SessionCurrent
    <2>2. CASE s \in DOMAIN sessions
      BY <2>2, <1>0, <1>3 DEF SessionInv, SessionCurrent
    <2> QED  BY <1>3, <2>1, <2>2
  <1>7. \A v \in Users : NoPassword(v)'  BY <1>0 DEF SessionInv, NoPassword
  <1> QED  BY <1>5, <1>6, <1>7 DEF SessionInv

\* Registration and bootstrap make a user known who had no password, was not
\* active and is in nobody's transaction.
LEMMA NewUserKeeps ==
    ASSUME TypeOK, AdminInv, SessionInv, NEW u \in Users, ~users[u].known,
           users'[u].known, users'[u].pw = 0,
           \A v \in Users : v # u => users'[v] = users[v], sessions' = sessions,
           \A d \in Calls : Stays(d) \/ CallInv(d)'
    PROVE  SessionInv'
  <1>0. users[u].pw = 0 /\ ~users[u].active
    BY DEF SessionInv, NoPassword, AdminInv, KnownUsers
  <1>1. ASSUME NEW d \in Calls PROVE CallInv(d)'
    <2> SUFFICES ASSUME Stays(d) PROVE CallInv(d)'  OBVIOUS
    <2>0. /\ CallInv(d) /\ (call[d].op = "login" => call[d].user \in Users)
          /\ (call[d].pc # "idle" => call[d].user \in Users)
      BY UserOf DEF SessionInv
    <2>1. Shape(d)'  BY <2>0 DEF CallInv, Shape, Stays
    <2>2. LoginCurrent(d)'
      <3>1. CASE call[d].user = u  BY <1>0, <2>0, <3>1 DEF CallInv, LoginCurrent, Stays
      <3>2. CASE call[d].user # u  BY <2>0, <3>2 DEF CallInv, LoginCurrent, Stays
      <3> QED  BY <3>1, <3>2
    <2>3. OwnPassword(d)'
      <3>1. CASE call[d].user = u  BY <2>0, <3>1 DEF CallInv, OwnPassword, Stays
      <3>2. CASE call[d].user # u  BY <2>0, <3>2 DEF CallInv, OwnPassword, Stays
      <3> QED  BY <3>1, <3>2
    <2>4. Revoked(d)'  BY <2>0 DEF CallInv, Revoked, Stays
    <2>5. Cleared(d) => call[d].user # u /\ call[d].user \in Users
      BY <2>0 DEF AdminInv, KnownUsers, Cleared
    <2>6. RowRead(d)'
      BY <2>0, <2>5 DEF CallInv, RowRead, Stays, Cleared, AdminOps
    <2>7. Purged(d)'
      BY <2>0, <2>5 DEF CallInv, Purged, Stays, Cleared, AdminOps, Guarded
    <2> QED  BY <2>1, <2>2, <2>3, <2>4, <2>6, <2>7 DEF CallInv
  <1>2. ASSUME NEW t \in DOMAIN sessions' PROVE SessionCurrent(t)'
    <2>1. SessionCurrent(t) /\ sessions[t].user \in Users
      BY DEF SessionInv, TypeOK, Session
    <2>2. CASE sessions[t].user = u  BY <1>0, <2>1, <2>2 DEF SessionCurrent
    <2>3. CASE sessions[t].user # u  BY <2>1, <2>3 DEF SessionCurrent
    <2> QED  BY <2>2, <2>3
  <1>3. \A v \in Users : NoPassword(v)'  BY DEF SessionInv, NoPassword
  <1> QED  BY <1>1, <1>2, <1>3 DEF SessionInv

\* Activation changes no row that a guarded transaction has read.
LEMMA SetUserActiveKeeps ==
    ASSUME TypeOK, AdminInv, SessionInv, NEW c \in Calls, SetUserActive(c)
    PROVE  SessionInv'
  <1> DEFINE u == call[c].user
  <1>0. u \in Users /\ RowFree(u) /\ sessions' = sessions /\ End(c)
    BY DEF TypeOK, SetUserActive
  <1>1. /\ users'[u].active = users[u].known /\ users'[u].known = users[u].known
        /\ users'[u].role = users[u].role /\ users'[u].pw = users[u].pw
        /\ \A v \in Users : v # u => users'[v] = users[v]
    BY <1>0 DEF SetUserActive, TypeOK, User
  <1>2. users[u].active => users[u].known  BY <1>0 DEF AdminInv, KnownUsers
  <1>3. call'[c] = Idle /\ \A d \in Calls \ {c} : call'[d] = call[d]
    BY <1>0, EndPc
  <1>4. \A d \in Calls : Cleared(d) => call[d].user # u
    BY <1>0, ClearedRowLocked
  <1> HIDE DEF u
  <1>5. ASSUME NEW d \in Calls PROVE CallInv(d)'
    <2>1. CASE d = c  BY <1>3, <2>1, IdleCall
    <2>2. CASE d # c
      <3>0. /\ CallInv(d) /\ call'[d] = call[d]
            /\ call[d].op = "login" => call[d].user \in Users
            /\ call[d].pc # "idle" => call[d].user \in Users
        BY <1>3, <2>2, UserOf DEF SessionInv
      <3>1. Shape(d)'  BY <3>0 DEF CallInv, Shape
      <3>2. LoginCurrent(d)'
        <4>1. CASE call[d].user = u
          BY <1>1, <1>2, <3>0, <4>1 DEF CallInv, LoginCurrent
        <4>2. CASE call[d].user # u  BY <1>1, <3>0, <4>2 DEF CallInv, LoginCurrent
        <4> QED  BY <4>1, <4>2
      <3>3. OwnPassword(d)'  BY <1>0, <1>1, <3>0 DEF CallInv, OwnPassword
      <3>4. Revoked(d)'  BY <1>0, <3>0 DEF CallInv, Revoked
      <3>5. RowRead(d)'
        BY <1>1, <1>4, <3>0 DEF CallInv, RowRead, Cleared, AdminOps
      <3>6. Purged(d)'
        BY <1>0, <1>1, <1>4, <3>0 DEF CallInv, Purged, Cleared, AdminOps, Guarded
      <3> QED  BY <3>1, <3>2, <3>3, <3>4, <3>5, <3>6 DEF CallInv
    <2> QED  BY <2>1, <2>2
  <1>6. ASSUME NEW t \in DOMAIN sessions' PROVE SessionCurrent(t)'
    <2>1. SessionCurrent(t) /\ sessions[t].user \in Users
      BY <1>0 DEF SessionInv, TypeOK, Session
    <2>2. CASE sessions[t].user = u
      BY <1>0, <1>1, <1>2, <2>1, <2>2 DEF SessionCurrent
    <2>3. CASE sessions[t].user # u  BY <1>0, <1>1, <2>1, <2>3 DEF SessionCurrent
    <2> QED  BY <2>2, <2>3
  <1>7. \A v \in Users : NoPassword(v)'
    BY <1>1 DEF SessionInv, NoPassword
  <1> QED  BY <1>5, <1>6, <1>7 DEF SessionInv

\* A commit ends its call and overtakes the logins of its user.
LEMMA OvertakeStays ==
    ASSUME TypeOK, NEW c \in Calls, NEW u, Overtake(c, Idle, u)
    PROVE  /\ call'[c] = Idle
           /\ \A d \in Calls \ {c} :
                Stays(d) /\ (call[d].op = "login" /\ call[d].user = u => call'[d].raced)
  <1>1. call'[c] = Idle  BY DEF Overtake
  <1>2. ASSUME NEW d \in Calls \ {c}
        PROVE  Stays(d) /\ (call[d].op = "login" /\ call[d].user = u => call'[d].raced)
    <2>0. call[d] \in Call  BY DEF TypeOK
    <2>1. CASE call[d].op = "login" /\ call[d].user = u
      <3>1. call'[d] = [call[d] EXCEPT !.raced = TRUE]  BY <2>1 DEF Overtake
      <3> QED  BY <2>0, <3>1 DEF Stays, Call
    <2>2. CASE ~(call[d].op = "login" /\ call[d].user = u)
      <3>1. call'[d] = call[d]  BY <2>2 DEF Overtake
      <3> QED  BY <2>2, <3>1 DEF Stays
    <2> QED  BY <2>1, <2>2
  <1> QED  BY <1>1, <1>2

\* The session that changed the password has the new one, the sessions that were
\* found are gone, and what is left of the user's raced.
LEMMA PasswordKeeps ==
    ASSUME TypeOK, AdminInv, SessionInv, NEW c \in Calls,
           UpdateUserPasswordAndRevokeSessions(c)
    PROVE  SessionInv'
  <1> DEFINE u == call[c].user
  <1>0. /\ call[c].pc = "commit" /\ call[c].op = "password" /\ u \in Users
        /\ Overtake(c, Idle, u) /\ CallInv(c) /\ users[u].known
    BY DEF UpdateUserPasswordAndRevokeSessions, TypeOK, SessionInv, CallInv, OwnPassword
  <1>1. /\ users'[u].pw = users[u].pw + 1 /\ users'[u].known = users[u].known
        /\ users'[u].role = users[u].role /\ users'[u].active = users[u].active
        /\ \A v \in Users : v # u => users'[v] = users[v]
    BY <1>0 DEF UpdateUserPasswordAndRevokeSessions, TypeOK, User
  <1>2. \A v \in Users : /\ users'[v].known = users[v].known
                         /\ users'[v].role = users[v].role
                         /\ users'[v].active = users[v].active
    BY <1>1
  <1>3. ASSUME NEW t \in DOMAIN sessions'
        PROVE  /\ t \in DOMAIN sessions /\ t \notin call[c].doomed
               /\ sessions'[t].user = sessions[t].user
               /\ sessions'[t].long = sessions[t].long
               /\ sessions'[t].raced = sessions[t].raced
               /\ sessions'[t].pw = IF t = call[c].token THEN users'[u].pw
                                    ELSE sessions[t].pw
    <2>1. /\ t \in DOMAIN sessions /\ t \notin call[c].doomed
          /\ sessions'[t] = IF t = call[c].token
                            THEN [sessions[t] EXCEPT !.pw = users'[u].pw] ELSE sessions[t]
      BY DEF UpdateUserPasswordAndRevokeSessions
    <2>2. sessions[t] \in Session  BY <2>1 DEF TypeOK
    <2>3. CASE t = call[c].token
      <3>1. sessions'[t] = [sessions[t] EXCEPT !.pw = users'[u].pw]  BY <2>1, <2>3
      <3> QED  BY <2>1, <2>2, <2>3, <3>1 DEF Session
    <2>4. CASE t # call[c].token  BY <2>1, <2>4
    <2> QED  BY <2>3, <2>4
  <1>4. /\ call'[c] = Idle
        /\ \A d \in Calls \ {c} :
             Stays(d) /\ (call[d].op = "login" /\ call[d].user = u => call'[d].raced)
    BY <1>0, OvertakeStays
  <1> HIDE DEF u
  <1>5. ASSUME NEW d \in Calls PROVE CallInv(d)'
    <2>1. CASE d = c  BY <1>4, <2>1, IdleCall
    <2>2. CASE d # c
      <3>0. /\ CallInv(d) /\ Stays(d)
            /\ call[d].op = "login" /\ call[d].user = u => call'[d].raced
            /\ call[d].op = "login" => call[d].user \in Users
            /\ call[d].pc # "idle" => call[d].user \in Users
        BY <1>4, <2>2, UserOf DEF SessionInv
      <3>1. Shape(d)'  BY <3>0 DEF CallInv, Shape, Stays
      <3>2. LoginCurrent(d)'
        <4>1. CASE call[d].user = u  BY <3>0, <4>1 DEF LoginCurrent, Stays
        <4>2. CASE call[d].user # u
          BY <1>1, <3>0, <4>2 DEF CallInv, LoginCurrent, Stays
        <4> QED  BY <4>1, <4>2
      <3>3. OwnPassword(d)'  BY <1>2, <1>3, <3>0 DEF CallInv, OwnPassword, Stays
      <3>4. Revoked(d)'  BY <1>3, <3>0 DEF CallInv, Revoked, Stays
      <3>5. RowRead(d)'  BY <1>2, <3>0 DEF CallInv, RowRead, Stays
      <3>6. Purged(d)'  BY <1>2, <1>3, <3>0 DEF CallInv, Purged, Stays
      <3> QED  BY <3>1, <3>2, <3>3, <3>4, <3>5, <3>6 DEF CallInv
    <2> QED  BY <2>1, <2>2
  <1>6. ASSUME NEW t \in DOMAIN sessions' PROVE SessionCurrent(t)'
    <2>1. SessionCurrent(t) /\ sessions[t].user \in Users
      BY <1>3 DEF SessionInv, TypeOK, Session
    <2>2. CASE t = call[c].token
      <3>1. call[c].op \in UserOps  BY <1>0 DEF UserOps
      <3>2. sessions[t].user = u
        BY <1>0, <1>3, <2>2, <3>1 DEF CallInv, OwnPassword, u
      <3> QED  BY <1>0, <1>1, <1>3, <2>1, <2>2, <3>2 DEF SessionCurrent
    <2>3. CASE t # call[c].token /\ sessions[t].user = u
      <3>1. sessions[t].raced  BY <1>0, <1>3, <2>3 DEF CallInv, Revoked, u
      <3> QED  BY <1>3, <3>1 DEF SessionCurrent
    <2>4. CASE t # call[c].token /\ sessions[t].user # u
      BY <1>1, <1>3, <2>1, <2>4 DEF SessionCurrent
    <2> QED  BY <2>2, <2>3, <2>4
  <1>7. ASSUME NEW v \in Users PROVE NoPassword(v)'
    <2>1. CASE v = u  BY <1>0, <1>1, <2>1 DEF NoPassword
    <2>2. CASE v # u  BY <1>1, <2>2 DEF SessionInv, NoPassword
    <2> QED  BY <2>1, <2>2
  <1> QED  BY <1>5, <1>6, <1>7 DEF SessionInv

\* A guarded change leaves none of its user's sessions that had not raced.
LEMMA GuardedKeeps ==
    ASSUME TypeOK, AdminInv, SessionInv, NEW c \in Calls,
           DeactivateUserGuarded(c) \/ UpdateUserRoleGuarded(c)
    PROVE  SessionInv'
  <1> DEFINE u == call[c].user
  <1>0. /\ call[c].pc = "commit" /\ call[c].op \in Guarded /\ u \in Users
        /\ Overtake(c, Idle, u) /\ CallInv(c) /\ Cleared(c)
        /\ sessions' = Without(call[c].doomed)
    BY DEF DeactivateUserGuarded, UpdateUserRoleGuarded, TypeOK, SessionInv, Guarded,
           Cleared, AdminOps
  <1>1. /\ users'[u].pw = users[u].pw /\ users'[u].known = users[u].known
        /\ \A v \in Users : v # u => users'[v] = users[v]
    BY <1>0 DEF DeactivateUserGuarded, UpdateUserRoleGuarded, TypeOK, User
  <1>2. \A v \in Users : users'[v].known = users[v].known /\ users'[v].pw = users[v].pw
    BY <1>1
  <1>3. \A t \in DOMAIN sessions' : /\ t \in DOMAIN sessions /\ t \notin call[c].doomed
                                    /\ sessions'[t] = sessions[t]
    BY <1>0 DEF Without
  <1>4. /\ call'[c] = Idle
        /\ \A d \in Calls \ {c} :
             Stays(d) /\ (call[d].op = "login" /\ call[d].user = u => call'[d].raced)
    BY <1>0, OvertakeStays
  <1>5. \A d \in Calls \ {c} : ~Cleared(d)
    BY <1>0, ClearedIsMutation DEF AdminInv, OneMutation
  <1>6. ASSUME NEW t \in DOMAIN sessions', sessions[t].user = u PROVE sessions[t].raced
    <2>1. CASE call[c].op = "deactivate" /\ ~users[u].active
      BY <1>3, <1>6, <2>1 DEF SessionInv, SessionCurrent
    <2>2. CASE \A s \in DOMAIN sessions :
                 sessions[s].user = u => s \in call[c].doomed \/ sessions[s].raced
      BY <1>3, <1>6, <2>2
    <2> QED  BY <1>0, <2>1, <2>2 DEF CallInv, Purged
  <1> HIDE DEF u
  <1>7. ASSUME NEW d \in Calls PROVE CallInv(d)'
    <2>1. CASE d = c  BY <1>4, <2>1, IdleCall
    <2>2. CASE d # c
      <3>0. /\ CallInv(d) /\ Stays(d) /\ ~Cleared(d)
            /\ call[d].op = "login" /\ call[d].user = u => call'[d].raced
            /\ call[d].op = "login" => call[d].user \in Users
            /\ call[d].pc # "idle" => call[d].user \in Users
        BY <1>4, <1>5, <2>2, UserOf DEF SessionInv
      <3>1. Shape(d)'  BY <3>0 DEF CallInv, Shape, Stays
      <3>2. LoginCurrent(d)'
        <4>1. CASE call[d].user = u  BY <3>0, <4>1 DEF LoginCurrent, Stays
        <4>2. CASE call[d].user # u
          BY <1>1, <3>0, <4>2 DEF CallInv, LoginCurrent, Stays
        <4> QED  BY <4>1, <4>2
      <3>3. OwnPassword(d)'  BY <1>2, <1>3, <3>0 DEF CallInv, OwnPassword, Stays
      <3>4. Revoked(d)'  BY <1>3, <3>0 DEF CallInv, Revoked, Stays
      <3>5. RowRead(d)'  BY <3>0 DEF RowRead, Stays, Cleared, AdminOps
      <3>6. Purged(d)'  BY <3>0 DEF Purged, Stays, Cleared, AdminOps, Guarded
      <3> QED  BY <3>1, <3>2, <3>3, <3>4, <3>5, <3>6 DEF CallInv
    <2> QED  BY <2>1, <2>2
  <1>8. ASSUME NEW t \in DOMAIN sessions' PROVE SessionCurrent(t)'
    <2>1. SessionCurrent(t) /\ sessions[t].user \in Users
      BY <1>3 DEF SessionInv, TypeOK, Session
    <2>2. CASE sessions[t].user = u  BY <1>3, <1>6, <2>2 DEF SessionCurrent
    <2>3. CASE sessions[t].user # u  BY <1>1, <1>3, <2>1, <2>3 DEF SessionCurrent
    <2> QED  BY <2>2, <2>3
  <1>9. \A v \in Users : NoPassword(v)'  BY <1>2 DEF SessionInv, NoPassword
  <1> QED  BY <1>7, <1>8, <1>9 DEF SessionInv

\* A step of c that leaves users and sessions alone.
LEMMA QuietKeeps ==
    ASSUME SessionInv, NEW c \in Calls, UNCHANGED <<users, sessions>>,
           \A d \in Calls \ {c} : call'[d] = call[d], CallInv(c)'
    PROVE  SessionInv'
  BY ShrinkingStep, SameStays

\* A call that ends without touching the tables keeps the sessions.
LEMMA QuietEndKeeps ==
    ASSUME TypeOK, SessionInv, NEW c \in Calls, UNCHANGED <<users, sessions>>, End(c)
    PROVE  SessionInv'
  BY EndPc, IdleCall, QuietKeeps

\* The arrival of a call keeps the sessions current.
LEMMA ArriveSession ==
    ASSUME TypeOK, AdminInv, SessionInv, NEW c \in Calls, Arrive(c)
    PROVE  SessionInv'
  <1>a. ASSUME call' = call, users' = users,
               \A t \in DOMAIN sessions' : t \in DOMAIN sessions /\ sessions'[t] = sessions[t]
        PROVE  SessionInv'
    BY <1>a, ShrinkingStep, SameStays
  <1>1. ASSUME NEW u \in Users, login(c, u) PROVE SessionInv'
    <2>0. UNCHANGED <<users, sessions>>  BY <1>1 DEF login
    <2>1. CASE UNCHANGED call  BY <1>a, <2>0, <2>1
    <2>2. CASE /\ users[u].known => users[u].active
               /\ Do(c, [Idle EXCEPT !.pc = "compare", !.op = "login",
                                     !.user = u, !.row = users[u]])
      <3>1. /\ call'[c] = [Idle EXCEPT !.pc = "compare", !.op = "login",
                                       !.user = u, !.row = users[u]]
            /\ \A d \in Calls \ {c} : call'[d] = call[d]
        BY <2>2, DoPc
      <3>2. /\ call'[c].pc = "compare" /\ call'[c].op = "login"
            /\ call'[c].user = u /\ call'[c].row = users[u]
        BY <3>1 DEF Idle
      <3>3. CallInv(c)'
        BY <2>0, <2>2, <3>2
        DEF CallInv, Shape, LoginCurrent, OwnPassword, Revoked, RowRead, Purged, UserOps,
            Guarded
      <3> QED  BY <2>0, <3>1, <3>3, QuietKeeps
    <2> QED  BY <1>1, <2>1, <2>2 DEF login
  <1>2. ASSUME NEW u \in Users, register(c, u) PROVE SessionInv'
    <2>0. UNCHANGED <<users, sessions>>  BY <1>2 DEF register
    <2>1. CASE UNCHANGED call  BY <1>a, <2>0, <2>1
    <2>2. CASE Do(c, [Idle EXCEPT !.pc = "hash", !.op = "register", !.user = u])
      <3>1. /\ call'[c] = [Idle EXCEPT !.pc = "hash", !.op = "register", !.user = u]
            /\ \A d \in Calls \ {c} : call'[d] = call[d]
        BY <2>2, DoPc
      <3>2. call'[c].pc = "hash" /\ call'[c].op = "register"  BY <3>1 DEF Idle
      <3>3. CallInv(c)'
        BY <3>2
        DEF CallInv, Shape, LoginCurrent, OwnPassword, Revoked, RowRead, Purged, UserOps,
            Guarded
      <3> QED  BY <2>0, <3>1, <3>3, QuietKeeps
    <2> QED  BY <1>2, <2>1, <2>2 DEF register
  <1>3. ASSUME NEW u \in Users, CreateAdminBootstrap(c, u) PROVE SessionInv'
    <2>1. CASE users[u].known  BY <1>3, <1>a, <2>1 DEF CreateAdminBootstrap
    <2>2. CASE ~users[u].known
      <3>1. /\ users'[u] = [known |-> TRUE, role |-> "admin", active |-> TRUE, pw |-> 0]
            /\ \A v \in Users : v # u => users'[v] = users[v]
            /\ UNCHANGED <<sessions, call>>
        BY <1>3, <2>2 DEF CreateAdminBootstrap, TypeOK
      <3>2. users'[u].known /\ users'[u].pw = 0  BY <3>1
      <3> QED  BY <2>2, <3>1, <3>2, SameStays, NewUserKeeps
    <2> QED  BY <2>1, <2>2
  <1>4. ASSUME NEW t \in DOMAIN sessions, GetSessionByTokenHash(c, t) PROVE SessionInv'
    <2>0. UNCHANGED <<users, sessions>>  BY <1>4 DEF GetSessionByTokenHash
    <2>1. PICK op \in UserOps \cup AdminOps, u \in Users :
            /\ op \in UserOps => u = sessions[t].user
            /\ Do(c, [Idle EXCEPT !.pc = "user", !.op = op, !.token = t,
                                  !.user = u, !.by = sessions[t].user])
      BY <1>4 DEF GetSessionByTokenHash
    <2>2. /\ call'[c] = [Idle EXCEPT !.pc = "user", !.op = op, !.token = t,
                                     !.user = u, !.by = sessions[t].user]
          /\ \A d \in Calls \ {c} : call'[d] = call[d]
      BY <2>1, DoPc
    <2>3. /\ call'[c].pc = "user" /\ call'[c].op = op /\ call'[c].token = t
          /\ call'[c].user = u
      BY <2>2 DEF Idle
    <2>4. op # "login"  BY DEF UserOps, AdminOps
    <2>5. CallInv(c)'
      BY <2>0, <2>1, <2>3, <2>4
      DEF CallInv, Shape, LoginCurrent, OwnPassword, Revoked, RowRead, Purged
    <2> QED  BY <2>0, <2>2, <2>5, QuietKeeps
  <1>5. ASSUME NEW t \in DOMAIN sessions, DeleteExpiredSession(c, t) PROVE SessionInv'
    BY <1>5, <1>a DEF DeleteExpiredSession, Without
  <1>6. ASSUME NEW op \in AdminOps, NEW u \in Users, adminKey(c, op, u) PROVE SessionInv'
    <2>0. UNCHANGED <<users, sessions>>  BY <1>6 DEF adminKey
    <2>1. /\ call'[c] = [Idle EXCEPT !.pc = "lock", !.op = op, !.user = u]
          /\ \A d \in Calls \ {c} : call'[d] = call[d]
      BY <1>6, DoPc DEF adminKey
    <2>2. call'[c].pc = "lock" /\ call'[c].op = op  BY <2>1 DEF Idle
    <2>3. op # "login" /\ op \notin UserOps  BY DEF UserOps, AdminOps
    <2>4. CallInv(c)'
      BY <2>2, <2>3 DEF CallInv, Shape, LoginCurrent, OwnPassword, Revoked, RowRead, Purged,
                        UserOps
    <2> QED  BY <2>0, <2>1, <2>4, QuietKeeps
  <1> QED  BY <1>1, <1>2, <1>3, <1>4, <1>5, <1>6 DEF Arrive

\* Every step of a call keeps the sessions current.
LEMMA StepSession ==
    ASSUME TypeOK, AdminInv, SessionInv, NEW c \in Calls, Step(c)
    PROVE  SessionInv'
  <1>c. call[c] \in Call /\ CallInv(c)  BY DEF TypeOK, SessionInv
  \* A call that moves on with what it had read.
  <1>g. ASSUME NEW pc \in {"register", "update", "revoke", "lock", "guard"}, Goto(c, pc),
               UNCHANGED <<users, sessions>>, call[c].op # "login",
               \/ call[c].op # "password"
               \/ call[c].pc \in {"hash", "update"} /\ pc \in {"update", "revoke"}
        PROVE  SessionInv'
    <2>1. /\ call'[c].pc = pc /\ call'[c].op = call[c].op
          /\ call'[c].user = call[c].user /\ call'[c].token = call[c].token
          /\ \A d \in Calls \ {c} : call'[d] = call[d]
      BY <1>g, GotoPc
    <2>2. Shape(c)' /\ LoginCurrent(c)' /\ Revoked(c)' /\ RowRead(c)' /\ Purged(c)'
      BY <1>g, <2>1 DEF Shape, LoginCurrent, Revoked, RowRead, Purged
    <2>3. OwnPassword(c)'  BY <1>c, <1>g, <2>1 DEF CallInv, OwnPassword
    <2>4. CallInv(c)'  BY <2>2, <2>3 DEF CallInv
    <2> QED  BY <1>g, <2>1, <2>4, QuietKeeps
  <1>1. CASE comparePassword(c)
    <2>0. UNCHANGED <<users, sessions>> /\ call[c].pc = "compare"
      BY <1>1 DEF comparePassword
    <2>1. CASE End(c)  BY <2>0, <2>1, QuietEndKeeps
    <2>2. CASE call[c].row.known /\ Goto(c, "insert")
      <3>1. /\ call'[c].pc = "insert" /\ call'[c].op = call[c].op
            /\ call'[c].user = call[c].user /\ call'[c].row = call[c].row
            /\ call'[c].raced = call[c].raced
            /\ \A d \in Calls \ {c} : call'[d] = call[d]
        BY <2>2, GotoPc
      <3>2. call[c].op = "login"  BY <2>0, <1>c DEF CallInv, Shape
      <3>3. LoginCurrent(c)'  BY <2>0, <3>1, <1>c DEF CallInv, LoginCurrent
      <3>4. CallInv(c)'
        BY <2>2, <3>1, <3>2, <3>3
        DEF CallInv, Shape, OwnPassword, Revoked, RowRead, Purged, UserOps, Guarded
      <3> QED  BY <2>0, <3>1, <3>4, QuietKeeps
    <2> QED  BY <1>1, <2>1, <2>2 DEF comparePassword
  <1>2. ASSUME NEW t \in Tokens, CreateSession(c, t) PROVE SessionInv'
    BY <1>2, CreateSessionKeeps
  <1>3. CASE RegisterUser(c)
    <2> DEFINE u == call[c].user
    <2>0. u \in Users /\ End(c) /\ sessions' = sessions
      BY <1>3 DEF TypeOK, RegisterUser
    <2>1. CASE users[u].known
      BY <1>3, <2>0, <2>1, QuietEndKeeps DEF RegisterUser
    <2>2. CASE ~users[u].known
      <3>1. /\ users'[u] = [known |-> TRUE, role |-> "user", active |-> TRUE, pw |-> 0]
            /\ \A v \in Users : v # u => users'[v] = users[v]
        BY <1>3, <2>0, <2>2 DEF RegisterUser, TypeOK, Unknown
      <3>2. users'[u].known /\ users'[u].pw = 0  BY <3>1
      <3>3. \A d \in Calls : Stays(d) \/ CallInv(d)'
        BY <2>0, EndPc, SameStays, IdleCall
      <3> HIDE DEF u
      <3> QED  BY <2>0, <2>2, <3>1, <3>2, <3>3, NewUserKeeps
    <2> QED  BY <2>1, <2>2
  <1>4. CASE SessionMiddleware(c)
    <2> DEFINE row == users[call[c].user]
               pass == [call[c] EXCEPT !.row = row]
    <2>0. /\ UNCHANGED <<users, sessions>> /\ call[c].pc = "user" /\ call[c].op \in UserOps
          /\ call[c].user \in Users
      BY <1>4 DEF SessionMiddleware, TypeOK
    <2>1. CASE End(c)  BY <2>0, <2>1, QuietEndKeeps
    <2>2. ASSUME NEW pc \in {"drop", "hash"}, Do(c, [pass EXCEPT !.pc = pc]), row.active
          PROVE  SessionInv'
      <3>1. /\ call'[c] = [pass EXCEPT !.pc = pc]
            /\ \A d \in Calls \ {c} : call'[d] = call[d]
        <4> HIDE DEF pass
        <4> QED  BY <2>2, DoPc
      <3>2. /\ call'[c].pc = pc /\ call'[c].op = call[c].op
            /\ call'[c].user = call[c].user /\ call'[c].token = call[c].token
        BY <3>1, <1>c DEF Call
      <3>3. users[call[c].user].known  BY <2>0, <2>2 DEF AdminInv, KnownUsers
      <3>4. call[c].op # "login"  BY <2>0 DEF UserOps
      <3>5. OwnPassword(c)'  BY <2>0, <3>2, <3>3, <1>c DEF CallInv, OwnPassword
      <3>6. CallInv(c)'
        BY <2>0, <3>2, <3>4, <3>5
        DEF CallInv, Shape, LoginCurrent, Revoked, RowRead, Purged
      <3> QED  BY <2>0, <3>1, <3>6, QuietKeeps
    <2>3. \/ End(c)
          \/ row.active /\ Do(c, [pass EXCEPT !.pc = "drop"])
          \/ row.active /\ Do(c, [pass EXCEPT !.pc = "hash"])
      BY <1>4 DEF SessionMiddleware
    <2> QED  BY <2>1, <2>2, <2>3
  <1>5. CASE logout(c)
    <2>1. /\ users' = users /\ End(c)
          /\ \A t \in DOMAIN sessions' : t \in DOMAIN sessions /\ sessions'[t] = sessions[t]
      BY <1>5 DEF logout, Without
    <2> QED  BY <2>1, EndPc, SameStays, IdleCall, ShrinkingStep
  <1>6. CASE GenerateFromPassword(c)
    <2>0. UNCHANGED <<users, sessions>> /\ call[c].pc = "hash"
      BY <1>6 DEF GenerateFromPassword
    <2>1. CASE End(c)  BY <2>0, <2>1, QuietEndKeeps
    <2>2. CASE call[c].op = "register" /\ Goto(c, "register")  BY <2>0, <2>2, <1>g
    <2>3. CASE call[c].op = "password" /\ Goto(c, "update")  BY <2>0, <2>3, <1>g
    <2> QED  BY <1>6, <2>1, <2>2, <2>3 DEF GenerateFromPassword
  <1>7. CASE UpdatePassword(c)
    <2>1. UNCHANGED <<users, sessions>> /\ call[c].pc = "update" /\ Goto(c, "revoke")
      BY <1>7 DEF UpdatePassword
    <2>2. call[c].op # "login"  BY <2>1, <1>c DEF CallInv, Shape
    <2> QED  BY <2>1, <2>2, <1>g
  <1>8. CASE RevokeSessions(c)
    <2> DEFINE doomed == SessionsOf(call[c].user) \ {call[c].token}
    <2>0. /\ UNCHANGED <<users, sessions>> /\ call[c].pc = "revoke"
          /\ call[c].op = "password"
          /\ Do(c, [call[c] EXCEPT !.pc = "commit", !.doomed = doomed])
      BY <1>8 DEF RevokeSessions
    <2>1. /\ call'[c] = [call[c] EXCEPT !.pc = "commit", !.doomed = doomed]
          /\ \A d \in Calls \ {c} : call'[d] = call[d]
      <3> HIDE DEF doomed
      <3> QED  BY <2>0, DoPc
    <2>2. /\ call'[c].pc = "commit" /\ call'[c].op = "password"
          /\ call'[c].user = call[c].user /\ call'[c].token = call[c].token
          /\ call'[c].doomed = doomed
      <3> HIDE DEF doomed
      <3> QED  BY <2>0, <2>1, <1>c DEF Call
    <2>3. Revoked(c)'  BY <2>0, <2>2 DEF Revoked, SessionsOf
    <2>4. OwnPassword(c)'  BY <2>0, <2>2, <1>c DEF CallInv, OwnPassword
    <2>5. CallInv(c)'
      BY <2>2, <2>3, <2>4 DEF CallInv, Shape, LoginCurrent, RowRead, Purged, Guarded
    <2> QED  BY <2>0, <2>1, <2>5, QuietKeeps
  <1>9. CASE UpdateUserPasswordAndRevokeSessions(c)  BY <1>9, PasswordKeeps
  <1>10. CASE authMiddleware(c)
    <2>1. /\ UNCHANGED <<users, sessions>> /\ (End(c) \/ Goto(c, "lock"))
          /\ call[c].op # "login" /\ call[c].op # "password"
      BY <1>10 DEF authMiddleware, AdminOps
    <2> QED  BY <2>1, <1>g, QuietEndKeeps
  <1>11. CASE SetUserActive(c)  BY <1>11, SetUserActiveKeeps
  <1>12. CASE AdvisoryLock(c)
    <2>1. UNCHANGED <<users, sessions>> /\ Goto(c, "guard") /\ call[c].pc = "lock"
      BY <1>12 DEF AdvisoryLock
    <2>2. /\ call'[c].pc = "guard" /\ call'[c].op = call[c].op
          /\ call'[c].user = call[c].user /\ call'[c].token = call[c].token
          /\ \A d \in Calls \ {c} : call'[d] = call[d]
      BY <2>1, GotoPc
    <2>3. call[c].op # "login"  BY <2>1, <1>c DEF CallInv, Shape
    <2>4. OwnPassword(c)'  BY <2>1, <2>2, <1>c DEF CallInv, OwnPassword
    <2>5. CallInv(c)'
      BY <2>2, <2>3, <2>4 DEF CallInv, Shape, LoginCurrent, Revoked, RowRead, Purged
    <2> QED  BY <2>1, <2>2, <2>5, QuietKeeps
  <1>13. CASE DeactivateGuard(c) \/ RoleGuard(c)
    <2>0. /\ UNCHANGED <<users, sessions>> /\ call[c].op \in Guarded
          /\ call[c].op # "login" /\ call[c].op \notin UserOps /\ call[c].user \in Users
      BY <1>13 DEF DeactivateGuard, RoleGuard, Guarded, UserOps, TypeOK
    <2>1. CASE End(c)  BY <2>0, <2>1, QuietEndKeeps
    <2>2. CASE Do(c, [call[c] EXCEPT !.pc = "purge", !.row = users[call[c].user]])
      <3>1. /\ call'[c] = [call[c] EXCEPT !.pc = "purge", !.row = users[call[c].user]]
            /\ \A d \in Calls \ {c} : call'[d] = call[d]
        BY <2>2, DoPc
      <3>2. /\ call'[c].pc = "purge" /\ call'[c].op = call[c].op
            /\ call'[c].user = call[c].user /\ call'[c].row = users[call[c].user]
        BY <3>1, <1>c DEF Call
      <3>3. RowRead(c)'  BY <2>0, <3>2 DEF RowRead
      <3>4. CallInv(c)'
        BY <2>0, <3>2, <3>3
        DEF CallInv, Shape, LoginCurrent, OwnPassword, Revoked, Purged, UserOps
      <3> QED  BY <2>0, <3>1, <3>4, QuietKeeps
    <2> QED  BY <1>13, <2>1, <2>2 DEF DeactivateGuard, RoleGuard
  <1>14. CASE PurgeSessions(c)
    <2> DEFINE skip == call[c].op = "deactivate" /\ ~call[c].row.active
               doomed == IF skip THEN {} ELSE SessionsOf(call[c].user)
    <2>0. /\ UNCHANGED <<users, sessions>> /\ call[c].pc = "purge"
          /\ Do(c, [call[c] EXCEPT !.pc = "commit", !.doomed = doomed])
      BY <1>14 DEF PurgeSessions
    <2>1. /\ call'[c] = [call[c] EXCEPT !.pc = "commit", !.doomed = doomed]
          /\ \A d \in Calls \ {c} : call'[d] = call[d]
      <3> HIDE DEF doomed
      <3> QED  BY <2>0, DoPc
    <2>2. /\ call'[c].pc = "commit" /\ call'[c].op = call[c].op
          /\ call'[c].user = call[c].user /\ call'[c].doomed = doomed
      <3> HIDE DEF doomed
      <3> QED  BY <2>0, <2>1, <1>c DEF Call
    <2>3. call[c].op \in Guarded  BY <2>0, <1>c DEF CallInv, Shape
    <2>4. call[c].op # "login" /\ call[c].op \notin UserOps  BY <2>3 DEF Guarded, UserOps
    <2>5. Purged(c)'
      <3>1. CASE skip
        <4>1. ~users[call[c].user].active  BY <2>0, <3>1, <1>c DEF CallInv, RowRead
        <4> QED  BY <2>0, <2>2, <3>1, <4>1 DEF Purged
      <3>2. CASE ~skip
        <4>1. \A t \in DOMAIN sessions : sessions[t].user = call[c].user => t \in doomed
          BY <3>2 DEF SessionsOf
        <4> HIDE DEF doomed, skip
        <4> QED  BY <2>0, <2>2, <4>1 DEF Purged
      <3> QED  BY <3>1, <3>2
    <2>6. CallInv(c)'
      <3> HIDE DEF doomed, skip
      <3> QED  BY <2>2, <2>4, <2>5
               DEF CallInv, Shape, LoginCurrent, OwnPassword, Revoked, RowRead, UserOps
    <2> QED  BY <2>0, <2>1, <2>6, QuietKeeps
  <1>15. CASE DeactivateUserGuarded(c) \/ UpdateUserRoleGuarded(c)
    BY <1>15, GuardedKeeps
  <1>16. CASE Rollback(c)  BY <1>16, QuietEndKeeps DEF Rollback
  <1> QED
    BY <1>1, <1>2, <1>3, <1>4, <1>5, <1>6, <1>7, <1>8, <1>9, <1>10, <1>11, <1>12, <1>13,
       <1>14, <1>15, <1>16
    DEF Step

\* There are no sessions at the start.
LEMMA InitSession == Init => SessionInv
  <1> SUFFICES ASSUME Init PROVE SessionInv  OBVIOUS
  <1>1. \A u \in Users : users[u].pw = 0
    <2>1. ASSUME NEW u \in Users PROVE users[u].pw = 0
      <3>1. \/ users[u] = Unknown
            \/ users[u] \in [known : {TRUE}, role : Roles, active : BOOLEAN, pw : {0}]
        BY DEF Init
      <3>2. CASE users[u] = Unknown  BY <3>2 DEF Unknown
      <3>3. CASE users[u] \in [known : {TRUE}, role : Roles, active : BOOLEAN, pw : {0}]
        <4>1. users[u].pw \in {0}  BY <3>3
        <4> QED  BY <4>1
      <3> QED  BY <3>1, <3>2, <3>3
    <2> QED  BY <2>1
  <1>2. ASSUME NEW d \in Calls PROVE CallInv(d)
    <2>1. call[d] = Idle  BY DEF Init
    <2> QED
      BY <2>1 DEF CallInv, Shape, LoginCurrent, OwnPassword, Revoked, RowRead, Purged, Idle,
                  UserOps, Guarded
  <1>3. ASSUME NEW t \in DOMAIN sessions PROVE SessionCurrent(t)
    <2>1. /\ sessions[t] \in [user : Users, long : BOOLEAN, pw : {0}, raced : {FALSE}]
          /\ users[sessions[t].user].active
          /\ sessions[t].long = SessionDurationFor(users[sessions[t].user].role)
      <3> DEFINE Fresh == {s \in [user : Users, long : BOOLEAN, pw : {0},
                                 raced : {FALSE}] :
                             /\ users[s.user].active
                             /\ s.long = SessionDurationFor(users[s.user].role)}
      <3>1. PICK known \in SUBSET Tokens : sessions \in [known -> Fresh]
        BY DEF Init
      <3>2. sessions[t] \in Fresh  BY <3>1
      <3> QED  BY <3>2
    <2>2. sessions[t].user \in Users /\ sessions[t].pw = 0  BY <2>1
    <2>3. users[sessions[t].user].pw = 0  BY <1>1, <2>2
    <2> QED  BY <2>1, <2>2, <2>3 DEF SessionCurrent
  <1> QED  BY <1>1, <1>2, <1>3 DEF SessionInv, NoPassword

\* The inductive invariant, on every reachable state.
LEMMA SessionsCurrent == Spec => [](TypeOK /\ SessionInv)
  <1>1. Init => AdminInv /\ SessionInv  BY InitAdmin, InitSession
  <1>2. TypeOK /\ AdminInv /\ SessionInv /\ [Next]_vars => AdminInv' /\ SessionInv'
    <2>1. ASSUME TypeOK, AdminInv, SessionInv, Next PROVE AdminInv' /\ SessionInv'
      BY <2>1, ArriveAdmin, StepAdmin, ArriveSession, StepSession DEF Next
    <2>2. ASSUME AdminInv, SessionInv, UNCHANGED vars PROVE AdminInv' /\ SessionInv'
      <3>1. UNCHANGED <<users, sessions, call>>  BY <2>2 DEF vars
      <3>2. AdminInv'  BY <2>2, <3>1, IdleStep
      <3>3. \A d \in Calls : Stays(d)  BY <3>1, SameStays
      <3> QED  BY <2>2, <3>1, <3>2, <3>3, ShrinkingStep
    <2> QED  BY <2>1, <2>2
  <1> QED  BY <1>1, <1>2, SessionsTypeCorrect, PTL DEF Spec

\* UpdateUserPasswordAndRevokeSessions (store.go): whoever holds a session of a
\* password that is no longer the user's logged in while it was being changed,
\* however password changes, logins, deletions and admin calls interleave.
THEOREM OldPasswordsDie == Spec => []OldPasswordSessionsRaced
  <1>1. SessionInv => OldPasswordSessionsRaced
    BY DEF SessionInv, SessionCurrent, OldPasswordSessionsRaced
  <1> QED  BY <1>1, SessionsCurrent, PTL

\* UpdateUserRoleGuarded and DeactivateUserGuarded (store.go): an admin has no
\* session of a user's lifetime and a disabled user none at all, except for
\* logins that were in flight when the change was committed.
THEOREM OldRolesDie == Spec => []RoleSessionsRaced
  <1>1. ASSUME TypeOK, SessionInv PROVE RoleSessionsRaced
    <2>1. ASSUME NEW t \in DOMAIN sessions, ~sessions[t].raced
          PROVE  /\ users[sessions[t].user].active
                 /\ sessions[t].long = SessionDurationFor(users[sessions[t].user].role)
      <3>1. /\ users[sessions[t].user].active
            /\ sessions[t].long <=> SessionDurationFor(users[sessions[t].user].role)
        BY <1>1, <2>1 DEF SessionInv, SessionCurrent
      <3>2. sessions[t].long \in BOOLEAN  BY <1>1 DEF TypeOK, Session
      <3>3. SessionDurationFor(users[sessions[t].user].role) \in BOOLEAN
        BY DEF SessionDurationFor
      <3> QED  BY <3>1, <3>2, <3>3, Zenon
    <2> QED  BY <2>1 DEF RoleSessionsRaced
  <1> QED  BY <1>1, SessionsCurrent, PTL
=============================================================================
