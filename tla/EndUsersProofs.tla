--------------------------- MODULE EndUsersProofs ---------------------------
(***************************************************************************)
(* Proofs about EndUsers, for any identities, any number of concurrent     *)
(* requests and any months: one account per identity, a dismissal that     *)
(* silences its month, and callers that mark a credit request before they  *)
(* grant, who pay it at most once.                                         *)
(***************************************************************************)
EXTENDS EndUsers, FiniteSetTheorems, SequenceTheorems, TLAPS

\* The states in which a chat request has the account it bills, ...
Billing == {"managed", "reset", "gate", "record", "file"}

\* ... and in which an admin's call has looked at its credit request.
Resolving == {"resolve", "why", "granting", "mark"}

Call == [pc : {"idle", "lookup", "provision", "provisioned", "expire"}
              \cup Billing \cup Resolving,
         id : Identities \cup {NoIdentity}, m : Nat, account : Nat,
         grant : BOOLEAN, request : Nat,
         status : {"none", "granted", "dismissed"}, early : BOOLEAN,
         raced : BOOLEAN]

Account == [for : Identities, period : Nat, blocked : BOOLEAN, credit : BOOLEAN]

Request == [account : Nat, period : Nat,
            status : {"pending", "granted", "dismissed", "expired"},
            raced : BOOLEAN, by : Nat, paid : Nat]

CallsTyped == call \in [Calls -> Call]

AccountsTyped == accounts \in Seq(Account)

RequestsTyped == requests \in Seq(Request)

\* What the calls and rows point to exists.
Linked ==
    /\ \A i \in DOMAIN identity : i \in Identities /\ identity[i] \in 1..Len(accounts)
    /\ \A c \in Calls : call[c].pc \in Billing => call[c].account \in 1..Len(accounts)
    /\ \A c \in Calls : call[c].pc \in Resolving => /\ call[c].request \in 1..Len(requests)
                                                   /\ call[c].status # "none"
    /\ \A r \in 1..Len(requests) : requests[r].account \in 1..Len(accounts)

Typed == CallsTyped /\ AccountsTyped /\ RequestsTyped /\ Linked /\ month \in Nat

\* A call at rest is well typed and stands for nobody.
LEMMA IdleTyped == Idle \in Call /\ Idle.pc = "idle" /\ Idle.id = NoIdentity
  BY DEF Idle, Call

\* The tables are sequences of well typed rows.
LEMMA Domains ==
    ASSUME Typed
    PROVE  /\ Len(accounts) \in Nat /\ DOMAIN accounts = 1..Len(accounts)
           /\ Len(requests) \in Nat /\ DOMAIN requests = 1..Len(requests)
           /\ \A a \in 1..Len(accounts) : accounts[a] \in Account
           /\ \A r \in 1..Len(requests) : requests[r] \in Request
  BY LenProperties, ElementOfSeq DEF Typed, AccountsTyped, RequestsTyped

\* Overwriting an account or a credit request keeps the rest.
LEMMA AccountWritten ==
    ASSUME Typed, NEW a \in 1..Len(accounts), NEW row \in Account,
           accounts' = [accounts EXCEPT ![a] = row]
    PROVE  /\ AccountsTyped' /\ Len(accounts') = Len(accounts)
           /\ \A b \in 1..Len(accounts) : accounts'[b] = IF b = a THEN row ELSE accounts[b]
  BY ExceptSeq DEF Typed, AccountsTyped

\* A rewritten account keeps its owner, and the other rows stay.
LEMMA AccountPatched ==
    ASSUME Typed, NEW a \in 1..Len(accounts), NEW row \in Account,
           row.for = accounts[a].for, accounts' = [accounts EXCEPT ![a] = row]
    PROVE  /\ AccountsTyped' /\ Len(accounts') = Len(accounts)
           /\ \A b \in 1..Len(accounts) : accounts'[b].for = accounts[b].for
  <1>1. /\ AccountsTyped' /\ Len(accounts') = Len(accounts)
        /\ \A b \in 1..Len(accounts) : accounts'[b] = IF b = a THEN row ELSE accounts[b]
    BY AccountWritten
  <1>2. ASSUME NEW b \in 1..Len(accounts) PROVE accounts'[b].for = accounts[b].for
    <2>1. CASE b = a  BY <1>1, <2>1
    <2>2. CASE b # a  BY <1>1, <2>2
    <2> QED  BY <2>1, <2>2
  <1> QED  BY <1>1, <1>2

\* One credit request is rewritten, the others stay.
LEMMA RequestWritten ==
    ASSUME Typed, NEW r \in 1..Len(requests), NEW row \in Request,
           requests' = [requests EXCEPT ![r] = row]
    PROVE  /\ RequestsTyped' /\ Len(requests') = Len(requests)
           /\ \A s \in 1..Len(requests) : requests'[s] = IF s = r THEN row ELSE requests[s]
  BY ExceptSeq DEF Typed, RequestsTyped

\* A new account is appended, the others stay.
LEMMA AccountAdded ==
    ASSUME Typed, NEW row \in Account, accounts' = Append(accounts, row)
    PROVE  /\ AccountsTyped' /\ Len(accounts') = Len(accounts) + 1
           /\ \A b \in 1..Len(accounts) : accounts'[b] = accounts[b]
           /\ accounts'[Len(accounts) + 1] = row
  BY AppendProperties DEF Typed, AccountsTyped

\* A new credit request is appended, the others stay.
LEMMA RequestAdded ==
    ASSUME Typed, NEW row \in Request, requests' = Append(requests, row)
    PROVE  /\ RequestsTyped' /\ Len(requests') = Len(requests) + 1
           /\ \A s \in 1..Len(requests) : requests'[s] = requests[s]
           /\ requests'[Len(requests) + 1] = row
  BY AppendProperties DEF Typed, RequestsTyped

----------------------------------------------------------------------------
(***************************************************************************)
(* What each group of actions does, in the words of the invariants         *)
(***************************************************************************)

\* A call that did not take the step may at most have been marked as overtaken.
Stays(d) ==
    /\ call'[d].pc = call[d].pc /\ call'[d].id = call[d].id
    /\ call'[d].m = call[d].m /\ call'[d].account = call[d].account
    /\ call'[d].request = call[d].request /\ call'[d].status = call[d].status
    /\ call[d].raced => call'[d].raced

Moves(c) == CallsTyped' /\ \A d \in Calls \ {c} : Stays(d)

\* Do moves its call and no other.
LEMMA DoMoves ==
    ASSUME Typed, NEW c \in Calls, NEW next \in Call, Do(c, next)
    PROVE  Moves(c) /\ call'[c] = next /\ month' = month
  BY DEF Typed, CallsTyped, Do, Moves, Stays

\* Goto moves its call to another step and keeps its arguments.
LEMMA GotoMoves ==
    ASSUME Typed, NEW c \in Calls, NEW pc, Goto(c, pc),
           pc \in {"lookup", "provision", "provisioned", "expire"} \cup Billing \cup Resolving
    PROVE  /\ Moves(c) /\ month' = month
           /\ call'[c].pc = pc /\ call'[c].id = call[c].id /\ call'[c].m = call[c].m
           /\ call'[c].account = call[c].account /\ call'[c].request = call[c].request
           /\ call'[c].status = call[c].status
  <1>1. call[c] \in Call  BY DEF Typed, CallsTyped
  <1>2. [call[c] EXCEPT !.pc = pc] \in Call  BY <1>1 DEF Call
  <1>3. Moves(c) /\ call'[c] = [call[c] EXCEPT !.pc = pc] /\ month' = month
    BY <1>2, DoMoves DEF Goto
  <1> QED  BY <1>1, <1>3 DEF Call

\* End puts its call to rest.
LEMMA EndMoves ==
    ASSUME Typed, NEW c \in Calls, End(c)
    PROVE  Moves(c) /\ call'[c] = Idle /\ month' = month
  BY IdleTyped, DoMoves DEF End

\* A call begins with the month it reads.
LEMMA BeginMoves ==
    ASSUME Typed, NEW c \in Calls, NEW next \in Call, Begin(c, next)
    PROVE  Moves(c) /\ call'[c] = [next EXCEPT !.m = month]
  <1>1. [next EXCEPT !.m = month] \in Call  BY DEF Typed, Call
  <1> QED  BY <1>1 DEF Typed, CallsTyped, Begin, Moves, Stays

----------------------------------------------------------------------------
(***************************************************************************)
(* One account per identity                                                *)
(*                                                                         *)
(* The property speaks of committed rows; what keeps a second account out  *)
(* is the uncommitted one: at most one call has a provisional account for  *)
(* an identity, and then the identity is not known yet.                    *)
(***************************************************************************)

Named(k) == k.id # NoIdentity /\ k.account # 0

IdentityInv ==
    /\ IsFiniteSet(DOMAIN identity) /\ Len(accounts) = Cardinality(DOMAIN identity)
    /\ \A i \in DOMAIN identity : accounts[identity[i]].for = i
    /\ \A c \in Calls : call[c].pc \in {"lookup", "provision", "provisioned"}
                        => call[c].id \in Identities
    /\ \A c \in Calls : call[c].pc = "provisioned" => call[c].id \notin DOMAIN identity
    /\ \A c, d \in Calls :
         /\ call[c].pc = "provisioned" /\ call[d].pc = "provisioned"
         /\ call[c].id = call[d].id
         => c = d
    /\ \A c \in Calls : Named(call[c]) => /\ call[c].account \in 1..Len(accounts)
                                         /\ accounts[call[c].account].for = call[c].id

\* What a call may look like after a step that provisions nothing.
Sound(k) ==
    /\ k.pc # "provisioned"
    /\ k.pc \in {"lookup", "provision"} => k.id \in Identities
    /\ k.pc \in Billing \/ Named(k) => k.account \in 1..Len(accounts)
    /\ Named(k) => accounts[k.account].for = k.id
    /\ k.pc \in Resolving => k.request \in 1..Len(requests) /\ k.status # "none"

\* A step that keeps the identities and whose account each row is, and takes
\* its call to a sound state, keeps the invariant.
LEMMA KeepsIdentities ==
    ASSUME Typed, IdentityInv, NEW c \in Calls, Moves(c), Sound(call'[c]),
           month' \in Nat, identity' = identity,
           AccountsTyped', Len(accounts') = Len(accounts),
           \A a \in 1..Len(accounts) : accounts'[a].for = accounts[a].for,
           RequestsTyped', Len(requests) <= Len(requests'),
           \A r \in 1..Len(requests') : requests'[r].account \in 1..Len(accounts)
    PROVE  Typed' /\ IdentityInv'
  <1>0. Len(requests) \in Nat /\ Len(requests') \in Nat
    BY LenProperties DEF Typed, RequestsTyped
  <1>1. Linked'
    <2>1. ASSUME NEW d \in Calls
          PROVE  /\ call'[d].pc \in Billing => call'[d].account \in 1..Len(accounts')
                 /\ call'[d].pc \in Resolving => /\ call'[d].request \in 1..Len(requests')
                                                /\ call'[d].status # "none"
      <3>1. CASE d = c  BY <1>0, <3>1 DEF Sound
      <3>2. CASE d # c  BY <1>0, <3>2 DEF Moves, Stays, Typed, Linked
      <3> QED  BY <3>1, <3>2
    <2> QED  BY <2>1 DEF Typed, Linked
  <1>2. Typed'  BY <1>1 DEF Typed, Moves
  <1>3. ASSUME NEW d \in Calls
        PROVE  /\ call'[d].pc \in {"lookup", "provision", "provisioned"}
                  => call'[d].id \in Identities
               /\ call'[d].pc = "provisioned" => /\ d # c
                                                 /\ call'[d].id \notin DOMAIN identity
               /\ Named(call'[d]) => /\ call'[d].account \in 1..Len(accounts)
                                     /\ accounts'[call'[d].account].for = call'[d].id
    <2>1. CASE d = c  BY <2>1 DEF Sound
    <2>2. CASE d # c  BY <2>2 DEF Moves, Stays, IdentityInv, Named
    <2> QED  BY <2>1, <2>2
  <1>4. \A i \in DOMAIN identity : accounts'[identity[i]].for = i
    BY DEF Typed, Linked, IdentityInv
  <1>5. ASSUME NEW d \in Calls, NEW e \in Calls, call'[d].pc = "provisioned",
               call'[e].pc = "provisioned", call'[d].id = call'[e].id
        PROVE  d = e
    <2>1. d # c /\ e # c  BY <1>3, <1>5
    <2> QED  BY <1>5, <2>1 DEF Moves, Stays, IdentityInv
  <1> QED  BY <1>2, <1>3, <1>4, <1>5 DEF IdentityInv

\* The same when accounts and credit requests are left alone.
LEMMA KeepsTables ==
    ASSUME Typed, IdentityInv, NEW c \in Calls, Moves(c), Sound(call'[c]),
           month' \in Nat, UNCHANGED <<identity, accounts, requests>>
    PROVE  Typed' /\ IdentityInv'
  <1>1. Len(requests) \in Nat  BY Domains
  <1>2. AccountsTyped' /\ RequestsTyped'  BY DEF Typed, AccountsTyped, RequestsTyped
  <1>3. \A r \in 1..Len(requests) : requests[r].account \in 1..Len(accounts)
    BY DEF Typed, Linked
  <1> QED  BY <1>1, <1>2, <1>3, KeepsIdentities

\* A call at rest claims nothing.
LEMMA IdleSound == Sound(Idle)
  BY DEF Sound, Idle, Named, Billing, Resolving

\* A step that files, marks and pays no credit request.
Quiet(c) == Moves(c) /\ requests' = requests /\ call'[c].pc \notin {"file", "granting"}

\* A grant leaves every account with its owner.
LEMMA GrantPatches ==
    ASSUME Typed, NEW a \in 1..Len(accounts), grantCredits(a)
    PROVE  /\ AccountsTyped' /\ Len(accounts') = Len(accounts)
           /\ \A b \in 1..Len(accounts) : accounts'[b].for = accounts[b].for
  <1>1. PICK left \in BOOLEAN : accounts' = [accounts EXCEPT ![a].credit = left]
    BY DEF grantCredits
  <1> DEFINE row == [accounts[a] EXCEPT !.credit = left]
  <1>2. accounts[a] \in Account  BY Domains
  <1>3. row \in Account /\ row.for = accounts[a].for  BY <1>2 DEF Account
  <1>4. accounts' = [accounts EXCEPT ![a] = row]  BY <1>1
  <1> HIDE DEF row
  <1> QED  BY <1>3, <1>4, AccountPatched

\* The arrival of a call keeps the identities and touches no request.
LEMMA ArriveKept ==
    ASSUME Typed, IdentityInv, NEW c \in Calls, Arrive(c)
    PROVE  Typed' /\ IdentityInv' /\ Quiet(c)
  <1>0. month \in Nat /\ Idle \in Call  BY IdleTyped DEF Typed
  <1>1. ASSUME NEW i \in Identities, Middleware(c, i)
        PROVE  Typed' /\ IdentityInv' /\ Quiet(c)
    <2> DEFINE next == [Idle EXCEPT !.pc = "lookup", !.id = i]
    <2>1. next \in Call  BY DEF Idle, Call
    <2>2. Moves(c) /\ call'[c] = [next EXCEPT !.m = month]
      BY <1>1, <2>1, BeginMoves DEF Middleware
    <2>3. Sound(call'[c]) /\ call'[c].pc = "lookup"
      BY <2>2 DEF Sound, Idle, Named, Billing, Resolving
    <2> QED  BY <1>0, <1>1, <2>2, <2>3, KeepsTables DEF Middleware, Quiet
  <1>2. ASSUME ListCreditRequests(c) PROVE Typed' /\ IdentityInv' /\ Quiet(c)
    <2> DEFINE next == [Idle EXCEPT !.pc = "expire"]
    <2>1. next \in Call  BY DEF Idle, Call
    <2>2. Moves(c) /\ call'[c] = [next EXCEPT !.m = month]
      BY <1>2, <2>1, BeginMoves DEF ListCreditRequests
    <2>3. Sound(call'[c]) /\ call'[c].pc = "expire"
      BY <2>2 DEF Sound, Idle, Named, Billing, Resolving
    <2> QED  BY <1>0, <1>2, <2>2, <2>3, KeepsTables DEF ListCreditRequests, Quiet
  <1>3. ASSUME NEW r \in DOMAIN requests, NEW status \in {"granted", "dismissed"},
               resolveCreditRequest(c, r, status)
        PROVE  Typed' /\ IdentityInv' /\ Quiet(c)
    <2> DEFINE next == [Idle EXCEPT !.pc = "resolve", !.request = r, !.status = status]
    <2>0. r \in 1..Len(requests) /\ Len(requests) \in Nat /\ r \in Nat  BY Domains
    <2>1. next \in Call
      <3>1. "resolve" \in Resolving /\ status \in {"none", "granted", "dismissed"}
        BY DEF Resolving
      <3> QED  BY <2>0, <3>1 DEF Idle, Call
    <2>2. Moves(c) /\ call'[c] = [next EXCEPT !.m = month]
      BY <1>3, <2>1, BeginMoves DEF resolveCreditRequest
    <2>3. Sound(call'[c]) /\ call'[c].pc = "resolve"
      BY <2>0, <2>2 DEF Sound, Idle, Named, Billing, Resolving
    <2> QED  BY <1>0, <1>3, <2>2, <2>3, KeepsTables DEF resolveCreditRequest, Quiet
  <1>4. ASSUME NEW a \in DOMAIN accounts, NEW blocked \in BOOLEAN,
               SetMonthlyGrant(c, a, blocked)
        PROVE  Typed' /\ IdentityInv' /\ Quiet(c)
    <2> DEFINE row == [accounts[a] EXCEPT !.blocked = blocked]
    <2>0. a \in 1..Len(accounts) /\ accounts[a] \in Account /\ Len(requests) \in Nat
      BY Domains
    <2>1. row \in Account /\ row.for = accounts[a].for  BY <2>0 DEF Account
    <2>2. accounts' = [accounts EXCEPT ![a] = row]  BY <1>4 DEF SetMonthlyGrant
    <2>3. /\ AccountsTyped' /\ Len(accounts') = Len(accounts)
          /\ \A b \in 1..Len(accounts) : accounts'[b].for = accounts[b].for
      <3> HIDE DEF row
      <3> QED  BY <2>0, <2>1, <2>2, AccountPatched
    <2>4. Moves(c) /\ call'[c] = [Idle EXCEPT !.m = month]
      BY <1>0, <1>4, BeginMoves DEF SetMonthlyGrant
    <2>5. Sound(call'[c]) /\ call'[c].pc = "idle"
      BY <2>4 DEF Sound, Idle, Named, Billing, Resolving
    <2>6. /\ requests' = requests /\ RequestsTyped' /\ identity' = identity
          /\ \A r \in 1..Len(requests') : requests'[r].account \in 1..Len(accounts)
          /\ month' = month
      BY <1>4 DEF SetMonthlyGrant, Typed, RequestsTyped, Linked
    <2> QED  BY <1>0, <2>0, <2>3, <2>4, <2>5, <2>6, KeepsIdentities DEF Quiet
  <1>5. ASSUME NEW a \in DOMAIN accounts, Grant(c, a)
        PROVE  Typed' /\ IdentityInv' /\ Quiet(c)
    <2>0. a \in 1..Len(accounts) /\ Len(requests) \in Nat  BY Domains
    <2>1. /\ AccountsTyped' /\ Len(accounts') = Len(accounts)
          /\ \A b \in 1..Len(accounts) : accounts'[b].for = accounts[b].for
      BY <1>5, <2>0, GrantPatches DEF Grant
    <2>2. Moves(c) /\ call'[c] = [Idle EXCEPT !.m = month]
      BY <1>0, <1>5, BeginMoves DEF Grant
    <2>3. Sound(call'[c]) /\ call'[c].pc = "idle"
      BY <2>2 DEF Sound, Idle, Named, Billing, Resolving
    <2>4. /\ requests' = requests /\ RequestsTyped' /\ identity' = identity
          /\ \A r \in 1..Len(requests') : requests'[r].account \in 1..Len(accounts)
          /\ month' = month
      BY <1>5 DEF Grant, Typed, RequestsTyped, Linked
    <2> QED  BY <1>0, <2>0, <2>1, <2>2, <2>3, <2>4, KeepsIdentities DEF Quiet
  <1>6. ASSUME NEW r \in DOMAIN requests, TopUp(c, r)
        PROVE  Typed' /\ IdentityInv' /\ Quiet(c)
    <2> DEFINE next == [Idle EXCEPT !.pc = "mark", !.request = r,
                                    !.status = "granted", !.early = TRUE]
    <2>0. /\ r \in 1..Len(requests) /\ Len(requests) \in Nat /\ r \in Nat
          /\ requests[r].account \in 1..Len(accounts)
      BY Domains DEF Typed, Linked
    <2>1. /\ AccountsTyped' /\ Len(accounts') = Len(accounts)
          /\ \A b \in 1..Len(accounts) : accounts'[b].for = accounts[b].for
      BY <1>6, <2>0, GrantPatches DEF TopUp
    <2>2. next \in Call
      <3>1. "mark" \in Resolving  BY DEF Resolving
      <3> QED  BY <2>0, <3>1 DEF Idle, Call
    <2>3. Moves(c) /\ call'[c] = [next EXCEPT !.m = month]
      BY <1>6, <2>2, BeginMoves DEF TopUp
    <2>4. Sound(call'[c]) /\ call'[c].pc = "mark"
      BY <2>0, <2>3 DEF Sound, Idle, Named, Billing, Resolving
    <2>5. /\ requests' = requests /\ RequestsTyped' /\ identity' = identity
          /\ \A s \in 1..Len(requests') : requests'[s].account \in 1..Len(accounts)
          /\ month' = month
      BY <1>6 DEF TopUp, Typed, RequestsTyped, Linked
    <2> QED  BY <1>0, <2>0, <2>1, <2>3, <2>4, <2>5, KeepsIdentities DEF Quiet
  <1> QED  BY <1>1, <1>2, <1>3, <1>4, <1>5, <1>6 DEF Arrive

\* The steps of a chat call keep the identities and touch no request.
LEMMA ChatKept ==
    ASSUME Typed, IdentityInv, NEW c \in Calls,
           \/ lookupFederatedAccount(c) \/ provisionFederatedAccount(c)
           \/ commitProvision(c) \/ Fail(c) \/ readAllowance(c)
           \/ applyMonthlyAllowance(c) \/ CreditGate(c)
    PROVE  Typed' /\ IdentityInv' /\ Quiet(c)
  <1>0. /\ month \in Nat /\ call[c] \in Call
        /\ Len(accounts) \in Nat /\ Len(requests) \in Nat
    BY Domains DEF Typed, CallsTyped
  <1>1. CASE lookupFederatedAccount(c)
    <2>1. call[c].id \in Identities /\ call[c].id # NoIdentity
      BY <1>1, NoIdentityAssumption DEF lookupFederatedAccount, IdentityInv
    <2>2. CASE Known(call[c].id)
      <3> DEFINE next == [call[c] EXCEPT !.pc = "managed", !.account = identity[call[c].id]]
      <3>1. /\ identity[call[c].id] \in 1..Len(accounts) /\ identity[call[c].id] \in Nat
            /\ accounts[identity[call[c].id]].for = call[c].id
        BY <1>0, <2>2 DEF Known, Typed, Linked, IdentityInv
      <3>2. next \in Call  BY <1>0, <3>1 DEF Call, Billing
      <3>3. Moves(c) /\ call'[c] = next /\ month' = month
        BY <1>1, <2>2, <3>2, DoMoves DEF lookupFederatedAccount
      <3>4. /\ call'[c].pc = "managed" /\ call'[c].id = call[c].id
            /\ call'[c].account = identity[call[c].id]
        BY <1>0, <3>3 DEF Call
      <3>5. Sound(call'[c])
        BY <3>1, <3>4 DEF Sound, Billing, Resolving
      <3> QED  BY <1>0, <1>1, <3>3, <3>4, <3>5, KeepsTables DEF lookupFederatedAccount, Quiet
    <2>3. CASE ~Known(call[c].id)
      <3>1. /\ Moves(c) /\ month' = month /\ call'[c].pc = "provision"
            /\ call'[c].id = call[c].id /\ call'[c].account = call[c].account
        BY <1>1, <2>3, GotoMoves DEF lookupFederatedAccount
      <3>2. Sound(call'[c])
        BY <2>1, <3>1 DEF Sound, Billing, Resolving, Named, IdentityInv
      <3> QED  BY <1>0, <1>1, <3>1, <3>2, KeepsTables DEF lookupFederatedAccount, Quiet
    <2> QED  BY <2>2, <2>3
  <1>2. CASE provisionFederatedAccount(c)
    <2>1. call[c].id \in Identities /\ ~Inserting(call[c].id) /\ UNCHANGED <<identity, accounts, requests>>
      BY <1>2 DEF provisionFederatedAccount, IdentityInv
    <2>2. /\ Moves(c) /\ month' = month
          /\ call'[c].pc = IF Known(call[c].id) THEN "lookup" ELSE "provisioned"
          /\ call'[c].id = call[c].id /\ call'[c].account = call[c].account
      BY <1>2, GotoMoves DEF provisionFederatedAccount
    <2>3. Quiet(c)  BY <2>1, <2>2 DEF Quiet
    <2>4. CASE Known(call[c].id)
      <3>1. Sound(call'[c])
        BY <2>1, <2>2, <2>4 DEF Sound, Billing, Resolving, Named, IdentityInv
      <3> QED  BY <1>0, <2>1, <2>2, <2>3, <3>1, KeepsTables
    <2>5. CASE ~Known(call[c].id)
      <3>1. \A d \in Calls \ {c} : call[d].pc = "provisioned" => call[d].id # call[c].id
        BY <2>1 DEF Inserting
      <3>2. call[c].id \notin DOMAIN identity  BY <2>5 DEF Known
      <3>3. Typed'
        <4>1. \A d \in Calls : call'[d].pc \in Billing \cup Resolving => d # c
          BY <2>2, <2>5 DEF Billing, Resolving
        <4>2. Linked'
          BY <2>1, <2>2, <4>1 DEF Moves, Stays, Typed, Linked
        <4> QED  BY <1>0, <2>1, <2>2, <4>2
                 DEF Typed, AccountsTyped, RequestsTyped, Moves
      <3>4. \A d \in Calls : /\ d # c => Stays(d)
                             /\ call'[d].id = call[d].id
                             /\ call'[d].account = call[d].account
        BY <2>2 DEF Moves, Stays
      <3>5. call'[c].pc = "provisioned"  BY <2>2, <2>5
      <3>6. \A d, e \in Calls :
               /\ call'[d].pc = "provisioned" /\ call'[e].pc = "provisioned"
               /\ call'[d].id = call'[e].id
               => d = e
        BY <3>1, <3>4 DEF Stays, IdentityInv
      <3>7. \A d \in Calls : call'[d].pc \in {"lookup", "provision", "provisioned"}
                             => call'[d].id \in Identities
        BY <2>1, <3>4 DEF Stays, IdentityInv
      <3>8. \A d \in Calls : call'[d].pc = "provisioned" => call'[d].id \notin DOMAIN identity
        BY <3>2, <3>4 DEF Stays, IdentityInv
      <3>9. IdentityInv'
        BY <2>1, <3>4, <3>6, <3>7, <3>8 DEF IdentityInv, Named
      <3> QED  BY <2>3, <3>3, <3>9
    <2> QED  BY <2>4, <2>5
  <1>3. CASE commitProvision(c)
    <2> DEFINE a == Len(accounts) + 1
               i == call[c].id
               row == [for |-> i, period |-> 0, blocked |-> FALSE, credit |-> FALSE]
               next == [call[c] EXCEPT !.pc = "managed", !.account = a]
    <2>1. i \in Identities /\ i \notin DOMAIN identity /\ i # NoIdentity
      BY <1>3, NoIdentityAssumption DEF commitProvision, IdentityInv
    <2>2. row \in Account  BY <2>1 DEF Account
    <2>3. /\ accounts' = Append(accounts, row) /\ requests' = requests
          /\ identity' = [j \in DOMAIN identity \cup {i} |-> IF j = i THEN a ELSE identity[j]]
      BY <1>3 DEF commitProvision
    <2>4. /\ AccountsTyped' /\ Len(accounts') = a
          /\ \A b \in 1..Len(accounts) : accounts'[b] = accounts[b]
          /\ accounts'[a].for = i
      <3>1. row.for = i  OBVIOUS
      <3> HIDE DEF row
      <3> QED  BY <2>2, <2>3, <3>1, AccountAdded
    <2>5. next \in Call
      <3>1. a \in Nat  BY <1>0
      <3> HIDE DEF a
      <3> QED  BY <1>0, <3>1 DEF Call, Billing
    <2>6. Moves(c) /\ call'[c] = next /\ month' = month
      BY <1>3, <2>5, DoMoves DEF commitProvision
    <2>7. call'[c].pc = "managed" /\ call'[c].id = i /\ call'[c].account = a
      BY <1>0, <2>6 DEF Call
    <2>8. Quiet(c)  BY <2>3, <2>6, <2>7 DEF Quiet
    <2>9. DOMAIN identity' = DOMAIN identity \cup {i}  BY <2>3
    <2>10. \A j \in DOMAIN identity' : identity'[j] = IF j = i THEN a ELSE identity[j]
      BY <2>3
    <2>11. a \in Nat /\ \A b \in 1..Len(accounts) : b \in 1..a /\ b # a
      BY <1>0
    <2>12. a \in 1..a  BY <1>0
    <2> HIDE DEF a, i, row, next
    <2>13. \A d \in Calls \ {c} : Stays(d)  BY <2>6 DEF Moves
    <2>14. Linked'
      <3>1. \A j \in DOMAIN identity' : j \in Identities /\ identity'[j] \in 1..a
        BY <2>1, <2>9, <2>10, <2>11, <2>12 DEF Typed, Linked
      <3>2. \A d \in Calls : call'[d].pc \in Billing => call'[d].account \in 1..a
        BY <2>7, <2>11, <2>12, <2>13 DEF Stays, Typed, Linked
      <3>3. \A d \in Calls : call'[d].pc \in Resolving => /\ call'[d].request \in 1..Len(requests)
                                                         /\ call'[d].status # "none"
        BY <2>7, <2>13 DEF Stays, Typed, Linked, Resolving
      <3>4. \A r \in 1..Len(requests) : requests[r].account \in 1..a
        BY <2>11 DEF Typed, Linked
      <3> QED  BY <2>3, <2>4, <3>1, <3>2, <3>3, <3>4 DEF Linked
    <2>15. Typed'
      BY <1>0, <2>3, <2>4, <2>6, <2>14 DEF Typed, RequestsTyped, Moves
    <2>16. IsFiniteSet(DOMAIN identity') /\ Len(accounts') = Cardinality(DOMAIN identity')
      <3>1. /\ IsFiniteSet(DOMAIN identity \cup {i})
            /\ Cardinality(DOMAIN identity \cup {i}) = Cardinality(DOMAIN identity) + 1
        BY <2>1, FS_AddElement DEF IdentityInv
      <3> QED  BY <2>4, <2>9, <3>1 DEF IdentityInv, a
    <2>17. \A j \in DOMAIN identity' : accounts'[identity'[j]].for = j
      BY <2>4, <2>9, <2>10 DEF IdentityInv, Typed, Linked
    <2>18. \A d \in Calls :
             /\ call'[d].pc \in {"lookup", "provision", "provisioned"}
                => call'[d].id \in Identities
             /\ call'[d].pc = "provisioned" => call'[d].id \notin DOMAIN identity'
      BY <1>3, <2>7, <2>9, <2>13 DEF Stays, IdentityInv, commitProvision, i
    <2>19. \A d, e \in Calls :
             /\ call'[d].pc = "provisioned" /\ call'[e].pc = "provisioned"
             /\ call'[d].id = call'[e].id
             => d = e
      BY <2>7, <2>13 DEF Stays, IdentityInv
    <2>20. \A d \in Calls : Named(call'[d]) => /\ call'[d].account \in 1..a
                                              /\ accounts'[call'[d].account].for = call'[d].id
      BY <2>4, <2>7, <2>11, <2>12, <2>13 DEF Stays, IdentityInv, Named
    <2>21. IdentityInv'
      BY <2>4, <2>16, <2>17, <2>18, <2>19, <2>20 DEF IdentityInv
    <2> QED  BY <2>8, <2>15, <2>21
  <1>4. CASE Fail(c)
    <2>1. Moves(c) /\ call'[c] = Idle /\ month' = month /\ UNCHANGED <<identity, accounts, requests>>
      BY <1>4, EndMoves DEF Fail
    <2> QED  BY <1>0, <2>1, IdleSound, IdleTyped, KeepsTables DEF Quiet
  <1>5. CASE readAllowance(c)
    <2> DEFINE next == [call[c] EXCEPT !.pc = "reset",
                           !.grant = ~accounts[call[c].account].blocked]
    <2>1. next \in Call  BY <1>0 DEF Call, Billing
    <2>2. Moves(c) /\ call'[c] = next /\ month' = month /\ UNCHANGED <<identity, accounts, requests>>
      BY <1>5, <2>1, DoMoves DEF readAllowance
    <2>3. /\ call'[c].pc = "reset" /\ call'[c].id = call[c].id
          /\ call'[c].account = call[c].account
      BY <1>0, <2>2 DEF Call
    <2>4. Sound(call'[c])
      BY <1>5, <2>3 DEF Sound, readAllowance, Typed, Linked, IdentityInv, Named, Billing, Resolving
    <2> QED  BY <1>0, <2>2, <2>3, <2>4, KeepsTables DEF Quiet
  <1>6. CASE applyMonthlyAllowance(c)
    <2> DEFINE a == call[c].account
               row == [accounts[a] EXCEPT !.period = call[c].m, !.credit = call[c].grant]
    <2>0. a \in 1..Len(accounts) /\ accounts[a] \in Account
      BY <1>6, Domains DEF applyMonthlyAllowance, Typed, Linked, Billing
    <2>1. /\ Moves(c) /\ month' = month /\ call'[c].pc = "gate"
          /\ call'[c].id = call[c].id /\ call'[c].account = a
      BY <1>6, GotoMoves DEF applyMonthlyAllowance, Billing
    <2>2. UNCHANGED <<identity, requests>>  BY <1>6 DEF applyMonthlyAllowance
    <2>3. row \in Account /\ row.for = accounts[a].for  BY <1>0, <2>0 DEF Account, Call
    <2>4. accounts' = accounts \/ accounts' = [accounts EXCEPT ![a] = row]
      BY <1>6 DEF applyMonthlyAllowance
    <2>5. Sound(call'[c])
      BY <2>0, <2>1 DEF Sound, IdentityInv, Named, Billing, Resolving
    <2>6. /\ AccountsTyped' /\ Len(accounts') = Len(accounts)
          /\ \A b \in 1..Len(accounts) : accounts'[b].for = accounts[b].for
      <3> HIDE DEF a, row
      <3>1. CASE accounts' = accounts  BY <3>1 DEF Typed, AccountsTyped
      <3>2. CASE accounts' = [accounts EXCEPT ![a] = row]
        BY <2>0, <2>3, <3>2, AccountPatched
      <3> QED  BY <2>4, <3>1, <3>2
    <2>7. RequestsTyped' /\ \A r \in 1..Len(requests') : requests'[r].account \in 1..Len(accounts)
      BY <2>2 DEF Typed, RequestsTyped, Linked
    <2> QED  BY <1>0, <2>1, <2>2, <2>5, <2>6, <2>7, KeepsIdentities DEF Quiet
  <1>7. CASE CreditGate(c)
    <2> DEFINE a == call[c].account
    <2>0. a \in 1..Len(accounts) /\ accounts[a] \in Account
      BY <1>7, Domains DEF CreditGate, Typed, Linked, Billing
    <2>1. CASE End(c) /\ \E left \in BOOLEAN : accounts' = [accounts EXCEPT ![a].credit = left]
      <3>1. PICK left \in BOOLEAN : accounts' = [accounts EXCEPT ![a].credit = left]
        BY <2>1
      <3> DEFINE row == [accounts[a] EXCEPT !.credit = left]
      <3>2. row \in Account /\ row.for = accounts[a].for  BY <2>0 DEF Account
      <3>3. accounts' = [accounts EXCEPT ![a] = row]  BY <3>1
      <3>4. /\ AccountsTyped' /\ Len(accounts') = Len(accounts)
            /\ \A b \in 1..Len(accounts) : accounts'[b].for = accounts[b].for
        <4> HIDE DEF a, row
        <4> QED  BY <2>0, <3>2, <3>3, AccountPatched
      <3>5. Moves(c) /\ call'[c] = Idle /\ month' = month  BY <2>1, EndMoves
      <3>6. /\ UNCHANGED <<identity, requests>> /\ RequestsTyped'
            /\ \A r \in 1..Len(requests') : requests'[r].account \in 1..Len(accounts)
        BY <1>7 DEF CreditGate, Typed, RequestsTyped, Linked
      <3> QED  BY <1>0, <3>4, <3>5, <3>6, IdleSound, IdleTyped, KeepsIdentities DEF Quiet
    <2>2. CASE Goto(c, "record") /\ UNCHANGED accounts
      <3>1. /\ Moves(c) /\ month' = month /\ call'[c].pc = "record"
            /\ call'[c].id = call[c].id /\ call'[c].account = a
        BY <2>2, GotoMoves DEF Billing
      <3>2. Sound(call'[c])
        BY <2>0, <3>1 DEF Sound, IdentityInv, Named, Billing, Resolving
      <3> QED  BY <1>0, <1>7, <2>2, <3>1, <3>2, KeepsTables DEF CreditGate, Quiet
    <2> QED  BY <1>7, <2>1, <2>2 DEF CreditGate
  <1> QED  BY <1>1, <1>2, <1>3, <1>4, <1>5, <1>6, <1>7

\* The recorder's subquery.
LEMMA RecordKept ==
    ASSUME Typed, IdentityInv, NEW c \in Calls, recordCapHit(c)
    PROVE  /\ Typed' /\ IdentityInv' /\ Moves(c) /\ requests' = requests
           /\ call'[c].pc # "granting"
           /\ call'[c].pc = "file" => ~Silenced(call'[c].account, call'[c].m)
  <1>0. /\ month \in Nat /\ call[c] \in Call /\ UNCHANGED <<identity, accounts, requests>>
        /\ call[c].account \in 1..Len(accounts)
    BY DEF Typed, CallsTyped, Linked, recordCapHit, Billing
  <1>1. CASE End(c)
    <2>1. Moves(c) /\ call'[c] = Idle /\ month' = month  BY <1>1, EndMoves
    <2> QED  BY <1>0, <2>1, IdleSound, IdleTyped, KeepsTables
  <1>2. CASE /\ ~Silenced(call[c].account, month)
             /\ Do(c, [call[c] EXCEPT !.pc = "file", !.m = month])
    <2> DEFINE next == [call[c] EXCEPT !.pc = "file", !.m = month]
    <2>1. next \in Call  BY <1>0 DEF Call, Billing
    <2>2. Moves(c) /\ call'[c] = next /\ month' = month  BY <1>2, <2>1, DoMoves
    <2>3. /\ call'[c].pc = "file" /\ call'[c].id = call[c].id
          /\ call'[c].account = call[c].account /\ call'[c].m = month
      BY <1>0, <2>2 DEF Call
    <2>4. Sound(call'[c])
      BY <1>0, <2>3 DEF Sound, IdentityInv, Named, Billing, Resolving
    <2>5. Typed' /\ IdentityInv'  BY <1>0, <2>2, <2>4, KeepsTables
    <2> QED  BY <1>0, <1>2, <2>2, <2>3, <2>5
  <1> QED  BY <1>1, <1>2 DEF recordCapHit

\* A request is filed behind all others, unless one is pending.
Files(c) ==
    /\ call[c].pc = "file"
    /\ ~Has(call[c].account, call[c].m, {"pending"})
    /\ Len(requests') = Len(requests) + 1
    /\ \A s \in 1..Len(requests) : requests'[s] = requests[s]
    /\ LET new == requests'[Len(requests) + 1]
       IN  /\ new.account = call[c].account /\ new.period = call[c].m
           /\ new.status = "pending" /\ new.raced = call[c].raced /\ new.paid = 0

\* Filing a credit request adds at most that request.
LEMMA FileKept ==
    ASSUME Typed, IdentityInv, NEW c \in Calls, FileCreditRequest(c)
    PROVE  /\ Typed' /\ IdentityInv' /\ Moves(c) /\ call'[c] = Idle
           /\ requests' = requests \/ Files(c)
  <1> DEFINE new == [account |-> call[c].account, period |-> call[c].m,
                     status |-> "pending", raced |-> call[c].raced, by |-> 0,
                     paid |-> 0]
  <1>0. /\ month \in Nat /\ call[c] \in Call /\ UNCHANGED <<identity, accounts>>
        /\ call[c].account \in 1..Len(accounts) /\ End(c) /\ Len(requests) \in Nat
    BY Domains DEF Typed, CallsTyped, Linked, FileCreditRequest, Billing
  <1>1. Moves(c) /\ call'[c] = Idle /\ month' = month  BY <1>0, EndMoves
  <1>2. CASE requests' = requests
    BY <1>0, <1>1, <1>2, IdleSound, KeepsTables
  <1>3. CASE /\ ~Has(call[c].account, call[c].m, {"pending"})
             /\ requests' = Append(requests, new)
    <2>1. new \in Request  BY <1>0 DEF Request, Call
    <2>2. /\ new.account = call[c].account /\ new.period = call[c].m
          /\ new.status = "pending" /\ new.raced = call[c].raced /\ new.paid = 0
      OBVIOUS
    <2> HIDE DEF new
    <2>3. /\ RequestsTyped' /\ Len(requests') = Len(requests) + 1
          /\ \A s \in 1..Len(requests) : requests'[s] = requests[s]
          /\ requests'[Len(requests) + 1] = new
      BY <1>3, <2>1, RequestAdded
    <2>4. Files(c)  BY <1>3, <2>2, <2>3 DEF Files, FileCreditRequest
    <2>5. \A r \in 1..Len(requests') : requests'[r].account \in 1..Len(accounts)
      BY <1>0, <2>2, <2>3 DEF Typed, Linked
    <2>6. AccountsTyped'  BY <1>0 DEF Typed, AccountsTyped
    <2>7. Typed' /\ IdentityInv'
      BY <1>0, <1>1, <2>3, <2>5, <2>6, IdleSound, KeepsIdentities
    <2> QED  BY <1>1, <2>4, <2>7
  <1> QED  BY <1>2, <1>3 DEF FileCreditRequest

\* Pending requests expire; nothing else of any request changes.
Expires ==
    /\ Len(requests') = Len(requests)
    /\ \A r \in 1..Len(requests) :
         /\ requests'[r].account = requests[r].account
         /\ requests'[r].period = requests[r].period
         /\ requests'[r].raced = requests[r].raced
         /\ requests'[r].by = requests[r].by /\ requests'[r].paid = requests[r].paid
         /\ \/ requests'[r].status = requests[r].status
            \/ requests[r].status = "pending" /\ requests'[r].status = "expired"

\* Expiry only closes open requests.
LEMMA ExpireKept ==
    ASSUME Typed, IdentityInv, NEW c \in Calls, ExpireStale(c)
    PROVE  Typed' /\ IdentityInv' /\ Moves(c) /\ call'[c] = Idle /\ Expires
  <1>0. /\ month \in Nat /\ UNCHANGED <<identity, accounts>> /\ End(c)
        /\ expireStaleCreditRequests(call[c].m)
        /\ Len(requests) \in Nat /\ DOMAIN requests = 1..Len(requests)
        /\ \A r \in 1..Len(requests) : requests[r] \in Request
    BY Domains DEF Typed, ExpireStale
  <1>1. Moves(c) /\ call'[c] = Idle /\ month' = month  BY <1>0, EndMoves
  <1>2. /\ DOMAIN requests' = 1..Len(requests)
        /\ requests' = [r \in 1..Len(requests) |-> requests'[r]]
    BY <1>0 DEF expireStaleCreditRequests
  <1>3. ASSUME NEW r \in 1..Len(requests)
        PROVE  \/ requests'[r] = requests[r]
               \/ /\ requests[r].status = "pending"
                  /\ requests'[r] = [requests[r] EXCEPT !.status = "expired"]
    BY <1>0 DEF expireStaleCreditRequests
  <1>4. ASSUME NEW r \in 1..Len(requests)
        PROVE  /\ requests'[r] \in Request
               /\ requests'[r].account = requests[r].account
               /\ requests'[r].period = requests[r].period
               /\ requests'[r].raced = requests[r].raced
               /\ requests'[r].by = requests[r].by /\ requests'[r].paid = requests[r].paid
               /\ \/ requests'[r].status = requests[r].status
                  \/ requests[r].status = "pending" /\ requests'[r].status = "expired"
    <2>1. requests[r] \in Request  BY <1>0
    <2> QED  BY <2>1, <1>3 DEF Request
  <1>5. requests' \in [1..Len(requests) -> Request]  BY <1>2, <1>4
  <1>6. RequestsTyped' /\ Len(requests') = Len(requests)
    BY <1>0, <1>5 DEF RequestsTyped
  <1>7. Expires  BY <1>4, <1>6 DEF Expires
  <1>8. \A r \in 1..Len(requests') : requests'[r].account \in 1..Len(accounts)
    BY <1>4, <1>6 DEF Typed, Linked
  <1>9. AccountsTyped'  BY <1>0 DEF Typed, AccountsTyped
  <1>10. Typed' /\ IdentityInv'
    BY <1>0, <1>1, <1>6, <1>8, <1>9, IdleSound, KeepsIdentities
  <1> QED  BY <1>1, <1>7, <1>10

\* A pending request of the month the call read is marked.
Marks(c) ==
    LET r == call[c].request
    IN  /\ r \in 1..Len(requests) /\ Len(requests') = Len(requests)
        /\ \A s \in 1..Len(requests) \ {r} : requests'[s] = requests[s]
        /\ requests[r].status = "pending" /\ call[c].m <= requests[r].period
        /\ requests'[r].account = requests[r].account
        /\ requests'[r].period = requests[r].period
        /\ requests'[r].raced = requests[r].raced
        /\ requests'[r].paid = requests[r].paid
        /\ requests'[r].by = call[c].m /\ requests'[r].status = call[c].status

\* A grant goes on to pay if it has not, a dismissal overtakes the filings of
\* its month.
Granting(c) ==
    /\ call[c].status = "granted"
    /\ \/ call'[c] = Idle
       \/ call'[c].pc = "granting" /\ call'[c].request = call[c].request

Dismissing(c) ==
    LET r == call[c].request
    IN  /\ call[c].status = "dismissed" /\ call'[c] = Idle
        /\ \A d \in Calls \ {c} :
             /\ call[d].pc = "file" /\ call[d].account = requests[r].account
             /\ call[d].m = requests[r].period
             => call'[d].raced

\* A resolution marks its request as granted or dismissed, or loses.
LEMMA ResolveKept ==
    ASSUME Typed, IdentityInv, NEW c \in Calls, ResolveCreditRequest(c)
    PROVE  /\ Typed' /\ IdentityInv' /\ Moves(c)
           /\ \/ Quiet(c)
              \/ Marks(c) /\ (Granting(c) \/ Dismissing(c))
  <1> DEFINE r == call[c].request
             row == [requests[r] EXCEPT !.status = call[c].status, !.by = call[c].m]
  <1>0. /\ month \in Nat /\ call[c] \in Call /\ UNCHANGED <<identity, accounts>>
        /\ r \in 1..Len(requests) /\ requests[r] \in Request
        /\ call[c].status \in {"granted", "dismissed"} /\ Len(requests) \in Nat
        /\ call[c].pc = "resolve"
    BY Domains DEF Typed, CallsTyped, Call, Linked, ResolveCreditRequest, Resolving
  <1>1. CASE ~Resolvable(r, call[c].m)
    <2>1. Goto(c, "why") /\ requests' = requests
      BY <1>1 DEF ResolveCreditRequest
    <2>2. /\ Moves(c) /\ month' = month /\ call'[c].pc = "why"
          /\ call'[c].id = call[c].id /\ call'[c].account = call[c].account
          /\ call'[c].request = r /\ call'[c].status = call[c].status
      BY <2>1, GotoMoves DEF Resolving
    <2>3. Sound(call'[c])
      BY <1>0, <2>2 DEF Sound, IdentityInv, Named, Billing, Resolving
    <2> QED  BY <1>0, <2>1, <2>2, <2>3, KeepsTables DEF Quiet
  <1>2. CASE Resolvable(r, call[c].m)
    <2>1. /\ requests' = [requests EXCEPT ![r] = row]
          /\ \/ call[c].status = "dismissed" /\ Overtake(c, requests[r])
             \/ call[c].status = "granted" /\ call[c].early /\ End(c)
             \/ /\ call[c].status = "granted" /\ ~call[c].early
                /\ Goto(c, "granting")
      BY <1>2 DEF ResolveCreditRequest
    <2>2. /\ row \in Request /\ row.account = requests[r].account
          /\ row.period = requests[r].period /\ row.raced = requests[r].raced
          /\ row.paid = requests[r].paid /\ row.by = call[c].m
          /\ row.status = call[c].status
      BY <1>0 DEF Request, Call
    <2>3. requests[r].status = "pending" /\ call[c].m <= requests[r].period
      BY <1>0, <1>2 DEF Resolvable, Request, Call
    <2> HIDE DEF row
    <2>4. /\ RequestsTyped' /\ Len(requests') = Len(requests)
          /\ \A s \in 1..Len(requests) : requests'[s] = IF s = r THEN row ELSE requests[s]
      BY <1>0, <2>1, <2>2, RequestWritten
    <2>5. Marks(c)  BY <1>0, <2>2, <2>3, <2>4 DEF Marks
    <2>6. \A s \in 1..Len(requests') : requests'[s].account \in 1..Len(accounts)
      BY <1>0, <2>2, <2>4 DEF Typed, Linked
    <2>7. AccountsTyped'  BY <1>0 DEF Typed, AccountsTyped
    <2>8. CASE call[c].status = "granted" /\ ~call[c].early
      <3>1. /\ Moves(c) /\ month' = month /\ call'[c].pc = "granting"
            /\ call'[c].id = call[c].id /\ call'[c].account = call[c].account
            /\ call'[c].request = r /\ call'[c].status = call[c].status
        BY <2>1, <2>8, GotoMoves DEF Resolving
      <3>2. Sound(call'[c])
        BY <1>0, <3>1 DEF Sound, IdentityInv, Named, Billing, Resolving
      <3>3. Granting(c)  BY <2>8, <3>1 DEF Granting
      <3>4. Typed' /\ IdentityInv'
        BY <1>0, <2>4, <2>6, <2>7, <3>1, <3>2, KeepsIdentities
      <3> QED  BY <2>5, <3>1, <3>3, <3>4
    <2>9. CASE call[c].status = "dismissed"
      <3>1. Overtake(c, requests[r])  BY <2>1, <2>9
      <3>2. call'[c] = Idle /\ month' = month  BY <3>1 DEF Overtake
      <3>3. ASSUME NEW d \in Calls \ {c}
            PROVE  /\ call'[d] \in Call /\ Stays(d)
                   /\ (/\ call[d].pc = "file" /\ call[d].account = requests[r].account
                       /\ call[d].m = requests[r].period) => call'[d].raced
        <4>1. call[d] \in Call  BY DEF Typed, CallsTyped
        <4>2. CASE /\ call[d].pc = "file" /\ call[d].account = requests[r].account
                   /\ call[d].m = requests[r].period
          <5>1. call'[d] = [call[d] EXCEPT !.raced = TRUE]
            BY <3>1, <4>2 DEF Overtake
          <5> QED  BY <4>1, <5>1 DEF Call, Stays
        <4>3. CASE ~(/\ call[d].pc = "file" /\ call[d].account = requests[r].account
                     /\ call[d].m = requests[r].period)
          <5>1. call'[d] = call[d]  BY <3>1, <4>3 DEF Overtake
          <5> QED  BY <4>1, <4>3, <5>1 DEF Stays
        <4> QED  BY <4>2, <4>3
      <3>4. DOMAIN call' = Calls /\ call' = [d \in Calls |-> call'[d]]
        BY <3>1 DEF Overtake
      <3>5. Moves(c)  BY <3>2, <3>3, <3>4, IdleTyped DEF Moves, CallsTyped
      <3>6. Dismissing(c)  BY <2>9, <3>2, <3>3 DEF Dismissing
      <3>7. Typed' /\ IdentityInv'
        BY <1>0, <2>4, <2>6, <2>7, <3>2, <3>5, IdleSound, KeepsIdentities
      <3> QED  BY <2>5, <3>5, <3>6, <3>7
    <2>10. CASE call[c].status = "granted" /\ call[c].early
      <3>1. End(c)  BY <2>1, <2>10
      <3>2. Moves(c) /\ call'[c] = Idle /\ month' = month  BY <3>1, EndMoves
      <3>3. Granting(c)  BY <2>10, <3>2 DEF Granting
      <3>4. Typed' /\ IdentityInv'
        BY <1>0, <2>4, <2>6, <2>7, <3>2, IdleSound, KeepsIdentities
      <3> QED  BY <2>5, <3>2, <3>3, <3>4
    <2> QED  BY <1>0, <2>8, <2>9, <2>10
  <1> QED  BY <1>1, <1>2

\* Finding out why a resolution lost changes nothing.
LEMMA WhyKept ==
    ASSUME Typed, IdentityInv, NEW c \in Calls, WhyUnresolved(c)
    PROVE  Typed' /\ IdentityInv' /\ Quiet(c)
  <1>0. month \in Nat /\ UNCHANGED <<identity, accounts, requests>>
    BY DEF Typed, WhyUnresolved
  <1>1. CASE Goto(c, "expire")
    <2>1. /\ Moves(c) /\ month' = month /\ call'[c].pc = "expire"
          /\ call'[c].id = call[c].id /\ call'[c].account = call[c].account
      BY <1>1, GotoMoves
    <2>2. Sound(call'[c])  BY <2>1 DEF Sound, IdentityInv, Named, Billing, Resolving
    <2> QED  BY <1>0, <2>1, <2>2, KeepsTables DEF Quiet
  <1>2. CASE End(c)
    <2>1. Moves(c) /\ call'[c] = Idle /\ month' = month  BY <1>2, EndMoves
    <2> QED  BY <1>0, <2>1, IdleSound, IdleTyped, KeepsTables DEF Quiet
  <1> QED  BY <1>1, <1>2 DEF WhyUnresolved

\* The request a call has marked is paid once more.
Pays(c) ==
    LET r == call[c].request
    IN  /\ call[c].pc = "granting"
        /\ r \in 1..Len(requests) /\ Len(requests') = Len(requests)
        /\ \A s \in 1..Len(requests) \ {r} : requests'[s] = requests[s]
        /\ requests'[r].account = requests[r].account
        /\ requests'[r].period = requests[r].period
        /\ requests'[r].raced = requests[r].raced /\ requests'[r].by = requests[r].by
        /\ requests'[r].status = requests[r].status
        /\ requests'[r].paid = requests[r].paid + 1

\* The payment after a mark pays its own request or nothing.
LEMMA GrantKept ==
    ASSUME Typed, IdentityInv, NEW c \in Calls, GrantMarked(c)
    PROVE  /\ Typed' /\ IdentityInv' /\ Moves(c) /\ call'[c] = Idle
           /\ requests' = requests \/ Pays(c)
  <1> DEFINE r == call[c].request
             a == requests[r].account
             row == [requests[r] EXCEPT !.paid = @ + 1]
  <1>0. /\ month \in Nat /\ identity' = identity /\ End(c) /\ call[c].pc = "granting"
        /\ r \in 1..Len(requests) /\ requests[r] \in Request /\ Len(requests) \in Nat
    BY Domains DEF Typed, Linked, GrantMarked, Resolving
  <1>1. Moves(c) /\ call'[c] = Idle /\ month' = month  BY <1>0, EndMoves
  <1>2. CASE UNCHANGED <<accounts, requests>>
    BY <1>0, <1>1, <1>2, IdleSound, KeepsTables
  <1>3. CASE /\ grantCredits(a)
             /\ requests' = [requests EXCEPT ![r].paid = @ + 1]
    <2>0. a \in 1..Len(accounts)  BY <1>0 DEF Typed, Linked
    <2>3. /\ AccountsTyped' /\ Len(accounts') = Len(accounts)
          /\ \A b \in 1..Len(accounts) : accounts'[b].for = accounts[b].for
      BY <1>3, <2>0, GrantPatches
    <2>4. /\ row \in Request /\ row.account = a
          /\ row.period = requests[r].period /\ row.raced = requests[r].raced
          /\ row.by = requests[r].by /\ row.status = requests[r].status
          /\ row.paid = requests[r].paid + 1
      <3>1. requests[r].paid + 1 \in Nat  BY <1>0 DEF Request
      <3> QED  BY <1>0, <3>1 DEF Request
    <2>5. requests' = [requests EXCEPT ![r] = row]  BY <1>3
    <2> HIDE DEF row
    <2>6. /\ RequestsTyped' /\ Len(requests') = Len(requests)
          /\ \A s \in 1..Len(requests) : requests'[s] = IF s = r THEN row ELSE requests[s]
      BY <1>0, <2>4, <2>5, RequestWritten
    <2>7. Pays(c)  BY <1>0, <2>4, <2>6 DEF Pays
    <2>8. \A s \in 1..Len(requests') : requests'[s].account \in 1..Len(accounts)
      BY <1>0, <2>0, <2>4, <2>6 DEF Typed, Linked
    <2>9. Typed' /\ IdentityInv'
      BY <1>0, <1>1, <2>3, <2>6, <2>8, IdleSound, KeepsIdentities
    <2> QED  BY <1>1, <2>7, <2>9
  <1> QED  BY <1>2, <1>3 DEF GrantMarked

\* Who has granted goes on to mark, or stops.
LEMMA MarkKept ==
    ASSUME Typed, IdentityInv, NEW c \in Calls, MarkGranted(c)
    PROVE  Typed' /\ IdentityInv' /\ Quiet(c)
  <1>0. /\ month \in Nat /\ call[c] \in Call /\ UNCHANGED <<identity, accounts, requests>>
        /\ call[c].request \in 1..Len(requests) /\ call[c].status # "none"
    BY DEF Typed, CallsTyped, Linked, MarkGranted, Resolving
  <1>1. CASE Do(c, [call[c] EXCEPT !.pc = "resolve", !.m = month])
    <2> DEFINE next == [call[c] EXCEPT !.pc = "resolve", !.m = month]
    <2>1. next \in Call  BY <1>0 DEF Call, Resolving
    <2>2. Moves(c) /\ call'[c] = next /\ month' = month  BY <1>1, <2>1, DoMoves
    <2>3. /\ call'[c].pc = "resolve" /\ call'[c].id = call[c].id
          /\ call'[c].account = call[c].account /\ call'[c].request = call[c].request
          /\ call'[c].status = call[c].status
      BY <1>0, <2>2 DEF Call
    <2>4. Sound(call'[c])
      BY <1>0, <2>3 DEF Sound, IdentityInv, Named, Billing, Resolving
    <2> QED  BY <1>0, <2>2, <2>3, <2>4, KeepsTables DEF Quiet
  <1>2. CASE End(c)
    <2>1. Moves(c) /\ call'[c] = Idle /\ month' = month  BY <1>2, EndMoves
    <2> QED  BY <1>0, <2>1, IdleSound, IdleTyped, KeepsTables DEF Quiet
  <1> QED  BY <1>1, <1>2 DEF MarkGranted

----------------------------------------------------------------------------
(***************************************************************************)
(* One step of the system                                                  *)
(***************************************************************************)

\* The credit requests stay, nobody begins to pay, and who begins to file has
\* found the account not silenced.
Still(c) ==
    /\ requests' = requests /\ call'[c].pc # "granting"
    /\ call'[c].pc = "file" => ~Silenced(call'[c].account, call'[c].m)

Effect(c) ==
    \/ Still(c)
    \/ Files(c) /\ call'[c] = Idle
    \/ Expires /\ call'[c] = Idle
    \/ Marks(c) /\ (Granting(c) \/ Dismissing(c))
    \/ Pays(c) /\ call'[c] = Idle

\* Every step of a call has one of the effects named above.
LEMMA StepKept ==
    ASSUME Typed, IdentityInv, NEW c \in Calls, Arrive(c) \/ Step(c)
    PROVE  Typed' /\ IdentityInv' /\ Moves(c) /\ Effect(c)
  <1>1. ASSUME Quiet(c) PROVE Moves(c) /\ Effect(c)
    BY <1>1 DEF Quiet, Effect, Still
  <1>2. ASSUME requests' = requests, call'[c] = Idle PROVE Effect(c)
    BY <1>2, IdleTyped DEF Effect, Still
  <1>3. CASE Arrive(c)  BY <1>1, <1>3, ArriveKept
  <1>4. CASE \/ lookupFederatedAccount(c) \/ provisionFederatedAccount(c)
             \/ commitProvision(c) \/ Fail(c) \/ readAllowance(c)
             \/ applyMonthlyAllowance(c) \/ CreditGate(c)
    BY <1>1, <1>4, ChatKept
  <1>5. CASE recordCapHit(c)
    <2>1. /\ Typed' /\ IdentityInv' /\ Moves(c) /\ requests' = requests
          /\ call'[c].pc # "granting"
          /\ call'[c].pc = "file" => ~Silenced(call'[c].account, call'[c].m)
      BY <1>5, RecordKept
    <2> QED  BY <2>1 DEF Effect, Still
  <1>6. CASE FileCreditRequest(c)
    <2>1. /\ Typed' /\ IdentityInv' /\ Moves(c) /\ call'[c] = Idle
          /\ requests' = requests \/ Files(c)
      BY <1>6, FileKept
    <2> QED  BY <1>2, <2>1 DEF Effect
  <1>7. CASE ExpireStale(c)
    <2>1. Typed' /\ IdentityInv' /\ Moves(c) /\ call'[c] = Idle /\ Expires
      BY <1>7, ExpireKept
    <2> QED  BY <2>1 DEF Effect
  <1>8. CASE ResolveCreditRequest(c)
    <2>1. /\ Typed' /\ IdentityInv' /\ Moves(c)
          /\ Quiet(c) \/ (Marks(c) /\ (Granting(c) \/ Dismissing(c)))
      BY <1>8, ResolveKept
    <2> QED  BY <1>1, <2>1 DEF Effect
  <1>9. CASE WhyUnresolved(c)  BY <1>1, <1>9, WhyKept
  <1>10. CASE GrantMarked(c)
    <2>1. /\ Typed' /\ IdentityInv' /\ Moves(c) /\ call'[c] = Idle
          /\ requests' = requests \/ Pays(c)
      BY <1>10, GrantKept
    <2> QED  BY <1>2, <2>1 DEF Effect
  <1>11. CASE MarkGranted(c)  BY <1>1, <1>11, MarkKept
  <1> QED  BY <1>3, <1>4, <1>5, <1>6, <1>7, <1>8, <1>9, <1>10, <1>11 DEF Step

\* A step that leaves the tables alone keeps the identities.
LEMMA TablesAlone ==
    ASSUME Typed, IdentityInv, month' \in Nat,
           UNCHANGED <<identity, accounts, requests, call>>
    PROVE  Typed' /\ IdentityInv'
  <1>1. Typed'
    BY DEF Typed, CallsTyped, AccountsTyped, RequestsTyped, Linked
  <1>2. IdentityInv'
    BY DEF IdentityInv, Named
  <1> QED  BY <1>1, <1>2

\* Every step keeps the identities and has one of these effects.
LEMMA NextKept ==
    ASSUME Typed, IdentityInv, [Next]_vars
    PROVE  /\ Typed' /\ IdentityInv'
           /\ \/ UNCHANGED <<requests, call>>
              \/ \E c \in Calls : Moves(c) /\ Effect(c)
  <1>1. CASE TurnMonth
    <2>1. /\ UNCHANGED <<identity, accounts, requests, call>> /\ month' \in Nat
      BY <1>1 DEF TurnMonth, Typed
    <2> QED  BY <2>1, TablesAlone
  <1>2. ASSUME NEW c \in Calls, Arrive(c) \/ Step(c)
        PROVE  Typed' /\ IdentityInv' /\ Moves(c) /\ Effect(c)
    BY <1>2, StepKept
  <1>3. CASE UNCHANGED vars
    <2>1. /\ UNCHANGED <<identity, accounts, requests, call>> /\ month' \in Nat
      BY <1>3 DEF vars, Typed
    <2> QED  BY <2>1, TablesAlone
  <1> QED  BY <1>1, <1>2, <1>3 DEF Next

\* The empty tables satisfy the invariant.
LEMMA InitKept ==
    ASSUME Init PROVE Typed /\ IdentityInv
  <1>1. /\ identity = <<>> /\ accounts = <<>> /\ requests = <<>> /\ month = 1
        /\ call = [c \in Calls |-> Idle]
    BY DEF Init
  <1>2. Len(accounts) = 0 /\ Len(requests) = 0  BY <1>1
  <1>3. DOMAIN identity = {}  BY <1>1
  <1>4. IsFiniteSet({}) /\ Cardinality({}) = 0  BY FS_EmptySet
  <1>5. AccountsTyped /\ RequestsTyped /\ month \in Nat
    BY <1>1 DEF AccountsTyped, RequestsTyped
  <1>6. CallsTyped /\ \A c \in Calls : call[c] = Idle
    BY <1>1, IdleTyped DEF CallsTyped
  <1>7. Idle.pc \notin Billing \cup Resolving /\ ~Named(Idle)
    BY DEF Idle, Billing, Resolving, Named
  <1>8. Linked  BY <1>2, <1>3, <1>6, <1>7 DEF Linked
  <1>9. IdentityInv
    BY <1>2, <1>3, <1>4, <1>6, <1>7, IdleTyped DEF IdentityInv
  <1> QED  BY <1>5, <1>6, <1>8, <1>9 DEF Typed

\* The types and the identities, on every reachable state.
LEMMA Inductive == Spec => [](Typed /\ IdentityInv)
  <1>1. Init => Typed /\ IdentityInv  BY InitKept
  <1>2. Typed /\ IdentityInv /\ [Next]_vars => (Typed /\ IdentityInv)'
    BY NextKept
  <1> QED  BY <1>1, <1>2, PTL DEF Spec

\* However many first requests of an end user race through lookup, provisional
\* insert, conflict and commit (federated.go), there is one account for every
\* known identity and no other, and a request bills the account of its user.
THEOREM OneAccountCorrect == Spec => []OneAccountPerIdentity
  <1>1. Typed /\ IdentityInv => OneAccountPerIdentity
    BY DEF IdentityInv, OneAccountPerIdentity, Named
  <1> QED  BY <1>1, Inductive, PTL

----------------------------------------------------------------------------
(***************************************************************************)
(* A dismissal silences its month                                          *)
(*                                                                         *)
(* A request stops being pending before the next one of its account and    *)
(* month is filed, and a call that is about to file either has seen that   *)
(* none was dismissed or was overtaken by the dismissal.                   *)
(***************************************************************************)

Same(q, s) == q.account = s.account /\ q.period = s.period

SilenceInv ==
    /\ \A r, s \in 1..Len(requests) :
         r < s /\ Same(requests[r], requests[s])
         => /\ requests[r].status # "pending"
            /\ requests[r].status = "dismissed" => requests[s].raced
    /\ \A c \in Calls, r \in 1..Len(requests) :
         /\ call[c].pc = "file" /\ requests[r].status = "dismissed"
         /\ requests[r].account = call[c].account /\ requests[r].period = call[c].m
         => call[c].raced

\* Every request keeps its account, period and mark; its status changes only
\* from pending, and to a dismissal only in a step that says so.
Continues(r, dismissed) ==
    /\ Same(requests'[r], requests[r]) /\ requests'[r].raced = requests[r].raced
    /\ \/ requests'[r].status = requests[r].status
       \/ /\ requests[r].status = "pending" /\ requests'[r].status # "pending"
          /\ requests'[r].status = "dismissed" => dismissed

\* Every effect keeps the silence of a dismissal.
LEMMA EffectSilence ==
    ASSUME Typed, Typed', SilenceInv, NEW c \in Calls, Moves(c), Effect(c)
    PROVE  SilenceInv'
  <1>0. Len(requests) \in Nat /\ Len(requests') \in Nat
    BY LenProperties DEF Typed, RequestsTyped
  <1>1. CASE Still(c)
    <2>1. requests' = requests  BY <1>1 DEF Still
    <2>2. ASSUME NEW d \in Calls, NEW r \in 1..Len(requests),
                 call'[d].pc = "file", requests[r].status = "dismissed",
                 requests[r].account = call'[d].account,
                 requests[r].period = call'[d].m
          PROVE  call'[d].raced
      <3>1. CASE d = c
        <4>1. ~Silenced(call'[c].account, call'[c].m)  BY <1>1, <2>2, <3>1 DEF Still
        <4>2. r \in DOMAIN requests  BY Domains
        <4> QED  BY <2>2, <3>1, <4>1, <4>2 DEF Silenced, Has
      <3>2. CASE d # c  BY <2>2, <3>2 DEF Moves, Stays, SilenceInv
      <3> QED  BY <3>1, <3>2
    <2> QED  BY <2>1, <2>2 DEF SilenceInv
  \* The filing call has seen no pending request, and knows of the dismissal.
  <1>2. CASE Files(c) /\ call'[c] = Idle
    <2> DEFINE n == Len(requests) + 1
    <2>1. /\ Len(requests') = n /\ \A s \in 1..Len(requests) : requests'[s] = requests[s]
          /\ requests'[n].account = call[c].account /\ requests'[n].period = call[c].m
          /\ requests'[n].status = "pending" /\ requests'[n].raced = call[c].raced
          /\ call[c].pc = "file" /\ ~Has(call[c].account, call[c].m, {"pending"})
      BY <1>2 DEF Files
    <2>2. ASSUME NEW r \in 1..Len(requests), Same(requests[r], requests'[n])
          PROVE  /\ requests[r].status # "pending"
                 /\ requests[r].status = "dismissed" => requests'[n].raced
      <3>1. requests[r].account = call[c].account /\ requests[r].period = call[c].m
        BY <2>1, <2>2 DEF Same
      <3>2. requests[r].status # "pending"
        <4>1. r \in DOMAIN requests  BY Domains
        <4> QED  BY <2>1, <3>1, <4>1 DEF Has
      <3>3. ASSUME requests[r].status = "dismissed" PROVE requests'[n].raced
        BY <2>1, <3>1, <3>3 DEF SilenceInv
      <3> QED  BY <3>2, <3>3
    <2>3. ASSUME NEW r \in 1..n, NEW s \in 1..n, r < s,
                 Same(requests'[r], requests'[s])
          PROVE  /\ requests'[r].status # "pending"
                 /\ requests'[r].status = "dismissed" => requests'[s].raced
      <3>1. r \in 1..Len(requests) /\ (s = n \/ s \in 1..Len(requests))
        BY <1>0, <2>3
      <3>2. CASE s = n  BY <2>1, <2>2, <2>3, <3>1, <3>2
      <3>3. CASE s \in 1..Len(requests)  BY <2>1, <2>3, <3>1, <3>3 DEF SilenceInv
      <3> QED  BY <3>1, <3>2, <3>3
    <2>4. ASSUME NEW d \in Calls, NEW r \in 1..n,
                 call'[d].pc = "file", requests'[r].status = "dismissed",
                 requests'[r].account = call'[d].account,
                 requests'[r].period = call'[d].m
          PROVE  call'[d].raced
      <3>1. d # c  BY <1>2, <2>4, IdleTyped
      <3>2. r # n /\ r \in 1..Len(requests)  BY <1>0, <2>1, <2>4
      <3> QED  BY <2>1, <2>4, <3>1, <3>2 DEF Moves, Stays, SilenceInv
    <2> QED  BY <2>1, <2>3, <2>4 DEF SilenceInv
  \* All other steps change at most the status of pending requests.
  <1>3. ASSUME NEW dismissed \in BOOLEAN, Len(requests') = Len(requests),
               \A r \in 1..Len(requests) : Continues(r, dismissed),
               call'[c].pc # "file",
               \A d \in Calls \ {c}, r \in 1..Len(requests) :
                  /\ requests[r].status = "pending" /\ requests'[r].status = "dismissed"
                  /\ call[d].pc = "file" /\ call[d].account = requests[r].account
                  /\ call[d].m = requests[r].period
                  => call'[d].raced
        PROVE  SilenceInv'
    <2>1. ASSUME NEW r \in 1..Len(requests), NEW s \in 1..Len(requests), r < s,
                 Same(requests'[r], requests'[s])
          PROVE  /\ requests'[r].status # "pending"
                 /\ requests'[r].status = "dismissed" => requests'[s].raced
      <3>1. Same(requests[r], requests[s])  BY <1>3, <2>1 DEF Continues, Same
      <3>2. requests[r].status # "pending"  BY <2>1, <3>1 DEF SilenceInv
      <3>3. requests'[r].status = requests[r].status
        BY <1>3, <3>2 DEF Continues
      <3>4. requests[r].status = "dismissed" => requests[s].raced
        BY <2>1, <3>1 DEF SilenceInv
      <3>5. requests'[s].raced = requests[s].raced  BY <1>3 DEF Continues
      <3> QED  BY <3>2, <3>3, <3>4, <3>5
    <2>2. ASSUME NEW d \in Calls, NEW r \in 1..Len(requests),
                 call'[d].pc = "file", requests'[r].status = "dismissed",
                 requests'[r].account = call'[d].account,
                 requests'[r].period = call'[d].m
          PROVE  call'[d].raced
      <3>1. d # c  BY <1>3, <2>2
      <3>2. /\ call[d].pc = "file" /\ call[d].account = requests[r].account
            /\ call[d].m = requests[r].period /\ (call[d].raced => call'[d].raced)
        BY <1>3, <2>2, <3>1 DEF Moves, Stays, Continues, Same
      <3>3. CASE requests[r].status = "dismissed"
        BY <3>2, <3>3 DEF SilenceInv
      <3>4. CASE requests[r].status = "pending"
        BY <1>3, <2>2, <3>1, <3>2, <3>4
      <3> QED  BY <1>3, <2>2, <3>3, <3>4 DEF Continues
    <2> QED  BY <1>3, <2>1, <2>2 DEF SilenceInv
  <1>4. CASE Expires /\ call'[c] = Idle
    <2>1. \A r \in 1..Len(requests) : Continues(r, FALSE)
      BY <1>4 DEF Expires, Continues, Same
    <2>2. Len(requests') = Len(requests) /\ call'[c].pc # "file"
      BY <1>4, IdleTyped DEF Expires
    <2>3. \A r \in 1..Len(requests) :
            requests[r].status = "pending" => requests'[r].status # "dismissed"
      BY <1>4 DEF Expires
    <2> QED  BY <1>3, <2>1, <2>2, <2>3
  <1>5. CASE Marks(c) /\ (Granting(c) \/ Dismissing(c))
    <2> DEFINE q == call[c].request
    <2>1. /\ q \in 1..Len(requests) /\ Len(requests') = Len(requests)
          /\ \A s \in 1..Len(requests) \ {q} : requests'[s] = requests[s]
          /\ requests[q].status = "pending" /\ Same(requests'[q], requests[q])
          /\ requests'[q].raced = requests[q].raced
          /\ requests'[q].status = call[c].status
      BY <1>5 DEF Marks, Same
    <2>2. /\ call[c].status # "pending" /\ call'[c].pc # "file"
      BY <1>5, IdleTyped DEF Granting, Dismissing
    <2> HIDE DEF q
    <2>3. \A r \in 1..Len(requests) : Continues(r, TRUE)
      BY <2>1, <2>2 DEF Continues, Same
    <2>4. ASSUME NEW d \in Calls \ {c}, NEW r \in 1..Len(requests),
                 requests[r].status = "pending", requests'[r].status = "dismissed",
                 call[d].pc = "file", call[d].account = requests[r].account,
                 call[d].m = requests[r].period
          PROVE  call'[d].raced
      <3>1. r = q  BY <2>1, <2>4
      <3>2. call[c].status = "dismissed"  BY <2>1, <2>4, <3>1
      <3>3. Dismissing(c)  BY <1>5, <3>2 DEF Granting
      <3> QED  BY <2>4, <3>1, <3>3 DEF Dismissing, q
    <2> QED  BY <1>3, <2>1, <2>2, <2>3, <2>4
  <1>6. CASE Pays(c) /\ call'[c] = Idle
    <2>1. \A r \in 1..Len(requests) : Continues(r, FALSE)
      BY <1>6 DEF Pays, Continues, Same
    <2>2. Len(requests') = Len(requests) /\ call'[c].pc # "file"
      BY <1>6, IdleTyped DEF Pays
    <2>3. \A r \in 1..Len(requests) : requests'[r].status = requests[r].status
      BY <1>6 DEF Pays
    <2> QED  BY <1>3, <2>1, <2>2, <2>3
  <1> QED  BY <1>1, <1>2, <1>4, <1>5, <1>6 DEF Effect

\* FileCreditRequest and ResolveCreditRequest (credit_requests.go): once a
\* request is dismissed, the account's month gets no further one, unless its
\* subquery ran before the dismissal; and never are two of them pending.
THEOREM DismissalSilences == Spec => []DismissedSilences
  <1>1. Init => SilenceInv
    <2>1. ASSUME Init PROVE Len(requests) = 0 /\ \A c \in Calls : call[c].pc = "idle"
      BY <2>1, IdleTyped DEF Init
    <2> QED  BY <2>1 DEF SilenceInv
  <1>2. Typed /\ IdentityInv /\ SilenceInv /\ [Next]_vars => SilenceInv'
    <2> SUFFICES ASSUME Typed, IdentityInv, SilenceInv, [Next]_vars
                 PROVE  SilenceInv'
      OBVIOUS
    <2>1. CASE UNCHANGED <<requests, call>>  BY <2>1 DEF SilenceInv
    <2>2. CASE \E c \in Calls : Moves(c) /\ Effect(c)
      BY <2>2, NextKept, EffectSilence
    <2> QED  BY <2>1, <2>2, NextKept
  <1>3. ASSUME Typed, SilenceInv PROVE DismissedSilences
    <2>1. DOMAIN requests = 1..Len(requests) /\ Len(requests) \in Nat
      BY <1>3, Domains
    <2>2. ASSUME NEW r \in 1..Len(requests), NEW s \in 1..Len(requests),
                 requests[r].account = requests[s].account,
                 requests[r].period = requests[s].period
          PROVE  /\ requests[r].status = "dismissed" /\ r < s => requests[s].raced
                 /\ requests[r].status = "pending" /\ requests[s].status = "pending"
                    => r = s
      <3>1. requests[r].status = "dismissed" /\ r < s => requests[s].raced
        BY <1>3, <2>2 DEF SilenceInv, Same
      <3>2. requests[r].status = "pending" => ~(r < s)
        BY <1>3, <2>2 DEF SilenceInv, Same
      <3>3. requests[s].status = "pending" => ~(s < r)
        BY <1>3, <2>2 DEF SilenceInv, Same
      <3>4. r < s \/ s < r \/ r = s  BY <2>1
      <3> QED  BY <3>1, <3>2, <3>3, <3>4
    <2> QED  BY <2>1, <2>2 DEF DismissedSilences
  <1> QED  BY <1>1, <1>2, <1>3, Inductive, PTL DEF Spec

----------------------------------------------------------------------------
(***************************************************************************)
(* Who marks first pays at most once                                       *)
(*                                                                         *)
(* The status is the lock: of the callers that mark before they grant, the *)
(* one that turns pending into granted is the only one that goes on to pay *)
(* and has not paid while it is still about to.                            *)
(***************************************************************************)

\* Marked granted, by an admin who asked in time.
InTime(q) == q.status = "granted" /\ q.by <= q.period

GrantInv ==
    /\ \A r \in 1..Len(requests) :
         /\ requests[r].status = "pending" => requests[r].paid = 0
         /\ requests[r].paid > 0 => requests[r].paid = 1 /\ InTime(requests[r])
    /\ \A c \in Calls :
         call[c].pc = "granting" => LET q == requests[call[c].request]
                                    IN  InTime(q) /\ q.paid = 0
    /\ \A c, d \in Calls :
         /\ call[c].pc = "granting" /\ call[d].pc = "granting"
         /\ call[c].request = call[d].request
         => c = d

\* Every effect keeps the payments of a grant single.
LEMMA EffectGrant ==
    ASSUME Typed, Typed', GrantInv, NEW c \in Calls, Moves(c), Effect(c)
    PROVE  GrantInv'
  <1>0. /\ Len(requests) \in Nat
        /\ \A r \in 1..Len(requests) : requests[r].paid \in Nat
        /\ \A d \in Calls : call[d].pc = "granting" => call[d].request \in 1..Len(requests)
    <2>1. \A r \in 1..Len(requests) : requests[r] \in Request /\ Len(requests) \in Nat
      BY Domains
    <2> QED  BY <2>1, Domains DEF Typed, Linked, Resolving, Request
  <1>1. CASE Still(c)
    <2>1. requests' = requests /\ call'[c].pc # "granting"  BY <1>1 DEF Still
    <2> QED  BY <2>1 DEF Moves, Stays, GrantInv
  <1>2. CASE Files(c) /\ call'[c] = Idle
    <2> DEFINE n == Len(requests) + 1
    <2>1. /\ Len(requests') = n /\ \A s \in 1..Len(requests) : requests'[s] = requests[s]
          /\ requests'[n].paid = 0 /\ requests'[n].status = "pending"
          /\ call'[c].pc # "granting"
      BY <1>2, IdleTyped DEF Files
    <2>2. ASSUME NEW r \in 1..n
          PROVE  /\ requests'[r].status = "pending" => requests'[r].paid = 0
                 /\ requests'[r].paid > 0 => requests'[r].paid = 1 /\ InTime(requests'[r])
      <3>1. r = n \/ r \in 1..Len(requests)  BY <1>0
      <3>2. CASE r = n  BY <2>1, <3>2
      <3>3. CASE r \in 1..Len(requests)  BY <2>1, <3>3 DEF GrantInv
      <3> QED  BY <3>1, <3>2, <3>3
    <2>3. ASSUME NEW d \in Calls, call'[d].pc = "granting"
          PROVE  InTime(requests'[call'[d].request]) /\ requests'[call'[d].request].paid = 0
      BY <1>0, <2>1, <2>3 DEF Moves, Stays, GrantInv
    <2> HIDE DEF n
    <2> QED  BY <2>1, <2>2, <2>3 DEF Moves, Stays, GrantInv
  <1>3. CASE Expires /\ call'[c] = Idle
    <2>1. call'[c].pc # "granting"  BY <1>3, IdleTyped
    <2>2. ASSUME NEW r \in 1..Len(requests)
          PROVE  /\ requests'[r].paid = requests[r].paid
                 /\ requests'[r].status = "pending" => requests[r].status = "pending"
                 /\ InTime(requests[r]) => InTime(requests'[r])
      BY <1>3 DEF Expires, InTime
    <2>3. Len(requests') = Len(requests)  BY <1>3 DEF Expires
    <2> QED  BY <1>0, <2>1, <2>2, <2>3 DEF Moves, Stays, GrantInv
  <1>4. CASE Marks(c) /\ (Granting(c) \/ Dismissing(c))
    <2> DEFINE q == call[c].request
    <2>1. /\ q \in 1..Len(requests) /\ Len(requests') = Len(requests)
          /\ \A s \in 1..Len(requests) \ {q} : requests'[s] = requests[s]
          /\ requests[q].status = "pending" /\ call[c].m <= requests[q].period
          /\ requests'[q].period = requests[q].period
          /\ requests'[q].paid = requests[q].paid
          /\ requests'[q].by = call[c].m /\ requests'[q].status = call[c].status
      BY <1>4 DEF Marks
    <2>2. requests[q].paid = 0  BY <2>1 DEF GrantInv
    <2>3. /\ call[c].status # "pending"
          /\ call'[c].pc = "granting" => call[c].status = "granted" /\ call'[c].request = q
      BY <1>4, IdleTyped DEF Granting, Dismissing
    <2> HIDE DEF q
    \* Nobody was about to pay a request that was still pending.
    <2>4. ASSUME NEW d \in Calls \ {c}, call'[d].pc = "granting"
          PROVE  /\ call'[d].request = call[d].request /\ call[d].request # q
                 /\ call[d].request \in 1..Len(requests) /\ call[d].pc = "granting"
      BY <1>0, <2>1, <2>4 DEF Moves, Stays, GrantInv, InTime
    <2>5. ASSUME NEW r \in 1..Len(requests)
          PROVE  /\ requests'[r].status = "pending" => requests'[r].paid = 0
                 /\ requests'[r].paid > 0 => requests'[r].paid = 1 /\ InTime(requests'[r])
      <3>1. CASE r = q  BY <2>1, <2>2, <2>3, <3>1
      <3>2. CASE r # q  BY <2>1, <3>2 DEF GrantInv
      <3> QED  BY <3>1, <3>2
    <2>6. ASSUME NEW d \in Calls, call'[d].pc = "granting"
          PROVE  InTime(requests'[call'[d].request]) /\ requests'[call'[d].request].paid = 0
      <3>1. CASE d = c
        <4>1. call'[d].request = q /\ call[c].status = "granted"  BY <2>3, <2>6, <3>1
        <4>2. InTime(requests'[q])  BY <2>1, <4>1 DEF InTime
        <4> QED  BY <2>1, <2>2, <4>1, <4>2
      <3>2. CASE d # c
        <4>1. requests'[call'[d].request] = requests[call[d].request]
              /\ call[d].pc = "granting"
          BY <2>1, <2>4, <2>6, <3>2
        <4> QED  BY <4>1 DEF GrantInv
      <3> QED  BY <3>1, <3>2
    <2>7. ASSUME NEW d \in Calls, NEW e \in Calls, call'[d].pc = "granting",
                 call'[e].pc = "granting", call'[d].request = call'[e].request
          PROVE  d = e
      <3>1. CASE d = c  BY <2>3, <2>4, <2>7, <3>1
      <3>2. CASE e = c  BY <2>3, <2>4, <2>7, <3>2
      <3>3. CASE d # c /\ e # c
        <4>1. /\ call[d].pc = "granting" /\ call[e].pc = "granting"
              /\ call[d].request = call[e].request
          BY <2>4, <2>7, <3>3
        <4> QED  BY <4>1 DEF GrantInv
      <3> QED  BY <3>1, <3>2, <3>3
    <2> QED  BY <2>1, <2>5, <2>6, <2>7 DEF GrantInv
  <1>5. CASE Pays(c) /\ call'[c] = Idle
    <2> DEFINE q == call[c].request
    <2>1. /\ q \in 1..Len(requests) /\ Len(requests') = Len(requests)
          /\ \A s \in 1..Len(requests) \ {q} : requests'[s] = requests[s]
          /\ requests'[q].period = requests[q].period
          /\ requests'[q].paid = requests[q].paid + 1
          /\ requests'[q].by = requests[q].by /\ requests'[q].status = requests[q].status
          /\ call[c].pc = "granting" /\ call'[c].pc # "granting"
      BY <1>5, IdleTyped DEF Pays
    <2>2. InTime(requests[q]) /\ requests[q].paid = 0  BY <2>1 DEF GrantInv
    \* The call that pays is the only one that could.
    <2>3. ASSUME NEW d \in Calls, call'[d].pc = "granting"
          PROVE  /\ call'[d].request = call[d].request /\ call[d].request # q
                 /\ call[d].request \in 1..Len(requests) /\ call[d].pc = "granting"
      BY <1>0, <2>1, <2>3 DEF Moves, Stays, GrantInv
    <2> HIDE DEF q
    <2>4. ASSUME NEW r \in 1..Len(requests)
          PROVE  /\ requests'[r].status = "pending" => requests'[r].paid = 0
                 /\ requests'[r].paid > 0 => requests'[r].paid = 1 /\ InTime(requests'[r])
      <3>1. CASE r = q  BY <2>1, <2>2, <3>1 DEF InTime
      <3>2. CASE r # q  BY <2>1, <3>2 DEF GrantInv
      <3> QED  BY <3>1, <3>2
    <2>5. ASSUME NEW d \in Calls, call'[d].pc = "granting"
          PROVE  InTime(requests'[call'[d].request]) /\ requests'[call'[d].request].paid = 0
      <3>1. requests'[call'[d].request] = requests[call[d].request]
            /\ call[d].pc = "granting"
        BY <2>1, <2>3, <2>5
      <3> QED  BY <3>1 DEF GrantInv
    <2>6. ASSUME NEW d \in Calls, NEW e \in Calls, call'[d].pc = "granting",
                 call'[e].pc = "granting", call'[d].request = call'[e].request
          PROVE  d = e
      <3>1. /\ call[d].pc = "granting" /\ call[e].pc = "granting"
            /\ call[d].request = call[e].request
        BY <2>3, <2>6
      <3> QED  BY <3>1 DEF GrantInv
    <2> QED  BY <2>1, <2>4, <2>5, <2>6 DEF GrantInv
  <1> QED  BY <1>1, <1>2, <1>3, <1>4, <1>5 DEF Effect

\* ResolveCreditRequest and the grant that follows it in callers that mark first
\* (credit_requests.go): however these race, and whatever callers do that grant
\* first or without a request, they pay a request at most once, only when they
\* marked it granted, and only if they asked before the allowance was reset.
THEOREM MarkFirstPaidOnce == Spec => []MarkFirstPaysOnce
  <1>1. Init => GrantInv
    <2>1. ASSUME Init PROVE Len(requests) = 0 /\ \A c \in Calls : call[c].pc = "idle"
      BY <2>1, IdleTyped DEF Init
    <2> QED  BY <2>1 DEF GrantInv
  <1>2. Typed /\ IdentityInv /\ GrantInv /\ [Next]_vars => GrantInv'
    <2> SUFFICES ASSUME Typed, IdentityInv, GrantInv, [Next]_vars
                 PROVE  GrantInv'
      OBVIOUS
    <2>1. CASE UNCHANGED <<requests, call>>  BY <2>1 DEF GrantInv
    <2>2. CASE \E c \in Calls : Moves(c) /\ Effect(c)
      BY <2>2, NextKept, EffectGrant
    <2> QED  BY <2>1, <2>2, NextKept
  <1>3. ASSUME Typed, GrantInv PROVE MarkFirstPaysOnce
    BY <1>3, Domains DEF GrantInv, InTime, MarkFirstPaysOnce
  <1> QED  BY <1>1, <1>2, <1>3, Inductive, PTL DEF Spec
=============================================================================
