------------------------------ MODULE EndUsers ------------------------------
(***************************************************************************)
(* End users behind a trusted key: their accounts, provisioned on first    *)
(* sight (internal/store/federated.go), and the credit requests that are   *)
(* filed when an account hits its monthly allowance and that an admin      *)
(* grants or dismisses (internal/store/credit_requests.go).                *)
(*                                                                         *)
(* A call walks through its statements one step at a time.  It reads the   *)
(* clock once and the month may turn before it uses it.  Credit is         *)
(* abstracted to whether an account has any: CreditLedger has the amounts. *)
(*                                                                         *)
(* Resolving a request and granting credits are two endpoints, and nothing *)
(* ties one to the other.  Callers take them in either order: the design   *)
(* has the Discord bot mark first, and the admin console grant first, as   *)
(* internal/admin/credit_requests.go says of both.                         *)
(***************************************************************************)
EXTENDS Integers, FiniteSets, Sequences

CONSTANTS
    Identities,          \* external ids of end users
    Calls,               \* concurrent requests
    NoIdentity,
    MaxCalls, MaxMonth   \* bounds on requests and months

ASSUME NoIdentityAssumption == NoIdentity \notin Identities
ASSUME BoundsAssumption     == MaxCalls \in Nat /\ MaxMonth \in Nat \ {0}

VARIABLES
    identity,   \* federated_identities: the account of each known identity
    accounts,   \* end-user accounts, by id
    requests,   \* credit_requests, by id
    call,       \* the request each caller is in
    month,      \* the current UTC month
    begun       \* number of requests so far

vars == <<identity, accounts, requests, call, month, begun>>

\* id is the identity a chat request names, m the month it read, account whom
\* it bills; an admin call has the credit request, the status it wants and
\* whether it has granted already.  raced is history: a dismissal overtook the
\* filing.
Idle == [pc |-> "idle", id |-> NoIdentity, m |-> 0, account |-> 0,
         grant |-> FALSE, request |-> 0, status |-> "none", early |-> FALSE,
         raced |-> FALSE]

Init ==
    /\ identity = <<>> /\ accounts = <<>> /\ requests = <<>>
    /\ call = [c \in Calls |-> Idle]
    /\ month = 1 /\ begun = 0

Begin(c, next) ==
    /\ call[c].pc = "idle"
    /\ begun < MaxCalls /\ begun' = begun + 1
    /\ call' = [call EXCEPT ![c] = [next EXCEPT !.m = month]]

Do(c, next) == call' = [call EXCEPT ![c] = next] /\ UNCHANGED <<month, begun>>
Goto(c, pc) == Do(c, [call[c] EXCEPT !.pc = pc])
End(c)      == Do(c, Idle)

TurnMonth ==
    /\ month < MaxMonth /\ month' = month + 1
    /\ UNCHANGED <<identity, accounts, requests, call, begun>>

----------------------------------------------------------------------------
(***************************************************************************)
(* A chat request of an end user                                           *)
(***************************************************************************)

Middleware(c, i) ==
    /\ Begin(c, [Idle EXCEPT !.pc = "lookup", !.id = i])
    /\ UNCHANGED <<identity, accounts, requests, month>>

Known(i) == i \in DOMAIN identity

lookupFederatedAccount(c) ==
    /\ call[c].pc = "lookup"
    /\ IF Known(call[c].id)
       THEN Do(c, [call[c] EXCEPT !.pc = "managed", !.account = identity[call[c].id]])
       ELSE Goto(c, "provision")
    /\ UNCHANGED <<identity, accounts, requests>>

\* INSERT ... ON CONFLICT DO NOTHING waits for an uncommitted row of the same
\* identity, then finds it or takes its place.
Inserting(i) == \E c \in Calls : call[c].pc = "provisioned" /\ call[c].id = i

\* Mutant: the loser keeps the account it has created.
KeepProvisional(c) ==
    /\ call[c].pc = "provision"
    /\ ~Inserting(call[c].id)
    /\ Goto(c, "provisioned")
    /\ UNCHANGED <<identity, accounts, requests>>

\* The transaction has inserted account and balance before; on a conflict all
\* of it rolls back and the winner is looked up.
provisionFederatedAccount(c) ==
    /\ call[c].pc = "provision"
    /\ ~Inserting(call[c].id)
    /\ Goto(c, IF Known(call[c].id) THEN "lookup" ELSE "provisioned")
    /\ UNCHANGED <<identity, accounts, requests>>

commitProvision(c) ==
    /\ call[c].pc = "provisioned"
    /\ LET a == Len(accounts) + 1
       IN  /\ accounts' = Append(accounts, [for |-> call[c].id, period |-> 0,
                                            blocked |-> FALSE, credit |-> FALSE])
           /\ identity' = [i \in DOMAIN identity \cup {call[c].id} |->
                             IF i = call[c].id THEN a ELSE identity[i]]
           /\ Do(c, [call[c] EXCEPT !.pc = "managed", !.account = a])
    /\ UNCHANGED requests

\* A statement or the commit fails: the request fails closed (500).
Fail(c) ==
    /\ call[c].pc \in {"provisioned", "reset"}
    /\ End(c)
    /\ UNCHANGED <<identity, accounts, requests>>

\* applyMonthlyAllowance reads the override, which may block the account, ...
readAllowance(c) ==
    /\ call[c].pc = "managed"
    /\ Do(c, [call[c] EXCEPT !.pc = "reset",
                !.grant = ~accounts[call[c].account].blocked])
    /\ UNCHANGED <<identity, accounts, requests>>

\* ... then resets the balance unless this or a later month was granted.
applyMonthlyAllowance(c) ==
    /\ call[c].pc = "reset"
    /\ LET a == call[c].account
       IN  accounts' = IF accounts[a].period >= call[c].m THEN accounts
                       ELSE [accounts EXCEPT ![a].period = call[c].m,
                                             ![a].credit = call[c].grant]
    /\ Goto(c, "gate")
    /\ UNCHANGED <<identity, requests>>

\* A request with credit is served and may use it up; one without gets a 402
\* and the recorder's goroutine starts, with a clock of its own.
CreditGate(c) ==
    /\ call[c].pc = "gate"
    /\ LET a == call[c].account
       IN  \/ /\ accounts[a].credit
              /\ \E left \in BOOLEAN :
                   accounts' = [accounts EXCEPT ![a].credit = left]
              /\ End(c)
           \/ /\ ~accounts[a].credit
              /\ Goto(c, "record") /\ UNCHANGED accounts
    /\ UNCHANGED <<identity, requests>>

----------------------------------------------------------------------------
(***************************************************************************)
(* Filing                                                                  *)
(***************************************************************************)

Has(a, period, statuses) ==
    \E r \in DOMAIN requests : /\ requests[r].account = a
                               /\ requests[r].period = period
                               /\ requests[r].status \in statuses

\* Mutant: a dismissal does not silence the account.
Silent(a, period) == Has(a, period, {"pending"})

\* The subquery of the INSERT.
Silenced(a, period) == Has(a, period, {"pending", "dismissed"})

recordCapHit(c) ==
    /\ call[c].pc = "record"
    /\ IF Silenced(call[c].account, month) THEN End(c)
       ELSE Do(c, [call[c] EXCEPT !.pc = "file", !.m = month])
    /\ UNCHANGED <<identity, accounts, requests>>

\* The row is inserted, or the index on pending rows makes it a no-op.  by and
\* paid are history: the month read by who marked it, and the grants made for it
\* by callers that had marked it.
FileCreditRequest(c) ==
    /\ call[c].pc = "file"
    /\ LET a == call[c].account
           new == [account |-> a, period |-> call[c].m, status |-> "pending",
                   raced |-> call[c].raced, by |-> 0, paid |-> 0]
       IN  requests' = IF Has(a, call[c].m, {"pending"}) THEN requests
                       ELSE Append(requests, new)
    /\ End(c)
    /\ UNCHANGED <<identity, accounts>>

----------------------------------------------------------------------------
(***************************************************************************)
(* Admin calls                                                             *)
(***************************************************************************)

expireStaleCreditRequests(m) ==
    requests' = [r \in DOMAIN requests |->
                   IF requests[r].status = "pending" /\ requests[r].period < m
                   THEN [requests[r] EXCEPT !.status = "expired"] ELSE requests[r]]

ListCreditRequests(c) ==
    /\ Begin(c, [Idle EXCEPT !.pc = "expire"])
    /\ UNCHANGED <<identity, accounts, requests, month>>

ExpireStale(c) ==
    /\ call[c].pc = "expire"
    /\ expireStaleCreditRequests(call[c].m)
    /\ End(c)
    /\ UNCHANGED <<identity, accounts>>

resolveCreditRequest(c, r, status) ==
    /\ Begin(c, [Idle EXCEPT !.pc = "resolve", !.request = r, !.status = status])
    /\ UNCHANGED <<identity, accounts, requests, month>>

\* Mutant: the status is not looked at.
ResolvableAlways(r, m) == requests[r].period >= m

\* The WHERE clause of the UPDATE.
Resolvable(r, m) == requests[r].status = "pending" /\ requests[r].period >= m

\* A dismissal ends its call and overtakes filings whose subquery has run.
Overtake(c, r) ==
    /\ call' = [d \in Calls |->
                  IF d = c THEN Idle
                  ELSE IF /\ call[d].pc = "file" /\ call[d].account = r.account
                          /\ call[d].m = r.period
                       THEN [call[d] EXCEPT !.raced = TRUE] ELSE call[d]]
    /\ UNCHANGED <<month, begun>>

\* A pending request of this month is marked; a caller that has not granted yet
\* does so next.  What cannot be marked is looked at again.
ResolveCreditRequest(c) ==
    /\ call[c].pc = "resolve"
    /\ LET r == call[c].request
       IN  IF Resolvable(r, call[c].m)
           THEN /\ requests' = [requests EXCEPT ![r].status = call[c].status,
                                                ![r].by = call[c].m]
                /\ \/ call[c].status = "dismissed" /\ Overtake(c, requests[r])
                   \/ call[c].status = "granted" /\ call[c].early /\ End(c)
                   \/ /\ call[c].status = "granted" /\ ~call[c].early
                      /\ Goto(c, "granting")
           ELSE Goto(c, "why") /\ UNCHANGED requests
    /\ UNCHANGED <<identity, accounts>>

\* A stale one is expired (409), one already resolved stays as it is (409).
WhyUnresolved(c) ==
    /\ call[c].pc = "why"
    /\ LET r == requests[call[c].request]
       IN  IF r.status = "pending" /\ r.period < call[c].m THEN Goto(c, "expire")
           ELSE End(c)
    /\ UNCHANGED <<identity, accounts, requests>>

\* POST /api/admin/accounts/{id}/credits: no credit request is looked at.  The
\* amount has either sign, so the account ends with credit or without.
grantCredits(a) ==
    \E left \in BOOLEAN : accounts' = [accounts EXCEPT ![a].credit = left]

\* Any admin may grant to any account, ...
Grant(c, a) ==
    /\ Begin(c, Idle)
    /\ grantCredits(a)
    /\ UNCHANGED <<identity, requests, month>>

\* ... a caller that marked its request grants then, or never gets there, ...
GrantMarked(c) ==
    /\ call[c].pc = "granting"
    /\ LET r == call[c].request
       IN  \/ /\ grantCredits(requests[r].account)
              /\ requests' = [requests EXCEPT ![r].paid = @ + 1]
           \/ UNCHANGED <<accounts, requests>>
    /\ End(c)
    /\ UNCHANGED identity

\* ... and one that saw a request in the list grants for it first ...
TopUp(c, r) ==
    /\ Begin(c, [Idle EXCEPT !.pc = "mark", !.request = r, !.status = "granted",
                             !.early = TRUE])
    /\ grantCredits(requests[r].account)
    /\ UNCHANGED <<identity, requests, month>>

\* ... and then sends the resolution, which reads the clock, or never does.
MarkGranted(c) ==
    /\ call[c].pc = "mark"
    /\ \/ Do(c, [call[c] EXCEPT !.pc = "resolve", !.m = month])
       \/ End(c)
    /\ UNCHANGED <<identity, accounts, requests>>

\* PUT /api/admin/accounts/{id}/allowance; an explicit 0 blocks the account
\* from its next reset on.
SetMonthlyGrant(c, a, blocked) ==
    /\ Begin(c, Idle)
    /\ accounts' = [accounts EXCEPT ![a].blocked = blocked]
    /\ UNCHANGED <<identity, requests, month>>

----------------------------------------------------------------------------

Arrive(c) ==
    \/ \E i \in Identities : Middleware(c, i)
    \/ ListCreditRequests(c)
    \/ \E r \in DOMAIN requests, status \in {"granted", "dismissed"} :
         resolveCreditRequest(c, r, status)
    \/ \E r \in DOMAIN requests : TopUp(c, r)
    \/ \E a \in DOMAIN accounts : Grant(c, a)
    \/ \E a \in DOMAIN accounts, blocked \in BOOLEAN : SetMonthlyGrant(c, a, blocked)

Step(c) ==
    \/ lookupFederatedAccount(c) \/ provisionFederatedAccount(c)
    \/ commitProvision(c) \/ Fail(c)
    \/ readAllowance(c) \/ applyMonthlyAllowance(c) \/ CreditGate(c)
    \/ recordCapHit(c) \/ FileCreditRequest(c)
    \/ ExpireStale(c) \/ ResolveCreditRequest(c) \/ WhyUnresolved(c)
    \/ GrantMarked(c) \/ MarkGranted(c)

Next == TurnMonth \/ \E c \in Calls : Arrive(c) \/ Step(c)

Spec == Init /\ [][Next]_vars

----------------------------------------------------------------------------
(***************************************************************************)
(* Properties                                                              *)
(***************************************************************************)

\* ResolveEndUserAccount: however many first requests of an end user race, one
\* account exists for it, none is left over, and every request bills the
\* account of the user it names.
OneAccountPerIdentity ==
    /\ Len(accounts) = Cardinality(DOMAIN identity)
    /\ \A i \in DOMAIN identity : accounts[identity[i]].for = i
    /\ \A c \in Calls : (call[c].id # NoIdentity /\ call[c].account # 0)
                        => accounts[call[c].account].for = call[c].id

\* FileCreditRequest: "a dismissed row silences the rest of the month" for the
\* account, and two requests of a month are never pending.  The code allows one
\* exception: a request whose subquery had run before the dismissal committed.
\* It contradicts docs/design/credit-requests.md:59-63, "A `dismissed` row exists
\* -> no-op for the rest of the month ... so the NOT EXISTS check suffices for it".
DismissedSilences ==
    \A r, s \in DOMAIN requests :
        /\ requests[r].account = requests[s].account
        /\ requests[r].period = requests[s].period
        => /\ requests[r].status = "dismissed" /\ r < s => requests[s].raced
           /\ requests[r].status = "pending" /\ requests[s].status = "pending"
              => r = s

\* ResolveCreditRequest: the pending row is a lock for the callers that mark
\* first.  However they race and retry, beside any number of callers that grant
\* first or without a request, they pay a request at most once, only when it is
\* marked granted, and only if they asked before the allowance was reset.  No
\* such thing holds of callers that grant first: docs/design/credit-requests.md
\* :119-122, "a raced or stale actor can never grant twice", is true of the one
\* order only, and internal/admin/credit_requests.go:16-19 prescribes the other.
MarkFirstPaysOnce ==
    \A r \in DOMAIN requests :
        requests[r].paid > 0 => /\ requests[r].paid = 1
                                /\ requests[r].status = "granted"
                                /\ requests[r].by <= requests[r].period
=============================================================================
