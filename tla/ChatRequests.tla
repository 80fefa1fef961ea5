---------------------------- MODULE ChatRequests ----------------------------
(***************************************************************************)
(* The life of chat completion requests on top of the credit store:        *)
(* billing resolution, credit gate, reservation, upstream call, settlement *)
(* or release and the usage entry (internal/proxy/proxy.go,                *)
(* internal/billing, internal/credits), together with the stale hold       *)
(* sweeper, crashes of the process and a database that may fail a call,    *)
(* with or without having done its work.                                   *)
(*                                                                         *)
(* The database operations are the actions of CreditLedger.                *)
(***************************************************************************)
EXTENDS CreditData

CONSTANTS
    Requests,     \* one element per request
    MaxGrants, MaxMonth,
    MaxCrashes    \* bound on process crashes

ASSUME CrashesAssumption == MaxCrashes \in Nat
ASSUME LimitsAssumption  == MaxGrants \in Nat /\ MaxMonth \in Nat \ {0}

VARIABLES
    balance, reserved, allowance_period, holds, used, txns, month,
    stale,      \* holds created more than staleThreshold (10 minutes) ago
    sweeping,   \* the ids SweepStaleHolds selected and has not come to yet
    swept,      \* the holds the sweeper released
    req,        \* the handler of each request
    entries,    \* what logUsage put on the usage channel, by request
    crashes

ledger == <<balance, reserved, allowance_period, holds, used, txns, month>>
vars   == <<ledger, stale, sweeping, swept, req, entries, crashes>>

Ledger == INSTANCE CreditLedger

\* A handler: the step it is at, the billing account, how that account was
\* found (an identity header on a trusted key, or the key's own account), the
\* clock it read, its hold, whether the upstream answered, the actual cost,
\* what SettleHold returned, and whether a store call of its returned an error.
Request ==
    [pc : {"new", "billing", "gate", "route", "reserve", "upstream", "release",
           "settle", "log", "done", "lost"},
     acct : Accounts, via : {"identity", "key"}, m : Nat,
     hold : HoldIds \cup {NoHold}, answered : BOOLEAN, cost : Costs \cup {0},
     charged : Costs \cup {0}, failed : BOOLEAN]

Goto(r, pc) == req' = [req EXCEPT ![r].pc = pc]

Active(r) == req[r].pc \notin {"new", "done", "lost"}

Init ==
    /\ Ledger!Init
    /\ stale = {} /\ sweeping = {} /\ swept = {}
    /\ req \in [Requests -> {[pc |-> "new", acct |-> a, via |-> v, m |-> 0,
                              hold |-> NoHold, answered |-> FALSE, cost |-> 0,
                              charged |-> 0, failed |-> FALSE] :
                                a \in Accounts, v \in {"identity", "key"}}]
    /\ \A r \in Requests : req[r].via = "identity" => req[r].acct \in Managed
    /\ entries = [r \in {} |-> 0]
    /\ crashes = 0

----------------------------------------------------------------------------
(***************************************************************************)
(* Admission                                                               *)
(***************************************************************************)

\* The billing middleware reads its clock.
Arrive(r) ==
    /\ req[r].pc = "new"
    /\ req' = [req EXCEPT ![r].pc = "billing", ![r].m = month]
    /\ UNCHANGED <<ledger, stale, sweeping, swept, entries, crashes>>

\* Mutant: a failed allowance reset is logged and the request goes on.
BillingFailsOpen(r) ==
    /\ req[r].pc = "billing"
    /\ \/ /\ req[r].via = "identity"
          /\ \E grant \in AllowanceAmounts :
                Ledger!applyMonthlyAllowance(req[r].acct, grant, req[r].m)
          /\ Goto(r, "gate")
       \/ Goto(r, "gate") /\ UNCHANGED ledger
    /\ UNCHANGED <<stale, sweeping, swept, entries, crashes>>

\* Identity headers resolve to an end-user account whose allowance is brought
\* to the month the request read; a failure fails closed (500).  A key's own
\* account gets no reset here, even when it is allowance managed.
Billing(r) ==
    /\ req[r].pc = "billing"
    /\ \/ /\ req[r].via = "identity"
          /\ \E grant \in AllowanceAmounts :
                Ledger!applyMonthlyAllowance(req[r].acct, grant, req[r].m)
          /\ Goto(r, "gate")
       \/ /\ req[r].via = "identity" => allowance_period[req[r].acct] >= req[r].m
          /\ Goto(r, "gate") /\ UNCHANGED ledger
       \/ Goto(r, "done") /\ UNCHANGED ledger
    /\ UNCHANGED <<stale, sweeping, swept, entries, crashes>>

\* CreditGate: 402 unless balance - reserved > 0, as read now (403 for a
\* disabled account, 500 on error).  The cap hit a 402 records for an end user
\* is filed by a goroutine of its own and touches no state of this module.
CreditGate(r) ==
    /\ req[r].pc = "gate"
    /\ \/ balance[req[r].acct] - reserved[req[r].acct] > 0 /\ Goto(r, "route")
       \/ Goto(r, "done")
    /\ UNCHANGED <<ledger, stale, sweeping, swept, entries, crashes>>

\* Body, pricing, session limit and Resolve: the request goes on to reserve
\* or ends before any hold exists (400, 429, 500, 503).
Route(r) ==
    /\ req[r].pc = "route"
    /\ Goto(r, "reserve") \/ Goto(r, "done")
    /\ UNCHANGED <<ledger, stale, sweeping, swept, entries, crashes>>

\* Mutant: the return after a failed reservation is missing.
ReserveFallsThrough(r) ==
    /\ req[r].pc = "reserve"
    /\ \/ \E amount \in Costs, id \in HoldIds :
            /\ Ledger!ReserveCredits(req[r].acct, amount, id)
            /\ req' = [req EXCEPT ![r].pc = "upstream", ![r].hold = id]
       \/ Goto(r, "upstream") /\ UNCHANGED ledger
    /\ UNCHANGED <<stale, sweeping, swept, entries, crashes>>

\* ReserveCredits with an estimate of the cost.  Every error is a 402: too
\* little credit, a database error, and a COMMIT whose answer was lost (the
\* hold exists and nobody will ever settle it).
Reserve(r) ==
    /\ req[r].pc = "reserve"
    /\ \/ \E amount \in Costs, id \in HoldIds :
            /\ Ledger!ReserveCredits(req[r].acct, amount, id)
            /\ \/ req' = [req EXCEPT ![r].pc = "upstream", ![r].hold = id]
               \/ Goto(r, "done")
       \/ Goto(r, "done") /\ UNCHANGED ledger
    /\ UNCHANGED <<stale, sweeping, swept, entries, crashes>>

----------------------------------------------------------------------------
(***************************************************************************)
(* The upstream call and its settlement                                    *)
(***************************************************************************)

\* Mutant: an upstream error is settled like an answer.
FailuresSettle(r) ==
    /\ req[r].pc = "upstream"
    /\ \E c \in Costs : req' = [req EXCEPT ![r].pc = "settle", ![r].cost = c]
    /\ UNCHANGED <<ledger, stale, sweeping, swept, entries, crashes>>

\* No request could be built or sent, a status other than 200, a body that
\* could not be read, a stream that broke before its first byte.
UpstreamFails(r) ==
    /\ req[r].pc = "upstream"
    /\ Goto(r, "release")
    /\ UNCHANGED <<ledger, stale, sweeping, swept, entries, crashes>>

\* A 200 answer, whole or (for a stream) cut short after some bytes; the cost
\* comes from the tokens it reports or from its size and is not bounded by the
\* estimate.
UpstreamAnswers(r) ==
    /\ req[r].pc = "upstream"
    /\ \E c \in Costs : req' = [req EXCEPT ![r].pc = "settle", ![r].cost = c,
                                           ![r].answered = TRUE]
    /\ UNCHANGED <<ledger, stale, sweeping, swept, entries, crashes>>

\* ReleaseHold; its error is ignored.  Failures before the call was made
\* return without a usage entry.
Release(r) ==
    /\ req[r].pc = "release"
    /\ \/ Ledger!ReleaseHold(req[r].hold)
       \/ UNCHANGED ledger
    /\ Goto(r, "log") \/ Goto(r, "done")
    /\ UNCHANGED <<stale, sweeping, swept, entries, crashes>>

\* Mutant: a settlement that would exceed the reservation is dropped.
SettleWithinHold(r) ==
    /\ req[r].pc = "settle"
    /\ LET h == req[r].hold
       IN  \/ /\ h \in DOMAIN holds => ToTicks(req[r].cost) <= holds[h].amount
              /\ Ledger!SettleHold(h, req[r].cost)
              /\ req' = [req EXCEPT ![r].pc = "log", ![r].charged = req[r].cost]
           \/ Goto(r, "log") /\ UNCHANGED ledger
    /\ UNCHANGED <<stale, sweeping, swept, entries, crashes>>

\* settleCredits, settleStreamCredits: the charge is what SettleHold returns,
\* 0 when the hold is no longer pending and 0 when it returns an error, which
\* it also does when the answer to its COMMIT was lost.  The usage averages
\* updated next only feed the estimates, which Reserve picks freely.
Settle(r) ==
    /\ req[r].pc = "settle"
    /\ LET h == req[r].hold
       IN  \/ /\ Ledger!SettleHold(h, req[r].cost)
              /\ \/ req' = [req EXCEPT ![r].pc = "log", ![r].charged = req[r].cost]
                 \/ req' = [req EXCEPT ![r].pc = "log", ![r].failed = TRUE]
           \/ /\ ~(h \in DOMAIN holds /\ holds[h].status = "pending")
              /\ Goto(r, "log") /\ UNCHANGED ledger
           \/ /\ req' = [req EXCEPT ![r].pc = "log", ![r].failed = TRUE]
              /\ UNCHANGED ledger
    /\ UNCHANGED <<stale, sweeping, swept, entries, crashes>>

Put(r, entry) ==
    entries' = [x \in DOMAIN entries \cup {r} |-> IF x = r THEN entry ELSE entries[x]]

\* Mutant: the entry carries the computed cost, not what was charged.
LogComputedCost(r) ==
    /\ req[r].pc = "log"
    /\ \/ Put(r, [acct |-> req[r].acct, hold |-> req[r].hold,
                  credits_charged |-> req[r].cost])
       \/ UNCHANGED entries
    /\ Goto(r, "done")
    /\ UNCHANGED <<ledger, stale, sweeping, swept, crashes>>

\* logUsage: a non-blocking send; a full channel drops the entry.
LogUsage(r) ==
    /\ req[r].pc = "log"
    /\ \/ Put(r, [acct |-> req[r].acct, hold |-> req[r].hold,
                  credits_charged |-> req[r].charged])
       \/ UNCHANGED entries
    /\ Goto(r, "done")
    /\ UNCHANGED <<ledger, stale, sweeping, swept, crashes>>

Handler(r) ==
    \/ Billing(r) \/ CreditGate(r) \/ Route(r) \/ Reserve(r)
    \/ UpstreamFails(r) \/ UpstreamAnswers(r)
    \/ Release(r) \/ Settle(r) \/ LogUsage(r)

----------------------------------------------------------------------------
(***************************************************************************)
(* The sweeper                                                             *)
(***************************************************************************)

\* A pending hold passes the stale threshold.  Its request may still be
\* running: a node's timeout has no upper limit.
Age(h) ==
    /\ h \in DOMAIN holds /\ holds[h].status = "pending"
    /\ h \notin stale
    /\ stale' = stale \cup {h}
    /\ UNCHANGED <<ledger, sweeping, swept, req, entries, crashes>>

\* Mutant: created_at > cutoff.
SelectFresh ==
    /\ sweeping = {}
    /\ sweeping' = {h \in DOMAIN holds \ stale : holds[h].status = "pending"}
    /\ sweeping' # {}
    /\ UNCHANGED <<ledger, stale, swept, req, entries, crashes>>

\* SweepStaleHolds, on a tick: SELECT the ids of the stale pending holds.
SweepSelect ==
    /\ sweeping = {}
    /\ sweeping' = {h \in DOMAIN holds \cap stale : holds[h].status = "pending"}
    /\ sweeping' # {}
    /\ UNCHANGED <<ledger, stale, swept, req, entries, crashes>>

\* Release the next of them.  Its request may have settled it since.
SweepRelease(h) ==
    /\ h \in sweeping
    /\ sweeping' = sweeping \ {h}
    /\ \/ Ledger!ReleaseHold(h) /\ swept' = swept \cup {h}
       \/ /\ ~(h \in DOMAIN holds /\ holds[h].status = "pending")
          /\ UNCHANGED <<ledger, swept>>
    /\ UNCHANGED <<stale, req, entries, crashes>>

\* An error ends the sweep; the remaining holds wait for the next tick.
SweepError ==
    /\ sweeping # {}
    /\ sweeping' = {}
    /\ UNCHANGED <<ledger, stale, swept, req, entries, crashes>>

----------------------------------------------------------------------------
\* The process dies and is started again: its handlers and the sweep are
\* gone, their holds stay.
Crash ==
    /\ crashes < MaxCrashes
    /\ \E r \in Requests : Active(r)
    /\ crashes' = crashes + 1
    /\ req' = [r \in Requests |->
                 IF Active(r) THEN [req[r] EXCEPT !.pc = "lost"] ELSE req[r]]
    /\ sweeping' = {}
    /\ UNCHANGED <<ledger, stale, swept, entries>>

\* Everything else that reaches the store: admin grants, the hold cleanup and
\* the clock.
Elsewhere ==
    /\ \/ \E a \in Accounts, amount \in GrantAmounts : Ledger!AddCredits(a, amount)
       \/ \E old \in SUBSET DOMAIN holds : old # {} /\ Ledger!CleanupSettledHolds(old)
       \/ Ledger!NewMonth
    /\ UNCHANGED <<stale, sweeping, swept, req, entries, crashes>>

\* Every request has come to its end and every hold has been cleaned up.
Finished ==
    /\ \A r \in Requests : ~Active(r)
    /\ UNCHANGED vars

Next ==
    \/ \E r \in Requests : Arrive(r)
    \/ \E r \in Requests : Handler(r)
    \/ \E h \in HoldIds : Age(h)
    \/ SweepSelect
    \/ \E h \in HoldIds : SweepRelease(h)
    \/ SweepError
    \/ Crash
    \/ Elsewhere
    \/ Finished

\* Time passes, the ticker ticks and a sweep is not failed by the database
\* forever.  Nothing is assumed of handlers: a hold must not depend on them.
Fairness ==
    /\ \A h \in HoldIds : WF_vars(Age(h))
    /\ WF_vars(SweepSelect)
    /\ \A h \in HoldIds : SF_vars(SweepRelease(h))

Spec == Init /\ [][Next]_vars /\ Fairness

----------------------------------------------------------------------------
(***************************************************************************)
(* Properties                                                              *)
(***************************************************************************)

\* The handlers are well typed; one that calls the upstream, settles or
\* releases has a hold, and no two have the same.
TypeOK ==
    /\ req \in [Requests -> Request]
    /\ sweeping \subseteq used /\ stale \subseteq used /\ swept \subseteq stale
    /\ DOMAIN entries \subseteq Requests
    /\ crashes \in 0..MaxCrashes
    /\ \A r \in Requests :
         /\ req[r].pc \in {"upstream", "settle", "release", "log"} =>
               req[r].hold \in used
         /\ \A s \in Requests \ {r} :
               req[r].hold = NoHold \/ req[r].hold # req[s].hold

\* The usage rows that name a request's hold, in its own account's trail.
Charges(r) == {i \in DOMAIN txns[req[r].acct] :
                 /\ txns[req[r].acct][i].type = "usage"
                 /\ txns[req[r].acct][i].reference_id = req[r].hold}

\* Nobody pays without an answer: every usage row is the actual cost of
\* exactly one request that the upstream answered, on the account the request
\* was billed to.  Upstream failures, crashes and orphaned reservations are
\* never charged.
ChargesHaveAnswers ==
    \A a \in Accounts : \A i \in DOMAIN txns[a] :
        txns[a][i].type = "usage" =>
            \E r \in Requests : /\ req[r].acct = a
                                /\ req[r].hold = txns[a][i].reference_id
                                /\ req[r].answered
                                /\ txns[a][i].amount = ToTicks(-req[r].cost)

\* An answer is free only when the sweeper took its hold first or the store
\* returned an error; every other answered request that came to its end was
\* charged.
FreeOnlyWhenSwept ==
    \A r \in Requests :
        (req[r].answered /\ req[r].pc \in {"log", "done"} /\ ~req[r].failed)
            => Charges(r) # {} \/ req[r].hold \in swept

\* Usage analytics agree with the ledger: an entry that says credits were
\* charged has the usage row of that amount, and one that says nothing was
\* charged has none, unless the answer to the settlement was lost.
EntriesMatchLedger ==
    \A r \in DOMAIN entries :
        LET charged == entries[r].credits_charged
        IN  IF charged # 0
            THEN \E i \in Charges(r) :
                    txns[req[r].acct][i].amount = ToTicks(-charged)
            ELSE req[r].failed \/ req[r].cost = 0 \/ Charges(r) = {}

\* ResolveEndUserAccount: a trusted end user's request reaches the credit gate
\* only after the allowance of the month it read, or of a later one, was
\* applied, even when several first requests of a month race.  If the month
\* turns after the clock was read, the gate still sees the month before.
AllowanceBeforeGate ==
    \A r \in Requests :
        (req[r].via = "identity"
         /\ req[r].pc \in {"gate", "route", "reserve", "upstream", "settle"})
            => allowance_period[req[r].acct] >= req[r].m

\* No reservation is stranded: whatever the handler does, crash, lost answer
\* or failed release, every hold comes to be settled, released or deleted.
HoldsEnd ==
    \A h \in HoldIds :
        (h \in DOMAIN holds /\ holds[h].status = "pending")
            ~> ~(h \in DOMAIN holds /\ holds[h].status = "pending")

\* docs/design/end-user-accounts.md on the soft cap: "The overrun is bounded
\* by a single response."  Without clawbacks, no balance is overdrawn by more
\* than the cost of the most expensive response.
OverrunBoundedBySingleResponse ==
    \A a \in Accounts : \E c \in Costs : Exact(balance[a]) >= -c
=============================================================================
