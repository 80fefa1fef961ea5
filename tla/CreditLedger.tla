---------------------------- MODULE CreditLedger ----------------------------
(***************************************************************************)
(* What the credit store promises (internal/store/credits.go and           *)
(* federated.go): balances with reservations, holds that are charged or    *)
(* released, and an audit trail.  Every operation is one database          *)
(* transaction and is one atomic action here; CreditTransactions models    *)
(* the statements and row locks inside them and is shown to implement this *)
(* specification.  A call that changes nothing (insufficient credits, a    *)
(* hold that is no longer pending, an allowance already granted) is a      *)
(* stuttering step.                                                        *)
(***************************************************************************)
EXTENDS CreditData

CONSTANTS
    MaxGrants,   \* bound on the audit rows an account has when credits are added
    MaxMonth     \* bound on the months the clock passes through

ASSUME BoundsAssumption == MaxGrants \in Nat /\ MaxMonth \in Nat \ {0}

VARIABLES
    balance,            \* credit_balances.balance
    reserved,           \* credit_balances.reserved
    allowance_period,   \* credit_balances.allowance_period, 0 for NULL
    holds,              \* credit_holds: the rows present, by id
    used,               \* ids the credit_holds sequence has handed out
    txns,               \* credit_transactions by account, in id order
    month               \* the current UTC month

vars == <<balance, reserved, allowance_period, holds, used, txns, month>>

Pending(a) == {h \in DOMAIN holds : /\ holds[h].account_id = a
                                    /\ holds[h].status = "pending"}

\* Every tick of every pending hold of an account: the set whose size is the
\* sum of the pending holds' amounts.
PendingTicks(a) == UNION {{h} \X (1..holds[h].amount) : h \in Pending(a)}

----------------------------------------------------------------------------
\* Mutants: what plausible slips in this code would make of an operation.
\* None of them is part of the specification.

AddCreditsUnaudited(a, amount) ==
    /\ Len(txns[a]) < MaxGrants
    /\ balance' = [balance EXCEPT ![a] = ToTicks(Exact(@) + amount)]
    /\ UNCHANGED <<reserved, allowance_period, holds, used, txns, month>>

ReserveIgnoringReserved(a, amount, id) ==
    /\ id \in HoldIds \ used
    /\ Affords(balance[a], 0, amount)
    /\ used' = used \cup {id}
    /\ holds' = [h \in DOMAIN holds \cup {id} |->
                   IF h = id THEN [account_id |-> a, amount |-> ToTicks(amount),
                                   status |-> "pending"]
                             ELSE holds[h]]
    /\ reserved' = [reserved EXCEPT ![a] = ToTicks(Exact(@) + amount)]
    /\ UNCHANGED <<balance, allowance_period, txns, month>>

ReserveWithoutSequence(a, amount, id) ==
    /\ id \in HoldIds \ used
    /\ Affords(balance[a], reserved[a], amount)
    /\ holds' = [h \in DOMAIN holds \cup {id} |->
                   IF h = id THEN [account_id |-> a, amount |-> ToTicks(amount),
                                   status |-> "pending"]
                             ELSE holds[h]]
    /\ reserved' = [reserved EXCEPT ![a] = ToTicks(Exact(@) + amount)]
    /\ UNCHANGED <<balance, allowance_period, used, txns, month>>

SettleReleasedToo(h, actualAmount) ==
    /\ h \in DOMAIN holds
    /\ holds[h].status # "settled"
    /\ LET a          == holds[h].account_id
           newBalance == ToTicks(Exact(balance[a]) - actualAmount)
       IN  /\ balance'  = [balance EXCEPT ![a] = newBalance]
           /\ reserved' = [reserved EXCEPT ![a] = @ - holds[h].amount]
           /\ txns' = [txns EXCEPT ![a] =
                         Append(@, UsageRow(h, actualAmount, newBalance))]
    /\ holds' = [holds EXCEPT ![h].status = "settled"]
    /\ UNCHANGED <<allowance_period, used, month>>

SettleSettledToo(h, actualAmount) ==
    /\ h \in DOMAIN holds
    /\ holds[h].status # "released"
    /\ LET a          == holds[h].account_id
           newBalance == ToTicks(Exact(balance[a]) - actualAmount)
       IN  /\ balance'  = [balance EXCEPT ![a] = newBalance]
           /\ reserved' = [reserved EXCEPT ![a] = @ - holds[h].amount]
           /\ txns' = [txns EXCEPT ![a] =
                         Append(@, UsageRow(h, actualAmount, newBalance))]
    /\ holds' = [holds EXCEPT ![h].status = "settled"]
    /\ UNCHANGED <<allowance_period, used, month>>

ReleaseFinishedToo(h) ==
    /\ h \in DOMAIN holds
    /\ holds[h].status # "released"
    /\ reserved' = [reserved EXCEPT ![holds[h].account_id] = @ - holds[h].amount]
    /\ holds' = [holds EXCEPT ![h].status = "released"]
    /\ UNCHANGED <<balance, allowance_period, used, txns, month>>

AllowanceAnyOtherMonth(a, grant, m) ==
    /\ a \in Managed
    /\ allowance_period[a] # m
    /\ balance' = [balance EXCEPT ![a] = ToTicks(grant)]
    /\ allowance_period' = [allowance_period EXCEPT ![a] = m]
    /\ txns' = [txns EXCEPT ![a] = Append(@, AllowanceRow(grant, m))]
    /\ UNCHANGED <<reserved, holds, used, month>>

----------------------------------------------------------------------------
\* A new account has a zero balance row (BackfillCreditBalances, and every
\* path that creates an account).
Init ==
    /\ balance = [a \in Accounts |-> 0]
    /\ reserved = [a \in Accounts |-> 0]
    /\ allowance_period = [a \in Accounts |-> 0]
    /\ holds = [h \in {} |-> 0]
    /\ used = {}
    /\ txns = [a \in Accounts |-> <<>>]
    /\ month = 1

AddCredits(a, amount) ==
    /\ Len(txns[a]) < MaxGrants
    /\ LET newBalance == ToTicks(Exact(balance[a]) + amount)
       IN  /\ balance' = [balance EXCEPT ![a] = newBalance]
           /\ txns' = [txns EXCEPT ![a] = Append(@, GrantRow(amount, newBalance))]
    /\ UNCHANGED <<reserved, allowance_period, holds, used, month>>

ReserveCredits(a, amount, id) ==
    /\ id \in HoldIds \ used
    /\ Affords(balance[a], reserved[a], amount)
    /\ used' = used \cup {id}
    /\ holds' = [h \in DOMAIN holds \cup {id} |->
                   IF h = id THEN [account_id |-> a, amount |-> ToTicks(amount),
                                   status |-> "pending"]
                             ELSE holds[h]]
    /\ reserved' = [reserved EXCEPT ![a] = ToTicks(Exact(@) + amount)]
    /\ UNCHANGED <<balance, allowance_period, txns, month>>

\* A rolled back INSERT leaves a gap in the sequence: its id is never a hold.
BurnHoldId(id) ==
    /\ id \in HoldIds \ used
    /\ used' = used \cup {id}
    /\ UNCHANGED <<balance, reserved, allowance_period, holds, txns, month>>

SettleHold(h, actualAmount) ==
    /\ h \in DOMAIN holds
    /\ holds[h].status = "pending"
    /\ LET a          == holds[h].account_id
           newBalance == ToTicks(Exact(balance[a]) - actualAmount)
       IN  /\ balance'  = [balance EXCEPT ![a] = newBalance]
           /\ reserved' = [reserved EXCEPT ![a] = @ - holds[h].amount]
           /\ txns' = [txns EXCEPT ![a] =
                         Append(@, UsageRow(h, actualAmount, newBalance))]
    /\ holds' = [holds EXCEPT ![h].status = "settled"]
    /\ UNCHANGED <<allowance_period, used, month>>

ReleaseHold(h) ==
    /\ h \in DOMAIN holds
    /\ holds[h].status = "pending"
    /\ reserved' = [reserved EXCEPT ![holds[h].account_id] = @ - holds[h].amount]
    /\ holds' = [holds EXCEPT ![h].status = "released"]
    /\ UNCHANGED <<balance, allowance_period, used, txns, month>>

\* One DELETE: the settled and released rows older than some cutoff.
CleanupSettledHolds(old) ==
    /\ \A h \in old : holds[h].status \in {"settled", "released"}
    /\ holds' = [h \in DOMAIN holds \ old |-> holds[h]]
    /\ UNCHANGED <<balance, reserved, allowance_period, used, txns, month>>

\* The reset on an account's first request of a month.  The request read its
\* clock earlier, so m may be a month that is already over.
applyMonthlyAllowance(a, grant, m) ==
    /\ a \in Managed
    /\ allowance_period[a] < m
    /\ balance' = [balance EXCEPT ![a] = ToTicks(grant)]
    /\ allowance_period' = [allowance_period EXCEPT ![a] = m]
    /\ txns' = [txns EXCEPT ![a] = Append(@, AllowanceRow(grant, m))]
    /\ UNCHANGED <<reserved, holds, used, month>>

\* The wall clock enters a new UTC month.
NewMonth ==
    /\ month < MaxMonth
    /\ month' = month + 1
    /\ UNCHANGED <<balance, reserved, allowance_period, holds, used, txns>>

Next ==
    \/ \E a \in Accounts, amount \in GrantAmounts : AddCredits(a, amount)
    \/ \E a \in Accounts, amount \in Costs, id \in HoldIds :
          ReserveCredits(a, amount, id)
    \/ \E id \in HoldIds : BurnHoldId(id)
    \/ \E h \in DOMAIN holds, actual \in Costs : SettleHold(h, actual)
    \/ \E h \in DOMAIN holds : ReleaseHold(h)
    \/ \E old \in SUBSET DOMAIN holds : CleanupSettledHolds(old)
    \/ \E a \in Accounts, grant \in AllowanceAmounts, m \in 1..month :
          applyMonthlyAllowance(a, grant, m)
    \/ NewMonth

Spec == Init /\ [][Next]_vars

----------------------------------------------------------------------------
(***************************************************************************)
(* Properties                                                              *)
(***************************************************************************)

\* The tables are well typed, and every hold row has an id the sequence
\* handed out (so a deleted hold's id never comes back).
TypeOK ==
    /\ balance \in [Accounts -> Int]
    /\ reserved \in [Accounts -> Int]
    /\ allowance_period \in [Accounts -> Nat]
    /\ used \subseteq HoldIds
    /\ DOMAIN holds \subseteq used
    /\ holds \in [DOMAIN holds -> HoldRow]
    /\ txns \in [Accounts -> Seq(TxnRow)]
    /\ month \in Nat

\* credit_balances.reserved is exactly the sum of the account's pending
\* holds: a settle, a release or a sweep of the same hold in any order never
\* takes a reservation back twice and never strands one.
ReservedMatchesHolds ==
    \A a \in Accounts : /\ IsFiniteSet(PendingTicks(a))
                        /\ reserved[a] = Cardinality(PendingTicks(a))

\* A hold is charged at most once: two usage rows never name the same hold,
\* not even after the hold's row was cleaned up, and a hold a usage row names
\* is settled, never pending or released, and on the charged account.
ChargedOnce ==
    \A a, b \in Accounts : \A i \in DOMAIN txns[a], j \in DOMAIN txns[b] :
        LET r == txns[a][i]
        IN  r.type = "usage" =>
              /\ r.reference_id \in used
              /\ r.reference_id \in DOMAIN holds =>
                    /\ holds[r.reference_id].status = "settled"
                    /\ holds[r.reference_id].account_id = a
              /\ (txns[b][j].type = "usage"
                  /\ txns[b][j].reference_id = r.reference_id)
                    => a = b /\ i = j

\* The balance before the i-th audit row of an account.
BalanceBefore(a, i) == IF i = 1 THEN 0 ELSE txns[a][i - 1].balance_after

\* The audit trail explains the balance: it ends in the current balance, a
\* monthly reset states the balance it sets, and every other row moves the
\* previous balance by its amount, to within the one tick that rounding the
\* amount and rounding the balance can differ by.
AuditTrail ==
    \A a \in Accounts :
        /\ balance[a] = BalanceBefore(a, Len(txns[a]) + 1)
        /\ \A i \in DOMAIN txns[a] :
             LET r == txns[a][i]
                 d == r.balance_after - (BalanceBefore(a, i) + r.amount)
             IN  IF r.type = "monthly_allowance"
                 THEN r.balance_after = r.amount
                 ELSE d \in -1..1

\* Exactly one monthly allowance lands per account per month, in month order,
\* and only on allowance-managed accounts, however many first requests of the
\* month race and however stale the clock they read.
OneAllowancePerMonth ==
    \A a \in Accounts : \A i \in DOMAIN txns[a] :
        txns[a][i].type = "monthly_allowance" =>
            /\ a \in Managed
            /\ txns[a][i].period <= allowance_period[a]
            /\ \A j \in 1..(i - 1) : txns[a][j].type = "monthly_allowance"
                                       => txns[a][j].period < txns[a][i].period

\* No step that reserves credits oversells the account: right after it, the
\* reservations are covered by the balance.
ReserveWithinBalance ==
    [][\A a \in Accounts : reserved'[a] > reserved[a]
                             => reserved'[a] <= balance'[a]]_vars

\* A hold that was settled or released is final: whatever a late settlement,
\* a second release or a sweep with a stale list of ids does, the row stays as
\* it is until cleanup deletes it.  With ChargedOnce it follows that a hold
\* the sweeper released is never charged.
FinishedHoldsStay ==
    [][\A h \in DOMAIN holds :
          holds[h].status # "pending" /\ h \in DOMAIN holds'
             => holds'[h] = holds[h]]_vars
=============================================================================
