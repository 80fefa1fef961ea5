------------------------- MODULE CreditTransactions -------------------------
(***************************************************************************)
(* The credit store one SQL statement at a time.                           *)
(*                                                                         *)
(* Each operation of internal/store/credits.go (and the monthly allowance  *)
(* of federated.go) is a transaction of two to four statements on a pooled *)
(* connection, at PostgreSQL's default READ COMMITTED level.  A session    *)
(* keeps its uncommitted row versions to itself and the locks of the rows  *)
(* it wrote (or selected FOR UPDATE) until it commits or rolls back; a     *)
(* statement that needs a locked row waits, and then reads the row its     *)
(* owner committed.  A session may be rolled back before any statement: an *)
(* error, a cancelled context, a lost connection or a crashed process.     *)
(***************************************************************************)
EXTENDS CreditData

CONSTANTS
    Sessions,    \* the connections of the pool
    NoSession,   \* the owner of an unlocked row
    MaxGrants,   \* bounds as in CreditLedger
    MaxMonth

ASSUME SessionAssumption == NoSession \notin Sessions
ASSUME LimitsAssumption  == MaxGrants \in Nat /\ MaxMonth \in Nat \ {0}

VARIABLES
    balances,   \* committed credit_balances rows
    holds,      \* committed credit_holds rows, by id
    used,       \* ids the credit_holds sequence has handed out
    txns,       \* committed credit_transactions rows, by account
    month,      \* the current UTC month
    balLock,    \* the session that has locked a credit_balances row
    holdLock,   \* the session that has locked a credit_holds row
    tx          \* the open transaction of each session

tables == <<balances, holds, txns>>
vars   == <<balances, holds, used, txns, month, balLock, holdLock, tx>>

BalanceRow == [balance : Int, reserved : Int, allowance_period : Nat]

\* A transaction: the operation and its arguments, the statement it is at, and
\* the row versions it has written.
Idle == [op |-> "idle", pc |-> "idle"]

Open(s) == tx[s].op # "idle"

\* A statement that needs the row of account a, or hold h, can run.
CanLock(s, a)     == balLock[a] \in {s, NoSession}
CanLockHold(s, h) == holdLock[h] \in {s, NoSession}

\* credit_holds with the version of row h that a transaction writes.
Put(h, row) == [g \in DOMAIN holds \cup {h} |-> IF g = h THEN row ELSE holds[g]]

Init ==
    /\ balances = [a \in Accounts |->
                     [balance |-> 0, reserved |-> 0, allowance_period |-> 0]]
    /\ holds = [h \in {} |-> 0]
    /\ used = {}
    /\ txns = [a \in Accounts |-> <<>>]
    /\ month = 1
    /\ balLock = [a \in Accounts |-> NoSession]
    /\ holdLock = [h \in HoldIds |-> NoSession]
    /\ tx = [s \in Sessions |-> Idle]

----------------------------------------------------------------------------
(***************************************************************************)
(* AddCredits                                                              *)
(***************************************************************************)

\* UPDATE credit_balances SET balance = balance + $1 ... RETURNING balance
AddCredits(s, a, amount) ==
    /\ ~Open(s) /\ CanLock(s, a)
    /\ Len(txns[a]) < MaxGrants
    /\ balLock' = [balLock EXCEPT ![a] = s]
    /\ tx' = [tx EXCEPT ![s] =
                [op |-> "AddCredits", pc |-> "insert", acct |-> a,
                 hold |-> NoHold, amount |-> amount, log |-> <<>>,
                 bal |-> [balances[a] EXCEPT !.balance = ToTicks(Exact(@) + amount)]]]
    /\ UNCHANGED <<tables, used, month, holdLock>>

----------------------------------------------------------------------------
(***************************************************************************)
(* ReserveCredits                                                          *)
(***************************************************************************)

\* The bound on hold ids: a reservation starts only while an id is left for it.
RoomForHold ==
    Cardinality(HoldIds \ used) >
        Cardinality({c \in Sessions : tx[c].op = "ReserveCredits"
                                      /\ tx[c].pc = "hold"})

\* Mutant: the SELECT without FOR UPDATE.
ReserveWithoutLock(s, a, amount) ==
    /\ ~Open(s) /\ CanLock(s, a) /\ RoomForHold
    /\ Affords(balances[a].balance, balances[a].reserved, amount)
    /\ tx' = [tx EXCEPT ![s] =
                [op |-> "ReserveCredits", pc |-> "hold", acct |-> a,
                 hold |-> NoHold, amount |-> amount, log |-> <<>>,
                 bal |-> balances[a]]]
    /\ UNCHANGED <<tables, used, month, balLock, holdLock>>

\* Mutant: a refusal that returns without the deferred rollback.
ReserveLeakingRefusal(s, a, amount) ==
    /\ ~Open(s) /\ CanLock(s, a) /\ RoomForHold
    /\ balLock' = [balLock EXCEPT ![a] = s]
    /\ tx' = [tx EXCEPT ![s] =
                [op |-> "ReserveCredits", acct |-> a,
                 pc |-> IF Affords(balances[a].balance, balances[a].reserved, amount)
                        THEN "hold" ELSE "returned",
                 hold |-> NoHold, amount |-> amount, log |-> <<>>,
                 bal |-> balances[a]]]
    /\ UNCHANGED <<tables, used, month, holdLock>>

\* SELECT balance, reserved ... FOR UPDATE, and the check.  A refused request
\* rolls back and leaves nothing behind.
ReserveCredits(s, a, amount) ==
    /\ ~Open(s) /\ CanLock(s, a) /\ RoomForHold
    /\ Affords(balances[a].balance, balances[a].reserved, amount)
    /\ balLock' = [balLock EXCEPT ![a] = s]
    /\ tx' = [tx EXCEPT ![s] =
                [op |-> "ReserveCredits", pc |-> "hold", acct |-> a,
                 hold |-> NoHold, amount |-> amount, log |-> <<>>,
                 bal |-> balances[a]]]
    /\ UNCHANGED <<tables, used, month, holdLock>>

\* Mutant: ids from the largest id present instead of the sequence.
InsertHoldReusingIds(s, id) ==
    /\ tx[s].op = "ReserveCredits" /\ tx[s].pc = "hold"
    /\ id \in HoldIds \ DOMAIN holds
    /\ holdLock' = [holdLock EXCEPT ![id] = s]
    /\ tx' = [tx EXCEPT ![s].hold = id, ![s].pc = "update"]
    /\ UNCHANGED <<tables, used, month, balLock>>

\* INSERT INTO credit_holds ... RETURNING id
ReserveInsertHold(s, id) ==
    /\ tx[s].op = "ReserveCredits" /\ tx[s].pc = "hold"
    /\ id \in HoldIds \ used
    /\ used' = used \cup {id}
    /\ holdLock' = [holdLock EXCEPT ![id] = s]
    /\ tx' = [tx EXCEPT ![s].hold = id, ![s].pc = "update"]
    /\ UNCHANGED <<tables, month, balLock>>

\* UPDATE credit_balances SET reserved = reserved + $1
ReserveUpdate(s) ==
    /\ tx[s].op = "ReserveCredits" /\ tx[s].pc = "update"
    /\ LET a == tx[s].acct
       IN  /\ CanLock(s, a)
           /\ balLock' = [balLock EXCEPT ![a] = s]
           /\ tx' = [tx EXCEPT ![s].pc = "commit",
                               ![s].bal = [balances[a] EXCEPT
                                 !.reserved = ToTicks(Exact(@) + tx[s].amount)]]
    /\ UNCHANGED <<tables, used, month, holdLock>>

----------------------------------------------------------------------------
(***************************************************************************)
(* SettleHold and ReleaseHold                                              *)
(***************************************************************************)

\* UPDATE credit_holds SET status = ... WHERE id = $1 AND status = 'pending'
\* RETURNING account_id, amount.  No row: the call returns, nothing changed.
MarkHold(s, h, op, amount) ==
    /\ ~Open(s)
    /\ h \in DOMAIN holds /\ CanLockHold(s, h)
    /\ holds[h].status = "pending"
    /\ holdLock' = [holdLock EXCEPT ![h] = s]
    /\ tx' = [tx EXCEPT ![s] =
                [op |-> op, pc |-> "update", acct |-> holds[h].account_id,
                 hold |-> h, amount |-> amount, log |-> <<>>,
                 bal |-> balances[holds[h].account_id]]]
    /\ UNCHANGED <<tables, used, month, balLock>>

SettleHold(s, h, actualAmount) == MarkHold(s, h, "SettleHold", actualAmount)
ReleaseHold(s, h)              == MarkHold(s, h, "ReleaseHold", 0)

\* UPDATE credit_balances SET balance = balance - $1, reserved = reserved - $2
\* RETURNING balance
SettleUpdate(s) ==
    /\ tx[s].op = "SettleHold" /\ tx[s].pc = "update"
    /\ LET a == tx[s].acct
       IN  /\ CanLock(s, a)
           /\ balLock' = [balLock EXCEPT ![a] = s]
           /\ tx' = [tx EXCEPT ![s].pc = "insert",
                               ![s].bal = [balances[a] EXCEPT
                                 !.balance = ToTicks(Exact(@) - tx[s].amount),
                                 !.reserved = @ - holds[tx[s].hold].amount]]
    /\ UNCHANGED <<tables, used, month, holdLock>>

\* UPDATE credit_balances SET reserved = reserved - $1
ReleaseUpdate(s) ==
    /\ tx[s].op = "ReleaseHold" /\ tx[s].pc = "update"
    /\ LET a == tx[s].acct
       IN  /\ CanLock(s, a)
           /\ balLock' = [balLock EXCEPT ![a] = s]
           /\ tx' = [tx EXCEPT ![s].pc = "commit",
                               ![s].bal = [balances[a] EXCEPT
                                 !.reserved = @ - holds[tx[s].hold].amount]]
    /\ UNCHANGED <<tables, used, month, holdLock>>

----------------------------------------------------------------------------
(***************************************************************************)
(* The monthly allowance                                                   *)
(***************************************************************************)

\* UPDATE credit_balances SET balance = $2, allowance_period = $3 WHERE ...
\* (allowance_period IS NULL OR allowance_period < $3).  The grant and the
\* month were read before the transaction.  No row: rolled back, no change.
applyMonthlyAllowance(s, a, grant, m) ==
    /\ ~Open(s) /\ CanLock(s, a)
    /\ a \in Managed
    /\ balances[a].allowance_period < m
    /\ balLock' = [balLock EXCEPT ![a] = s]
    /\ tx' = [tx EXCEPT ![s] =
                [op |-> "applyMonthlyAllowance", pc |-> "insert", acct |-> a,
                 hold |-> NoHold, amount |-> grant, log |-> <<>>,
                 bal |-> [balances[a] EXCEPT !.balance = ToTicks(grant),
                                             !.allowance_period = m]]]
    /\ UNCHANGED <<tables, used, month, holdLock>>

----------------------------------------------------------------------------
(***************************************************************************)
(* The end of a transaction                                                *)
(***************************************************************************)

\* The audit row an operation inserts, from the RETURNING balance.
AuditRow(t) ==
    CASE t.op = "AddCredits" -> GrantRow(t.amount, t.bal.balance)
      [] t.op = "SettleHold" -> UsageRow(t.hold, t.amount, t.bal.balance)
      [] t.op = "applyMonthlyAllowance" ->
           AllowanceRow(t.amount, t.bal.allowance_period)

\* INSERT INTO credit_transactions
InsertTxn(s) ==
    /\ tx[s].pc = "insert"
    /\ tx' = [tx EXCEPT ![s].pc = "commit", ![s].log = <<AuditRow(tx[s])>>]
    /\ UNCHANGED <<tables, used, month, balLock, holdLock>>

Unlock(s) ==
    /\ balLock'  = [a \in Accounts |-> IF balLock[a] = s THEN NoSession
                                                         ELSE balLock[a]]
    /\ holdLock' = [h \in HoldIds |-> IF holdLock[h] = s THEN NoSession
                                                         ELSE holdLock[h]]
    /\ tx' = [tx EXCEPT ![s] = Idle]

\* The hold row a transaction leaves behind.
HoldVersion(t) ==
    CASE t.op = "ReserveCredits" ->
           [account_id |-> t.acct, amount |-> ToTicks(t.amount),
            status |-> "pending"]
      [] t.op = "SettleHold"  -> [holds[t.hold] EXCEPT !.status = "settled"]
      [] t.op = "ReleaseHold" -> [holds[t.hold] EXCEPT !.status = "released"]

Commit(s) ==
    /\ tx[s].pc = "commit"
    /\ LET t == tx[s]
       IN  /\ balances' = [balances EXCEPT ![t.acct] = t.bal]
           /\ txns' = [txns EXCEPT ![t.acct] = @ \o t.log]
           /\ holds' = IF t.hold = NoHold THEN holds
                                          ELSE Put(t.hold, HoldVersion(t))
    /\ Unlock(s)
    /\ UNCHANGED <<used, month>>

Rollback(s) ==
    /\ Open(s)
    /\ Unlock(s)
    /\ UNCHANGED <<tables, used, month>>

----------------------------------------------------------------------------
\* DELETE FROM credit_holds: one statement, its own transaction.  No session
\* holds the lock of a row that is not pending.
CleanupSettledHolds(old) ==
    /\ \A h \in old : holds[h].status \in {"settled", "released"}
    /\ holds' = [h \in DOMAIN holds \ old |-> holds[h]]
    /\ UNCHANGED <<balances, used, txns, month, balLock, holdLock, tx>>

NewMonth ==
    /\ month < MaxMonth
    /\ month' = month + 1
    /\ UNCHANGED <<tables, used, balLock, holdLock, tx>>

\* The statements of an open transaction.
Step(s) ==
    \/ \E id \in HoldIds : ReserveInsertHold(s, id)
    \/ ReserveUpdate(s)
    \/ SettleUpdate(s)
    \/ ReleaseUpdate(s)
    \/ InsertTxn(s)
    \/ Commit(s)

Next ==
    \/ \E s \in Sessions, a \in Accounts, amount \in GrantAmounts :
          AddCredits(s, a, amount)
    \/ \E s \in Sessions, a \in Accounts, amount \in Costs :
          ReserveCredits(s, a, amount)
    \/ \E s \in Sessions, h \in DOMAIN holds, actual \in Costs :
          SettleHold(s, h, actual)
    \/ \E s \in Sessions, h \in DOMAIN holds : ReleaseHold(s, h)
    \/ \E s \in Sessions, a \in Accounts, grant \in AllowanceAmounts, m \in 1..month :
          applyMonthlyAllowance(s, a, grant, m)
    \/ \E s \in Sessions : Step(s)
    \/ \E s \in Sessions : Rollback(s)
    \/ \E old \in SUBSET DOMAIN holds : CleanupSettledHolds(old)
    \/ NewMonth

\* An open transaction keeps executing its statements.  A statement that waits
\* for a row gets it eventually even when others keep taking it: the lock
\* queue of PostgreSQL is first come, first served.
Fairness == \A s \in Sessions : SF_vars(Step(s))

Spec == Init /\ [][Next]_vars /\ Fairness

----------------------------------------------------------------------------
(***************************************************************************)
(* Properties                                                              *)
(***************************************************************************)

\* The committed rows are well typed and every lock has a transaction.
TypeOK ==
    /\ balances \in [Accounts -> BalanceRow]
    /\ DOMAIN holds \subseteq used /\ used \subseteq HoldIds
    /\ \A h \in DOMAIN holds : holds[h] \in HoldRow
    /\ \A a \in Accounts : \A i \in DOMAIN txns[a] : txns[a][i] \in TxnRow
    /\ \A a \in Accounts : balLock[a] = NoSession \/ Open(balLock[a])
    /\ \A h \in HoldIds : holdLock[h] = NoSession \/ Open(holdLock[h])

\* Ids of holds that are inserted but not committed.
Uncommitted == {tx[s].hold : s \in {c \in Sessions : tx[c].op = "ReserveCredits"}}

Ledger == INSTANCE CreditLedger WITH
    balance          <- [a \in Accounts |-> balances[a].balance],
    reserved         <- [a \in Accounts |-> balances[a].reserved],
    allowance_period <- [a \in Accounts |-> balances[a].allowance_period],
    used             <- used \ Uncommitted

\* However the statements of concurrent transactions interleave, wait for row
\* locks and roll back, every commit is one atomic operation of CreditLedger
\* and nothing else is visible: no lost update, no oversold balance, no hold
\* charged or released twice.
ImplementsLedger == Ledger!Spec

\* The row locks are taken in an order that cannot deadlock (a hold before its
\* balance): every transaction that was begun ends, even if none is rolled
\* back.
TransactionsEnd == \A s \in Sessions : Open(s) ~> ~Open(s)
=============================================================================
