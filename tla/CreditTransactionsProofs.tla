---------------------- MODULE CreditTransactionsProofs ----------------------
(***************************************************************************)
(* CreditTransactions implements CreditLedger, for any accounts, sessions  *)
(* and amounts: whatever the interleaving of SQL statements, row locks and *)
(* rollbacks, a COMMIT is one atomic operation of the ledger and no other  *)
(* step changes what the ledger shows.                                     *)
(*                                                                         *)
(* The inductive invariant says what an open transaction may rely on: the  *)
(* rows it has locked are as it read them, so the versions it is about to  *)
(* write are still what the ledger's operation computes.                   *)
(***************************************************************************)
EXTENDS CreditTransactions, TLAPS

----------------------------------------------------------------------------
(***************************************************************************)
(* The invariant                                                           *)
(***************************************************************************)

RowsInv ==
    /\ balances \in [Accounts -> BalanceRow]
    /\ used \subseteq HoldIds /\ DOMAIN holds \subseteq used
    /\ holds \in [DOMAIN holds -> HoldRow]
    /\ txns \in [Accounts -> Seq(TxnRow)]
    /\ month \in Nat /\ month >= 1

LocksInv ==
    /\ balLock \in [Accounts -> Sessions \cup {NoSession}]
    /\ holdLock \in [HoldIds -> Sessions \cup {NoSession}]
    /\ \A a \in Accounts : balLock[a] # NoSession =>
          Open(balLock[a]) /\ tx[balLock[a]].acct = a
    /\ \A h \in HoldIds : holdLock[h] # NoSession =>
          Open(holdLock[h]) /\ tx[holdLock[h]].hold = h

Transaction ==
    [op : {"AddCredits", "ReserveCredits", "SettleHold", "ReleaseHold",
           "applyMonthlyAllowance"},
     pc : {"insert", "hold", "update", "commit"}, acct : Accounts,
     hold : HoldIds \cup {NoHold}, amount : Int, log : Seq(TxnRow),
     bal : BalanceRow]

\* The transaction of a session has locked the balance row it will write, or
\* the row of its hold.
HasBalance(s) == balLock[tx[s].acct] = s
HasHold(s)    == tx[s].hold \in HoldIds /\ holdLock[tx[s].hold] = s

\* Its hold is the pending hold of its account.
OnPending(s) == LET t == tx[s]
                IN  /\ t.hold \in DOMAIN holds /\ holds[t.hold].status = "pending"
                    /\ holds[t.hold].account_id = t.acct

Adding(s) ==
    LET t == tx[s]
        b == balances[t.acct]
    IN  /\ t.op = "AddCredits" /\ t.pc \in {"insert", "commit"}
        /\ t.hold = NoHold /\ t.amount \in GrantAmounts
        /\ HasBalance(s) /\ Len(txns[t.acct]) < MaxGrants
        /\ t.bal = [b EXCEPT !.balance = ToTicks(Exact(b.balance) + t.amount)]
        /\ t.log = IF t.pc = "commit" THEN <<GrantRow(t.amount, t.bal.balance)>>
                   ELSE <<>>

Reserving(s) ==
    LET t == tx[s]
        b == balances[t.acct]
    IN  /\ t.op = "ReserveCredits" /\ t.pc \in {"hold", "update", "commit"}
        /\ t.amount \in Costs /\ t.log = <<>>
        /\ HasBalance(s) /\ Affords(b.balance, b.reserved, t.amount)
        /\ t.bal = IF t.pc = "commit"
                   THEN [b EXCEPT !.reserved = ToTicks(Exact(b.reserved) + t.amount)]
                   ELSE b
        /\ IF t.pc = "hold" THEN t.hold = NoHold
           ELSE HasHold(s) /\ t.hold \in used \ DOMAIN holds

Settling(s) ==
    LET t == tx[s]
        b == balances[t.acct]
    IN  /\ t.op = "SettleHold" /\ t.pc \in {"update", "insert", "commit"}
        /\ t.amount \in Costs /\ HasHold(s) /\ OnPending(s)
        /\ t.pc # "update" =>
             /\ HasBalance(s)
             /\ t.bal = [b EXCEPT !.balance = ToTicks(Exact(b.balance) - t.amount),
                                  !.reserved = b.reserved - holds[t.hold].amount]
        /\ t.log = IF t.pc = "commit"
                   THEN <<UsageRow(t.hold, t.amount, t.bal.balance)>> ELSE <<>>

Releasing(s) ==
    LET t == tx[s]
        b == balances[t.acct]
    IN  /\ t.op = "ReleaseHold" /\ t.pc \in {"update", "commit"}
        /\ HasHold(s) /\ OnPending(s) /\ t.log = <<>>
        /\ t.pc # "update" =>
             /\ HasBalance(s)
             /\ t.bal = [b EXCEPT !.reserved = b.reserved - holds[t.hold].amount]

Resetting(s) ==
    LET t == tx[s]
        b == balances[t.acct]
    IN  /\ t.op = "applyMonthlyAllowance" /\ t.pc \in {"insert", "commit"}
        /\ t.hold = NoHold /\ t.amount \in AllowanceAmounts
        /\ HasBalance(s) /\ t.acct \in Managed
        /\ t.bal.allowance_period \in 1..month
        /\ b.allowance_period < t.bal.allowance_period
        /\ t.bal = [b EXCEPT !.balance = ToTicks(t.amount),
                             !.allowance_period = t.bal.allowance_period]
        /\ t.log = IF t.pc = "commit"
                   THEN <<AllowanceRow(t.amount, t.bal.allowance_period)>> ELSE <<>>

TxOK(s) ==
    \/ tx[s] = Idle
    \/ /\ tx[s] \in Transaction
       /\ \/ Adding(s) \/ Reserving(s) \/ Settling(s) \/ Releasing(s) \/ Resetting(s)

StoreInv ==
    /\ RowsInv /\ LocksInv
    /\ tx \in [Sessions -> {Idle} \cup Transaction]
    /\ \A s \in Sessions : TxOK(s)

\* A session at rest has no transaction.
LEMMA IdleClosed == Idle \notin Transaction /\ Idle.op = "idle"
  BY DEF Idle, Transaction

\* An open transaction.
LEMMA OpenTx ==
    ASSUME StoreInv, NEW s \in Sessions
    PROVE  /\ Open(s) => tx[s] \in Transaction
           /\ ~Open(s) => tx[s] = Idle
           /\ tx[s] \in Transaction => Open(s)
  <1>1. tx[s] = Idle \/ tx[s] \in Transaction  BY DEF StoreInv
  <1>2. tx[s] \in Transaction => tx[s].op # "idle"  BY DEF Transaction
  <1> QED  BY <1>1, <1>2, IdleClosed DEF Open

\* The invariant holds of the empty tables.
LEMMA StoreStart == Init => StoreInv
  <1> SUFFICES ASSUME Init PROVE StoreInv  OBVIOUS
  <1>1. RowsInv
    <2>1. <<>> \in Seq(TxnRow)  OBVIOUS
    <2> QED  BY <2>1 DEF Init, RowsInv, BalanceRow
  <1>2. LocksInv  BY DEF Init, LocksInv
  <1> QED  BY <1>1, <1>2 DEF Init, StoreInv, TxOK

----------------------------------------------------------------------------
(***************************************************************************)
(* What the other sessions see of a step                                   *)
(***************************************************************************)

\* The locks and the locked rows of session c survive a step.
Spared(c) ==
    /\ tx'[c] = tx[c] /\ used \subseteq used' /\ month' >= month /\ month' \in Nat
    /\ \A a \in Accounts : balLock[a] = c =>
          /\ balLock'[a] = c /\ balances'[a] = balances[a] /\ txns'[a] = txns[a]
    /\ \A h \in HoldIds : holdLock[h] = c =>
          /\ holdLock'[h] = c
          /\ h \notin DOMAIN holds => h \notin DOMAIN holds'
          /\ (h \in DOMAIN holds /\ holds[h].status = "pending")
               => h \in DOMAIN holds' /\ holds'[h] = holds[h]

\* A transaction whose locked rows are spared can still rely on them.
LEMMA SparedOK ==
    ASSUME NEW c \in Sessions, month \in Nat, TxOK(c), Spared(c)
    PROVE  TxOK(c)'
  <1>1. CASE tx[c] = Idle  BY <1>1 DEF TxOK, Spared
  <1> SUFFICES ASSUME tx[c] # Idle PROVE TxOK(c)'  BY <1>1
  <1>t. tx[c] \in Transaction /\ tx'[c] = tx[c]  BY DEF TxOK, Spared
  <1>a. tx[c].acct \in Accounts /\ tx[c].bal \in BalanceRow  BY <1>t DEF Transaction
  <1>b. HasBalance(c) => /\ HasBalance(c)'
                         /\ balances'[tx[c].acct] = balances[tx[c].acct]
                         /\ txns'[tx[c].acct] = txns[tx[c].acct]
    BY <1>t, <1>a DEF HasBalance, Spared
  <1>h. HasHold(c) => /\ HasHold(c)'
                      /\ tx[c].hold \notin DOMAIN holds => tx[c].hold \notin DOMAIN holds'
    BY <1>t DEF HasHold, Spared
  <1>p. HasHold(c) /\ OnPending(c) => OnPending(c)' /\ holds'[tx[c].hold] = holds[tx[c].hold]
    BY <1>t DEF HasHold, OnPending, Spared
  <1>2. CASE Adding(c)
    <2>1. Adding(c)'  BY <1>2, <1>t, <1>b DEF Adding
    <2> QED  BY <1>t, <2>1 DEF TxOK
  <1>3. CASE Reserving(c)
    <2>1. tx[c].hold \in used => tx[c].hold \in used'  BY DEF Spared
    <2>2. Reserving(c)'  BY <1>3, <1>t, <1>b, <1>h, <2>1 DEF Reserving
    <2> QED  BY <1>t, <2>2 DEF TxOK
  <1>4. CASE Settling(c)
    <2>1. Settling(c)'  BY <1>4, <1>t, <1>b, <1>h, <1>p DEF Settling
    <2> QED  BY <1>t, <2>1 DEF TxOK
  <1>5. CASE Releasing(c)
    <2>1. Releasing(c)'  BY <1>5, <1>t, <1>b, <1>h, <1>p DEF Releasing
    <2> QED  BY <1>t, <2>1 DEF TxOK
  <1>6. CASE Resetting(c)
    <2>1. tx[c].bal.allowance_period \in 1..month'
      BY <1>6, <1>a DEF Resetting, Spared
    <2>2. Resetting(c)'  BY <1>6, <1>t, <1>b, <2>1 DEF Resetting
    <2> QED  BY <1>t, <2>2 DEF TxOK
  <1> QED  BY <1>2, <1>3, <1>4, <1>5, <1>6 DEF TxOK

----------------------------------------------------------------------------
(***************************************************************************)
(* Statements                                                              *)
(***************************************************************************)

\* Rounding gives an integer, and a natural number for a natural amount.
LEMMA ToTicksType ==
    ASSUME NEW q \in Int PROVE ToTicks(q) \in Int /\ (q >= 0 => ToTicks(q) \in Nat)
  BY DEF ToTicks

\* A closed session holds no lock.
LEMMA ClosedFree ==
    ASSUME StoreInv, NEW s \in Sessions, ~Open(s)
    PROVE  /\ \A a \in Accounts : balLock[a] # s
           /\ \A h \in HoldIds : holdLock[h] # s
  BY SessionAssumption DEF StoreInv, LocksInv

\* The hold an open transaction has locked is one that was handed out.
LEMMA LockedUsed ==
    ASSUME StoreInv, NEW h \in HoldIds, holdLock[h] # NoSession
    PROVE  h \in used
  <1> DEFINE c == holdLock[h]
  <1>1. c \in Sessions /\ Open(c) /\ tx[c].hold = h  BY DEF StoreInv, LocksInv
  <1>2. TxOK(c) /\ tx[c] # Idle  BY <1>1, IdleClosed DEF StoreInv, Open
  <1>3. DOMAIN holds \subseteq used  BY DEF StoreInv, RowsInv
  <1>4. Adding(c) \/ Resetting(c) => tx[c].hold = NoHold  BY DEF Adding, Resetting
  <1>5. Settling(c) \/ Releasing(c) => tx[c].hold \in used
    BY <1>3 DEF Settling, Releasing, OnPending
  <1>6. Reserving(c) => tx[c].hold \in used \/ tx[c].hold = NoHold  BY DEF Reserving
  <1> QED  BY <1>1, <1>2, <1>4, <1>5, <1>6, NoHoldAssumption DEF TxOK

\* A session runs a statement: it may lock the balance row of its account and
\* the row of its hold, and commits nothing.
LEMMA Statement ==
    ASSUME StoreInv, NEW s \in Sessions, NEW next \in Transaction,
           tx' = [tx EXCEPT ![s] = next], UNCHANGED <<tables, month>>,
           used \subseteq used', used' \subseteq HoldIds,
           \/ balLock' = balLock
           \/ /\ balLock' = [balLock EXCEPT ![next.acct] = s]
              /\ balLock[next.acct] \in {s, NoSession},
           \/ holdLock' = holdLock
           \/ /\ next.hold \in HoldIds /\ holdLock' = [holdLock EXCEPT ![next.hold] = s]
              /\ holdLock[next.hold] \in {s, NoSession},
           \A a \in Accounts : balLock[a] = s => next.acct = a,
           \A h \in HoldIds : holdLock[h] = s => next.hold = h,
           TxOK(s)'
    PROVE  StoreInv'
  <1>0. /\ next.acct \in Accounts /\ next.op # "idle"
        /\ tx \in [Sessions -> {Idle} \cup Transaction]
        /\ balLock \in [Accounts -> Sessions \cup {NoSession}]
        /\ holdLock \in [HoldIds -> Sessions \cup {NoSession}]
    BY DEF Transaction, StoreInv, LocksInv
  <1>1. tx'[s] = next /\ \A c \in Sessions \ {s} : tx'[c] = tx[c]  BY <1>0
  <1>2. RowsInv'  BY DEF StoreInv, RowsInv, tables
  <1>3. tx' \in [Sessions -> {Idle} \cup Transaction]  BY <1>0
  <1>4. \A a \in Accounts :
           (balLock'[a] = s /\ next.acct = a /\ balLock[a] \in {s, NoSession})
           \/ balLock'[a] = balLock[a]
    BY <1>0
  <1>5. \A h \in HoldIds :
           (holdLock'[h] = s /\ next.hold = h /\ holdLock[h] \in {s, NoSession})
           \/ holdLock'[h] = holdLock[h]
    BY <1>0
  <1>6. /\ balLock' \in [Accounts -> Sessions \cup {NoSession}]
        /\ holdLock' \in [HoldIds -> Sessions \cup {NoSession}]
    BY <1>0
  <1>7. ASSUME NEW a \in Accounts, balLock'[a] # NoSession
        PROVE  tx'[balLock'[a]].op # "idle" /\ tx'[balLock'[a]].acct = a
    <2>1. CASE balLock'[a] = s
      <3>1. next.acct = a  BY <1>4, <2>1
      <3> QED  BY <1>0, <1>1, <2>1, <3>1
    <2>2. CASE balLock'[a] # s
      <3>1. balLock'[a] = balLock[a]  BY <1>4, <2>2
      <3>2. balLock[a] \in Sessions \ {s}  BY <1>0, <1>7, <2>2, <3>1
      <3>3. tx[balLock[a]].op # "idle" /\ tx[balLock[a]].acct = a
        BY <1>7, <3>1 DEF StoreInv, LocksInv, Open
      <3>4. tx'[balLock[a]] = tx[balLock[a]]  BY <1>1, <3>2
      <3> QED  BY <3>1, <3>3, <3>4
    <2> QED  BY <2>1, <2>2
  <1>8. ASSUME NEW h \in HoldIds, holdLock'[h] # NoSession
        PROVE  tx'[holdLock'[h]].op # "idle" /\ tx'[holdLock'[h]].hold = h
    <2>1. CASE holdLock'[h] = s
      <3>1. next.hold = h  BY <1>5, <2>1
      <3> QED  BY <1>0, <1>1, <2>1, <3>1
    <2>2. CASE holdLock'[h] # s
      <3>1. holdLock'[h] = holdLock[h]  BY <1>5, <2>2
      <3>2. holdLock[h] \in Sessions \ {s}  BY <1>0, <1>8, <2>2, <3>1
      <3>3. tx[holdLock[h]].op # "idle" /\ tx[holdLock[h]].hold = h
        BY <1>8, <3>1 DEF StoreInv, LocksInv, Open
      <3>4. tx'[holdLock[h]] = tx[holdLock[h]]  BY <1>1, <3>2
      <3> QED  BY <3>1, <3>3, <3>4
    <2> QED  BY <2>1, <2>2
  <1>9. LocksInv'  BY <1>6, <1>7, <1>8 DEF LocksInv, Open
  <1>10. ASSUME NEW c \in Sessions \ {s} PROVE TxOK(c)'
    <2>1. month \in Nat /\ TxOK(c)  BY DEF StoreInv, RowsInv
    <2>2. c # NoSession  BY SessionAssumption
    <2>3. \A a \in Accounts : balLock[a] = c => balLock'[a] = c  BY <1>4, <2>2
    <2>4. \A h \in HoldIds : holdLock[h] = c => holdLock'[h] = c  BY <1>5, <2>2
    <2>5. Spared(c)  BY <1>1, <2>1, <2>3, <2>4 DEF Spared, tables
    <2> QED  BY <2>1, <2>5, SparedOK
  <1> QED  BY <1>2, <1>3, <1>9, <1>10 DEF StoreInv

----------------------------------------------------------------------------
(***************************************************************************)
(* One lemma per statement                                                 *)
(***************************************************************************)

\* AddCredits begins: its new balance is computed from the row it locks.
LEMMA AddCreditsInv ==
    ASSUME StoreInv, NEW s \in Sessions, NEW a \in Accounts,
           NEW amount \in GrantAmounts, AddCredits(s, a, amount)
    PROVE  StoreInv'
  <1> DEFINE bal  == [balances[a] EXCEPT
                        !.balance = ToTicks(Exact(balances[a].balance) + amount)]
             next == [op |-> "AddCredits", pc |-> "insert", acct |-> a,
                      hold |-> NoHold, amount |-> amount, log |-> <<>>, bal |-> bal]
  <1>1. /\ ~Open(s) /\ CanLock(s, a) /\ Len(txns[a]) < MaxGrants
        /\ balLock' = [balLock EXCEPT ![a] = s]
        /\ tx' = [tx EXCEPT ![s] = next]
        /\ UNCHANGED <<tables, used, month, holdLock>>
    BY DEF AddCredits
  <1>2. balances[a] \in BalanceRow /\ amount \in Int
    BY GrantAssumption DEF StoreInv, RowsInv
  <1>3. bal \in BalanceRow  BY <1>2, ToTicksType DEF BalanceRow, Exact
  <1>4. next \in Transaction /\ next.acct = a  BY <1>2, <1>3 DEF Transaction
  <1>5. tx'[s] = next  BY <1>1 DEF StoreInv
  <1>6. /\ tx'[s].op = "AddCredits" /\ tx'[s].pc = "insert" /\ tx'[s].acct = a
        /\ tx'[s].hold = NoHold /\ tx'[s].amount = amount /\ tx'[s].log = <<>>
        /\ tx'[s].bal = bal
    BY <1>5
  <1>7. balLock'[a] = s  BY <1>1 DEF StoreInv, LocksInv
  <1>8. balances' = balances /\ txns' = txns  BY <1>1 DEF tables
  <1>9. Adding(s)'  BY <1>1, <1>6, <1>7, <1>8 DEF Adding, HasBalance
  <1>10. TxOK(s)'  BY <1>4, <1>5, <1>9 DEF TxOK
  <1>11. used' \subseteq HoldIds  BY <1>1 DEF StoreInv, RowsInv
  <1> HIDE DEF next
  <1> QED  BY <1>1, <1>4, <1>10, <1>11, ClosedFree, Statement DEF CanLock

\* ReserveCredits begins: the funds it saw stay until it ends.
LEMMA ReserveCreditsInv ==
    ASSUME StoreInv, NEW s \in Sessions, NEW a \in Accounts,
           NEW amount \in Costs, ReserveCredits(s, a, amount)
    PROVE  StoreInv'
  <1> DEFINE next == [op |-> "ReserveCredits", pc |-> "hold", acct |-> a,
                      hold |-> NoHold, amount |-> amount, log |-> <<>>,
                      bal |-> balances[a]]
  <1>1. /\ ~Open(s) /\ CanLock(s, a)
        /\ Affords(balances[a].balance, balances[a].reserved, amount)
        /\ balLock' = [balLock EXCEPT ![a] = s]
        /\ tx' = [tx EXCEPT ![s] = next]
        /\ UNCHANGED <<tables, used, month, holdLock>>
    BY DEF ReserveCredits
  <1>2. balances[a] \in BalanceRow /\ amount \in Int
    BY CostsAssumption DEF StoreInv, RowsInv
  <1>4. next \in Transaction /\ next.acct = a  BY <1>2 DEF Transaction
  <1>5. tx'[s] = next  BY <1>1 DEF StoreInv
  <1>6. /\ tx'[s].op = "ReserveCredits" /\ tx'[s].pc = "hold" /\ tx'[s].acct = a
        /\ tx'[s].hold = NoHold /\ tx'[s].amount = amount /\ tx'[s].log = <<>>
        /\ tx'[s].bal = balances[a]
    BY <1>5
  <1>7. balLock'[a] = s  BY <1>1 DEF StoreInv, LocksInv
  <1>8. balances' = balances  BY <1>1 DEF tables
  <1>9. Reserving(s)'  BY <1>1, <1>6, <1>7, <1>8 DEF Reserving, HasBalance
  <1>10. TxOK(s)'  BY <1>4, <1>5, <1>9 DEF TxOK
  <1>11. used' \subseteq HoldIds  BY <1>1 DEF StoreInv, RowsInv
  <1> HIDE DEF next
  <1> QED  BY <1>1, <1>4, <1>10, <1>11, ClosedFree, Statement DEF CanLock

\* The monthly reset begins: its month is newer than the row it locks.
LEMMA AllowanceInv ==
    ASSUME StoreInv, NEW s \in Sessions, NEW a \in Accounts,
           NEW grant \in AllowanceAmounts, NEW m \in 1..month,
           applyMonthlyAllowance(s, a, grant, m)
    PROVE  StoreInv'
  <1> DEFINE bal  == [balances[a] EXCEPT !.balance = ToTicks(grant),
                                         !.allowance_period = m]
             next == [op |-> "applyMonthlyAllowance", pc |-> "insert", acct |-> a,
                      hold |-> NoHold, amount |-> grant, log |-> <<>>, bal |-> bal]
  <1>1. /\ ~Open(s) /\ CanLock(s, a) /\ a \in Managed
        /\ balances[a].allowance_period < m
        /\ balLock' = [balLock EXCEPT ![a] = s]
        /\ tx' = [tx EXCEPT ![s] = next]
        /\ UNCHANGED <<tables, used, month, holdLock>>
    BY DEF applyMonthlyAllowance
  <1>2. balances[a] \in BalanceRow /\ grant \in Int /\ m \in Nat
    BY AllowanceAssumption DEF StoreInv, RowsInv
  <1>3. bal \in BalanceRow /\ bal.allowance_period = m
    BY <1>2, ToTicksType DEF BalanceRow
  <1>4. next \in Transaction /\ next.acct = a  BY <1>2, <1>3 DEF Transaction
  <1>5. tx'[s] = next  BY <1>1 DEF StoreInv
  <1>6. /\ tx'[s].op = "applyMonthlyAllowance" /\ tx'[s].pc = "insert"
        /\ tx'[s].acct = a
        /\ tx'[s].hold = NoHold /\ tx'[s].amount = grant /\ tx'[s].log = <<>>
        /\ tx'[s].bal = bal
    BY <1>5
  <1>7. balLock'[a] = s  BY <1>1 DEF StoreInv, LocksInv
  <1>8. balances' = balances /\ month' = month  BY <1>1 DEF tables
  <1>9. Resetting(s)'  BY <1>1, <1>3, <1>6, <1>7, <1>8 DEF Resetting, HasBalance
  <1>10. TxOK(s)'  BY <1>4, <1>5, <1>9 DEF TxOK
  <1>11. used' \subseteq HoldIds  BY <1>1 DEF StoreInv, RowsInv
  <1> HIDE DEF next
  <1> QED  BY <1>1, <1>4, <1>10, <1>11, ClosedFree, Statement DEF CanLock

\* A settlement or a release begins: it owns the pending hold it marked.
LEMMA MarkHoldInv ==
    ASSUME StoreInv, NEW s \in Sessions, NEW h \in DOMAIN holds,
           NEW op \in {"SettleHold", "ReleaseHold"}, NEW amount \in Int,
           op = "SettleHold" => amount \in Costs,
           MarkHold(s, h, op, amount)
    PROVE  StoreInv'
  <1> DEFINE a    == holds[h].account_id
             next == [op |-> op, pc |-> "update", acct |-> a, hold |-> h,
                      amount |-> amount, log |-> <<>>, bal |-> balances[a]]
  <1>1. /\ ~Open(s) /\ CanLockHold(s, h) /\ holds[h].status = "pending"
        /\ holdLock' = [holdLock EXCEPT ![h] = s]
        /\ tx' = [tx EXCEPT ![s] = next]
        /\ UNCHANGED <<tables, used, month, balLock>>
    BY DEF MarkHold
  <1>2. h \in HoldIds /\ holds[h] \in HoldRow  BY DEF StoreInv, RowsInv
  <1>3. a \in Accounts /\ balances[a] \in BalanceRow
    BY <1>2 DEF HoldRow, StoreInv, RowsInv
  <1>4. next \in Transaction /\ next.hold = h  BY <1>2, <1>3 DEF Transaction
  <1>5. tx'[s] = next  BY <1>1 DEF StoreInv
  <1>6. /\ tx'[s].op = op /\ tx'[s].pc = "update" /\ tx'[s].acct = a
        /\ tx'[s].hold = h /\ tx'[s].amount = amount /\ tx'[s].log = <<>>
    BY <1>5
  <1>7. holdLock'[h] = s  BY <1>1, <1>2 DEF StoreInv, LocksInv
  <1>8. holds' = holds  BY <1>1 DEF tables
  <1>9. HasHold(s)' /\ OnPending(s)'
    BY <1>1, <1>2, <1>6, <1>7, <1>8 DEF HasHold, OnPending
  <1>10. Settling(s)' \/ Releasing(s)'  BY <1>6, <1>9 DEF Settling, Releasing
  <1>11. TxOK(s)'  BY <1>4, <1>5, <1>10 DEF TxOK
  <1>12. used' \subseteq HoldIds  BY <1>1 DEF StoreInv, RowsInv
  <1> HIDE DEF next
  <1> QED  BY <1>1, <1>2, <1>4, <1>11, <1>12, ClosedFree, Statement DEF CanLockHold

\* The transaction of an operation is one of that operation.
LEMMA WhichTx ==
    ASSUME StoreInv, NEW s \in Sessions, Open(s)
    PROVE  /\ tx[s] \in Transaction
           /\ tx[s].op = "AddCredits" => Adding(s)
           /\ tx[s].op = "ReserveCredits" => Reserving(s)
           /\ tx[s].op = "SettleHold" => Settling(s)
           /\ tx[s].op = "ReleaseHold" => Releasing(s)
           /\ tx[s].op = "applyMonthlyAllowance" => Resetting(s)
           /\ \A a \in Accounts : balLock[a] = s => tx[s].acct = a
           /\ \A h \in HoldIds : holdLock[h] = s => tx[s].hold = h
  <1>1. TxOK(s) /\ tx[s] # Idle /\ tx[s] \in Transaction
    BY OpenTx, IdleClosed DEF StoreInv
  <1>2. /\ Adding(s) => tx[s].op = "AddCredits"
        /\ Reserving(s) => tx[s].op = "ReserveCredits"
        /\ Settling(s) => tx[s].op = "SettleHold"
        /\ Releasing(s) => tx[s].op = "ReleaseHold"
        /\ Resetting(s) => tx[s].op = "applyMonthlyAllowance"
    BY DEF Adding, Reserving, Settling, Releasing, Resetting
  <1>3. Adding(s) \/ Reserving(s) \/ Settling(s) \/ Releasing(s) \/ Resetting(s)
    BY <1>1 DEF TxOK
  <1>4. /\ \A a \in Accounts : balLock[a] = s => tx[s].acct = a
        /\ \A h \in HoldIds : holdLock[h] = s => tx[s].hold = h
    BY SessionAssumption DEF StoreInv, LocksInv
  <1> QED  BY <1>1, <1>2, <1>3, <1>4

\* The inserted hold has a fresh id that nobody else can lock.
LEMMA InsertHoldInv ==
    ASSUME StoreInv, NEW s \in Sessions, NEW id \in HoldIds,
           ReserveInsertHold(s, id)
    PROVE  StoreInv'
  <1> DEFINE next == [tx[s] EXCEPT !.hold = id, !.pc = "update"]
  <1>1. /\ tx[s].op = "ReserveCredits" /\ tx[s].pc = "hold" /\ id \notin used
        /\ used' = used \cup {id}
        /\ holdLock' = [holdLock EXCEPT ![id] = s]
        /\ tx' = [tx EXCEPT ![s] = next]
        /\ UNCHANGED <<tables, month, balLock>>
    BY DEF ReserveInsertHold
  <1>o. tx[s].op = "ReserveCredits"  BY <1>1
  <1>2. Open(s)  BY <1>1 DEF Open
  <1>3. tx[s] \in Transaction /\ Reserving(s)  BY <1>1, <1>2, WhichTx
  <1>4. /\ next \in Transaction /\ next.hold = id /\ next.acct = tx[s].acct
        /\ next.op = tx[s].op /\ next.pc = "update" /\ next.amount = tx[s].amount
        /\ next.log = tx[s].log /\ next.bal = tx[s].bal
    BY <1>3 DEF Transaction
  <1> HIDE DEF next
  <1>5. tx'[s] = next  BY <1>1 DEF StoreInv
  <1>6. /\ tx'[s].op = "ReserveCredits" /\ tx'[s].pc = "update"
        /\ tx'[s].acct = tx[s].acct /\ tx'[s].hold = id
        /\ tx'[s].amount = tx[s].amount /\ tx'[s].log = tx[s].log
        /\ tx'[s].bal = tx[s].bal
    BY <1>o, <1>4, <1>5
  <1>7. holdLock'[id] = s  BY <1>1 DEF StoreInv, LocksInv
  <1>8. balances' = balances /\ holds' = holds /\ balLock' = balLock  BY <1>1 DEF tables
  <1>9. id \in used' \ DOMAIN holds  BY <1>1 DEF StoreInv, RowsInv
  <1>10. HasHold(s)'  BY <1>6, <1>7 DEF HasHold
  <1>11. Reserving(s)'
    BY <1>1, <1>3, <1>6, <1>8, <1>9, <1>10 DEF Reserving, HasBalance
  <1>12. TxOK(s)'  BY <1>4, <1>5, <1>11 DEF TxOK
  <1>13. used' \subseteq HoldIds  BY <1>1 DEF StoreInv, RowsInv
  <1>14. holdLock[id] = NoSession  BY <1>1, LockedUsed
  <1>15. tx[s].hold = NoHold  BY <1>1, <1>3 DEF Reserving
  <1>16. \A h \in HoldIds : holdLock[h] # s  BY <1>2, <1>15, WhichTx, NoHoldAssumption
  <1>17. \A a \in Accounts : balLock[a] = s => next.acct = a
    BY <1>2, <1>4, WhichTx
  <1> QED  BY <1>1, <1>4, <1>12, <1>13, <1>14, <1>16, <1>17, Statement

\* The reservation is added to the row that was checked.
LEMMA ReserveUpdateInv ==
    ASSUME StoreInv, NEW s \in Sessions, ReserveUpdate(s)
    PROVE  StoreInv'
  <1> DEFINE a    == tx[s].acct
             bal  == [balances[a] EXCEPT
                        !.reserved = ToTicks(Exact(balances[a].reserved) + tx[s].amount)]
             next == [tx[s] EXCEPT !.pc = "commit", !.bal = bal]
  <1>1. /\ tx[s].op = "ReserveCredits" /\ tx[s].pc = "update" /\ CanLock(s, a)
        /\ balLock' = [balLock EXCEPT ![a] = s]
        /\ tx' = [tx EXCEPT ![s] = next]
        /\ UNCHANGED <<tables, used, month, holdLock>>
    BY DEF ReserveUpdate
  <1>o. tx[s].op = "ReserveCredits"  BY <1>1
  <1>2. Open(s)  BY <1>1 DEF Open
  <1>3. tx[s] \in Transaction /\ Reserving(s)  BY <1>1, <1>2, WhichTx
  <1>a. a \in Accounts /\ tx[s].amount \in Int /\ balances[a] \in BalanceRow
    BY <1>3 DEF Transaction, StoreInv, RowsInv
  <1>b. bal \in BalanceRow  BY <1>a, ToTicksType DEF BalanceRow, Exact
  <1> HIDE DEF bal
  <1>4. /\ next \in Transaction /\ next.hold = tx[s].hold /\ next.acct = a
        /\ next.op = tx[s].op /\ next.pc = "commit" /\ next.amount = tx[s].amount
        /\ next.log = tx[s].log /\ next.bal = bal
    BY <1>3, <1>b DEF Transaction
  <1> HIDE DEF next
  <1>5. tx'[s] = next  BY <1>1 DEF StoreInv
  <1>6. /\ tx'[s].op = "ReserveCredits" /\ tx'[s].pc = "commit"
        /\ tx'[s].acct = a /\ tx'[s].hold = tx[s].hold
        /\ tx'[s].amount = tx[s].amount /\ tx'[s].log = tx[s].log
        /\ tx'[s].bal = bal
    BY <1>o, <1>4, <1>5
  <1>7. balLock'[a] = s  BY <1>1, <1>a DEF StoreInv, LocksInv
  <1>8. balances' = balances /\ holds' = holds /\ holdLock' = holdLock /\ used' = used
    BY <1>1 DEF tables
  <1>9. HasHold(s)' /\ tx'[s].hold \in used \ DOMAIN holds
    BY <1>1, <1>3, <1>6, <1>8 DEF Reserving, HasHold
  <1>10. Reserving(s)'
    BY <1>1, <1>3, <1>6, <1>7, <1>8, <1>9 DEF Reserving, HasBalance, bal
  <1>11. TxOK(s)'  BY <1>4, <1>5, <1>10 DEF TxOK
  <1>12. used' \subseteq HoldIds  BY <1>1 DEF StoreInv, RowsInv
  <1>13. \A h \in HoldIds : holdLock[h] = s => next.hold = h
    BY <1>2, <1>4, WhichTx
  <1>14. \A c \in Accounts : balLock[c] = s => next.acct = c
    BY <1>2, <1>4, WhichTx
  <1> QED  BY <1>1, <1>4, <1>11, <1>12, <1>13, <1>14, Statement DEF CanLock

\* The charge is computed from the row that is now locked.
LEMMA SettleUpdateInv ==
    ASSUME StoreInv, NEW s \in Sessions, SettleUpdate(s)
    PROVE  StoreInv'
  <1> DEFINE a    == tx[s].acct
             bal  == [balances[a] EXCEPT
                        !.balance = ToTicks(Exact(balances[a].balance) - tx[s].amount),
                        !.reserved = balances[a].reserved - holds[tx[s].hold].amount]
             next == [tx[s] EXCEPT !.pc = "insert", !.bal = bal]
  <1>1. /\ tx[s].op = "SettleHold" /\ tx[s].pc = "update" /\ CanLock(s, a)
        /\ balLock' = [balLock EXCEPT ![a] = s]
        /\ tx' = [tx EXCEPT ![s] = next]
        /\ UNCHANGED <<tables, used, month, holdLock>>
    BY DEF SettleUpdate
  <1>o. tx[s].op = "SettleHold"  BY <1>1
  <1>2. Open(s)  BY <1>1 DEF Open
  <1>3. tx[s] \in Transaction /\ Settling(s)  BY <1>1, <1>2, WhichTx
  <1>h. holds[tx[s].hold] \in HoldRow
    BY <1>3 DEF Settling, OnPending, StoreInv, RowsInv
  <1>a. /\ a \in Accounts /\ tx[s].amount \in Int /\ balances[a] \in BalanceRow
        /\ holds[tx[s].hold].amount \in Nat
    BY <1>3, <1>h DEF Transaction, StoreInv, RowsInv, HoldRow
  <1>i. Exact(balances[a].balance) - tx[s].amount \in Int
    BY <1>a DEF BalanceRow, Exact
  <1>t. ToTicks(Exact(balances[a].balance) - tx[s].amount) \in Int
    BY <1>i, ToTicksType
  <1>r. balances[a].reserved - holds[tx[s].hold].amount \in Int
    BY <1>a DEF BalanceRow
  <1>e. \A b \in BalanceRow, x, y \in Int :
           [b EXCEPT !.balance = x, !.reserved = y] \in BalanceRow
    BY DEF BalanceRow
  <1>b. bal \in BalanceRow  BY <1>a, <1>t, <1>r, <1>e
  <1> HIDE DEF bal
  <1>4. /\ next \in Transaction /\ next.hold = tx[s].hold /\ next.acct = a
        /\ next.op = tx[s].op /\ next.pc = "insert" /\ next.amount = tx[s].amount
        /\ next.log = tx[s].log /\ next.bal = bal
    BY <1>3, <1>b DEF Transaction
  <1> HIDE DEF next
  <1>5. tx'[s] = next  BY <1>1 DEF StoreInv
  <1>6. /\ tx'[s].op = "SettleHold" /\ tx'[s].pc = "insert"
        /\ tx'[s].acct = a /\ tx'[s].hold = tx[s].hold
        /\ tx'[s].amount = tx[s].amount /\ tx'[s].log = tx[s].log
        /\ tx'[s].bal = bal
    BY <1>o, <1>4, <1>5
  <1>7. balLock'[a] = s  BY <1>1, <1>a DEF StoreInv, LocksInv
  <1>8. balances' = balances /\ holds' = holds /\ holdLock' = holdLock
    BY <1>1 DEF tables
  <1>9. HasHold(s)' /\ OnPending(s)'
    BY <1>3, <1>6, <1>8 DEF Settling, HasHold, OnPending
  <1>10. Settling(s)'
    BY <1>1, <1>3, <1>6, <1>7, <1>8, <1>9 DEF Settling, HasBalance, bal
  <1>11. TxOK(s)'  BY <1>4, <1>5, <1>10 DEF TxOK
  <1>12. used' \subseteq HoldIds  BY <1>1 DEF StoreInv, RowsInv
  <1>13. \A h \in HoldIds : holdLock[h] = s => next.hold = h
    BY <1>2, <1>4, WhichTx
  <1>14. \A c \in Accounts : balLock[c] = s => next.acct = c
    BY <1>2, <1>4, WhichTx
  <1> QED  BY <1>1, <1>4, <1>11, <1>12, <1>13, <1>14, Statement DEF CanLock

\* The reservation is taken back from the row that is now locked.
LEMMA ReleaseUpdateInv ==
    ASSUME StoreInv, NEW s \in Sessions, ReleaseUpdate(s)
    PROVE  StoreInv'
  <1> DEFINE a    == tx[s].acct
             bal  == [balances[a] EXCEPT
                        !.reserved = balances[a].reserved - holds[tx[s].hold].amount]
             next == [tx[s] EXCEPT !.pc = "commit", !.bal = bal]
  <1>1. /\ tx[s].op = "ReleaseHold" /\ tx[s].pc = "update" /\ CanLock(s, a)
        /\ balLock' = [balLock EXCEPT ![a] = s]
        /\ tx' = [tx EXCEPT ![s] = next]
        /\ UNCHANGED <<tables, used, month, holdLock>>
    BY DEF ReleaseUpdate
  <1>o. tx[s].op = "ReleaseHold"  BY <1>1
  <1>2. Open(s)  BY <1>1 DEF Open
  <1>3. tx[s] \in Transaction /\ Releasing(s)  BY <1>1, <1>2, WhichTx
  <1>h. holds[tx[s].hold] \in HoldRow
    BY <1>3 DEF Releasing, OnPending, StoreInv, RowsInv
  <1>a. /\ a \in Accounts /\ balances[a] \in BalanceRow
        /\ holds[tx[s].hold].amount \in Nat
    BY <1>3, <1>h DEF Transaction, StoreInv, RowsInv, HoldRow
  <1>b. bal \in BalanceRow  BY <1>a DEF BalanceRow
  <1> HIDE DEF bal
  <1>4. /\ next \in Transaction /\ next.hold = tx[s].hold /\ next.acct = a
        /\ next.op = tx[s].op /\ next.pc = "commit" /\ next.amount = tx[s].amount
        /\ next.log = tx[s].log /\ next.bal = bal
    BY <1>3, <1>b DEF Transaction
  <1> HIDE DEF next
  <1>5. tx'[s] = next  BY <1>1 DEF StoreInv
  <1>6. /\ tx'[s].op = "ReleaseHold" /\ tx'[s].pc = "commit"
        /\ tx'[s].acct = a /\ tx'[s].hold = tx[s].hold
        /\ tx'[s].log = tx[s].log /\ tx'[s].bal = bal
    BY <1>o, <1>4, <1>5
  <1>7. balLock'[a] = s  BY <1>1, <1>a DEF StoreInv, LocksInv
  <1>8. balances' = balances /\ holds' = holds /\ holdLock' = holdLock
    BY <1>1 DEF tables
  <1>9. HasHold(s)' /\ OnPending(s)'
    BY <1>3, <1>6, <1>8 DEF Releasing, HasHold, OnPending
  <1>10. Releasing(s)'
    BY <1>1, <1>3, <1>6, <1>7, <1>8, <1>9 DEF Releasing, HasBalance, bal
  <1>11. TxOK(s)'  BY <1>4, <1>5, <1>10 DEF TxOK
  <1>12. used' \subseteq HoldIds  BY <1>1 DEF StoreInv, RowsInv
  <1>13. \A h \in HoldIds : holdLock[h] = s => next.hold = h
    BY <1>2, <1>4, WhichTx
  <1>14. \A c \in Accounts : balLock[c] = s => next.acct = c
    BY <1>2, <1>4, WhichTx
  <1> QED  BY <1>1, <1>4, <1>11, <1>12, <1>13, <1>14, Statement DEF CanLock

\* The constructors of the audit rows build rows of the right type.
LEMMA TxnRowType ==
    /\ \A q, n \in Int : GrantRow(q, n) \in TxnRow
    /\ \A h \in HoldIds, q, n \in Int : UsageRow(h, q, n) \in TxnRow
    /\ \A q \in Int, m \in Nat : AllowanceRow(q, m) \in TxnRow
  BY ToTicksType DEF GrantRow, UsageRow, AllowanceRow, TxnRow, TxnType

\* The audit row states the balance the transaction is about to commit.
LEMMA InsertTxnInv ==
    ASSUME StoreInv, NEW s \in Sessions, InsertTxn(s)
    PROVE  StoreInv'
  <1> DEFINE row  == AuditRow(tx[s])
             next == [tx[s] EXCEPT !.pc = "commit", !.log = <<row>>]
  <1>1. /\ tx[s].pc = "insert" /\ tx' = [tx EXCEPT ![s] = next]
        /\ UNCHANGED <<tables, used, month, balLock, holdLock>>
    BY DEF InsertTxn
  <1>2. Open(s)
    <2>1. tx[s] # Idle  BY <1>1 DEF Idle
    <2> QED  BY <2>1, OpenTx
  <1>3. tx[s] \in Transaction /\ (Adding(s) \/ Settling(s) \/ Resetting(s))
    <2>1. tx[s] \in Transaction /\ TxOK(s) /\ tx[s] # Idle
      BY <1>2, WhichTx, IdleClosed DEF StoreInv
    <2>2. ~Reserving(s) /\ ~Releasing(s)  BY <1>1 DEF Reserving, Releasing
    <2> QED  BY <2>1, <2>2 DEF TxOK
  <1>a. /\ tx[s].amount \in Int /\ tx[s].bal \in BalanceRow
        /\ tx[s].bal.balance \in Int /\ tx[s].bal.allowance_period \in Nat
    BY <1>3 DEF Transaction, BalanceRow
  <1>b. /\ Adding(s) => row = GrantRow(tx[s].amount, tx[s].bal.balance)
        /\ Settling(s) => row = UsageRow(tx[s].hold, tx[s].amount, tx[s].bal.balance)
        /\ Resetting(s) => row = AllowanceRow(tx[s].amount, tx[s].bal.allowance_period)
    BY DEF AuditRow, Adding, Settling, Resetting
  <1>c. row \in TxnRow
    BY <1>3, <1>a, <1>b, TxnRowType DEF Settling, HasHold
  <1> HIDE DEF row
  <1>d. <<row>> \in Seq(TxnRow)  BY <1>c
  <1>4. /\ next \in Transaction /\ next.hold = tx[s].hold /\ next.acct = tx[s].acct
        /\ next.op = tx[s].op /\ next.pc = "commit" /\ next.amount = tx[s].amount
        /\ next.log = <<row>> /\ next.bal = tx[s].bal
    BY <1>3, <1>d DEF Transaction
  <1> HIDE DEF next
  <1>5. tx'[s] = next  BY <1>1 DEF StoreInv
  <1>6. /\ tx'[s].hold = tx[s].hold /\ tx'[s].acct = tx[s].acct
        /\ tx'[s].op = tx[s].op /\ tx'[s].pc = "commit"
        /\ tx'[s].amount = tx[s].amount /\ tx'[s].log = <<row>>
        /\ tx'[s].bal = tx[s].bal
    BY <1>4, <1>5
  <1>7. /\ balances' = balances /\ holds' = holds /\ txns' = txns /\ month' = month
        /\ balLock' = balLock /\ holdLock' = holdLock /\ used' = used
    BY <1>1 DEF tables
  <1>8. ASSUME Adding(s) PROVE TxOK(s)'
    <2>1. Adding(s)'  BY <1>b, <1>6, <1>7, <1>8 DEF Adding, HasBalance
    <2> QED  BY <1>4, <1>5, <2>1 DEF TxOK
  <1>9. ASSUME Settling(s) PROVE TxOK(s)'
    <2>1. HasHold(s)' /\ OnPending(s)'
      BY <1>6, <1>7, <1>9 DEF Settling, HasHold, OnPending
    <2>2. tx[s].pc = "insert"  BY <1>1
    <2>3. Settling(s)'  BY <1>b, <1>6, <1>7, <1>9, <2>1, <2>2 DEF Settling, HasBalance
    <2> QED  BY <1>4, <1>5, <2>3 DEF TxOK
  <1>10. ASSUME Resetting(s) PROVE TxOK(s)'
    <2>1. Resetting(s)'  BY <1>b, <1>6, <1>7, <1>10 DEF Resetting, HasBalance
    <2> QED  BY <1>4, <1>5, <2>1 DEF TxOK
  <1>11. TxOK(s)'  BY <1>3, <1>8, <1>9, <1>10
  <1>12. used' \subseteq HoldIds  BY <1>7 DEF StoreInv, RowsInv
  <1>13. \A h \in HoldIds : holdLock[h] = s => next.hold = h
    BY <1>2, <1>4, WhichTx
  <1>14. \A c \in Accounts : balLock[c] = s => next.acct = c
    BY <1>2, <1>4, WhichTx
  <1> QED  BY <1>1, <1>4, <1>7, <1>11, <1>12, <1>13, <1>14, Statement

----------------------------------------------------------------------------
(***************************************************************************)
(* The end of a transaction                                                *)
(***************************************************************************)

\* A session drops its locks; the rows the others have locked stay.
LEMMA Closing ==
    ASSUME StoreInv, NEW s \in Sessions, Unlock(s), RowsInv',
           used' = used, month' = month,
           \A a \in Accounts : balLock[a] \notin {s, NoSession} =>
              balances'[a] = balances[a] /\ txns'[a] = txns[a],
           \A h \in HoldIds : holdLock[h] \notin {s, NoSession} =>
              /\ h \in DOMAIN holds' <=> h \in DOMAIN holds
              /\ h \in DOMAIN holds => holds'[h] = holds[h]
    PROVE  StoreInv'
  <1>0. /\ tx \in [Sessions -> {Idle} \cup Transaction]
        /\ balLock \in [Accounts -> Sessions \cup {NoSession}]
        /\ holdLock \in [HoldIds -> Sessions \cup {NoSession}]
    BY DEF StoreInv, LocksInv
  <1>1. tx' \in [Sessions -> {Idle} \cup Transaction]  BY <1>0 DEF Unlock
  <1>2. tx'[s] = Idle /\ \A c \in Sessions \ {s} : tx'[c] = tx[c]  BY <1>0 DEF Unlock
  <1>3. \A a \in Accounts : balLock'[a] = IF balLock[a] = s THEN NoSession ELSE balLock[a]
    BY DEF Unlock
  <1>4. \A h \in HoldIds : holdLock'[h] = IF holdLock[h] = s THEN NoSession ELSE holdLock[h]
    BY DEF Unlock
  <1>5. /\ balLock' \in [Accounts -> Sessions \cup {NoSession}]
        /\ holdLock' \in [HoldIds -> Sessions \cup {NoSession}]
    BY <1>0 DEF Unlock
  <1>6. ASSUME NEW a \in Accounts, balLock'[a] # NoSession
        PROVE  tx'[balLock'[a]].op # "idle" /\ tx'[balLock'[a]].acct = a
    <2>1. balLock'[a] = balLock[a] /\ balLock[a] \in Sessions \ {s}
      BY <1>0, <1>3, <1>6
    <2>2. tx[balLock[a]].op # "idle" /\ tx[balLock[a]].acct = a
      BY <1>6, <2>1 DEF StoreInv, LocksInv, Open
    <2>3. tx'[balLock[a]] = tx[balLock[a]]  BY <1>2, <2>1
    <2> QED  BY <2>1, <2>2, <2>3
  <1>7. ASSUME NEW h \in HoldIds, holdLock'[h] # NoSession
        PROVE  tx'[holdLock'[h]].op # "idle" /\ tx'[holdLock'[h]].hold = h
    <2>1. holdLock'[h] = holdLock[h] /\ holdLock[h] \in Sessions \ {s}
      BY <1>0, <1>4, <1>7
    <2>2. tx[holdLock[h]].op # "idle" /\ tx[holdLock[h]].hold = h
      BY <1>7, <2>1 DEF StoreInv, LocksInv, Open
    <2>3. tx'[holdLock[h]] = tx[holdLock[h]]  BY <1>2, <2>1
    <2> QED  BY <2>1, <2>2, <2>3
  <1>8. LocksInv'  BY <1>5, <1>6, <1>7 DEF LocksInv, Open
  <1>9. ASSUME NEW c \in Sessions \ {s} PROVE TxOK(c)'
    <2>1. month \in Nat /\ TxOK(c)  BY DEF StoreInv, RowsInv
    <2>2. c \notin {s, NoSession}  BY SessionAssumption
    <2>3. Spared(c)  BY <1>2, <1>3, <1>4, <2>1, <2>2 DEF Spared
    <2> QED  BY <2>1, <2>3, SparedOK
  <1>10. TxOK(s)'  BY <1>2 DEF TxOK
  <1>11. \A c \in Sessions : TxOK(c)'  BY <1>9, <1>10
  <1> QED  BY <1>1, <1>8, <1>11 DEF StoreInv

\* What a transaction that is about to commit has locked and written.
LEMMA Ready ==
    ASSUME StoreInv, NEW s \in Sessions, tx[s].pc = "commit"
    PROVE  /\ Open(s) /\ tx[s] \in Transaction /\ HasBalance(s)
           /\ tx[s].hold # NoHold => HasHold(s) /\ HoldVersion(tx[s]) \in HoldRow
           /\ tx[s].hold = NoHold => Adding(s) \/ Resetting(s)
           /\ tx[s].hold # NoHold => Reserving(s) \/ Settling(s) \/ Releasing(s)
  <1>1. tx[s] # Idle  BY DEF Idle
  <1>2. Open(s) /\ tx[s] \in Transaction  BY <1>1, OpenTx
  <1>3. Adding(s) \/ Reserving(s) \/ Settling(s) \/ Releasing(s) \/ Resetting(s)
    BY <1>1 DEF StoreInv, TxOK
  <1>4. HasBalance(s)
    BY <1>3 DEF Adding, Reserving, Settling, Releasing, Resetting
  <1>5. Adding(s) \/ Resetting(s) => tx[s].hold = NoHold  BY DEF Adding, Resetting
  <1>6. Reserving(s) \/ Settling(s) \/ Releasing(s) => HasHold(s)
    BY DEF Reserving, Settling, Releasing
  <1>7. HasHold(s) => tx[s].hold # NoHold  BY NoHoldAssumption DEF HasHold
  <1>8. ASSUME Reserving(s) PROVE HoldVersion(tx[s]) \in HoldRow
    <2>1. HoldVersion(tx[s]) = [account_id |-> tx[s].acct, amount |-> ToTicks(tx[s].amount),
                                status |-> "pending"]
      BY <1>8 DEF HoldVersion, Reserving
    <2>2. tx[s].acct \in Accounts /\ tx[s].amount \in Nat
      BY <1>2, <1>8, CostsAssumption DEF Transaction, Reserving
    <2>3. ToTicks(tx[s].amount) \in Nat  BY <2>2, ToTicksType
    <2> QED  BY <2>1, <2>2, <2>3 DEF HoldRow, HoldStatus
  <1>9. ASSUME Settling(s) \/ Releasing(s) PROVE HoldVersion(tx[s]) \in HoldRow
    <2>1. \/ HoldVersion(tx[s]) = [holds[tx[s].hold] EXCEPT !.status = "settled"]
          \/ HoldVersion(tx[s]) = [holds[tx[s].hold] EXCEPT !.status = "released"]
      BY <1>9 DEF HoldVersion, Settling, Releasing
    <2>2. holds[tx[s].hold] \in HoldRow
      BY <1>9 DEF Settling, Releasing, OnPending, StoreInv, RowsInv
    <2> QED  BY <2>1, <2>2 DEF HoldRow, HoldStatus
  <1> QED  BY <1>2, <1>3, <1>4, <1>5, <1>6, <1>7, <1>8, <1>9

\* A COMMIT writes only rows its session has locked.
LEMMA CommitInv ==
    ASSUME StoreInv, NEW s \in Sessions, Commit(s)
    PROVE  StoreInv'
  <1> DEFINE t == tx[s]
  <1>1. /\ t.pc = "commit" /\ Unlock(s) /\ used' = used /\ month' = month
        /\ balances' = [balances EXCEPT ![t.acct] = t.bal]
        /\ txns' = [txns EXCEPT ![t.acct] = txns[t.acct] \o t.log]
        /\ holds' = IF t.hold = NoHold THEN holds ELSE Put(t.hold, HoldVersion(t))
    BY DEF Commit
  <1>2. /\ t \in Transaction /\ HasBalance(s)
        /\ t.hold # NoHold => HasHold(s) /\ HoldVersion(t) \in HoldRow
    BY <1>1, Ready
  <1>3. /\ t.acct \in Accounts /\ t.bal \in BalanceRow /\ t.log \in Seq(TxnRow)
        /\ t.hold \in HoldIds \cup {NoHold}
    BY <1>2 DEF Transaction
  <1>4. balances' \in [Accounts -> BalanceRow]  BY <1>1, <1>3 DEF StoreInv, RowsInv
  <1>5. txns' \in [Accounts -> Seq(TxnRow)]
    <2>1. txns \in [Accounts -> Seq(TxnRow)]  BY DEF StoreInv, RowsInv
    <2>2. txns[t.acct] \o t.log \in Seq(TxnRow)  BY <1>3, <2>1
    <2> HIDE DEF t
    <2> QED  BY <1>1, <2>1, <2>2
  <1>6. t.hold # NoHold => t.hold \in used
    <2>1. t.hold # NoHold => holdLock[t.hold] = s /\ t.hold \in HoldIds
      BY <1>2 DEF HasHold
    <2> QED  BY <2>1, SessionAssumption, LockedUsed
  <1>7. holds' \in [DOMAIN holds' -> HoldRow] /\ DOMAIN holds' \subseteq used
    BY <1>1, <1>2, <1>6 DEF Put, StoreInv, RowsInv
  <1>8. RowsInv'  BY <1>1, <1>4, <1>5, <1>7 DEF StoreInv, RowsInv
  <1>9. \A a \in Accounts : balLock[a] \notin {s, NoSession} =>
           balances'[a] = balances[a] /\ txns'[a] = txns[a]
    BY <1>1, <1>2, <1>3 DEF HasBalance, StoreInv, RowsInv
  <1>10. \A h \in HoldIds : holdLock[h] \notin {s, NoSession} =>
            /\ h \in DOMAIN holds' <=> h \in DOMAIN holds
            /\ h \in DOMAIN holds => holds'[h] = holds[h]
    BY <1>1, <1>2, <1>3 DEF HasHold, Put
  <1> QED  BY <1>1, <1>8, <1>9, <1>10, Closing

\* A ROLLBACK writes nothing and drops the locks.
LEMMA RollbackInv ==
    ASSUME StoreInv, NEW s \in Sessions, Rollback(s)
    PROVE  StoreInv'
  <1>1. Unlock(s) /\ UNCHANGED <<tables, used, month>>  BY DEF Rollback
  <1>2. RowsInv'  BY <1>1 DEF StoreInv, RowsInv, tables
  <1> QED  BY <1>1, <1>2, Closing DEF tables

\* No session is affected when the locks and transactions stay as they are.
LEMMA QuietInv ==
    ASSUME StoreInv, RowsInv', UNCHANGED <<tx, balLock, holdLock, balances, txns>>,
           used \subseteq used', month' >= month,
           \A h \in HoldIds :
              /\ h \in DOMAIN holds' => h \in DOMAIN holds
              /\ (h \in DOMAIN holds /\ holds[h].status = "pending")
                   => h \in DOMAIN holds' /\ holds'[h] = holds[h]
    PROVE  StoreInv'
  <1>1. LocksInv'  BY DEF StoreInv, LocksInv, Open
  <1>2. ASSUME NEW c \in Sessions PROVE TxOK(c)'
    <2>1. month \in Nat /\ month' \in Nat /\ TxOK(c)  BY DEF StoreInv, RowsInv
    <2>2. Spared(c)  BY <2>1 DEF Spared
    <2> QED  BY <2>1, <2>2, SparedOK
  <1> QED  BY <1>1, <1>2 DEF StoreInv

\* Cleanup deletes no row a transaction relies on.
LEMMA CleanupInv ==
    ASSUME StoreInv, NEW old \in SUBSET DOMAIN holds, CleanupSettledHolds(old)
    PROVE  StoreInv'
  <1>1. RowsInv'  BY DEF StoreInv, RowsInv, CleanupSettledHolds
  <1>2. month' >= month  BY DEF StoreInv, RowsInv, CleanupSettledHolds
  <1>3. \A h \in HoldIds :
           /\ h \in DOMAIN holds' => h \in DOMAIN holds
           /\ (h \in DOMAIN holds /\ holds[h].status = "pending")
                => h \in DOMAIN holds' /\ holds'[h] = holds[h]
    BY DEF CleanupSettledHolds
  <1> QED  BY <1>1, <1>2, <1>3, QuietInv DEF CleanupSettledHolds

\* A new month leaves open resets valid.
LEMMA NewMonthInv ==
    ASSUME StoreInv, NewMonth
    PROVE  StoreInv'
  <1>1. RowsInv' /\ month' >= month  BY DEF StoreInv, RowsInv, NewMonth, tables
  <1> QED  BY <1>1, QuietInv DEF NewMonth, tables

\* Every statement after the first keeps the invariant.
LEMMA StepInv ==
    ASSUME StoreInv, NEW s \in Sessions, Step(s)
    PROVE  StoreInv'
  BY InsertHoldInv, ReserveUpdateInv, SettleUpdateInv, ReleaseUpdateInv,
     InsertTxnInv, CommitInv DEF Step

\* Every step keeps the invariant.
LEMMA StoreNext == StoreInv /\ [Next]_vars => StoreInv'
  <1> SUFFICES ASSUME StoreInv, [Next]_vars PROVE StoreInv'  OBVIOUS
  <1>1. CASE \E s \in Sessions, a \in Accounts, amount \in GrantAmounts :
               AddCredits(s, a, amount)
    BY <1>1, AddCreditsInv
  <1>2. CASE \E s \in Sessions, a \in Accounts, amount \in Costs :
               ReserveCredits(s, a, amount)
    BY <1>2, ReserveCreditsInv
  <1>3. CASE \E s \in Sessions, h \in DOMAIN holds, actual \in Costs :
               SettleHold(s, h, actual)
    BY <1>3, MarkHoldInv, CostsAssumption DEF SettleHold
  <1>4. CASE \E s \in Sessions, h \in DOMAIN holds : ReleaseHold(s, h)
    BY <1>4, MarkHoldInv DEF ReleaseHold
  <1>5. CASE \E s \in Sessions, a \in Accounts, grant \in AllowanceAmounts, m \in 1..month :
               applyMonthlyAllowance(s, a, grant, m)
    BY <1>5, AllowanceInv
  <1>6. CASE \E s \in Sessions : Step(s)  BY <1>6, StepInv
  <1>7. CASE \E s \in Sessions : Rollback(s)  BY <1>7, RollbackInv
  <1>8. CASE \E old \in SUBSET DOMAIN holds : CleanupSettledHolds(old)
    BY <1>8, CleanupInv
  <1>9. CASE NewMonth  BY <1>9, NewMonthInv
  <1>10. CASE UNCHANGED vars
    <2>1. RowsInv' /\ month' >= month  BY <1>10 DEF StoreInv, RowsInv, vars
    <2> QED  BY <1>10, <2>1, QuietInv DEF vars
  <1> QED
    BY <1>1, <1>2, <1>3, <1>4, <1>5, <1>6, <1>7, <1>8, <1>9, <1>10 DEF Next

\* However the statements of the credit operations interleave, the committed
\* rows are well typed, a hold row has an id the sequence handed out, and a row
\* lock belongs to a transaction that is still open: every path out of a
\* transaction, a refusal or a rollback too, gives its locks back.
THEOREM StoreTyped == Spec => []TypeOK
<1>1. StoreInv => TypeOK
  <2> SUFFICES ASSUME StoreInv PROVE TypeOK  OBVIOUS
  <2>1. \A a \in Accounts : \A i \in DOMAIN txns[a] : txns[a][i] \in TxnRow
    BY DEF StoreInv, RowsInv
  <2>2. \A h \in DOMAIN holds : holds[h] \in HoldRow  BY DEF StoreInv, RowsInv
  <2> QED  BY <2>1, <2>2 DEF StoreInv, RowsInv, LocksInv, TypeOK
<1> QED  BY <1>1, StoreStart, StoreNext, PTL DEF Spec

----------------------------------------------------------------------------
(***************************************************************************)
(* What the ledger sees: the ids of committed or abandoned holds           *)
(***************************************************************************)

\* A step of a session that inserts no hold and gives none up.
LEMMA SeenSame ==
    ASSUME StoreInv, NEW s \in Sessions, NEW next, used' = used,
           tx' = [tx EXCEPT ![s] = next],
           \A h \in HoldIds : (tx[s].op = "ReserveCredits" /\ tx[s].hold = h)
                                <=> (next.op = "ReserveCredits" /\ next.hold = h)
    PROVE  (used \ Uncommitted)' = used \ Uncommitted
  <1>1. tx'[s] = next /\ \A c \in Sessions \ {s} : tx'[c] = tx[c]
    BY DEF StoreInv
  <1>2. ASSUME NEW h \in HoldIds PROVE h \in Uncommitted' <=> h \in Uncommitted
    BY <1>1 DEF Uncommitted
  <1>3. used \subseteq HoldIds  BY DEF StoreInv, RowsInv
  <1> QED  BY <1>2, <1>3

\* The sequence hands out an id for a hold that is not committed yet.
LEMMA SeenInsert ==
    ASSUME StoreInv, NEW s \in Sessions, NEW id \in HoldIds, ReserveInsertHold(s, id)
    PROVE  (used \ Uncommitted)' = used \ Uncommitted
  <1>1. /\ tx[s].op = "ReserveCredits" /\ tx[s].pc = "hold" /\ id \notin used
        /\ used' = used \cup {id}
        /\ tx' = [tx EXCEPT ![s] = [tx[s] EXCEPT !.hold = id, !.pc = "update"]]
    BY DEF ReserveInsertHold
  <1>2. Open(s)  BY <1>1 DEF Open
  <1>3. tx[s] \in Transaction /\ Reserving(s)  BY <1>1, <1>2, WhichTx
  <1>4. tx[s].hold = NoHold  BY <1>1, <1>3 DEF Reserving
  <1>5. /\ tx'[s] = [tx[s] EXCEPT !.hold = id, !.pc = "update"]
        /\ \A c \in Sessions \ {s} : tx'[c] = tx[c]
    BY <1>1 DEF StoreInv
  <1>6. tx'[s].op = tx[s].op /\ tx'[s].hold = id  BY <1>3, <1>5 DEF Transaction
  <1>7. id \in Uncommitted'  BY <1>1, <1>6 DEF Uncommitted
  <1>8. ASSUME NEW h \in HoldIds \ {id} PROVE h \in Uncommitted' <=> h \in Uncommitted
    <2>1. \A c \in Sessions \ {s} : tx'[c] = tx[c]  BY <1>5
    <2>2. tx[s].hold # h /\ tx'[s].hold # h  BY <1>4, <1>6, NoHoldAssumption
    <2> QED  BY <2>1, <2>2 DEF Uncommitted
  <1>9. used \subseteq HoldIds  BY DEF StoreInv, RowsInv
  <1> QED  BY <1>1, <1>7, <1>8, <1>9

\* The end of a reservation that has inserted its hold.
LEMMA SeenEnd ==
    ASSUME StoreInv, NEW s \in Sessions, Unlock(s), used' = used,
           Reserving(s), tx[s].pc # "hold"
    PROVE  /\ (used \ Uncommitted)' = (used \ Uncommitted) \cup {tx[s].hold}
           /\ tx[s].hold \in HoldIds \ (used \ Uncommitted)
  <1> DEFINE id == tx[s].hold
  <1>1. HasHold(s) /\ id \in used /\ tx[s].op = "ReserveCredits"  BY DEF Reserving
  <1>2. id \in Uncommitted  BY <1>1 DEF Uncommitted
  <1>3. tx'[s] = Idle /\ \A c \in Sessions \ {s} : tx'[c] = tx[c]
    BY DEF Unlock, StoreInv
  <1>4. ASSUME NEW c \in Sessions \ {s}, tx[c].op = "ReserveCredits" PROVE tx[c].hold # id
    <2>1. Open(c)  BY <1>4 DEF Open
    <2>2. Reserving(c)  BY <1>4, <2>1, WhichTx
    <2>3. tx[c].hold = NoHold \/ HasHold(c)  BY <2>2 DEF Reserving
    <2> QED  BY <1>1, <2>3, NoHoldAssumption DEF HasHold
  <1>5. id \notin Uncommitted'
    BY <1>3, <1>4, IdleClosed DEF Uncommitted
  <1>6. ASSUME NEW h \in HoldIds, h # id PROVE h \in Uncommitted' <=> h \in Uncommitted
    BY <1>3, <1>6, IdleClosed DEF Uncommitted
  <1>7. used \subseteq HoldIds  BY DEF StoreInv, RowsInv
  <1> QED  BY <1>1, <1>2, <1>5, <1>6, <1>7

----------------------------------------------------------------------------
(***************************************************************************)
(* Every commit is one operation of the ledger                             *)
(***************************************************************************)

\* The columns of a credit_balances table with one row rewritten.
LEMMA Columns ==
    ASSUME NEW a \in Accounts, NEW bal, balances \in [Accounts -> BalanceRow],
           balances' = [balances EXCEPT ![a] = bal]
    PROVE  /\ [c \in Accounts |-> balances[c].balance]'
                = [[c \in Accounts |-> balances[c].balance] EXCEPT ![a] = bal.balance]
           /\ [c \in Accounts |-> balances[c].reserved]'
                = [[c \in Accounts |-> balances[c].reserved] EXCEPT ![a] = bal.reserved]
           /\ [c \in Accounts |-> balances[c].allowance_period]'
                = [[c \in Accounts |-> balances[c].allowance_period]
                     EXCEPT ![a] = bal.allowance_period]
  OBVIOUS

\* The ledger's arithmetic and rows are those of this module.
LEMMA SameOperators ==
    /\ \A q : Ledger!ToTicks(q) = ToTicks(q) /\ Ledger!Exact(q) = Exact(q)
    /\ \A q, n : Ledger!GrantRow(q, n) = GrantRow(q, n)
    /\ \A h, q, n : Ledger!UsageRow(h, q, n) = UsageRow(h, q, n)
    /\ \A q, m : Ledger!AllowanceRow(q, m) = AllowanceRow(q, m)
    /\ \A b, r, q : Ledger!Affords(b, r, q) <=> Affords(b, r, q)
  BY DEF Ledger!ToTicks, ToTicks, Ledger!Exact, Exact, Ledger!GrantRow, GrantRow,
         Ledger!UsageRow, UsageRow, Ledger!AllowanceRow, AllowanceRow,
         Ledger!Affords, Affords

\* What a COMMIT makes of the tables.
LEMMA Committed ==
    ASSUME StoreInv, NEW s \in Sessions, Commit(s)
    PROVE  /\ tx[s].pc = "commit" /\ Unlock(s) /\ used' = used /\ month' = month
           /\ tx[s].acct \in Accounts /\ balances[tx[s].acct] \in BalanceRow
           /\ txns[tx[s].acct] \in Seq(TxnRow) /\ tx[s].amount \in Int
           /\ [c \in Accounts |-> balances[c].balance]' =
                [[c \in Accounts |-> balances[c].balance] EXCEPT ![tx[s].acct] = tx[s].bal.balance]
           /\ [c \in Accounts |-> balances[c].reserved]' =
                [[c \in Accounts |-> balances[c].reserved] EXCEPT ![tx[s].acct] = tx[s].bal.reserved]
           /\ [c \in Accounts |-> balances[c].allowance_period]' =
                [[c \in Accounts |-> balances[c].allowance_period] EXCEPT ![tx[s].acct] = tx[s].bal.allowance_period]
           /\ txns' = [txns EXCEPT ![tx[s].acct] = txns[tx[s].acct] \o tx[s].log]
           /\ holds' = IF tx[s].hold = NoHold THEN holds
                       ELSE Put(tx[s].hold, HoldVersion(tx[s]))
  <1>1. /\ tx[s].pc = "commit" /\ Unlock(s) /\ used' = used /\ month' = month
        /\ balances' = [balances EXCEPT ![tx[s].acct] = tx[s].bal]
        /\ txns' = [txns EXCEPT ![tx[s].acct] = txns[tx[s].acct] \o tx[s].log]
        /\ holds' = IF tx[s].hold = NoHold THEN holds
                    ELSE Put(tx[s].hold, HoldVersion(tx[s]))
    BY DEF Commit
  <1>2. tx[s].acct \in Accounts /\ tx[s].amount \in Int  BY <1>1, Ready DEF Transaction
  <1>3. /\ balances \in [Accounts -> BalanceRow] /\ balances[tx[s].acct] \in BalanceRow
        /\ txns[tx[s].acct] \in Seq(TxnRow)
    BY <1>2 DEF StoreInv, RowsInv
  <1> QED  BY <1>1, <1>2, <1>3, Columns

\* The COMMIT of AddCredits is the ledger's AddCredits.
LEMMA AddCreditsCommits ==
    ASSUME StoreInv, NEW s \in Sessions, Commit(s), Adding(s)
    PROVE  Ledger!AddCredits(tx[s].acct, tx[s].amount)
  <1> DEFINE t == tx[s]
             b == balances[t.acct]
             B == [c \in Accounts |-> balances[c].balance]
             R == [c \in Accounts |-> balances[c].reserved]
             P == [c \in Accounts |-> balances[c].allowance_period]
  <1>1. /\ t.pc = "commit" /\ used' = used /\ month' = month
        /\ t.acct \in Accounts /\ b \in BalanceRow /\ txns[t.acct] \in Seq(TxnRow)
    BY Committed
  <1>2. /\ t.bal = [b EXCEPT !.balance = ToTicks(Exact(b.balance) + t.amount)]
        /\ t.log = <<GrantRow(t.amount, t.bal.balance)>> /\ t.op = "AddCredits"
        /\ Len(txns[t.acct]) < MaxGrants /\ t.hold = NoHold
    BY <1>1 DEF Adding
  <1>3. /\ t.bal.balance = ToTicks(Exact(b.balance) + t.amount)
        /\ t.bal.reserved = b.reserved /\ t.bal.allowance_period = b.allowance_period
    BY <1>1, <1>2 DEF BalanceRow
  <1>4. /\ B[t.acct] = b.balance /\ R[t.acct] = b.reserved
        /\ P[t.acct] = b.allowance_period
    BY <1>1
  <1>5. /\ B' = [B EXCEPT ![t.acct] = t.bal.balance]
        /\ R' = [R EXCEPT ![t.acct] = b.reserved]
        /\ P' = [P EXCEPT ![t.acct] = b.allowance_period]
    BY <1>3, Committed
  <1>6. R' = R /\ P' = P  BY <1>4, <1>5
  <1>7. (used \ Uncommitted)' = used \ Uncommitted
    BY <1>1, <1>2, IdleClosed, SeenSame, Committed DEF Unlock
  <1>8. Ledger!ToTicks(Ledger!Exact(B[t.acct]) + t.amount) = t.bal.balance
    BY <1>3, <1>4, SameOperators
  <1>9. txns' = [txns EXCEPT ![t.acct] =
                   Append(txns[t.acct], Ledger!GrantRow(t.amount, t.bal.balance))]
    <2>1. Ledger!GrantRow(t.amount, t.bal.balance) = GrantRow(t.amount, t.bal.balance)
      BY SameOperators
    <2>2. txns' = [txns EXCEPT ![t.acct] = txns[t.acct] \o t.log]  BY Committed
    <2>3. txns[t.acct] \o t.log = Append(txns[t.acct], GrantRow(t.amount, t.bal.balance))
      BY <1>1, <1>2
    <2> QED  BY <2>1, <2>2, <2>3
  <1>10. holds' = holds  BY <1>2, Committed
  <1> QED  BY <1>1, <1>2, <1>5, <1>6, <1>7, <1>8, <1>9, <1>10 DEF Ledger!AddCredits

\* The COMMIT of ReserveCredits is the ledger's, with the id of its hold.
LEMMA ReserveCommits ==
    ASSUME StoreInv, NEW s \in Sessions, Commit(s), Reserving(s)
    PROVE  Ledger!ReserveCredits(tx[s].acct, tx[s].amount, tx[s].hold)
  <1> DEFINE t == tx[s]
             b == balances[t.acct]
             B == [c \in Accounts |-> balances[c].balance]
             R == [c \in Accounts |-> balances[c].reserved]
             P == [c \in Accounts |-> balances[c].allowance_period]
  <1>1. /\ t.pc = "commit" /\ used' = used /\ month' = month
        /\ t.acct \in Accounts /\ b \in BalanceRow /\ txns[t.acct] \in Seq(TxnRow)
    BY Committed
  <1>2. /\ t.bal = [b EXCEPT !.reserved = ToTicks(Exact(b.reserved) + t.amount)]
        /\ t.log = <<>> /\ t.op = "ReserveCredits" /\ HasHold(s)
        /\ Affords(b.balance, b.reserved, t.amount)
    BY <1>1 DEF Reserving
  <1>3. /\ t.bal.reserved = ToTicks(Exact(b.reserved) + t.amount)
        /\ t.bal.balance = b.balance /\ t.bal.allowance_period = b.allowance_period
    BY <1>1, <1>2 DEF BalanceRow
  <1>4. /\ B[t.acct] = b.balance /\ R[t.acct] = b.reserved
        /\ P[t.acct] = b.allowance_period
    BY <1>1
  <1>5. /\ B' = [B EXCEPT ![t.acct] = b.balance]
        /\ R' = [R EXCEPT ![t.acct] = t.bal.reserved]
        /\ P' = [P EXCEPT ![t.acct] = b.allowance_period]
    BY <1>3, Committed
  <1>6. B' = B /\ P' = P  BY <1>4, <1>5
  <1>7. /\ (used \ Uncommitted)' = (used \ Uncommitted) \cup {t.hold}
        /\ t.hold \in HoldIds \ (used \ Uncommitted)
    BY <1>1, SeenEnd, Committed
  <1>8. Ledger!ToTicks(Ledger!Exact(R[t.acct]) + t.amount) = t.bal.reserved
    BY <1>3, <1>4, SameOperators
  <1>9. Ledger!Affords(B[t.acct], R[t.acct], t.amount)  BY <1>2, <1>4, SameOperators
  <1>10. txns' = txns
    <2>1. txns' = [txns EXCEPT ![t.acct] = txns[t.acct] \o t.log]  BY Committed
    <2>2. txns[t.acct] \o t.log = txns[t.acct]  BY <1>1, <1>2
    <2> QED  BY <2>1, <2>2 DEF StoreInv, RowsInv
  <1>11. holds' = [h \in DOMAIN holds \cup {t.hold} |->
                     IF h = t.hold
                     THEN [account_id |-> t.acct, amount |-> Ledger!ToTicks(t.amount),
                           status |-> "pending"]
                     ELSE holds[h]]
    <2>1. t.hold # NoHold  BY <1>2, NoHoldAssumption DEF HasHold
    <2>2. HoldVersion(t) = [account_id |-> t.acct, amount |-> ToTicks(t.amount),
                            status |-> "pending"]
      BY <1>2 DEF HoldVersion
    <2>3. holds' = Put(t.hold, HoldVersion(t))  BY <2>1, Committed
    <2>4. Ledger!ToTicks(t.amount) = ToTicks(t.amount)  BY SameOperators
    <2> QED  BY <2>2, <2>3, <2>4 DEF Put
  <1> QED  BY <1>1, <1>5, <1>6, <1>7, <1>8, <1>9, <1>10, <1>11
           DEF Ledger!ReserveCredits

\* The COMMIT of SettleHold is the ledger's SettleHold.
LEMMA SettleCommits ==
    ASSUME StoreInv, NEW s \in Sessions, Commit(s), Settling(s)
    PROVE  Ledger!SettleHold(tx[s].hold, tx[s].amount)
  <1> DEFINE t == tx[s]
             b == balances[t.acct]
             B == [c \in Accounts |-> balances[c].balance]
             R == [c \in Accounts |-> balances[c].reserved]
             P == [c \in Accounts |-> balances[c].allowance_period]
  <1>1. /\ t.pc = "commit" /\ used' = used /\ month' = month
        /\ t.acct \in Accounts /\ b \in BalanceRow /\ txns[t.acct] \in Seq(TxnRow)
    BY Committed
  <1>2. /\ t.bal = [b EXCEPT !.balance = ToTicks(Exact(b.balance) - t.amount),
                             !.reserved = b.reserved - holds[t.hold].amount]
        /\ t.log = <<UsageRow(t.hold, t.amount, t.bal.balance)>>
        /\ t.op = "SettleHold" /\ HasHold(s)
        /\ t.hold \in DOMAIN holds /\ holds[t.hold].status = "pending"
        /\ holds[t.hold].account_id = t.acct
    BY <1>1 DEF Settling, OnPending
  <1>3. /\ t.bal.balance = ToTicks(Exact(b.balance) - t.amount)
        /\ t.bal.reserved = b.reserved - holds[t.hold].amount
        /\ t.bal.allowance_period = b.allowance_period
    <2>1. \A x, y : LET n == [b EXCEPT !.balance = x, !.reserved = y]
                    IN  /\ n.balance = x /\ n.reserved = y
                        /\ n.allowance_period = b.allowance_period
      BY <1>1 DEF BalanceRow
    <2> QED  BY <1>2, <2>1
  <1>4. /\ B[t.acct] = b.balance /\ R[t.acct] = b.reserved
        /\ P[t.acct] = b.allowance_period
    BY <1>1
  <1>5. /\ B' = [B EXCEPT ![t.acct] = t.bal.balance]
        /\ R' = [R EXCEPT ![t.acct] = t.bal.reserved]
        /\ P' = [P EXCEPT ![t.acct] = b.allowance_period]
    BY <1>3, Committed
  <1>6. P' = P /\ R' = [R EXCEPT ![t.acct] = R[t.acct] - holds[t.hold].amount]
    BY <1>3, <1>4, <1>5
  <1>7. (used \ Uncommitted)' = used \ Uncommitted
    BY <1>1, <1>2, IdleClosed, SeenSame, Committed DEF Unlock
  <1>8. Ledger!ToTicks(Ledger!Exact(B[t.acct]) - t.amount) = t.bal.balance
    BY <1>3, <1>4, SameOperators
  <1>9. txns' = [txns EXCEPT ![t.acct] =
                   Append(txns[t.acct], Ledger!UsageRow(t.hold, t.amount, t.bal.balance))]
    <2>1. Ledger!UsageRow(t.hold, t.amount, t.bal.balance)
             = UsageRow(t.hold, t.amount, t.bal.balance)
      BY SameOperators
    <2>2. txns' = [txns EXCEPT ![t.acct] = txns[t.acct] \o t.log]  BY Committed
    <2>3. txns[t.acct] \o t.log
             = Append(txns[t.acct], UsageRow(t.hold, t.amount, t.bal.balance))
      BY <1>1, <1>2
    <2> QED  BY <2>1, <2>2, <2>3
  <1>10. holds' = [holds EXCEPT ![t.hold].status = "settled"]
    <2>1. t.hold # NoHold  BY <1>2, NoHoldAssumption DEF HasHold
    <2>2. HoldVersion(t) = [holds[t.hold] EXCEPT !.status = "settled"]
      BY <1>2 DEF HoldVersion
    <2>3. holds' = Put(t.hold, HoldVersion(t))  BY <2>1, Committed
    <2>4. DOMAIN holds \cup {t.hold} = DOMAIN holds  BY <1>2
    <2>5. holds \in [DOMAIN holds -> HoldRow]  BY DEF StoreInv, RowsInv
    <2> QED  BY <1>2, <2>2, <2>3, <2>4, <2>5 DEF Put
  <1> QED  BY <1>1, <1>2, <1>5, <1>6, <1>7, <1>8, <1>9, <1>10 DEF Ledger!SettleHold

\* The COMMIT of ReleaseHold is the ledger's ReleaseHold.
LEMMA ReleaseCommits ==
    ASSUME StoreInv, NEW s \in Sessions, Commit(s), Releasing(s)
    PROVE  Ledger!ReleaseHold(tx[s].hold)
  <1> DEFINE t == tx[s]
             b == balances[t.acct]
             B == [c \in Accounts |-> balances[c].balance]
             R == [c \in Accounts |-> balances[c].reserved]
             P == [c \in Accounts |-> balances[c].allowance_period]
  <1>1. /\ t.pc = "commit" /\ used' = used /\ month' = month
        /\ t.acct \in Accounts /\ b \in BalanceRow /\ txns[t.acct] \in Seq(TxnRow)
    BY Committed
  <1>2. /\ t.bal = [b EXCEPT !.reserved = b.reserved - holds[t.hold].amount]
        /\ t.log = <<>> /\ t.op = "ReleaseHold" /\ HasHold(s)
        /\ t.hold \in DOMAIN holds /\ holds[t.hold].status = "pending"
        /\ holds[t.hold].account_id = t.acct
    BY <1>1 DEF Releasing, OnPending
  <1>3. /\ t.bal.reserved = b.reserved - holds[t.hold].amount
        /\ t.bal.balance = b.balance /\ t.bal.allowance_period = b.allowance_period
    BY <1>1, <1>2 DEF BalanceRow
  <1>4. /\ B[t.acct] = b.balance /\ R[t.acct] = b.reserved
        /\ P[t.acct] = b.allowance_period
    BY <1>1
  <1>5. /\ B' = [B EXCEPT ![t.acct] = b.balance]
        /\ R' = [R EXCEPT ![t.acct] = t.bal.reserved]
        /\ P' = [P EXCEPT ![t.acct] = b.allowance_period]
    BY <1>3, Committed
  <1>6. /\ B' = B /\ P' = P
        /\ R' = [R EXCEPT ![t.acct] = R[t.acct] - holds[t.hold].amount]
    BY <1>3, <1>4, <1>5
  <1>7. (used \ Uncommitted)' = used \ Uncommitted
    BY <1>1, <1>2, IdleClosed, SeenSame, Committed DEF Unlock
  <1>8. txns' = txns
    <2>1. txns' = [txns EXCEPT ![t.acct] = txns[t.acct] \o t.log]  BY Committed
    <2>2. txns[t.acct] \o t.log = txns[t.acct]  BY <1>1, <1>2
    <2> QED  BY <2>1, <2>2 DEF StoreInv, RowsInv
  <1>9. holds' = [holds EXCEPT ![t.hold].status = "released"]
    <2>1. t.hold # NoHold  BY <1>2, NoHoldAssumption DEF HasHold
    <2>2. HoldVersion(t) = [holds[t.hold] EXCEPT !.status = "released"]
      BY <1>2 DEF HoldVersion
    <2>3. holds' = Put(t.hold, HoldVersion(t))  BY <2>1, Committed
    <2>4. DOMAIN holds \cup {t.hold} = DOMAIN holds  BY <1>2
    <2>5. holds \in [DOMAIN holds -> HoldRow]  BY DEF StoreInv, RowsInv
    <2> QED  BY <1>2, <2>2, <2>3, <2>4, <2>5 DEF Put
  <1> QED  BY <1>1, <1>2, <1>6, <1>7, <1>8, <1>9 DEF Ledger!ReleaseHold

\* The COMMIT of a monthly reset is the ledger's.
LEMMA AllowanceCommits ==
    ASSUME StoreInv, NEW s \in Sessions, Commit(s), Resetting(s)
    PROVE  Ledger!applyMonthlyAllowance(tx[s].acct, tx[s].amount,
                                        tx[s].bal.allowance_period)
  <1> DEFINE t == tx[s]
             b == balances[t.acct]
             B == [c \in Accounts |-> balances[c].balance]
             R == [c \in Accounts |-> balances[c].reserved]
             P == [c \in Accounts |-> balances[c].allowance_period]
             m == t.bal.allowance_period
  <1>1. /\ t.pc = "commit" /\ used' = used /\ month' = month
        /\ t.acct \in Accounts /\ b \in BalanceRow /\ txns[t.acct] \in Seq(TxnRow)
    BY Committed
  <1>2. /\ t.bal = [b EXCEPT !.balance = ToTicks(t.amount), !.allowance_period = m]
        /\ t.log = <<AllowanceRow(t.amount, m)>>
        /\ t.op = "applyMonthlyAllowance" /\ t.hold = NoHold
        /\ t.acct \in Managed /\ b.allowance_period < m
    BY <1>1 DEF Resetting
  <1>3. t.bal.balance = ToTicks(t.amount) /\ t.bal.reserved = b.reserved
    <2>1. \A x, y : LET n == [b EXCEPT !.balance = x, !.allowance_period = y]
                    IN  n.balance = x /\ n.reserved = b.reserved
      BY <1>1 DEF BalanceRow
    <2>2. t.bal = [b EXCEPT !.balance = ToTicks(t.amount), !.allowance_period = m]
      BY <1>2
    <2> HIDE DEF m, b
    <2> QED  BY <2>1, <2>2
  <1>4. /\ B[t.acct] = b.balance /\ R[t.acct] = b.reserved
        /\ P[t.acct] = b.allowance_period
    BY <1>1
  <1>5. /\ B' = [B EXCEPT ![t.acct] = t.bal.balance]
        /\ R' = [R EXCEPT ![t.acct] = b.reserved]
        /\ P' = [P EXCEPT ![t.acct] = m]
    BY <1>3, Committed
  <1>6. R' = R  BY <1>4, <1>5
  <1>7. (used \ Uncommitted)' = used \ Uncommitted
    BY <1>1, <1>2, IdleClosed, SeenSame, Committed DEF Unlock
  <1>8. Ledger!ToTicks(t.amount) = t.bal.balance  BY <1>3, SameOperators
  <1>9. txns' = [txns EXCEPT ![t.acct] =
                   Append(txns[t.acct], Ledger!AllowanceRow(t.amount, m))]
    <2>1. Ledger!AllowanceRow(t.amount, m) = AllowanceRow(t.amount, m)  BY SameOperators
    <2>2. txns' = [txns EXCEPT ![t.acct] = txns[t.acct] \o t.log]  BY Committed
    <2>3. txns[t.acct] \o t.log = Append(txns[t.acct], AllowanceRow(t.amount, m))
      BY <1>1, <1>2
    <2> QED  BY <2>1, <2>2, <2>3
  <1>10. holds' = holds  BY <1>2, Committed
  <1> QED  BY <1>1, <1>2, <1>4, <1>5, <1>6, <1>7, <1>8, <1>9, <1>10
           DEF Ledger!applyMonthlyAllowance

----------------------------------------------------------------------------
(***************************************************************************)
(* The refinement                                                          *)
(***************************************************************************)

\* A step that commits nothing and shows no new id is no step of the ledger.
LEMMA Unseen ==
    ASSUME UNCHANGED <<tables, month>>, (used \ Uncommitted)' = used \ Uncommitted
    PROVE  UNCHANGED Ledger!vars
  BY DEF tables, Ledger!vars

\* Every COMMIT is a step of the ledger.
LEMMA CommitStep ==
    ASSUME StoreInv, NEW s \in Sessions, Commit(s)
    PROVE  Ledger!Next
  <1>1. /\ tx[s].pc = "commit" /\ tx[s].acct \in Accounts
        /\ tx[s] \in Transaction
    BY Committed, Ready
  <1>2. CASE Adding(s)
    <2>1. tx[s].amount \in GrantAmounts  BY <1>2 DEF Adding
    <2>2. Ledger!AddCredits(tx[s].acct, tx[s].amount)  BY <1>2, AddCreditsCommits
    <2> QED  BY <1>1, <2>1, <2>2 DEF Ledger!Next, Ledger!AddCredits
  <1>3. CASE Reserving(s)
    <2>1. tx[s].amount \in Costs /\ tx[s].hold \in HoldIds
      BY <1>1, <1>3 DEF Reserving, HasHold
    <2>2. Ledger!ReserveCredits(tx[s].acct, tx[s].amount, tx[s].hold)
      BY <1>3, ReserveCommits
    <2> QED  BY <1>1, <2>1, <2>2 DEF Ledger!Next, Ledger!ReserveCredits
  <1>4. CASE Settling(s)
    <2>1. tx[s].amount \in Costs /\ tx[s].hold \in DOMAIN holds
      BY <1>4 DEF Settling, OnPending
    <2>2. Ledger!SettleHold(tx[s].hold, tx[s].amount)  BY <1>4, SettleCommits
    <2> QED  BY <2>1, <2>2 DEF Ledger!Next, Ledger!SettleHold
  <1>5. CASE Releasing(s)
    <2>1. tx[s].hold \in DOMAIN holds  BY <1>5 DEF Releasing, OnPending
    <2>2. Ledger!ReleaseHold(tx[s].hold)  BY <1>5, ReleaseCommits
    <2> QED  BY <2>1, <2>2 DEF Ledger!Next, Ledger!ReleaseHold
  <1>6. CASE Resetting(s)
    <2>1. tx[s].amount \in AllowanceAmounts /\ tx[s].bal.allowance_period \in 1..month
      BY <1>6 DEF Resetting
    <2>2. Ledger!applyMonthlyAllowance(tx[s].acct, tx[s].amount,
                                       tx[s].bal.allowance_period)
      BY <1>6, AllowanceCommits
    <2> QED  BY <1>1, <2>1, <2>2 DEF Ledger!Next, Ledger!applyMonthlyAllowance
  <1> QED  BY <1>1, <1>2, <1>3, <1>4, <1>5, <1>6, Ready

\* A rolled back reservation burns the id of the hold it had inserted; every
\* other rollback leaves no trace.
LEMMA RollbackStep ==
    ASSUME StoreInv, NEW s \in Sessions, Rollback(s)
    PROVE  [Ledger!Next]_(Ledger!vars)
  <1>1. Open(s) /\ Unlock(s) /\ UNCHANGED <<tables, used, month>>  BY DEF Rollback
  <1>2. CASE Reserving(s) /\ tx[s].pc # "hold"
    <2>1. /\ (used \ Uncommitted)' = (used \ Uncommitted) \cup {tx[s].hold}
          /\ tx[s].hold \in HoldIds \ (used \ Uncommitted)
      BY <1>1, <1>2, SeenEnd
    <2>2. Ledger!BurnHoldId(tx[s].hold)  BY <1>1, <2>1 DEF Ledger!BurnHoldId, tables
    <2> QED  BY <2>1, <2>2 DEF Ledger!Next
  <1>3. CASE ~(Reserving(s) /\ tx[s].pc # "hold")
    <2>1. tx[s].op = "ReserveCredits" => tx[s].hold = NoHold
      BY <1>1, <1>3, WhichTx DEF Reserving
    <2>2. (used \ Uncommitted)' = used \ Uncommitted
      BY <1>1, <2>1, IdleClosed, NoHoldAssumption, SeenSame DEF Unlock
    <2> QED  BY <1>1, <2>2, Unseen
  <1> QED  BY <1>2, <1>3

\* The first statement of a transaction shows nothing.
LEMMA OpeningStep ==
    ASSUME StoreInv, NEW s \in Sessions, NEW next, ~Open(s),
           tx' = [tx EXCEPT ![s] = next], UNCHANGED <<tables, used, month>>,
           next.op = "ReserveCredits" => next.hold = NoHold
    PROVE  UNCHANGED Ledger!vars
  <1>1. tx[s].op # "ReserveCredits"  BY DEF Open
  <1>2. \A h \in HoldIds : (tx[s].op = "ReserveCredits" /\ tx[s].hold = h)
                             <=> (next.op = "ReserveCredits" /\ next.hold = h)
    BY <1>1, NoHoldAssumption
  <1>3. (used \ Uncommitted)' = used \ Uncommitted  BY <1>2, SeenSame
  <1> QED  BY <1>3, Unseen

\* Nor do the ones before the COMMIT.
LEMMA InnerStep ==
    ASSUME StoreInv, NEW s \in Sessions, NEW next,
           tx' = [tx EXCEPT ![s] = next], UNCHANGED <<tables, used, month>>,
           next.op = tx[s].op, next.hold = tx[s].hold
    PROVE  UNCHANGED Ledger!vars
  <1>1. (used \ Uncommitted)' = used \ Uncommitted  BY SeenSame
  <1> QED  BY <1>1, Unseen

\* A statement of an open transaction is a ledger step only as a COMMIT.
LEMMA StepStep ==
    ASSUME StoreInv, NEW s \in Sessions, Step(s)
    PROVE  [Ledger!Next]_(Ledger!vars)
  <1>1. CASE \E id \in HoldIds : ReserveInsertHold(s, id)
    <2>1. UNCHANGED <<tables, month>>  BY <1>1 DEF ReserveInsertHold
    <2> QED  BY <1>1, <2>1, SeenInsert, Unseen
  <1>2. CASE ReserveUpdate(s)
    <2> DEFINE bal == [balances[tx[s].acct] EXCEPT !.reserved =
                         ToTicks(Exact(balances[tx[s].acct].reserved) + tx[s].amount)]
    <2>1. Open(s) /\ UNCHANGED <<tables, used, month>>
      BY <1>2 DEF Open, ReserveUpdate
    <2> DEFINE next == [tx[s] EXCEPT !.pc = "commit", !.bal = bal]
    <2>2. tx' = [tx EXCEPT ![s] = next]  BY <1>2 DEF ReserveUpdate
    <2> HIDE DEF bal
    <2>3. tx[s] \in Transaction  BY <2>1, OpenTx
    <2>4. next.op = tx[s].op /\ next.hold = tx[s].hold  BY <2>3 DEF Transaction
    <2> HIDE DEF next
    <2>5. UNCHANGED Ledger!vars  BY <2>1, <2>2, <2>4, InnerStep
    <2> QED  BY <2>5
  <1>3. CASE SettleUpdate(s)
    <2> DEFINE bal == [balances[tx[s].acct] EXCEPT
                         !.balance = ToTicks(Exact(balances[tx[s].acct].balance)
                                             - tx[s].amount),
                         !.reserved = balances[tx[s].acct].reserved
                                      - holds[tx[s].hold].amount]
    <2>1. Open(s) /\ UNCHANGED <<tables, used, month>>
      BY <1>3 DEF Open, SettleUpdate
    <2> DEFINE next == [tx[s] EXCEPT !.pc = "insert", !.bal = bal]
    <2>2. tx' = [tx EXCEPT ![s] = next]  BY <1>3 DEF SettleUpdate
    <2> HIDE DEF bal
    <2>3. tx[s] \in Transaction  BY <2>1, OpenTx
    <2>4. next.op = tx[s].op /\ next.hold = tx[s].hold  BY <2>3 DEF Transaction
    <2> HIDE DEF next
    <2>5. UNCHANGED Ledger!vars  BY <2>1, <2>2, <2>4, InnerStep
    <2> QED  BY <2>5
  <1>4. CASE ReleaseUpdate(s)
    <2> DEFINE bal == [balances[tx[s].acct] EXCEPT
                         !.reserved = balances[tx[s].acct].reserved
                                      - holds[tx[s].hold].amount]
    <2>1. Open(s) /\ UNCHANGED <<tables, used, month>>
      BY <1>4 DEF Open, ReleaseUpdate
    <2> DEFINE next == [tx[s] EXCEPT !.pc = "commit", !.bal = bal]
    <2>2. tx' = [tx EXCEPT ![s] = next]  BY <1>4 DEF ReleaseUpdate
    <2> HIDE DEF bal
    <2>3. tx[s] \in Transaction  BY <2>1, OpenTx
    <2>4. next.op = tx[s].op /\ next.hold = tx[s].hold  BY <2>3 DEF Transaction
    <2> HIDE DEF next
    <2>5. UNCHANGED Ledger!vars  BY <2>1, <2>2, <2>4, InnerStep
    <2> QED  BY <2>5
  <1>5. CASE InsertTxn(s)
    <2> DEFINE log == <<AuditRow(tx[s])>>
    <2>1. tx[s] # Idle /\ UNCHANGED <<tables, used, month>>
      BY <1>5 DEF InsertTxn, Idle
    <2> DEFINE next == [tx[s] EXCEPT !.pc = "commit", !.log = log]
    <2>2. tx' = [tx EXCEPT ![s] = next]  BY <1>5 DEF InsertTxn
    <2> HIDE DEF log
    <2>3. tx[s] \in Transaction  BY <2>1, OpenTx
    <2>4. next.op = tx[s].op /\ next.hold = tx[s].hold  BY <2>3 DEF Transaction
    <2> HIDE DEF next
    <2>5. UNCHANGED Ledger!vars  BY <2>1, <2>2, <2>4, InnerStep
    <2> QED  BY <2>5
  <1>6. CASE Commit(s)  BY <1>6, CommitStep
  <1> QED  BY <1>1, <1>2, <1>3, <1>4, <1>5, <1>6 DEF Step

\* Every step of the store is a step of the ledger or invisible to it.
LEMMA StoreStep ==
    ASSUME StoreInv, [Next]_vars
    PROVE  [Ledger!Next]_(Ledger!vars)
  <1>1. ASSUME NEW s \in Sessions, NEW a \in Accounts, NEW amount \in GrantAmounts,
               AddCredits(s, a, amount)
        PROVE  UNCHANGED Ledger!vars
    <2> DEFINE next == [op |-> "AddCredits", pc |-> "insert", acct |-> a,
                        hold |-> NoHold, amount |-> amount, log |-> <<>>,
                        bal |-> [balances[a] EXCEPT
                                   !.balance = ToTicks(Exact(balances[a].balance) + amount)]]
    <2>1. /\ ~Open(s) /\ UNCHANGED <<tables, used, month>>
          /\ tx' = [tx EXCEPT ![s] = next]
      BY <1>1 DEF AddCredits
    <2>2. next.op = "AddCredits"  OBVIOUS
    <2> HIDE DEF next
    <2> QED  BY <2>1, <2>2, OpeningStep
  <1>2. ASSUME NEW s \in Sessions, NEW a \in Accounts, NEW amount \in Costs,
               ReserveCredits(s, a, amount)
        PROVE  UNCHANGED Ledger!vars
    <2> DEFINE next == [op |-> "ReserveCredits", pc |-> "hold", acct |-> a,
                        hold |-> NoHold, amount |-> amount, log |-> <<>>,
                        bal |-> balances[a]]
    <2>1. /\ ~Open(s) /\ UNCHANGED <<tables, used, month>>
          /\ tx' = [tx EXCEPT ![s] = next]
      BY <1>2 DEF ReserveCredits
    <2>2. next.hold = NoHold  OBVIOUS
    <2> HIDE DEF next
    <2> QED  BY <2>1, <2>2, OpeningStep
  <1>3. ASSUME NEW s \in Sessions, NEW h \in DOMAIN holds,
               NEW op \in {"SettleHold", "ReleaseHold"}, NEW amount,
               MarkHold(s, h, op, amount)
        PROVE  UNCHANGED Ledger!vars
    <2> DEFINE next == [op |-> op, pc |-> "update", acct |-> holds[h].account_id,
                        hold |-> h, amount |-> amount, log |-> <<>>,
                        bal |-> balances[holds[h].account_id]]
    <2>1. /\ ~Open(s) /\ UNCHANGED <<tables, used, month>>
          /\ tx' = [tx EXCEPT ![s] = next]
      BY <1>3 DEF MarkHold
    <2>2. next.op = op  OBVIOUS
    <2> HIDE DEF next
    <2> QED  BY <2>1, <2>2, OpeningStep
  <1>4. ASSUME NEW s \in Sessions, NEW a \in Accounts, NEW grant, NEW m,
               applyMonthlyAllowance(s, a, grant, m)
        PROVE  UNCHANGED Ledger!vars
    <2> DEFINE next == [op |-> "applyMonthlyAllowance", pc |-> "insert", acct |-> a,
                        hold |-> NoHold, amount |-> grant, log |-> <<>>,
                        bal |-> [balances[a] EXCEPT !.balance = ToTicks(grant),
                                                    !.allowance_period = m]]
    <2>1. /\ ~Open(s) /\ UNCHANGED <<tables, used, month>>
          /\ tx' = [tx EXCEPT ![s] = next]
      BY <1>4 DEF applyMonthlyAllowance
    <2>2. next.op = "applyMonthlyAllowance"  OBVIOUS
    <2> HIDE DEF next
    <2> QED  BY <2>1, <2>2, OpeningStep
  <1>5. ASSUME NEW old \in SUBSET DOMAIN holds, CleanupSettledHolds(old)
        PROVE  Ledger!Next
    <2>1. (used \ Uncommitted)' = used \ Uncommitted
      BY <1>5 DEF CleanupSettledHolds, Uncommitted
    <2>2. Ledger!CleanupSettledHolds(old)
      BY <1>5, <2>1 DEF CleanupSettledHolds, Ledger!CleanupSettledHolds
    <2> QED  BY <2>2 DEF Ledger!Next
  <1>6. ASSUME NewMonth PROVE Ledger!Next
    <2>1. (used \ Uncommitted)' = used \ Uncommitted
      BY <1>6 DEF NewMonth, Uncommitted
    <2>2. Ledger!NewMonth  BY <1>6, <2>1 DEF NewMonth, Ledger!NewMonth, tables
    <2> QED  BY <2>2 DEF Ledger!Next
  <1>7. ASSUME UNCHANGED vars PROVE UNCHANGED Ledger!vars
    <2>1. (used \ Uncommitted)' = used \ Uncommitted  BY <1>7 DEF vars, Uncommitted
    <2> QED  BY <1>7, <2>1, Unseen DEF vars, tables
  <1> QED
    BY <1>1, <1>2, <1>3, <1>4, <1>5, <1>6, <1>7, StepStep, RollbackStep
    DEF Next, SettleHold, ReleaseHold

\* The statements, row locks and rollbacks of the credit transactions implement
\* the atomic operations of CreditLedger: under READ COMMITTED, with the locks
\* that FOR UPDATE and UPDATE take, a COMMIT is one operation of the ledger on
\* the committed rows, a rolled back reservation at most loses an id of the
\* sequence, and no other statement is visible.
THEOREM StoreImplements == Spec => ImplementsLedger
<1>1. Init => Ledger!Init  BY DEF Init, Ledger!Init, Uncommitted
<1>2. StoreInv /\ [Next]_vars => [Ledger!Next]_(Ledger!vars)  BY StoreStep
<1> QED
  BY <1>1, <1>2, StoreStart, StoreNext, PTL DEF Spec, ImplementsLedger, Ledger!Spec

Proved == INSTANCE CreditLedgerProofs WITH
    balance          <- [a \in Accounts |-> balances[a].balance],
    reserved         <- [a \in Accounts |-> balances[a].reserved],
    allowance_period <- [a \in Accounts |-> balances[a].allowance_period],
    used             <- used \ Uncommitted

\* The ledger the theorems of CreditLedgerProofs are about is this one.
LEMMA SameLedger == Ledger!Spec => Proved!Spec
  <1>1. Ledger!Init => Proved!Init  BY DEF Ledger!Init, Proved!Init
  <1>2. [Ledger!Next]_(Ledger!vars) => [Proved!Next]_(Proved!vars)
    BY DEF Ledger!Next, Proved!Next, Ledger!vars, Proved!vars,
           Ledger!AddCredits, Proved!AddCredits, Ledger!GrantRow, Proved!GrantRow,
           Ledger!ReserveCredits, Proved!ReserveCredits, Ledger!Affords, Proved!Affords,
           Ledger!BurnHoldId, Proved!BurnHoldId, Ledger!ToTicks, Proved!ToTicks,
           Ledger!SettleHold, Proved!SettleHold, Ledger!UsageRow, Proved!UsageRow,
           Ledger!ReleaseHold, Proved!ReleaseHold, Ledger!Exact, Proved!Exact,
           Ledger!CleanupSettledHolds, Proved!CleanupSettledHolds,
           Ledger!applyMonthlyAllowance, Proved!applyMonthlyAllowance,
           Ledger!AllowanceRow, Proved!AllowanceRow,
           Ledger!NewMonth, Proved!NewMonth
  <1> QED  BY <1>1, <1>2, PTL DEF Ledger!Spec, Proved!Spec

\* What the credit store promises holds of the committed rows, however its
\* statements interleave: reserved is the sum of the pending holds, a hold is
\* charged at most once, the audit trail explains the balance, a month pays one
\* allowance.
THEOREM StoreKeepsLedger ==
    Spec => [](/\ Ledger!TypeOK /\ Ledger!ReservedMatchesHolds
               /\ Ledger!ChargedOnce /\ Ledger!AuditTrail
               /\ Ledger!OneAllowancePerMonth)
  <1>1. Proved!Spec => []Proved!TypeOK
    BY Proved!TypeCorrect, LimitsAssumption, ManagedAssumption, NoHoldAssumption,
       CostsAssumption, GrantAssumption, AllowanceAssumption
  <1>2. Proved!Spec => []Proved!ReservedMatchesHolds
    BY Proved!ReservedCorrect, LimitsAssumption, ManagedAssumption, NoHoldAssumption,
       CostsAssumption, GrantAssumption, AllowanceAssumption
  <1>3. Proved!Spec => []Proved!ChargedOnce
    BY Proved!ChargedOnceCorrect, LimitsAssumption, ManagedAssumption,
       NoHoldAssumption, CostsAssumption, GrantAssumption, AllowanceAssumption
  <1>4. Proved!Spec => []Proved!AuditTrail
    BY Proved!AuditTrailCorrect, LimitsAssumption, ManagedAssumption,
       NoHoldAssumption, CostsAssumption, GrantAssumption, AllowanceAssumption
  <1>5. Proved!Spec => []Proved!OneAllowancePerMonth
    BY Proved!AllowanceCorrect, LimitsAssumption, ManagedAssumption, NoHoldAssumption,
       CostsAssumption, GrantAssumption, AllowanceAssumption
  <1>6. Proved!TypeOK => Ledger!TypeOK
    BY DEF Proved!TypeOK, Ledger!TypeOK, Proved!HoldRow, Ledger!HoldRow,
           Proved!HoldStatus, Ledger!HoldStatus, Proved!TxnRow, Ledger!TxnRow,
           Proved!TxnType, Ledger!TxnType
  <1>7. Proved!ReservedMatchesHolds => Ledger!ReservedMatchesHolds
    <2>1. ASSUME NEW S PROVE Ledger!IsFiniteSet(S) <=> Proved!IsFiniteSet(S)
      BY DEF Ledger!IsFiniteSet, Proved!IsFiniteSet
    <2>2. ASSUME NEW S PROVE Ledger!Cardinality(S) = Proved!Cardinality(S)
      BY DEF Ledger!Cardinality, Proved!Cardinality
    <2>3. ASSUME NEW a PROVE Ledger!PendingTicks(a) = Proved!PendingTicks(a)
      BY DEF Proved!PendingTicks, Ledger!PendingTicks, Proved!Pending, Ledger!Pending
    <2> QED
      BY <2>1, <2>2, <2>3 DEF Proved!ReservedMatchesHolds, Ledger!ReservedMatchesHolds
  <1>8. Proved!ChargedOnce => Ledger!ChargedOnce
    BY DEF Proved!ChargedOnce, Ledger!ChargedOnce
  <1>9. Proved!AuditTrail => Ledger!AuditTrail
    BY DEF Proved!AuditTrail, Ledger!AuditTrail, Proved!BalanceBefore,
           Ledger!BalanceBefore
  <1>10. Proved!OneAllowancePerMonth => Ledger!OneAllowancePerMonth
    BY DEF Proved!OneAllowancePerMonth, Ledger!OneAllowancePerMonth
  <1> QED
    BY <1>1, <1>2, <1>3, <1>4, <1>5, <1>6, <1>7, <1>8, <1>9, <1>10,
       StoreImplements, SameLedger, PTL DEF ImplementsLedger
=============================================================================
