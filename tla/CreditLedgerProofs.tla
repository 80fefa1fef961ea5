------------------------- MODULE CreditLedgerProofs -------------------------
(***************************************************************************)
(* Proofs that CreditLedger keeps its invariants for every set of          *)
(* accounts, hold ids, costs and grants.                                   *)
(***************************************************************************)
EXTENDS CreditLedger, FiniteSetTheorems, TLAPS

----------------------------------------------------------------------------
(***************************************************************************)
(* Rounding to a DECIMAL(15,6) column                                      *)
(***************************************************************************)

\* Rounding gives an integer, and a natural number for a non-negative amount.
LEMMA ToTicksType ==
    \A q \in Int : /\ ToTicks(q) \in Int
                   /\ q >= 0 => ToTicks(q) \in Nat
  BY DEF ToTicks

\* Adding a non-negative amount to a non-negative column rounds as the amount
\* alone does: reserved and the hold's own amount grow by the same ticks.
LEMMA ToTicksAdd ==
    \A n, q \in Nat : ToTicks(Exact(n) + q) = n + ToTicks(q)
  BY DEF ToTicks, Exact

\* In general rounding the sum and rounding the summand differ by a tick at
\* most.
LEMMA ToTicksDrift ==
    \A n, q \in Int : ToTicks(Exact(n) + q) - (n + ToTicks(q)) \in -1..1
  BY DEF ToTicks, Exact

\* A whole number of ticks that covers an amount covers it after rounding.
LEMMA ToTicksCovered ==
    \A n \in Int, q \in Nat : Exact(n) >= q => ToTicks(q) <= n
  BY DEF ToTicks, Exact

----------------------------------------------------------------------------
(***************************************************************************)
(* Type correctness                                                        *)
(***************************************************************************)

\* The constructors of the audit rows build rows of the right type.
LEMMA TxnRowType ==
    /\ \A q, n \in Int : GrantRow(q, n) \in TxnRow
    /\ \A h \in HoldIds, q, n \in Int : UsageRow(h, q, n) \in TxnRow
    /\ \A q \in Int, m \in Nat : AllowanceRow(q, m) \in TxnRow
  BY ToTicksType DEF GrantRow, UsageRow, AllowanceRow, TxnRow, TxnType

\* Every reachable state of the credit tables is well typed, and every hold
\* row carries an id that the sequence of credit_holds handed out.
THEOREM TypeCorrect == Spec => []TypeOK
<1>1. Init => TypeOK
  BY DEF Init, TypeOK, HoldRow
<1>2. TypeOK /\ [Next]_vars => TypeOK'
  <2> SUFFICES ASSUME TypeOK, [Next]_vars
               PROVE  TypeOK'
    OBVIOUS
  <2> USE DEF TypeOK
  <2>1. ASSUME NEW a \in Accounts, NEW amount \in GrantAmounts,
               AddCredits(a, amount)
        PROVE  TypeOK'
    <3> DEFINE newBalance == ToTicks(Exact(balance[a]) + amount)
    <3>1. amount \in Int /\ newBalance \in Int
      BY GrantAssumption, ToTicksType DEF Exact
    <3>2. GrantRow(amount, newBalance) \in TxnRow
      BY <3>1, TxnRowType
    <3> QED
      BY <2>1, <3>1, <3>2 DEF AddCredits
  <2>2. ASSUME NEW a \in Accounts, NEW amount \in Costs, NEW id \in HoldIds,
               ReserveCredits(a, amount, id)
        PROVE  TypeOK'
    <3>1. ToTicks(amount) \in Nat /\ ToTicks(Exact(reserved[a]) + amount) \in Int
      BY CostsAssumption, ToTicksType DEF Exact
    <3>2. [account_id |-> a, amount |-> ToTicks(amount), status |-> "pending"]
             \in HoldRow
      BY <3>1 DEF HoldRow, HoldStatus
    <3> QED
      BY <2>2, <3>1, <3>2 DEF ReserveCredits
  <2>3. ASSUME NEW id \in HoldIds, BurnHoldId(id)
        PROVE  TypeOK'
    BY <2>3 DEF BurnHoldId
  <2>4. ASSUME NEW h \in DOMAIN holds, NEW actual \in Costs, SettleHold(h, actual)
        PROVE  TypeOK'
    <3> DEFINE a == holds[h].account_id
               newBalance == ToTicks(Exact(balance[a]) - actual)
    <3>1. /\ a \in Accounts /\ holds[h].amount \in Nat
          /\ h \in HoldIds /\ actual \in Int
      BY CostsAssumption DEF HoldRow
    <3>2. newBalance \in Int
      BY <3>1, ToTicksType DEF Exact
    <3>3. UsageRow(h, actual, newBalance) \in TxnRow
      BY <3>1, <3>2, TxnRowType
    <3>4. [holds EXCEPT ![h].status = "settled"] \in [DOMAIN holds -> HoldRow]
      BY DEF HoldRow, HoldStatus
    <3> HIDE DEF a, newBalance
    <3>5. /\ balance'  = [balance EXCEPT ![a] = newBalance]
          /\ reserved' = [reserved EXCEPT ![a] = @ - holds[h].amount]
          /\ txns' = [txns EXCEPT ![a] = Append(@, UsageRow(h, actual, newBalance))]
          /\ holds' = [holds EXCEPT ![h].status = "settled"]
          /\ UNCHANGED <<allowance_period, used, month>>
      BY <2>4 DEF SettleHold, a, newBalance
    <3> QED
      BY <3>1, <3>2, <3>3, <3>4, <3>5
  <2>5. ASSUME NEW h \in DOMAIN holds, ReleaseHold(h)
        PROVE  TypeOK'
    <3>1. holds[h].account_id \in Accounts /\ holds[h].amount \in Nat
      BY DEF HoldRow
    <3>2. [holds EXCEPT ![h].status = "released"] \in [DOMAIN holds -> HoldRow]
      BY DEF HoldRow, HoldStatus
    <3> QED
      BY <2>5, <3>1, <3>2 DEF ReleaseHold
  <2>6. ASSUME NEW old \in SUBSET DOMAIN holds, CleanupSettledHolds(old)
        PROVE  TypeOK'
    BY <2>6 DEF CleanupSettledHolds
  <2>7. ASSUME NEW a \in Accounts, NEW grant \in AllowanceAmounts,
               NEW m \in 1..month, applyMonthlyAllowance(a, grant, m)
        PROVE  TypeOK'
    <3>1. ToTicks(grant) \in Int /\ AllowanceRow(grant, m) \in TxnRow /\ m \in Nat
      BY AllowanceAssumption, ToTicksType, TxnRowType
    <3> QED
      BY <2>7, <3>1 DEF applyMonthlyAllowance
  <2>8. CASE NewMonth
    BY <2>8 DEF NewMonth
  <2>9. CASE UNCHANGED vars
    BY <2>9 DEF vars
  <2> QED
    BY <2>1, <2>2, <2>3, <2>4, <2>5, <2>6, <2>7, <2>8, <2>9 DEF Next
<1> QED
  BY <1>1, <1>2, PTL DEF Spec

----------------------------------------------------------------------------
(***************************************************************************)
(* Reservations.  The sum of the pending holds is the size of PendingTicks,*)
(* so the library's facts about finite sets replace an induction over the  *)
(* holds: reserving adds a disjoint block of ticks, settling and releasing *)
(* take one block away.                                                    *)
(***************************************************************************)

\* The ticks of one hold: as many as its amount.
LEMMA HoldTicks ==
    ASSUME NEW h, NEW n \in Nat
    PROVE  /\ IsFiniteSet({h} \X (1..n))
           /\ Cardinality({h} \X (1..n)) = n
<1>1. IsFiniteSet({h}) /\ Cardinality({h}) = 1
  BY FS_Singleton
<1>2. IsFiniteSet(1..n) /\ Cardinality(1..n) = n
  BY FS_Interval
<1>3. /\ IsFiniteSet({h} \X (1..n))
      /\ Cardinality({h} \X (1..n)) = Cardinality({h}) * Cardinality(1..n)
  BY <1>1, <1>2, FS_Product
<1> QED
  BY <1>1, <1>2, <1>3

\* Adding a disjoint finite block.
LEMMA AddBlock ==
    ASSUME NEW S, IsFiniteSet(S), NEW T, IsFiniteSet(T), S \cap T = {}
    PROVE  /\ IsFiniteSet(S \cup T)
           /\ Cardinality(S \cup T) = Cardinality(S) + Cardinality(T)
<1>1. /\ IsFiniteSet(S \cup T)
      /\ Cardinality(S \cup T)
           = Cardinality(S) + Cardinality(T) - Cardinality(S \cap T)
  BY FS_Union
<1>2. Cardinality(S \cap T) = 0
  BY FS_EmptySet
<1>3. Cardinality(S) \in Nat /\ Cardinality(T) \in Nat
  BY FS_CardinalityType
<1> QED
  BY <1>1, <1>2, <1>3

\* Taking a contained block away.
LEMMA RemoveBlock ==
    ASSUME NEW S, IsFiniteSet(S), NEW T \in SUBSET S
    PROVE  /\ IsFiniteSet(S \ T)
           /\ Cardinality(S \ T) = Cardinality(S) - Cardinality(T)
<1>1. S \cap T = T
  OBVIOUS
<1> QED
  BY <1>1, FS_Difference

\* When the pending holds of an account and their amounts stay, so do its
\* ticks.
LEMMA TicksUnchanged ==
    ASSUME NEW a, Pending(a)' = Pending(a),
           \A h \in Pending(a) : holds'[h].amount = holds[h].amount
    PROVE  PendingTicks(a)' = PendingTicks(a)
  BY DEF PendingTicks

\* When a hold leaves the pending set its block of ticks leaves with it.
LEMMA TicksRemoved ==
    ASSUME NEW a, NEW h \in Pending(a), Pending(a)' = Pending(a) \ {h},
           \A g \in Pending(a) : holds'[g].amount = holds[g].amount
    PROVE  /\ PendingTicks(a)' = PendingTicks(a) \ ({h} \X (1..holds[h].amount))
           /\ {h} \X (1..holds[h].amount) \in SUBSET PendingTicks(a)
  BY DEF PendingTicks

\* A pending hold that stops being pending takes its amount out of the sum of
\* its account and leaves the other accounts alone (SettleHold, ReleaseHold).
LEMMA HoldFinished ==
    ASSUME TypeOK, ReservedMatchesHolds,
           NEW h \in DOMAIN holds, holds[h].status = "pending",
           NEW st, st # "pending",
           holds' = [holds EXCEPT ![h].status = st],
           reserved' = [reserved EXCEPT
                          ![holds[h].account_id] = @ - holds[h].amount]
    PROVE  ReservedMatchesHolds'
<1> SUFFICES ASSUME NEW a \in Accounts
             PROVE  /\ IsFiniteSet(PendingTicks(a)')
                    /\ reserved'[a] = Cardinality(PendingTicks(a)')
  BY DEF ReservedMatchesHolds
<1>1. /\ DOMAIN holds' = DOMAIN holds
      /\ \A g \in DOMAIN holds : /\ holds'[g].amount = holds[g].amount
                                 /\ holds'[g].account_id = holds[g].account_id
                                 /\ g # h => holds'[g].status = holds[g].status
      /\ holds'[h].status = st
  BY DEF TypeOK, HoldRow
<1>2. holds[h].account_id \in Accounts /\ holds[h].amount \in Nat
  BY DEF TypeOK, HoldRow
<1>3. /\ IsFiniteSet(PendingTicks(a))
      /\ reserved[a] = Cardinality(PendingTicks(a))
  BY DEF ReservedMatchesHolds
<1>4. CASE holds[h].account_id = a
  <2> DEFINE block == {h} \X (1..holds[h].amount)
  <2>1. h \in Pending(a) /\ Pending(a)' = Pending(a) \ {h}
    BY <1>1, <1>4 DEF Pending
  <2>2. /\ PendingTicks(a)' = PendingTicks(a) \ block
        /\ block \in SUBSET PendingTicks(a)
    BY <1>1, <2>1, TicksRemoved DEF Pending
  <2>3. Cardinality(block) = holds[h].amount
    BY <1>2, HoldTicks
  <2>4. /\ IsFiniteSet(PendingTicks(a) \ block)
        /\ Cardinality(PendingTicks(a) \ block)
             = Cardinality(PendingTicks(a)) - Cardinality(block)
    BY <1>3, <2>2, RemoveBlock
  <2>5. reserved'[a] = reserved[a] - holds[h].amount
    BY <1>4, <1>2 DEF TypeOK
  <2> QED
    BY <1>3, <2>2, <2>3, <2>4, <2>5
<1>5. CASE holds[h].account_id # a
  <2>1. Pending(a)' = Pending(a)
    BY <1>1, <1>5 DEF Pending
  <2>2. PendingTicks(a)' = PendingTicks(a)
    BY <1>1, <2>1, TicksUnchanged DEF Pending
  <2>3. reserved'[a] = reserved[a]
    BY <1>5, <1>2 DEF TypeOK
  <2> QED
    BY <1>3, <2>2, <2>3
<1> QED
  BY <1>4, <1>5

\* A step that leaves holds and reserved alone keeps the sums.
LEMMA ReservationsUntouched ==
    ASSUME ReservedMatchesHolds, UNCHANGED <<holds, reserved>>
    PROVE  ReservedMatchesHolds'
  BY DEF ReservedMatchesHolds, PendingTicks, Pending

\* A new hold adds its rounded amount to the sum of its account.
LEMMA HoldReserved ==
    ASSUME TypeOK, ReservedMatchesHolds,
           NEW a \in Accounts, NEW amount \in Costs, NEW id \in HoldIds,
           ReserveCredits(a, amount, id)
    PROVE  ReservedMatchesHolds'
<1> SUFFICES ASSUME NEW b \in Accounts
             PROVE  /\ IsFiniteSet(PendingTicks(b)')
                    /\ reserved'[b] = Cardinality(PendingTicks(b)')
  BY DEF ReservedMatchesHolds
<1> DEFINE block == {id} \X (1..ToTicks(amount))
<1>1. amount \in Nat /\ ToTicks(amount) \in Nat
  BY CostsAssumption, ToTicksType
<1>2. id \notin DOMAIN holds
  BY DEF ReserveCredits, TypeOK
<1>3. /\ DOMAIN holds' = DOMAIN holds \cup {id}
      /\ \A h \in DOMAIN holds : holds'[h] = holds[h]
      /\ holds'[id] = [account_id |-> a, amount |-> ToTicks(amount),
                       status |-> "pending"]
  BY <1>2 DEF ReserveCredits
<1>4. /\ IsFiniteSet(PendingTicks(b))
      /\ reserved[b] = Cardinality(PendingTicks(b))
      /\ reserved[b] \in Nat
  BY FS_CardinalityType DEF ReservedMatchesHolds
<1>5. CASE a = b
  <2>1. Pending(b)' = Pending(b) \cup {id}
    BY <1>3, <1>5 DEF Pending
  <2>2. \A h \in Pending(b) : h # id /\ holds'[h].amount = holds[h].amount
    BY <1>2, <1>3 DEF Pending
  <2>3. holds'[id].amount = ToTicks(amount)
    BY <1>3
  <2>4. /\ PendingTicks(b)' = PendingTicks(b) \cup block
        /\ PendingTicks(b) \cap block = {}
    BY <2>1, <2>2, <2>3 DEF PendingTicks
  <2>5. IsFiniteSet(block) /\ Cardinality(block) = ToTicks(amount)
    BY <1>1, HoldTicks
  <2>6. /\ IsFiniteSet(PendingTicks(b) \cup block)
        /\ Cardinality(PendingTicks(b) \cup block)
             = Cardinality(PendingTicks(b)) + Cardinality(block)
    BY <1>4, <2>4, <2>5, AddBlock
  <2>7. reserved'[b] = ToTicks(Exact(reserved[b]) + amount)
    BY <1>5 DEF ReserveCredits, TypeOK
  <2>8. reserved'[b] = reserved[b] + ToTicks(amount)
    BY <1>1, <1>4, <2>7, ToTicksAdd
  <2> QED
    BY <1>4, <2>4, <2>5, <2>6, <2>8
<1>6. CASE a # b
  <2>1. Pending(b)' = Pending(b)
    BY <1>3, <1>6 DEF Pending
  <2>2. PendingTicks(b)' = PendingTicks(b)
    BY <1>3, <2>1, TicksUnchanged DEF Pending
  <2>3. reserved'[b] = reserved[b]
    BY <1>6 DEF ReserveCredits, TypeOK
  <2> QED
    BY <1>4, <2>2, <2>3
<1> QED
  BY <1>5, <1>6

\* For every account, the reserved column is the sum of its pending holds in
\* every reachable state, whatever the interleaving of reservations,
\* settlements, releases, sweeps, clean-ups, grants and monthly resets.
THEOREM ReservedCorrect == Spec => []ReservedMatchesHolds
<1>1. Init => ReservedMatchesHolds
  <2> SUFFICES ASSUME Init, NEW a \in Accounts
               PROVE  /\ IsFiniteSet(PendingTicks(a))
                      /\ reserved[a] = Cardinality(PendingTicks(a))
    BY DEF ReservedMatchesHolds
  <2>1. PendingTicks(a) = {}
    BY DEF Init, PendingTicks, Pending
  <2>2. reserved[a] = 0
    BY DEF Init
  <2> QED
    BY <2>1, <2>2, FS_EmptySet
<1>2. TypeOK /\ ReservedMatchesHolds /\ [Next]_vars => ReservedMatchesHolds'
  <2> SUFFICES ASSUME TypeOK, ReservedMatchesHolds, [Next]_vars
               PROVE  ReservedMatchesHolds'
    OBVIOUS
  <2>1. ASSUME NEW a \in Accounts, NEW amount \in GrantAmounts,
               AddCredits(a, amount)
        PROVE  ReservedMatchesHolds'
    BY <2>1, ReservationsUntouched DEF AddCredits
  <2>2. ASSUME NEW a \in Accounts, NEW amount \in Costs, NEW id \in HoldIds,
               ReserveCredits(a, amount, id)
        PROVE  ReservedMatchesHolds'
    BY <2>2, HoldReserved
  <2>3. ASSUME NEW id \in HoldIds, BurnHoldId(id)
        PROVE  ReservedMatchesHolds'
    BY <2>3, ReservationsUntouched DEF BurnHoldId
  <2>4. ASSUME NEW h \in DOMAIN holds, NEW actual \in Costs, SettleHold(h, actual)
        PROVE  ReservedMatchesHolds'
    BY <2>4, HoldFinished DEF SettleHold
  <2>5. ASSUME NEW h \in DOMAIN holds, ReleaseHold(h)
        PROVE  ReservedMatchesHolds'
    BY <2>5, HoldFinished DEF ReleaseHold
  <2>6. ASSUME NEW old \in SUBSET DOMAIN holds, CleanupSettledHolds(old)
        PROVE  ReservedMatchesHolds'
    <3>1. \A a \in Accounts : /\ Pending(a)' = Pending(a)
                              /\ \A h \in Pending(a) : holds'[h] = holds[h]
      BY <2>6 DEF CleanupSettledHolds, Pending
    <3>2. \A a \in Accounts : PendingTicks(a)' = PendingTicks(a)
      BY <3>1, TicksUnchanged
    <3> QED
      BY <2>6, <3>2 DEF CleanupSettledHolds, ReservedMatchesHolds
  <2>7. ASSUME NEW a \in Accounts, NEW grant \in AllowanceAmounts,
               NEW m \in 1..month, applyMonthlyAllowance(a, grant, m)
        PROVE  ReservedMatchesHolds'
    BY <2>7, ReservationsUntouched DEF applyMonthlyAllowance
  <2>8. CASE NewMonth
    BY <2>8, ReservationsUntouched DEF NewMonth
  <2>9. CASE UNCHANGED vars
    BY <2>9, ReservationsUntouched DEF vars
  <2> QED
    BY <2>1, <2>2, <2>3, <2>4, <2>5, <2>6, <2>7, <2>8, <2>9 DEF Next
<1> QED
  BY <1>1, <1>2, TypeCorrect, PTL DEF Spec

\* No step that reserves credits oversells the account (the check and the
\* update of ReserveCredits are one transaction): the reservations it leaves
\* are covered by the balance.
THEOREM ReserveCovered == Spec => ReserveWithinBalance
<1>1. TypeOK /\ ReservedMatchesHolds /\ [Next]_vars =>
        [\A a \in Accounts : reserved'[a] > reserved[a]
                               => reserved'[a] <= balance'[a]]_vars
  <2> SUFFICES ASSUME TypeOK, ReservedMatchesHolds, Next,
                      NEW a \in Accounts, reserved'[a] > reserved[a]
               PROVE  reserved'[a] <= balance'[a]
    OBVIOUS
  <2>0. reserved[a] \in Nat /\ balance[a] \in Int
    BY FS_CardinalityType DEF TypeOK, ReservedMatchesHolds
  <2>1. ASSUME NEW b \in Accounts, NEW amount \in GrantAmounts,
               AddCredits(b, amount)
        PROVE  FALSE
    BY <2>0, <2>1 DEF AddCredits
  <2>2. ASSUME NEW b \in Accounts, NEW amount \in Costs, NEW id \in HoldIds,
               ReserveCredits(b, amount, id)
        PROVE  reserved'[a] <= balance'[a]
    <3>1. a = b
      BY <2>0, <2>2 DEF ReserveCredits, TypeOK
    <3>2. amount \in Nat
      BY CostsAssumption
    <3>3. reserved'[a] = reserved[a] + ToTicks(amount) /\ balance'[a] = balance[a]
      BY <2>0, <2>2, <3>1, <3>2, ToTicksAdd DEF ReserveCredits, TypeOK
    <3>4. ToTicks(amount) <= balance[a] - reserved[a] /\ ToTicks(amount) \in Nat
      BY <2>0, <2>2, <3>1, <3>2, ToTicksCovered, ToTicksType
      DEF ReserveCredits, Affords
    <3> QED
      BY <2>0, <3>3, <3>4
  <2>3. ASSUME NEW id \in HoldIds, BurnHoldId(id)
        PROVE  FALSE
    BY <2>0, <2>3 DEF BurnHoldId
  <2>4. ASSUME NEW h \in DOMAIN holds,
               reserved' = [reserved EXCEPT
                              ![holds[h].account_id] = @ - holds[h].amount]
        PROVE  FALSE
    BY <2>0, <2>4 DEF TypeOK, HoldRow
  <2>5. ASSUME NEW old \in SUBSET DOMAIN holds, CleanupSettledHolds(old)
        PROVE  FALSE
    BY <2>0, <2>5 DEF CleanupSettledHolds
  <2>6. ASSUME NEW b \in Accounts, NEW grant \in AllowanceAmounts,
               NEW m \in 1..month, applyMonthlyAllowance(b, grant, m)
        PROVE  FALSE
    BY <2>0, <2>6 DEF applyMonthlyAllowance
  <2>7. ASSUME NewMonth
        PROVE  FALSE
    BY <2>0, <2>7 DEF NewMonth
  <2> QED
    BY <2>1, <2>2, <2>3, <2>4, <2>5, <2>6, <2>7
    DEF Next, SettleHold, ReleaseHold
<1> QED
  BY <1>1, TypeCorrect, ReservedCorrect, PTL DEF Spec, ReserveWithinBalance

\* A settled or released hold never changes again: SettleHold and ReleaseHold
\* act on pending rows only, and a new row has an id the sequence never handed
\* out before.
THEOREM FinishedHoldsFinal == Spec => FinishedHoldsStay
<1>1. TypeOK /\ [Next]_vars =>
        [\A h \in DOMAIN holds :
            holds[h].status # "pending" /\ h \in DOMAIN holds'
               => holds'[h] = holds[h]]_vars
  <2> SUFFICES ASSUME TypeOK, Next, NEW h \in DOMAIN holds,
                      holds[h].status # "pending", h \in DOMAIN holds'
               PROVE  holds'[h] = holds[h]
    OBVIOUS
  <2>1. CASE UNCHANGED holds
    BY <2>1
  <2>2. ASSUME NEW b \in Accounts, NEW amount \in Costs, NEW id \in HoldIds,
               ReserveCredits(b, amount, id)
        PROVE  holds'[h] = holds[h]
    <3>1. h # id
      BY <2>2 DEF ReserveCredits, TypeOK
    <3> QED
      BY <2>2, <3>1 DEF ReserveCredits
  <2>3. ASSUME NEW g \in DOMAIN holds, NEW s \in {"settled", "released"},
               holds[g].status = "pending",
               holds' = [holds EXCEPT ![g].status = s]
        PROVE  holds'[h] = holds[h]
    BY <2>3 DEF TypeOK
  <2>4. ASSUME NEW old \in SUBSET DOMAIN holds, CleanupSettledHolds(old)
        PROVE  holds'[h] = holds[h]
    BY <2>4 DEF CleanupSettledHolds
  <2> QED
    BY <2>1, <2>2, <2>3, <2>4
    DEF Next, AddCredits, BurnHoldId, SettleHold, ReleaseHold,
        applyMonthlyAllowance, NewMonth
<1> QED
  BY <1>1, TypeCorrect, PTL DEF Spec, FinishedHoldsStay

----------------------------------------------------------------------------
(***************************************************************************)
(* Charges                                                                 *)
(***************************************************************************)

\* The rows of an account after one more was appended.
LEMMA AppendedRows ==
    ASSUME NEW s \in Seq(TxnRow), NEW r \in TxnRow
    PROVE  /\ Append(s, r) \in Seq(TxnRow)
           /\ Len(Append(s, r)) = Len(s) + 1 /\ Len(s) \in Nat
           /\ Append(s, r)[Len(s) + 1] = r
           /\ DOMAIN s = 1..Len(s)
           /\ DOMAIN Append(s, r) = 1..(Len(s) + 1)
           /\ \A i \in 1..Len(s) : Append(s, r)[i] = s[i]
  OBVIOUS

\* A step that appends one row that is not a usage row to one account and
\* leaves every settled hold as it was (or deletes it) keeps ChargedOnce.
LEMMA NoChargeAdded ==
    ASSUME TypeOK, ChargedOnce, TypeOK',
           used \subseteq used',
           \A h \in used : h \in DOMAIN holds' =>
               /\ h \in DOMAIN holds
               /\ holds[h].status = "settled" => holds'[h] = holds[h],
           \A a \in Accounts :
               \/ txns'[a] = txns[a]
               \/ \E r \in TxnRow : r.type # "usage" /\ txns'[a] = Append(txns[a], r)
    PROVE  ChargedOnce'
<1> SUFFICES ASSUME NEW a \in Accounts, NEW b \in Accounts,
                    NEW i \in DOMAIN txns'[a], NEW j \in DOMAIN txns'[b],
                    txns'[a][i].type = "usage"
             PROVE  LET r == txns'[a][i]
                    IN  /\ r.reference_id \in used'
                        /\ r.reference_id \in DOMAIN holds' =>
                              /\ holds'[r.reference_id].status = "settled"
                              /\ holds'[r.reference_id].account_id = a
                        /\ (txns'[b][j].type = "usage"
                            /\ txns'[b][j].reference_id = r.reference_id)
                              => a = b /\ i = j
  BY DEF ChargedOnce
<1>1. \A c \in Accounts : txns[c] \in Seq(TxnRow)
  BY DEF TypeOK
<1>2. \A c \in Accounts : \A k \in DOMAIN txns'[c] :
         txns'[c][k].type = "usage" =>
            k \in DOMAIN txns[c] /\ txns'[c][k] = txns[c][k]
  <2> SUFFICES ASSUME NEW c \in Accounts, NEW k \in DOMAIN txns'[c],
                      txns'[c][k].type = "usage"
               PROVE  k \in DOMAIN txns[c] /\ txns'[c][k] = txns[c][k]
    OBVIOUS
  <2>1. CASE txns'[c] = txns[c]
    BY <2>1
  <2>2. ASSUME NEW r \in TxnRow, r.type # "usage", txns'[c] = Append(txns[c], r)
        PROVE  k \in DOMAIN txns[c] /\ txns'[c][k] = txns[c][k]
    BY <1>1, <2>2, AppendedRows
  <2> QED
    BY <2>1, <2>2
<1> QED
  BY <1>2 DEF ChargedOnce

\* Each hold is charged at most once, to the account it was reserved for, and
\* is settled from then on: a second settlement, or a release that comes after
\* the charge, does nothing.
THEOREM ChargedOnceCorrect == Spec => []ChargedOnce
<1>1. Init => ChargedOnce
  BY DEF Init, ChargedOnce
<1>2. TypeOK /\ TypeOK' /\ ChargedOnce /\ [Next]_vars => ChargedOnce'
  <2> SUFFICES ASSUME TypeOK, TypeOK', ChargedOnce, [Next]_vars
               PROVE  ChargedOnce'
    OBVIOUS
  <2>0. \A a \in Accounts : txns[a] \in Seq(TxnRow)
    BY DEF TypeOK
  <2>1. ASSUME NEW a \in Accounts, NEW amount \in GrantAmounts,
               AddCredits(a, amount)
        PROVE  ChargedOnce'
    <3> DEFINE newBalance == ToTicks(Exact(balance[a]) + amount)
               r == GrantRow(amount, newBalance)
    <3>1. amount \in Int /\ newBalance \in Int
      BY GrantAssumption, ToTicksType DEF Exact, TypeOK
    <3>2. r \in TxnRow /\ r.type # "usage"
      BY <3>1, TxnRowType DEF GrantRow
    <3>3. \A b \in Accounts : txns'[b] = IF b = a THEN Append(txns[a], r) ELSE txns[b]
      BY <2>1 DEF AddCredits, TypeOK
    <3> HIDE DEF r
    <3> QED
      BY <2>1, <3>2, <3>3, NoChargeAdded DEF AddCredits
  <2>2. ASSUME NEW a \in Accounts, NEW amount \in Costs, NEW id \in HoldIds,
               ReserveCredits(a, amount, id)
        PROVE  ChargedOnce'
    BY <2>2, NoChargeAdded DEF ReserveCredits
  <2>3. ASSUME NEW id \in HoldIds, BurnHoldId(id)
        PROVE  ChargedOnce'
    BY <2>3, NoChargeAdded DEF BurnHoldId
  <2>4. ASSUME NEW h \in DOMAIN holds, NEW actual \in Costs, SettleHold(h, actual)
        PROVE  ChargedOnce'
    <3> DEFINE a == holds[h].account_id
               newBalance == ToTicks(Exact(balance[a]) - actual)
               r == UsageRow(h, actual, newBalance)
    <3>1. a \in Accounts /\ h \in used /\ r \in TxnRow
      <4>1. a \in Accounts /\ h \in used /\ h \in HoldIds /\ actual \in Int
        BY CostsAssumption DEF TypeOK, HoldRow
      <4>2. newBalance \in Int
        BY <4>1, ToTicksType DEF Exact, TypeOK
      <4> QED
        BY <4>1, <4>2, TxnRowType
    <3>2. r.type = "usage" /\ r.reference_id = h
      BY DEF UsageRow
    <3>3. \A b \in Accounts : txns'[b] = IF b = a THEN Append(txns[a], r) ELSE txns[b]
      BY <2>4 DEF SettleHold, TypeOK
    <3>4. /\ DOMAIN holds' = DOMAIN holds /\ used' = used
          /\ \A g \in DOMAIN holds : g # h => holds'[g] = holds[g]
          /\ holds'[h].status = "settled" /\ holds'[h].account_id = a
      <4>1. holds' = [holds EXCEPT ![h].status = "settled"] /\ used' = used
        BY <2>4 DEF SettleHold
      <4>2. holds \in [DOMAIN holds -> HoldRow] /\ holds[h] \in HoldRow
        BY DEF TypeOK
      <4>3. /\ DOMAIN holds' = DOMAIN holds
            /\ \A g \in DOMAIN holds : g # h => holds'[g] = holds[g]
            /\ holds'[h] = [holds[h] EXCEPT !.status = "settled"]
        BY <4>1, <4>2
      <4>4. holds'[h].status = "settled" /\ holds'[h].account_id = a
        BY <4>2, <4>3 DEF HoldRow
      <4> QED
        BY <4>1, <4>3, <4>4
    <3>5. \A b \in Accounts : \A i \in DOMAIN txns[b] :
             txns[b][i].type = "usage" => txns[b][i].reference_id # h
      BY <2>4 DEF SettleHold, ChargedOnce
    <3> HIDE DEF a, r
    <3>6. \A b \in Accounts : \A i \in DOMAIN txns'[b] :
             \/ i \in DOMAIN txns[b] /\ txns'[b][i] = txns[b][i]
             \/ b = a /\ i = Len(txns[a]) + 1 /\ txns'[b][i] = r
      <4> SUFFICES ASSUME NEW b \in Accounts, NEW i \in DOMAIN txns'[b]
                   PROVE  \/ i \in DOMAIN txns[b] /\ txns'[b][i] = txns[b][i]
                          \/ b = a /\ i = Len(txns[a]) + 1 /\ txns'[b][i] = r
        OBVIOUS
      <4>1. CASE b = a
        <5>1. txns'[b] = Append(txns[a], r) /\ txns[a] \in Seq(TxnRow)
          BY <2>0, <3>1, <3>3, <4>1
        <5>2. i \in 1..(Len(txns[a]) + 1) /\ Len(txns[a]) \in Nat
          BY <3>1, <5>1, AppendedRows
        <5>3. CASE i = Len(txns[a]) + 1
          BY <3>1, <4>1, <5>1, <5>3, AppendedRows
        <5>4. CASE i \in 1..Len(txns[a])
          BY <3>1, <4>1, <5>1, <5>4, AppendedRows
        <5> QED
          BY <5>2, <5>3, <5>4
      <4>2. CASE b # a
        BY <3>3, <4>2
      <4> QED
        BY <4>1, <4>2
    <3> SUFFICES ASSUME NEW b \in Accounts, NEW c \in Accounts,
                        NEW i \in DOMAIN txns'[b], NEW j \in DOMAIN txns'[c],
                        txns'[b][i].type = "usage"
                 PROVE  LET row == txns'[b][i]
                        IN  /\ row.reference_id \in used'
                            /\ row.reference_id \in DOMAIN holds' =>
                                  /\ holds'[row.reference_id].status = "settled"
                                  /\ holds'[row.reference_id].account_id = b
                            /\ (txns'[c][j].type = "usage"
                                /\ txns'[c][j].reference_id = row.reference_id)
                                  => b = c /\ i = j
      BY DEF ChargedOnce
    <3>7. CASE i \in DOMAIN txns[b] /\ txns'[b][i] = txns[b][i]
      BY <3>2, <3>4, <3>5, <3>6, <3>7 DEF ChargedOnce
    <3>8. CASE b = a /\ i = Len(txns[a]) + 1 /\ txns'[b][i] = r
      BY <3>1, <3>2, <3>4, <3>5, <3>6, <3>8
    <3> QED
      BY <3>6, <3>7, <3>8
  <2>5. ASSUME NEW h \in DOMAIN holds, ReleaseHold(h)
        PROVE  ChargedOnce'
    <3>1. /\ DOMAIN holds' = DOMAIN holds
          /\ \A g \in DOMAIN holds : g # h => holds'[g] = holds[g]
      BY <2>5 DEF ReleaseHold, TypeOK
    <3> QED
      BY <2>5, <3>1, NoChargeAdded DEF ReleaseHold
  <2>6. ASSUME NEW old \in SUBSET DOMAIN holds, CleanupSettledHolds(old)
        PROVE  ChargedOnce'
    BY <2>6, NoChargeAdded DEF CleanupSettledHolds
  <2>7. ASSUME NEW a \in Accounts, NEW grant \in AllowanceAmounts,
               NEW m \in 1..month, applyMonthlyAllowance(a, grant, m)
        PROVE  ChargedOnce'
    <3> DEFINE r == AllowanceRow(grant, m)
    <3>1. r \in TxnRow /\ r.type # "usage"
      BY AllowanceAssumption, TxnRowType DEF AllowanceRow, TypeOK
    <3>2. \A b \in Accounts : txns'[b] = IF b = a THEN Append(txns[a], r) ELSE txns[b]
      BY <2>7 DEF applyMonthlyAllowance, TypeOK
    <3> HIDE DEF r
    <3> QED
      BY <2>7, <3>1, <3>2, NoChargeAdded DEF applyMonthlyAllowance
  <2>8. CASE NewMonth
    BY <2>8, NoChargeAdded DEF NewMonth
  <2>9. CASE UNCHANGED vars
    BY <2>9, NoChargeAdded DEF vars
  <2> QED
    BY <2>1, <2>2, <2>3, <2>4, <2>5, <2>6, <2>7, <2>8, <2>9 DEF Next
<1> QED
  BY <1>1, <1>2, TypeCorrect, PTL DEF Spec

----------------------------------------------------------------------------
(***************************************************************************)
(* The audit trail                                                         *)
(***************************************************************************)

\* Appending a row that explains the new balance keeps the trail.
LEMMA RowExplains ==
    ASSUME TypeOK, AuditTrail, NEW a \in Accounts, NEW r \in TxnRow,
           txns' = [txns EXCEPT ![a] = Append(@, r)],
           balance' = [balance EXCEPT ![a] = r.balance_after],
           IF r.type = "monthly_allowance"
           THEN r.balance_after = r.amount
           ELSE r.balance_after - (balance[a] + r.amount) \in -1..1
    PROVE  AuditTrail'
<1>1. \A b \in Accounts : /\ txns[b] \in Seq(TxnRow) /\ Len(txns[b]) \in Nat
                           /\ DOMAIN txns[b] = 1..Len(txns[b])
  BY DEF TypeOK
<1>2. /\ txns'[a] = Append(txns[a], r) /\ balance'[a] = r.balance_after
      /\ \A b \in Accounts : b # a => /\ txns'[b] = txns[b]
                                       /\ balance'[b] = balance[b]
  BY DEF TypeOK
<1>3. /\ Len(txns'[a]) = Len(txns[a]) + 1
      /\ txns'[a][Len(txns[a]) + 1] = r
      /\ DOMAIN txns'[a] = 1..(Len(txns[a]) + 1)
      /\ \A i \in 1..Len(txns[a]) : txns'[a][i] = txns[a][i]
  BY <1>1, <1>2, AppendedRows
<1>4. \A i \in 1..(Len(txns[a]) + 1) : BalanceBefore(a, i)' = BalanceBefore(a, i)
  <2> SUFFICES ASSUME NEW i \in 1..(Len(txns[a]) + 1)
               PROVE  BalanceBefore(a, i)' = BalanceBefore(a, i)
    OBVIOUS
  <2>1. CASE i = 1
    BY <2>1 DEF BalanceBefore
  <2>2. CASE i # 1
    <3>1. i - 1 \in 1..Len(txns[a])
      BY <1>1, <2>2
    <3> QED
      BY <1>3, <2>2, <3>1 DEF BalanceBefore
  <2> QED
    BY <2>1, <2>2
<1> SUFFICES ASSUME NEW b \in Accounts
             PROVE  /\ balance'[b] = BalanceBefore(b, Len(txns[b]) + 1)'
                    /\ \A i \in DOMAIN txns'[b] :
                         IF txns'[b][i].type = "monthly_allowance"
                         THEN txns'[b][i].balance_after = txns'[b][i].amount
                         ELSE txns'[b][i].balance_after
                                - (BalanceBefore(b, i)' + txns'[b][i].amount)
                              \in -1..1
  BY DEF AuditTrail
<1>5. CASE b # a
  BY <1>2, <1>5 DEF AuditTrail, BalanceBefore
<1>6. CASE b = a
  <2>1. balance'[a] = BalanceBefore(a, Len(txns[a]) + 1)'
    BY <1>1, <1>2, <1>3 DEF BalanceBefore
  <2>2. ASSUME NEW i \in 1..Len(txns[a])
        PROVE  IF txns'[a][i].type = "monthly_allowance"
               THEN txns'[a][i].balance_after = txns'[a][i].amount
               ELSE txns'[a][i].balance_after
                      - (BalanceBefore(a, i)' + txns'[a][i].amount) \in -1..1
    <3>1. txns'[a][i] = txns[a][i] /\ BalanceBefore(a, i)' = BalanceBefore(a, i)
      BY <1>1, <1>3, <1>4
    <3> QED
      BY <1>1, <3>1 DEF AuditTrail
  <2>3. BalanceBefore(a, Len(txns[a]) + 1) = balance[a]
    BY DEF AuditTrail
  <2>4. ASSUME NEW n \in 1..(Len(txns[a]) + 1), n = Len(txns[a]) + 1
        PROVE  IF txns'[a][n].type = "monthly_allowance"
               THEN txns'[a][n].balance_after = txns'[a][n].amount
               ELSE txns'[a][n].balance_after
                      - (BalanceBefore(a, n)' + txns'[a][n].amount) \in -1..1
    <3>1. BalanceBefore(a, n)' = balance[a] /\ txns'[a][n] = r
      BY <1>3, <1>4, <2>3, <2>4
    <3> QED
      BY <3>1
  <2>5. \A i \in DOMAIN txns'[a] : i \in 1..Len(txns[a]) \/ i = Len(txns[a]) + 1
    BY <1>1, <1>3
  <2> QED
    BY <1>3, <1>6, <2>1, <2>2, <2>4, <2>5
<1> QED
  BY <1>5, <1>6

\* A step that leaves balances and rows alone keeps the trail.
LEMMA TrailUntouched ==
    ASSUME AuditTrail, UNCHANGED <<balance, txns>>
    PROVE  AuditTrail'
  BY DEF AuditTrail, BalanceBefore

\* The audit trail explains every balance: it ends in it, and each row
\* accounts for the step between two balances up to one tick of rounding.
THEOREM AuditTrailCorrect == Spec => []AuditTrail
<1>1. Init => AuditTrail
  BY DEF Init, AuditTrail, BalanceBefore
<1>2. TypeOK /\ AuditTrail /\ [Next]_vars => AuditTrail'
  <2> SUFFICES ASSUME TypeOK, AuditTrail, [Next]_vars
               PROVE  AuditTrail'
    OBVIOUS
  <2>1. ASSUME NEW a \in Accounts, NEW amount \in GrantAmounts,
               AddCredits(a, amount)
        PROVE  AuditTrail'
    <3> DEFINE newBalance == ToTicks(Exact(balance[a]) + amount)
               r == GrantRow(amount, newBalance)
    <3>1. balance[a] \in Int /\ amount \in Int /\ newBalance \in Int
      BY GrantAssumption, ToTicksType DEF Exact, TypeOK
    <3>2. /\ r \in TxnRow /\ r.type = "grant"
          /\ r.balance_after = newBalance /\ r.amount = ToTicks(amount)
      BY <3>1, TxnRowType DEF GrantRow
    <3>3. newBalance - (balance[a] + ToTicks(amount)) \in -1..1
      BY <3>1, ToTicksDrift
    <3>4. /\ txns' = [txns EXCEPT ![a] = Append(@, r)]
          /\ balance' = [balance EXCEPT ![a] = newBalance]
      BY <2>1 DEF AddCredits
    <3> HIDE DEF newBalance, r
    <3> QED
      BY <3>2, <3>3, <3>4, RowExplains
  <2>2. ASSUME NEW a \in Accounts, NEW amount \in Costs, NEW id \in HoldIds,
               ReserveCredits(a, amount, id)
        PROVE  AuditTrail'
    BY <2>2, TrailUntouched DEF ReserveCredits
  <2>3. ASSUME NEW id \in HoldIds, BurnHoldId(id)
        PROVE  AuditTrail'
    BY <2>3, TrailUntouched DEF BurnHoldId
  <2>4. ASSUME NEW h \in DOMAIN holds, NEW actual \in Costs, SettleHold(h, actual)
        PROVE  AuditTrail'
    <3> DEFINE a == holds[h].account_id
               newBalance == ToTicks(Exact(balance[a]) - actual)
               r == UsageRow(h, actual, newBalance)
    <3>1. /\ a \in Accounts /\ h \in HoldIds /\ actual \in Int
          /\ balance[a] \in Int
      BY CostsAssumption DEF TypeOK, HoldRow
    <3>2. newBalance \in Int
      BY <3>1, ToTicksType DEF Exact
    <3>3. /\ r \in TxnRow /\ r.type = "usage"
          /\ r.balance_after = newBalance /\ r.amount = ToTicks(-actual)
      BY <3>1, <3>2, TxnRowType DEF UsageRow
    <3>4. newBalance - (balance[a] + ToTicks(-actual)) \in -1..1
      <4>1. newBalance = ToTicks(Exact(balance[a]) + (-actual))
        BY <3>1 DEF Exact
      <4> HIDE DEF newBalance, a
      <4> QED
        BY <3>1, <4>1, ToTicksDrift
    <3>5. /\ txns' = [txns EXCEPT ![a] = Append(@, r)]
          /\ balance' = [balance EXCEPT ![a] = newBalance]
      BY <2>4 DEF SettleHold
    <3> HIDE DEF a, newBalance, r
    <3> QED
      BY <3>1, <3>3, <3>4, <3>5, RowExplains
  <2>5. ASSUME NEW h \in DOMAIN holds, ReleaseHold(h)
        PROVE  AuditTrail'
    BY <2>5, TrailUntouched DEF ReleaseHold
  <2>6. ASSUME NEW old \in SUBSET DOMAIN holds, CleanupSettledHolds(old)
        PROVE  AuditTrail'
    BY <2>6, TrailUntouched DEF CleanupSettledHolds
  <2>7. ASSUME NEW a \in Accounts, NEW grant \in AllowanceAmounts,
               NEW m \in 1..month, applyMonthlyAllowance(a, grant, m)
        PROVE  AuditTrail'
    <3> DEFINE r == AllowanceRow(grant, m)
    <3>1. r \in TxnRow
      BY AllowanceAssumption, TxnRowType DEF TypeOK
    <3>2. /\ r.type = "monthly_allowance" /\ r.balance_after = r.amount
          /\ r.balance_after = ToTicks(grant)
      BY DEF AllowanceRow
    <3>3. /\ txns' = [txns EXCEPT ![a] = Append(@, r)]
          /\ balance' = [balance EXCEPT ![a] = ToTicks(grant)]
      BY <2>7 DEF applyMonthlyAllowance
    <3> HIDE DEF r
    <3> QED
      BY <3>1, <3>2, <3>3, RowExplains
  <2>8. CASE NewMonth
    BY <2>8, TrailUntouched DEF NewMonth
  <2>9. CASE UNCHANGED vars
    BY <2>9, TrailUntouched DEF vars
  <2> QED
    BY <2>1, <2>2, <2>3, <2>4, <2>5, <2>6, <2>7, <2>8, <2>9 DEF Next
<1> QED
  BY <1>1, <1>2, TypeCorrect, PTL DEF Spec

----------------------------------------------------------------------------
(***************************************************************************)
(* The monthly allowance                                                   *)
(***************************************************************************)

\* Appending a row of another type, with the periods unchanged, keeps the
\* one-per-month property.
LEMMA NoAllowanceAdded ==
    ASSUME TypeOK, OneAllowancePerMonth, UNCHANGED allowance_period,
           \A a \in Accounts :
               \/ txns'[a] = txns[a]
               \/ \E r \in TxnRow : /\ r.type # "monthly_allowance"
                                    /\ txns'[a] = Append(txns[a], r)
    PROVE  OneAllowancePerMonth'
<1> SUFFICES ASSUME NEW a \in Accounts, NEW i \in DOMAIN txns'[a],
                    txns'[a][i].type = "monthly_allowance"
             PROVE  /\ a \in Managed
                    /\ txns'[a][i].period <= allowance_period[a]
                    /\ \A j \in 1..(i - 1) :
                         txns'[a][j].type = "monthly_allowance"
                            => txns'[a][j].period < txns'[a][i].period
  BY DEF OneAllowancePerMonth
<1>1. txns[a] \in Seq(TxnRow)
  BY DEF TypeOK
<1>2. i \in 1..Len(txns[a]) /\ \A j \in 1..i : txns'[a][j] = txns[a][j]
  <2>1. CASE txns'[a] = txns[a]
    BY <1>1, <2>1
  <2>2. ASSUME NEW r \in TxnRow, r.type # "monthly_allowance",
               txns'[a] = Append(txns[a], r)
        PROVE  i \in 1..Len(txns[a]) /\ \A j \in 1..i : txns'[a][j] = txns[a][j]
    <3>1. i # Len(txns[a]) + 1
      BY <1>1, <2>2, AppendedRows
    <3>2. i \in 1..Len(txns[a]) /\ Len(txns[a]) \in Nat
      BY <1>1, <2>2, <3>1, AppendedRows
    <3> QED
      BY <1>1, <2>2, <3>2, AppendedRows
  <2> QED
    BY <2>1, <2>2
<1>3. i \in DOMAIN txns[a] /\ txns[a][i].type = "monthly_allowance"
  BY <1>1, <1>2
<1>4. /\ a \in Managed /\ txns[a][i].period <= allowance_period[a]
      /\ \A j \in 1..(i - 1) : txns[a][j].type = "monthly_allowance"
                                => txns[a][j].period < txns[a][i].period
  BY <1>3 DEF OneAllowancePerMonth
<1>5. txns'[a][i] = txns[a][i] /\ \A j \in 1..(i - 1) : txns'[a][j] = txns[a][j]
  BY <1>2
<1> QED
  BY <1>4, <1>5

\* One allowance per account and month, in month order, however many requests
\* race for it and however old the month they carry.
THEOREM AllowanceCorrect == Spec => []OneAllowancePerMonth
<1>1. Init => OneAllowancePerMonth
  BY DEF Init, OneAllowancePerMonth
<1>2. TypeOK /\ OneAllowancePerMonth /\ [Next]_vars => OneAllowancePerMonth'
  <2> SUFFICES ASSUME TypeOK, OneAllowancePerMonth, [Next]_vars
               PROVE  OneAllowancePerMonth'
    OBVIOUS
  <2>1. ASSUME NEW a \in Accounts, NEW amount \in GrantAmounts,
               AddCredits(a, amount)
        PROVE  OneAllowancePerMonth'
    <3> DEFINE newBalance == ToTicks(Exact(balance[a]) + amount)
               r == GrantRow(amount, newBalance)
    <3>1. amount \in Int /\ newBalance \in Int
      BY GrantAssumption, ToTicksType DEF Exact, TypeOK
    <3>2. r \in TxnRow /\ r.type # "monthly_allowance"
      BY <3>1, TxnRowType DEF GrantRow
    <3>3. \A b \in Accounts : txns'[b] = IF b = a THEN Append(txns[a], r) ELSE txns[b]
      BY <2>1 DEF AddCredits, TypeOK
    <3> HIDE DEF r
    <3> QED
      BY <2>1, <3>2, <3>3, NoAllowanceAdded DEF AddCredits
  <2>2. ASSUME NEW a \in Accounts, NEW amount \in Costs, NEW id \in HoldIds,
               ReserveCredits(a, amount, id)
        PROVE  OneAllowancePerMonth'
    BY <2>2, NoAllowanceAdded DEF ReserveCredits
  <2>3. ASSUME NEW id \in HoldIds, BurnHoldId(id)
        PROVE  OneAllowancePerMonth'
    BY <2>3, NoAllowanceAdded DEF BurnHoldId
  <2>4. ASSUME NEW h \in DOMAIN holds, NEW actual \in Costs, SettleHold(h, actual)
        PROVE  OneAllowancePerMonth'
    <3> DEFINE a == holds[h].account_id
               newBalance == ToTicks(Exact(balance[a]) - actual)
               r == UsageRow(h, actual, newBalance)
    <3>1. a \in Accounts /\ h \in HoldIds /\ actual \in Int
      BY CostsAssumption DEF TypeOK, HoldRow
    <3>2. newBalance \in Int
      BY <3>1, ToTicksType DEF Exact, TypeOK
    <3>3. r \in TxnRow /\ r.type # "monthly_allowance"
      BY <3>1, <3>2, TxnRowType DEF UsageRow
    <3>4. \A b \in Accounts : txns'[b] = IF b = a THEN Append(txns[a], r) ELSE txns[b]
      BY <2>4 DEF SettleHold, TypeOK
    <3> HIDE DEF a, r
    <3> QED
      BY <2>4, <3>3, <3>4, NoAllowanceAdded DEF SettleHold
  <2>5. ASSUME NEW h \in DOMAIN holds, ReleaseHold(h)
        PROVE  OneAllowancePerMonth'
    BY <2>5, NoAllowanceAdded DEF ReleaseHold
  <2>6. ASSUME NEW old \in SUBSET DOMAIN holds, CleanupSettledHolds(old)
        PROVE  OneAllowancePerMonth'
    BY <2>6, NoAllowanceAdded DEF CleanupSettledHolds
  <2>7. ASSUME NEW a \in Accounts, NEW grant \in AllowanceAmounts,
               NEW m \in 1..month, applyMonthlyAllowance(a, grant, m)
        PROVE  OneAllowancePerMonth'
    <3> DEFINE r == AllowanceRow(grant, m)
    <3>1. r \in TxnRow /\ r.period = m /\ m \in Nat
      BY AllowanceAssumption, TxnRowType DEF AllowanceRow, TypeOK
    <3>2. /\ txns'[a] = Append(txns[a], r) /\ txns[a] \in Seq(TxnRow)
          /\ \A b \in Accounts : b # a => txns'[b] = txns[b]
      BY <2>7 DEF applyMonthlyAllowance, TypeOK
    <3>3. /\ allowance_period'[a] = m /\ allowance_period[a] < m /\ a \in Managed
          /\ \A b \in Accounts : b # a =>
               allowance_period'[b] = allowance_period[b]
      BY <2>7 DEF applyMonthlyAllowance, TypeOK
    <3> HIDE DEF r
    <3> SUFFICES ASSUME NEW b \in Accounts, NEW i \in DOMAIN txns'[b],
                        txns'[b][i].type = "monthly_allowance"
                 PROVE  /\ b \in Managed
                        /\ txns'[b][i].period <= allowance_period'[b]
                        /\ \A j \in 1..(i - 1) :
                             txns'[b][j].type = "monthly_allowance"
                                => txns'[b][j].period < txns'[b][i].period
      BY DEF OneAllowancePerMonth
    <3>4. CASE b # a
      BY <3>2, <3>3, <3>4 DEF OneAllowancePerMonth
    <3>5. CASE b = a
      <4>1. /\ i \in 1..(Len(txns[a]) + 1) /\ Len(txns[a]) \in Nat
            /\ DOMAIN txns[a] = 1..Len(txns[a])
            /\ \A k \in 1..Len(txns[a]) : txns'[a][k] = txns[a][k]
            /\ txns'[a][Len(txns[a]) + 1] = r
        BY <3>1, <3>2, <3>5, AppendedRows
      <4>2. \A k \in 1..Len(txns[a]) : /\ txns[a][k] \in TxnRow
                                       /\ txns[a][k].period \in Nat
        <5>1. \A k \in 1..Len(txns[a]) : txns[a][k] \in TxnRow
          BY <3>2
        <5> QED
          BY <5>1 DEF TxnRow
      <4>3. \A k \in 1..Len(txns[a]) : txns[a][k].type = "monthly_allowance" =>
               /\ txns[a][k].period <= allowance_period[a]
               /\ \A j \in 1..(k - 1) : txns[a][j].type = "monthly_allowance"
                                         => txns[a][j].period < txns[a][k].period
        BY <4>1 DEF OneAllowancePerMonth
      <4>4. allowance_period[a] \in Nat
        BY DEF TypeOK
      <4>5. CASE i \in 1..Len(txns[a])
        <5>1. \A j \in 1..(i - 1) : j \in 1..Len(txns[a])
          BY <4>1, <4>5
        <5>2. txns'[a][i].period <= allowance_period'[a]
          BY <3>1, <3>3, <3>5, <4>1, <4>2, <4>3, <4>4, <4>5
        <5> QED
          BY <3>3, <3>5, <4>1, <4>3, <4>5, <5>1, <5>2
      <4>6. CASE i = Len(txns[a]) + 1
        <5>1. \A j \in 1..(i - 1) : j \in 1..Len(txns[a])
          BY <4>1, <4>6
        <5>2. txns'[a][i].period = m
          BY <3>1, <4>1, <4>6
        <5>3. \A j \in 1..(i - 1) : txns'[a][j].type = "monthly_allowance"
                                      => txns'[a][j].period < m
          <6> SUFFICES ASSUME NEW j \in 1..(i - 1),
                              txns'[a][j].type = "monthly_allowance"
                       PROVE  txns'[a][j].period < m
            OBVIOUS
          <6>1. j \in 1..Len(txns[a]) /\ txns'[a][j] = txns[a][j]
            BY <4>1, <5>1
          <6>2. txns[a][j].period <= allowance_period[a] /\ txns[a][j].period \in Nat
            BY <4>2, <4>3, <6>1
          <6> QED
            BY <3>1, <3>3, <4>4, <6>1, <6>2
        <5> QED
          BY <3>1, <3>3, <3>5, <5>2, <5>3
      <4> QED
        BY <4>1, <4>5, <4>6
    <3> QED
      BY <3>4, <3>5
  <2>8. CASE NewMonth
    BY <2>8, NoAllowanceAdded DEF NewMonth
  <2>9. CASE UNCHANGED vars
    BY <2>9, NoAllowanceAdded DEF vars
  <2> QED
    BY <2>1, <2>2, <2>3, <2>4, <2>5, <2>6, <2>7, <2>8, <2>9 DEF Next
<1> QED
  BY <1>1, <1>2, TypeCorrect, PTL DEF Spec
=============================================================================
