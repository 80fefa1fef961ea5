----------------------------- MODULE CreditData -----------------------------
(***************************************************************************)
(* The rows of the credit tables (internal/store/schema.sql) and the       *)
(* arithmetic the database does on them.                                   *)
(*                                                                         *)
(* Every money column is DECIMAL(15,6).  One TICK is the last digit such a *)
(* column keeps, so columns hold integers here.  The amounts the Go code   *)
(* passes in are float64 values with a finer grain (rates have ten         *)
(* decimals): they are counted in QUARTERS of a tick, the coarsest unit    *)
(* that tells apart every case of rounding (exact, below, at and above the *)
(* half).                                                                  *)
(***************************************************************************)
EXTENDS Integers, Sequences, FiniteSets

CONSTANTS
    Accounts,          \* accounts.id
    Managed,           \* accounts with allowance_managed = TRUE
    HoldIds,           \* the ids the credit_holds sequence can hand out
    NoHold,            \* reference_id IS NULL
    Costs,             \* reserve estimates and actual costs, in quarters
    GrantAmounts,      \* admin grants and clawbacks, in quarters
    AllowanceAmounts   \* monthly grants: the default and the overrides

ASSUME ManagedAssumption   == Managed \subseteq Accounts
ASSUME NoHoldAssumption    == NoHold \notin HoldIds
ASSUME CostsAssumption     == Costs \subseteq Nat
ASSUME GrantAssumption     == GrantAmounts \subseteq Int
ASSUME AllowanceAssumption == AllowanceAmounts \subseteq Nat

----------------------------------------------------------------------------
\* A DECIMAL(15,6) column as an exact number of quarters.
Exact(ticks) == 4 * ticks

\* Storing a number into a DECIMAL(15,6) column rounds it to a tick, halves
\* away from zero.
ToTicks(quarters) ==
    IF quarters >= 0 THEN (quarters + 2) \div 4
                     ELSE -((2 - quarters) \div 4)

\* credit_holds
HoldStatus == {"pending", "settled", "released"}
HoldRow    == [account_id : Accounts, amount : Nat, status : HoldStatus]

\* credit_transactions; period stands for the month a monthly_allowance row
\* names in its description, 0 on every other row.
TxnType == {"grant", "usage", "monthly_allowance"}
TxnRow  == [type : TxnType, amount : Int, balance_after : Int,
            reference_id : HoldIds \cup {NoHold}, period : Nat]

GrantRow(amount, newBalance) ==
    [type |-> "grant", amount |-> ToTicks(amount),
     balance_after |-> newBalance, reference_id |-> NoHold, period |-> 0]

UsageRow(holdID, actualAmount, newBalance) ==
    [type |-> "usage", amount |-> ToTicks(-actualAmount),
     balance_after |-> newBalance, reference_id |-> holdID, period |-> 0]

AllowanceRow(grant, month) ==
    [type |-> "monthly_allowance", amount |-> ToTicks(grant),
     balance_after |-> ToTicks(grant), reference_id |-> NoHold,
     period |-> month]

\* The test of ReserveCredits, on the values its SELECT ... FOR UPDATE read:
\* available := balance - reserved; available < amount is refused.
Affords(bal, res, amount) == Exact(bal - res) >= amount
=============================================================================
