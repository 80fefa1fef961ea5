\* Two accounts, two holds, two months, half-tick and three-quarter-tick costs.
SPECIFICATION Spec
CONSTANTS
    plain = plain
    user = user
    h1 = h1
    h2 = h2
    NoHold = NoHold
    Accounts <- MCAccounts
    Managed <- MCManaged
    HoldIds <- MCHoldIds
    Costs <- MCCosts
    GrantAmounts <- MCGrantAmounts
    AllowanceAmounts <- MCAllowanceAmounts
    MaxGrants = 2
    MaxMonth = 2
SYMMETRY MCSymmetry
INVARIANT TypeOK
INVARIANT ReservedMatchesHolds
INVARIANT ChargedOnce
INVARIANT AuditTrail
INVARIANT OneAllowancePerMonth
PROPERTY ReserveWithinBalance
PROPERTY FinishedHoldsStay
