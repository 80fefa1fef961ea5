\* One managed account, two sessions, two holds, two months.
SPECIFICATION Spec
CONSTANTS
    user = user
    h1 = h1
    h2 = h2
    s1 = s1
    s2 = s2
    NoHold = NoHold
    NoSession = NoSession
    Accounts <- MCAccounts
    Managed <- MCAccounts
    HoldIds <- MCHoldIds
    Sessions <- MCSessions
    Costs <- MCCosts
    GrantAmounts <- MCGrantAmounts
    AllowanceAmounts <- MCAllowanceAmounts
    MaxGrants = 1
    MaxMonth = 2
INVARIANT TypeOK
PROPERTY ImplementsLedger
PROPERTY TransactionsEnd
