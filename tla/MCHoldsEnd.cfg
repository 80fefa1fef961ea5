\* Two requests of a service account, two holds, one grant, one crash.
SPECIFICATION Spec
CONSTANTS
    acct = acct
    r1 = r1
    r2 = r2
    h1 = h1
    h2 = h2
    NoHold = NoHold
    Accounts <- MCAccounts
    Managed <- MCNone
    Requests <- MCRequests
    HoldIds <- MCHoldIds
    Costs <- MCOneCost
    GrantAmounts <- MCGrantAmounts
    AllowanceAmounts <- MCAllowanceAmounts
    MaxGrants = 1
    MaxMonth = 1
    MaxCrashes = 1
PROPERTY HoldsEnd
