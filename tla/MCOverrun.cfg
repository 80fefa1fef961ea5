\* Two requests of an end user, answers that cost more than estimated.
SPECIFICATION Spec
CONSTANTS
    acct = acct
    r1 = r1
    r2 = r2
    h1 = h1
    h2 = h2
    NoHold = NoHold
    Accounts <- MCAccounts
    Managed <- MCAccounts
    Requests <- MCRequests
    HoldIds <- MCHoldIds
    Costs <- MCFarApartCosts
    GrantAmounts <- MCNone
    AllowanceAmounts <- MCAllowanceAmounts
    MaxGrants = 0
    MaxMonth = 1
    MaxCrashes = 0
INVARIANT OverrunBoundedBySingleResponse
