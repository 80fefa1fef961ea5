\* Two requests, two holds, two months, one crash.
SPECIFICATION Spec
SYMMETRY MCSymmetry
CONSTANTS
    acct = acct
    r1 = r1
    r2 = r2
    h1 = h1
    h2 = h2
    NoHold = NoHold
    Accounts <- MCAccounts
    Managed <- MCAccounts
    Requests <- MCRequests
    HoldIds <- MCHoldIds
    Costs <- MCCosts
    GrantAmounts <- MCNone
    AllowanceAmounts <- MCAllowanceAmounts
    MaxGrants = 0
    MaxMonth = 2
    MaxCrashes = 1
INVARIANT TypeOK
INVARIANT ChargesHaveAnswers
INVARIANT FreeOnlyWhenSwept
INVARIANT EntriesMatchLedger
INVARIANT AllowanceBeforeGate
