\* Three requests of an end user on one key; limits of 1 and 2 a minute, two
\* slots, a minute of two ticks.
SPECIFICATION Spec
CONSTANTS
    r1 = r1
    r2 = r2
    r3 = r3
    user = user
    k1 = k1
    NoAccount = NoAccount
    NoOverride = NoOverride
    Requests <- MCRequests
    Accounts <- MCAccounts
    EndUsers <- MCAccounts
    Keys <- MCKeys
    KeyLimits <- MCKeyLimits
    Overrides <- MCOverrides
    EndUserPerMin = 1
    ServicePerMin = 2
    EndUserMaxConcurrent = 2
    ServiceMaxConcurrent = 1
    Minute = 2
    idleCutoff = 2
    MaxLimit = 2
    MaxClock = 4
SYMMETRY MCSymmetry
INVARIANT TypeOK
INVARIANT RateKept
INVARIANT NoBudgetBurned
INVARIANT SlotsMatchStreams
