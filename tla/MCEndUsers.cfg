\* Two identities, three requests at once, five in all, two months.
SPECIFICATION Spec
SYMMETRY MCSymmetry
CONSTANTS
    i1 = i1
    i2 = i2
    c1 = c1
    c2 = c2
    c3 = c3
    NoIdentity = NoIdentity
    Identities <- MCIdentities
    Calls <- MCCalls
    MaxCalls = 5
    MaxMonth = 2
INVARIANT OneAccountPerIdentity
INVARIANT DismissedSilences
INVARIANT MarkFirstPaysOnce
\* The numbers of requests and months are bounded, so behaviours end.
CHECK_DEADLOCK FALSE
