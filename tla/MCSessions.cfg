\* Two users, two sessions, three requests at once, one bcrypt slot.
SPECIFICATION Spec
SYMMETRY MCSymmetry
CONSTANTS
    u1 = u1
    u2 = u2
    t1 = t1
    t2 = t2
    c1 = c1
    c2 = c2
    c3 = c3
    NoUser = NoUser
    NoToken = NoToken
    Users <- MCUsers
    Tokens <- MCTokens
    Calls <- MCCalls
    BcryptConcurrency = 1
    MaxCalls = 3
INVARIANT TypeOK
INVARIANT OldPasswordSessionsRaced
INVARIANT RoleSessionsRaced
INVARIANT SlotsMatchHashing
PROPERTY ActiveAdminRemains
\* The number of requests is bounded, so behaviours end.
CHECK_DEADLOCK FALSE
