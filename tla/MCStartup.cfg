\* Two pods, two starts, two requests, two users, two nodes, one token.
SPECIFICATION Spec
SYMMETRY MCSymmetry
CONSTANTS
    u1 = u1
    u2 = u2
    n1 = n1
    n2 = n2
    p1 = p1
    p2 = p2
    c1 = c1
    c2 = c2
    t1 = t1
    NoAccount = NoAccount
    NoPod = NoPod
    NoUser = NoUser
    NoToken = NoToken
    Users <- MCUsers
    Names <- MCNames
    Files <- MCFiles
    Pods <- MCPods
    Calls <- MCCalls
    Tokens <- MCTokens
    MaxUses = 1
    MaxBoots = 2
    MaxCalls = 2
INVARIANT OneAdminServiceAccount
INVARIANT TokenUsesMatchAccounts
INVARIANT KeysBilled
INVARIANT SettledTables
INVARIANT DeclaredNodesSynced
\* The numbers of starts and requests are bounded, so behaviours end.
CHECK_DEADLOCK FALSE
