CONSTANTS
    u1 = u1  u2 = u2
    t1 = t1  t2 = t2  admin = admin
    None = None
    Users = {u1, u2}
    Conns = {c1}
    Tokens = {t1, t2, admin}
    Tickets = {k1}
    TokenUser <- TwoUsers
    DashboardTokens = {t1, t2}
    MaxClock = 0
SPECIFICATION FairSpec
INVARIANTS
    RegisteredUnderOwnIdentity
PROPERTIES
    OvertakenSocketsClose
