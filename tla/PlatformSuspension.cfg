CONSTANTS
    u1 = u1
    t1 = t1  t2 = t2
    None = None
    Users = {u1}
    Conns = {c1}
    Tokens = {t1}
    Tickets = {}
    TokenUser <- OneSession
    DashboardTokens = {t1}
    MaxClock = 1
    Workers = {w1}
    Operations = {"updateUserStatus"}
SPECIFICATION AccessSpec
PROPERTIES
    PlatformSuspensionClosesSockets
