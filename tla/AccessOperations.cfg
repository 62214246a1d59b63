CONSTANTS
    u1 = u1
    t1 = t1  t2 = t2
    None = None
    Users = {u1}
    Conns = {c1}
    Tokens = {t1, t2}
    Tickets = {k1}
    TokenUser <- TwoSessions
    DashboardTokens = {t1, t2}
    MaxClock = 0
    Workers = {w1}
    Operations = {"changePassword", "resetUserMfa", "signOutEverywhere",
        "updateStatus", "updateUserStatus"}
SYMMETRY Symmetry
SPECIFICATION AccessSpec
INVARIANTS
    PromisedSessionsNeverStream
    SuspensionHoldsOnTicketPath
PROPERTIES
    StaysWithinGateway
