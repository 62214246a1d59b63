CONSTANTS
    u1 = u1  u2 = u2
    t1 = t1  t2 = t2  admin = admin
    None = None
    Users = {u1}
    Conns = {c1, c2}
    Tokens = {t1}
    Tickets = {k1}
    TokenUser <- OneSession
    DashboardTokens = {t1}
    MaxClock = 1
SPECIFICATION Spec
SYMMETRY ConnSymmetry
INVARIANTS
    TypeOK
    DisconnectIsFinal
    CutOffCredentialNeverStreams
PROPERTIES
    ImplementsRealtimeCutoff
