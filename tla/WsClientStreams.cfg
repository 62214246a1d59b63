SPECIFICATION Spec
CONSTANTS
    Accounts = {a1, a2}
    Sockets = {s1, s2, s3}
    None = None
    MaxConnects = 5
    MaxStrays = 1
SYMMETRY Symmetry
INVARIANTS
    TypeOK
    NoZombies
    StreamIsTheSubscribers
    NeverStranded
PROPERTY StoppedStaysQuiet
