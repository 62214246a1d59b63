SPECIFICATION Spec
CONSTANTS
    Accounts = {a1}
    Sockets = {s1, s2, s3}
    None = None
    MaxConnects = 4
    MaxStrays = 1
SYMMETRY Symmetry
INVARIANT ReconnectLeavesOneSocket
