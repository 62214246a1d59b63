CONSTANTS
    Users = {"ana"}
    Admins = {a1, a2}
    Guards = {g1}
    Statuses = {"PENDING", "ACTIVE", "SUSPENDED"}
    Blocked = {"SUSPENDED"}
    MaxChanges = 2
SPECIFICATION Spec
SYMMETRY ActorSymmetry
INVARIANTS
    TypeOK
    SettledCacheIsCurrent
    PlatformAuditIsExact
    PlatformChangeIsAudited
PROPERTIES
    SuspensionOutlivesVerification
