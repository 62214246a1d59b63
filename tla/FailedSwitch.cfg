CONSTANTS
    Tenants = {"acme", "globex"}
    DEFAULT_TENANT_SLUG = "acme"
    MfaTenants = {}
    MaxHandlers = 2
SPECIFICATION FairSpec
INVARIANTS
    FailedSwitchStaysPut
