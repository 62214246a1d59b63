CONSTANTS
    Settings <- AllSettings
    Deployed <- Development
    Tenants = {"acme", "globex"}
    SeededTenants = {"acme"}
    MFA_REQUIRED_TENANT_SLUGS = {"globex"}
    Members = {"ann", "bob"}
    Admins = {"sue"}
    Home <- HomeOf
    RoleOf <- RolesOf
    PlatformRoleOf <- PlatformRolesOf
    Projects = {"p1"}
    Handlers = {"h1", "h2"}
    Asked <- AskedFor
    Enrolling = {"bob"}
SPECIFICATION Spec
CHECK_DEADLOCK FALSE
INVARIANTS
    BootIsConsistent
    HandlersKnowTheirCaller
    TenantIsolation
    EnforcedIsShown
PROPERTIES
    EnrolmentIsForced
