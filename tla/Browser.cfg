CONSTANTS
    Tenants = {"acme", "globex"}
    DEFAULT_TENANT_SLUG = "acme"
    MfaTenants = {"globex"}
    MaxHandlers = 2
    Rows = {"ana", "bob", "cyd", "zoe"}
    TenantOf <- MCTenantOf
    Self = "ana"
    Home = "acme"
    Contested = {"bob"}
    Handled = {"ana", "bob", "cyd"}
    MaxCalls = 2
    Total = 2
    MaxSets = 2
    Codes = {"auth.token_invalid", "auth.forbidden", "auth.too_many_requests", "auth.internal",
             "auth.validation", "auth.account_suspended"}
    NewCodes = {"auth.of_a_later_release"}
SPECIFICATION BrowserSpec
INVARIANTS
    TypeOK
    CredentialsGoWhereNamed
    ShownAccountIsSession
    SettledTableIsServerState
    ShownCodesAreLive
    CardShowsFactor
    ErrorsKeepTheirMeaning
PROPERTIES
    ControlsComeBack
CHECK_DEADLOCK FALSE
