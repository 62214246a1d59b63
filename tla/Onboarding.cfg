CONSTANTS
    Ids = {"u1", "u2"}
    Tenants = {"acme", "globex"}
    Emails = {"ann", "bob"}
    Subjects = {"g1"}
    Tokens = {"t1"}
    Calls = {c1, c2}
    InviteRoles = {"OWNER", "MEMBER"}
    OAuthStatuses = {"ACTIVE"}
    Seed <- OneAdmin
    GmailOf <- GmailOfBob
SPECIFICATION Spec
SYMMETRY CallSymmetry
INVARIANTS
    TypeOK
    MailedLinksAreListed
    ListedLinksWork
    RevokedLinksAreDead
    InvitationsNeverRise
    GoogleStaysWithItsAccount
PROPERTIES
    TokensAreEarned
