CONSTANTS
    Users = {"ana"}
    Admins = {a1}
    Guards = {g1}
    Statuses = {"PENDING", "ACTIVE", "SUSPENDED"}
    Blocked = {"SUSPENDED"}
    MaxChanges = 2
SPECIFICATION FairSpec
PROPERTIES
    BlockIsEventuallyEnforced
