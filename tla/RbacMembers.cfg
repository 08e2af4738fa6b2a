SPECIFICATION RbacSpec
CONSTANTS
    BuiltinKeys = {}
    SuperadminRequired = TRUE
    NoTenant = NoTenant
    Superadmins = {root}
    Staff = {ann}
    People = {ann}
    Roles = {owner, editor}
    SystemRole = owner
    Keys <- MCKeys
    RoleSlots = {s1, s2}
    MaxIds = 2
    NoMember = NoMember
    NoOp = NoOp
SYMMETRY SlotSymmetry
INVARIANTS
    OnlyRolesSinceJoining
PROPERTY RevocationNotUndone
CHECK_DEADLOCK FALSE
