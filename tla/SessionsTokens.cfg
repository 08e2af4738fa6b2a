SPECIFICATION Spec
CONSTANTS
    Users = {u1, u2}
    Superadmins = {u1}
    Slots = {s1, s2}
    BumpSlots = {s1}
    Jtis = {1, 2, 3, 4, 5, 6}
    MaxVersion = 1
    NoToken = NoToken
    NoUser = NoUser
    NoRow = NoRow
    NoJti = NoJti
CONSTRAINT Budget
INVARIANTS
    NoNestedImpersonation
    BumpKillsEarlierTokens
PROPERTIES
    RevocationIsLocal
    ImplementsSessionBook
CHECK_DEADLOCK FALSE
