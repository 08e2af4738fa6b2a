SPECIFICATION Spec
CONSTANTS
    Slugs = {g1, g2}
    Users = {u1}
    Owners = {u1}
    Slots = {s1, s2}
    MaxId = 4
    NoRow = NoRow
    NoSchema = NoSchema
    NoCmd = NoCmd
    NoUser = NoUser
SYMMETRY TenantSymmetry
INVARIANTS
    TypeOK
    ReadyMeansReady
PROPERTIES
    RerunIsSafe
CHECK_DEADLOCK FALSE
