SPECIFICATION Spec
CONSTANTS
    Users = {u1}
    Tokens = {t1, t2}
    Slots = {s1, s2}
    MaxDay = 2
    ResetDays = 0
    InviteDays = 1
    KeepDays = 1
    NoDay = NoDay
    NoRow = NoRow
    GoneRow = GoneRow
    NoToken = NoToken
SYMMETRY AccountSymmetry
INVARIANTS
    TypeOK
    MachineStaysPasswordless
CHECK_DEADLOCK FALSE
