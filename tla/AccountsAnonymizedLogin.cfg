SPECIFICATION Spec
CONSTANTS
    Users = {u1}
    Tokens = {t1}
    Slots = {s1}
    MaxDay = 1
    ResetDays = 1
    InviteDays = 1
    KeepDays = 1
    NoDay = NoDay
    NoRow = NoRow
    GoneRow = GoneRow
    NoToken = NoToken
SYMMETRY AccountSymmetry
INVARIANT AnonymizedStaysOut
CHECK_DEADLOCK FALSE
