SPECIFICATION Spec
CONSTANTS
    Users = {u1}
    Slots = {s1, s2}
    Secrets = {x1, x2}
    Jtis = {j1, j2}
    MaxBatch = 2
    BatchSize = 2
    MaxVersion = 1
    NoSecret = NoSecret
    NoJti = NoJti
    NoCode = NoCode
    NoRow = NoRow
SYMMETRY TokenSymmetry
INVARIANTS
    PasswordAloneNeverEnough
    OneCodeSet
    NoReuse
CHECK_DEADLOCK FALSE
