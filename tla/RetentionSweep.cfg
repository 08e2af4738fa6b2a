SPECIFICATION FairSpec
CONSTANTS
    Slugs = {g1}
    Users = {u1}
    Owners = {}
    Slots = {s1}
    MaxId = 2
    MaxCrashes = 1
    NoRow = NoRow
    NoSchema = NoSchema
    NoCmd = NoCmd
    NoUser = NoUser
INVARIANTS
    CompletedRunRedacts
PROPERTY
    OldRowsGo
CHECK_DEADLOCK FALSE
