SPECIFICATION FairSpec
CONSTANTS
    Emails = {e1, e2, e3}
    Runs = {r1}
    Batch = 2
    MaxAttempts = 2
    BackoffCap = 2
    MaxCrashes = 1
    NoRow = NoRow
INVARIANTS
    TypeOK
    OnlyCommittedLeave
    LedgerIsHonest
PROPERTIES
    ImplementsBook
    EveryEmailSettles
CHECK_DEADLOCK FALSE
