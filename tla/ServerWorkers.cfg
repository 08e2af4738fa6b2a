SPECIFICATION Spec
CONSTANTS
    Workers = {w1, w2}
    NumExts = 2
    Contributes <- MCContributes
    AtRoutes <- MCAtRoutes
    Guarded <- MCGuarded
    LoginKeys = {email}
    BudgetKeys = {tenant}
    MaxFailures = 2
    Window = 2
    Slots = {s1, s2}
    Redis = Redis
    NoAttempt = NoAttempt
    NoApp = NoApp
INVARIANTS
    ServesWhatWasSetUp
    UsedWhileOpen
    WithinBudget
PROPERTY LockoutEnds
CHECK_DEADLOCK FALSE
