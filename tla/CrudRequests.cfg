SPECIFICATION Spec
CONSTANTS
    BuiltinKeys = {}
    SuperadminRequired = TRUE
    NoTenant = NoTenant
    Admins <- MCAdmins
    Contexts <- MCContexts
    LineParents = {"orders"}
    MaxNum = 1
    LinesDeletable = TRUE
    SystemTable = "orders"
    Slots = {s1, s2}
    MaxRows = 5
    MaxRequests = 2
    MaxBatch = 2
    NoReq = NoReq
SYMMETRY SlotSymmetry
INVARIANTS
    ContractInStep
    AuditTellsTruth
    OneRowUnlessRaced
    PagesPartition
PROPERTY AuditTellsAll
CHECK_DEADLOCK FALSE
