SPECIFICATION Spec
CONSTANTS
    Limit = 2
    Window = 2
    MaxHits = 3
    Procs = {p, q}
    Requests <- MCRequests
    NoRequest = NoRequest
    Codes = {"c1", "c2", "c3"}
    NoCode = "-"
    DemoGrant = 1
    NationalLen = 2
    MinPasswordLength = 2
    MaxPasswordLength = 3
    MaxAttempts = 2
    Suspendable = {"c1"}
    Seed <- MCSeed
SYMMETRY Symmetry
INVARIANTS
    TypeOK
    AdmissionsAreBounded
    RetryAfterIsEnough
PROPERTIES
    AccountsSpec
