SPECIFICATION Spec
CONSTANTS
    q1 = q1
    q2 = q2
    u1 = u1
    Requests = {q1, q2}
    Users = {u1}
    Kinds <- OneKind
    Roles <- AllRoles
    RoleSets <- Tokens
    RoleQuotas <- Configured
    Window = 3
    MinRetry = 2
    MaxClock = 5
    MaxHits = 5
INVARIANTS
    TypeOK
    AdmittedWithinQuota
    RefusalIsFull
    RetryIsEnough
SYMMETRY Symmetric
CHECK_DEADLOCK FALSE
