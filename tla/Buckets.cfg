SPECIFICATION Spec
CONSTANTS
    q1 = q1
    q2 = q2
    Requests = {q1, q2}
    Backends <- BothBackends
    Burst = 2
    Skew <- OneAhead
    MaxSkew = 1
    Grace = 2
    MaxOutages = 1
    MaxClock = 5
    MaxCleanups = 2
    MaxPasses = 5
INVARIANTS
    TypeOK
    BudgetHolds
PROPERTY
    RefusedOnlyWhenSpent
CHECK_DEADLOCK FALSE
