SPECIFICATION Spec
CONSTANTS
    q1 = q1
    q2 = q2
    Ids = {"c1"}
    Actors = {"u1"}
    Requests = {q1, q2}
    Configs = {"old", "new"}
    Secrets = {"s1"}
    Errors <- TwoErrors
    Burst = 1
SYMMETRY Symmetric
INVARIANTS
    TypeOK
    StatusSpeaksOfStored
    RowIsCoherent
    UnhealthyHasCause
PROPERTY
    DeletedStaysDeleted
