SPECIFICATION Spec
CONSTANTS
    u1 = u1
    t1 = t1
    t2 = t2
    t3 = t3
    q1 = q1
    a1 = a1
    Users = {u1}
    Federated = {u1}
    Tokens = {t1, t2, t3}
    NoToken = NoToken
    Requests = {q1}
    Admins = {a1}
    Roles <- ViewerOnly
    RoleEdits <- RemoveAll
    MaxFaults = 1
    ClientsLeave = TRUE
SYMMETRY Symmetric
INVARIANTS
    TypeOK
    SuspensionClosesDoor
    UnspentAreFaults
