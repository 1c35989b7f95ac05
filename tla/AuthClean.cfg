SPECIFICATION Spec
CONSTANTS
    u1 = u1
    t1 = t1
    t2 = t2
    t3 = t3
    q1 = q1
    q2 = q2
    a1 = a1
    Users = {u1}
    Federated = {}
    Tokens = {t1, t2, t3}
    NoToken = NoToken
    Requests = {q1, q2}
    Admins = {a1}
    Roles <- ViewerOnly
    RoleEdits <- NoEdits
    MaxFaults = 0
    ClientsLeave = FALSE
SYMMETRY Symmetric
INVARIANTS
    SuspensionEndsSessions
    UnspentAreFaults
