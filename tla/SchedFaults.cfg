SPECIFICATION Spec
CONSTANTS
    w1 = w1
    q1 = q1
    e1 = e1
    sched = sched
    Workflows = {w1}
    Requests = {q1}
    Scheduler = sched
    Editors = {e1}
    Crons = {1, 2}
    Definitions = {"ok", "panics"}
    MaxTime = 3
    MaxFaults = 1
    MaxStops = 1
    ClientsLeave = TRUE
INVARIANTS
    TypeOK
    CountersExact
    EnabledCanFire
    FailuresCostOneEach
