SPECIFICATION Spec
CONSTANTS
    w1 = w1
    q1 = q1
    q2 = q2
    e1 = e1
    sched = sched
    Workflows = {w1}
    Requests = {q1, q2}
    Scheduler = sched
    Editors = {e1}
    Crons = {1, 2}
    Definitions = {"ok"}
    MaxTime = 3
    MaxFaults = 0
    MaxStops = 0
    ClientsLeave = FALSE
SYMMETRY Symmetric
PROPERTIES
    FireOnce
