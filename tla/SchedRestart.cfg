SPECIFICATION Spec
CONSTANTS
    w1 = w1
    e1 = e1
    sched = sched
    Workflows = {w1}
    Requests = {}
    Scheduler = sched
    Editors = {e1}
    Crons = {1, 2}
    Definitions = {"ok"}
    MaxTime = 3
    MaxFaults = 0
    MaxStops = 1
    ClientsLeave = FALSE
PROPERTIES
    RestartFiresNoneTwice
CHECK_DEADLOCK FALSE
