SPECIFICATION FairSpec
CONSTANTS
    w1 = w1
    w2 = w2
    e1 = e1
    sched = sched
    Workflows = {w1, w2}
    Requests = {}
    Scheduler = sched
    Editors = {e1}
    Crons = {1}
    Definitions = {"ok"}
    MaxTime = 2
    MaxFaults = 1
    MaxStops = 1
    ClientsLeave = FALSE
PROPERTIES
    DueIsHandled
CHECK_DEADLOCK FALSE
