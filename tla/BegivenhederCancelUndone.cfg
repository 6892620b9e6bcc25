SPECIFICATION Spec
CONSTANTS
    r1 = r1
    r2 = r2
    r3 = r3
    w1 = w1
    w2 = w2
    Null = Null
    Residents <- TwoResidents
    Workers <- TwoWorkers
    StartTimes <- EarlyOrLate
    Deadlines <- OneTick
    Capacities <- OneSeat
    Mixes <- EditAndCancelMixes
    ReminderLead = 1
    Retention = 0
    CancelledGrace = 1
PROPERTIES
    CancelledStaysFrozen
CHECK_DEADLOCK FALSE
