SPECIFICATION FairSpec
CONSTANTS
    r1 = r1
    r2 = r2
    r3 = r3
    w1 = w1
    w2 = w2
    Null = Null
    Residents <- ThreeResidents
    Workers <- TwoWorkers
    StartTimes <- EarlyOrLate
    Deadlines <- OneTick
    Capacities <- OneSeat
    Mixes <- OverlapMixes
    ReminderLead = 1
    Retention = 0
    CancelledGrace = 1
INVARIANTS
    NoOrphans
    RemindersPerEdit
PROPERTIES
    RequestsFinish
CHECK_DEADLOCK FALSE
