SPECIFICATION KalenderSpec
CONSTANTS
    r1 = r1
    r2 = r2
    r3 = r3
    w1 = w1
    w2 = w2
    Null = Null
    Residents <- ThreeResidents
    Workers <- OneWorker
    StartTimes <- EarlyOrLate
    Deadlines <- OneTickBefore
    Capacities <- OneOrTwoSeats
    Mixes <- SerialMixes
    ReminderLead = 1
    Retention = 0
    CancelledGrace = 1
SYMMETRY AnyResident
INVARIANTS
    KalenderTypeOK
PROPERTIES
    CalendarFollows
    ImplementsWaitingList
CHECK_DEADLOCK FALSE
