SPECIFICATION OneClickAtATime
CONSTANTS
    r1 = r1
    r2 = r2
    b1 = b1
    b2 = b2
    p1 = p1
    p2 = p2
    den_hurtige = den_hurtige
    begivenheder = begivenheder
    None = None
    Residents <- OneResident
    Browsers <- OneBrowser
    Pages <- TwoPages
    Topics <- TwoTopics
    MaxEndpoints = 3
    MaxClicks = 5
    MaxLosses = 0
    MaxTabs = 2
INVARIANTS
    ToldIsTrue
CHECK_DEADLOCK FALSE
