SPECIFICATION Spec
CONSTANTS
    r1 = r1
    r2 = r2
    b1 = b1
    b2 = b2
    p1 = p1
    p2 = p2
    den_hurtige = den_hurtige
    begivenheder = begivenheder
    None = None
    Residents <- TwoResidents
    Browsers <- OneBrowser
    Pages <- OnePage
    Topics <- TwoTopics
    MaxEndpoints = 2
    MaxClicks = 4
    MaxLosses = 0
    MaxTabs = 1
INVARIANTS
    ConsentIsOnesOwn
CHECK_DEADLOCK FALSE
