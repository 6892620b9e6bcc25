SPECIFICATION KasseSpec
CONSTANTS
    w1 = w1
    w2 = w2
    Null = Null
    Shoppers <- TwoShoppers
    Workers <- OneWorker
    Calendar <- TurnApart
    Openings <- InDebt
    Prices <- Baskets
    Amounts <- GivenOrTaken
    Limits <- NoLimitOrOne
    Thresholds <- OneThreshold
    RatePercent = 50
    InterestBelow = 0
    Mixes <- InterestMixes
    Migrated = 0
    PageSize = 1
    Searches <- NoSearch
INVARIANTS
    InterestOncePerMonth
CHECK_DEADLOCK FALSE
