SPECIFICATION KasseSpec
CONSTANTS
    w1 = w1
    w2 = w2
    Null = Null
    Shoppers <- TwoShoppers
    Workers <- TwoWorkers
    Calendar <- TurnTogether
    Openings <- InDebt
    Prices <- Baskets
    Amounts <- GivenOrTaken
    Limits <- NoLimitOrOne
    Thresholds <- OneThreshold
    RatePercent = 50
    InterestBelow = 0
    Mixes <- LedgerMixes
    Migrated = 3
    PageSize = 2
    Searches <- ASearchOrNone
SYMMETRY EitherWorker
INVARIANTS
    KasseTypeOK
    BooksAgree
    NoSaleSkipped
PROPERTIES
    NeverChargedAgain
    CreditLimitKept
    WarnedOnCrossing
    ImplementsSaldo
CHECK_DEADLOCK FALSE
