SPECIFICATION FairSpec
CONSTANTS
    Assets = {"ES", "NQ"}
    Prices = {1, 2}
    PriceTypes = {0, 2}
    Faults = {"SubscribeFails", "Abort", "Timeout"}
CHECK_DEADLOCK FALSE
INVARIANT TypeOK
INVARIANT NoPriceMissed
PROPERTY AnswersPrice
PROPERTY PriceArrives
