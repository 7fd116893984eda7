SPECIFICATION FairSpec
CONSTANTS
    Assets = {"ES", "NQ"}
    Trades <- AllTrades
    Earlier = {"kept"}
    Others = {"alien"}
    AssetOf <- AssetOfTrade
    Side <- SideOfTrade
    Carried <- FlatOrLong
    Opening = 1
    MaxTime = 4
    Faults = {"Overtake"}
CHECK_DEADLOCK FALSE
INVARIANT TypeOK
INVARIANT BalanceAgrees
INVARIANT VerdictAgrees
PROPERTY ClosedIsReported
