SPECIFICATION Spec
CONSTANTS
    Assets = {"ES", "NQ"}
    Trades <- AllTrades
    Earlier = {"kept"}
    Others = {"alien"}
    AssetOf <- AssetOfTrade
    Side <- SideOfTrade
    Carried <- Flat
    Opening = 1
    MaxTime = 3
    Faults = {}
CHECK_DEADLOCK FALSE
INVARIANT ClosedIsClosed
