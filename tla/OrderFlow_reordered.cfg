SPECIFICATION FairSpec
CONSTANTS
    MaxOrders = 2
    FirstNum = 5
    OldNums <- NoOldOrder
    ProcessBase = 2000
    OldBase = 1000
    IntMax = 900
    Qty = 2
    MaxInbox = 3
    Refusals = {"Failure","NotCancelled"}
    Faults = {"Reorder", "Timeout", "Dangling"}
    Tagged <- NoOldOrder
    Requests <- RestingLimit
    MaxCancels = 0
CHECK_DEADLOCK FALSE
INVARIANTS ArmedCancelKept NothingInvented
PROPERTIES ArmedLeavesMarket HonoursContract
