SPECIFICATION FairSpec
CONSTANTS
    MaxOrders = 2
    FirstNum = 5
    OldNums <- OldOrder
    ProcessBase = 2000
    OldBase = 1000
    IntMax = 900
    Qty = 1
    MaxInbox = 2
    Refusals = {"LineError", "Reject", "Failure", "NotCancelled"}
    Faults = {}
    Tagged <- NoOldOrder
    Requests <- RestingAndMarket
    MaxCancels = 1
CHECK_DEADLOCK FALSE
INVARIANT DisownedIsDead
INVARIANT ReplayIsAwaited
INVARIANT WaitIsOwed
PROPERTY ResetEndsItsRequest
PROPERTY OnlyRefusedCancelsHang
PROPERTY KeepsContract
