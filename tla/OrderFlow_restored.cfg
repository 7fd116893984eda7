SPECIFICATION Spec
CONSTANTS
    MaxOrders = 2
    FirstNum = 5
    OldNums <- OldOrder
    ProcessBase = 2000
    OldBase = 1000
    IntMax = 900
    Qty = 1
    MaxInbox = 2
    Refusals = {}
    Faults = {}
    Tagged <- OldOrder
    Requests <- RestingLimit
    MaxCancels = 0
CHECK_DEADLOCK FALSE
INVARIANT RestoredFillsRecorded
