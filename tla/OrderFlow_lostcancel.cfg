SPECIFICATION Spec
CONSTANTS
    MaxOrders = 1
    FirstNum = 5
    OldNums <- NoOldOrder
    ProcessBase = 2000
    OldBase = 1000
    IntMax = 900
    Qty = 1
    MaxInbox = 2
    Refusals = {}
    Faults = {"Timeout"}
    Tagged <- NoOldOrder
    Requests <- RestingLimit
    MaxCancels = 0
CHECK_DEADLOCK FALSE
INVARIANT TimedOutLimitIsCancelled
