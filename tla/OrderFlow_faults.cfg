SPECIFICATION Spec
CONSTANTS
    MaxOrders = 2
    FirstNum = 5
    OldNums <- OldOrders
    ProcessBase = 2000
    OldBase = 1000
    IntMax = 900
    Qty = 1
    MaxInbox = 2
    Refusals = {"Failure"}
    Faults = {"Abort", "EngineFails"}
    Tagged <- OldOrder
    Requests <- RestingLimit
    MaxCancels = 1
CHECK_DEADLOCK FALSE
INVARIANT TypeOK
INVARIANT RegisteredIsHeard
INVARIANT WaitOwnsPending
INVARIANT FillsRecorded
PROPERTY FillsNeverFall
PROPERTY HonoursContract
