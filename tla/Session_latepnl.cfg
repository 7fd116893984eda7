SPECIFICATION Spec
CONSTANTS
    Faults = {"PnlLate"}
    MaxBars = 3
    Sizes <- OneOrTwo
    MaxCalls = 2
CHECK_DEADLOCK FALSE
PROPERTY HistoryIsOwn
