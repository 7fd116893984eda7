SPECIFICATION PluginSpec
CONSTANTS
    Faults = {}
    PluginFaults = {}
    MaxBars = 2
    Sizes <- OneOrTwo
    MaxCalls = 2
    ServerList <- TwoServers
    GatewayList <- TheirGateways
    OldChoices <- SavedWest
    Limits = {}
    Amounts = {}
    OrderTypes = {}
    WaitTimes = {}
    VolumeTypes = {}
    MaxLogins = 2
CHECK_DEADLOCK FALSE
PROPERTY SavedGatewayReturns
