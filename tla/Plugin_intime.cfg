SPECIFICATION PluginFairSpec
CONSTANTS
    Faults = {"EngineFails", "Abort", "Broken", "Refused", "PnlLost", "NoAccounts"}
    PluginFaults = {"NoDialog", "NoWindow"}
    MaxBars = 2
    Sizes = {1}
    MaxCalls = 2
    ServerList <- TwoServers
    GatewayList <- TheirGateways
    OldChoices <- ObsoleteChoices
    Limits = {5}
    Amounts = {2}
    OrderTypes = {0, 2}
    WaitTimes = {2148}
    VolumeTypes = {4}
    MaxLogins = 2
CHECK_DEADLOCK FALSE
INVARIANT PluginTypeOK
INVARIANT LoginIsComplete
INVARIANT AnswerIsOwn
INVARIANT BarsFit
INVARIANT SessionStartsClean
INVARIANT ConnectsAsConfirmed
INVARIANT ThrowsWithoutGateway
INVARIANT OrderIsAsSet
INVARIANT WaitSuffices
PROPERTY ReopensAsConfirmed
PROPERTY HistoryIsOwn
PROPERTY CallsEnd
PROPERTY LogosGo
