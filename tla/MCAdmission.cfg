SPECIFICATION Spec
CONSTANTS
    Connections = {1, 2, 3}
    Peers <- MCPeers
    Aggregation = "ipv4_subnet24"
    ListenerSpecs <- MCListenerSpecs
    Prefaces <- MCPrefaces
    SignalWindow = 1
    Thresholds <- MCThresholds
    Features <- MCFeatures
    LimitRequests = {1, 2, 3}
    Names <- MCNames
    Rates <- MCRates
    Caps <- MCCaps
    MaxComponentLen = 2
    Commands = {1, 2}
    AuditCapacity = 3
    TokenCost = 2
    BucketIdle = 4
    Credentials <- MCCredentials
    MaxSwitches = 2
    MaxEvents = 2
    MaxAudit = 3
    Mixes <- MCMixes
INVARIANTS
    LimitsSound
PROPERTIES
    ListenerSound
    
    
CHECK_DEADLOCK FALSE
