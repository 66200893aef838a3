SPECIFICATION Spec
CONSTANTS
    StoreLimits <- MCLimits
    MaxApplied = 1
    CacheConns = {1, 2}
    Tags <- MCTags
    CacheNodes = {"n1", "n2", "n3"}
    MaxAttempts = 2
    MaxFailureDetails = 1
    MaxHistory = 1
    StreamIds = {1, 2, 3}
    MaxConcurrentStreams = 2
    DestinationSlots = 2
    OpenFailureThreshold = 2
    HalfOpenSuccessThreshold = 1
    OpenDuration = 1
    MinRetryTokens = 1
    RetryPercent = 0
    RetryWindow = 1
    Skew = 0
    MaxBodyBytes = 3
    MaxChunkLine = 6
    MaxChunkTrailer = 5
    MaxSizeDigits = 2
    MaxRead = 3
    RelayIdleTimeout = 2
    PrefaceTimeout = 1
    MaxPreface = 4
    Mixes <- MCMixes
INVARIANTS
    CacheSound
    FanoutSound
    StreamsSound
    BodiesSound
    RelaySound

    
CHECK_DEADLOCK FALSE
