\* A timeout hierarchy: the local 504 leaves the exchange open.
CONSTANTS
    OpenFailureThreshold = 2
    HalfOpenSuccessThreshold = 1
    OpenDuration = 1
    MinRetryTokens = 1
    RetryPercent = 50
    RetryWindow = 1
    Skew = 0
    MaxRequests = 2
    Targets = {"h1"}
    Http3Targets = {}
    NoTarget = "none"
    Configs <- DeadlineConfigs
    Requests <- GetRequests
    UpstreamStatuses <- FinalStatuses
CHECK_DEADLOCK FALSE
SPECIFICATION ConnectionSpec
INVARIANT OwnResponse
