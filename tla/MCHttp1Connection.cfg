\* Two requests of every kind under three destination policies.  The connection
\* task ends with its connection.
CONSTANTS
    OpenFailureThreshold = 2
    HalfOpenSuccessThreshold = 1
    OpenDuration = 1
    MinRetryTokens = 0
    RetryPercent = 50
    RetryWindow = 1
    Skew = 0
    MaxRequests = 2
    Targets = {"h1", "h3"}
    Http3Targets = {"h3"}
    NoTarget = "none"
    Configs <- MixedConfigs
    Requests <- MixedRequests
    UpstreamStatuses <- MixedStatuses
CHECK_DEADLOCK FALSE
SPECIFICATION FairSpec
INVARIANTS
    OneResponse
    AttemptsAccounted
    OwnResponseUnlessCut
PROPERTIES
    Answered
