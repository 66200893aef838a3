\* Three concurrent requests; a probe window of two; clock reads up to one tick
\* late against a cool-down of three.
CONSTANTS
    OpenFailureThreshold = 2
    HalfOpenSuccessThreshold = 2
    OpenDuration = 3
    MinRetryTokens = 1
    RetryPercent = 50
    RetryWindow = 2
    Skew = 1
    Requests = {r1, r2, r3}
SPECIFICATION FairSpec
INVARIANTS
    BreakerShape
    ProbeRate
PROPERTIES
    CoolDown
    Recovers
