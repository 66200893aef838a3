\* One request at a time over two or three endpoints; the first failure ejects, and of two
\* endpoints of a cluster the budget lets only one be ejected.
CONSTANTS
    DegradedFailures = 1
    UnhealthyFailures = 1
    EjectionFailures = 1
    RecoverySuccesses = 1
    EjectionDuration = 1
    WarmupDuration = 1
    ConsecutiveFailures = 0
    WindowSize = 0
    SuccessPercent = 0
    BudgetPercent = 50
    SlowStartPercent = 10
    MaxCount = 1
    Protocols = {generic}
    Weights = {1, 2, 3, 4}
    Clusters = {1, 2}
    Endpoints = {1, 2, 3}
    NoRecord = NoRecord
    MaxElapsed = 1
    NominalWeight <- MCNominalWeight
    Requests = {r1}
    Configs <- MCConfigs
SPECIFICATION FairSpec
INVARIANTS
    SharesKept
PROPERTIES
    NoFalseRefusal
    Recovers
