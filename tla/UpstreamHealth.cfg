\* One cluster of two endpoints, of which the budget allows one to be ejected.
\* Active failures pass through all three thresholds; passive ones also eject by
\* two in a row, or by a full window of two with less than half successes.
CONSTANTS
    DegradedFailures = 1
    UnhealthyFailures = 2
    EjectionFailures = 3
    RecoverySuccesses = 2
    EjectionDuration = 2
    WarmupDuration = 1
    ConsecutiveFailures = 2
    WindowSize = 2
    SuccessPercent = 50
    BudgetPercent = 50
    SlowStartPercent = 10
    MaxCount = 3
    Protocols = {generic}
    Weights = {3}
    Clusters = {c1}
    Endpoints = {e1, e2}
    NoRecord = NoRecord
    MaxElapsed = 1
SPECIFICATION Spec
INVARIANTS
    HealthShape
PROPERTIES
    EjectionsWithinBudget
    EjectionHonoured
