SPECIFICATION Spec
CONSTANTS
    n1 = n1
    n2 = n2
    d1 = d1
    d2 = d2
    d3 = d3
    signer = signer
    None = None
    Versions = {"v1", "v2", " v1"}
    Trim <- MCTrim
    Malformed = {"?"}
    Digests = {d1, d2, d3}
    Content <- MCContent
    Security <- MCSecurity
    Discovered = {d3}
    Signers = {signer}
    MaxAudit = 1
    Budgets <- MCBudgets
    Nodes = {n1, n2}
    NodeIds <- MCNodeIds
    Strategies <- MCStrategies
    GateModes = {"required", "best_effort"}
    RollbackModes = {"on_failed_gate", "on_failed_or_timed_out"}
    Signals <- MCSignals
    MinReady = 95
    MaxError = 5
    Requests <- MCRequests
    Bases = {None, "v1"}
INVARIANTS
    RegistrySound
    NodesTruthful
PROPERTIES
    UntouchedAfterFailure
    DeliversPublished
CHECK_DEADLOCK FALSE
