SPECIFICATION MCSpec
CONSTANTS
    Replicas = {r1, r2}
    LeaseDuration = 3
    RenewDeadline = 2
    Nobody = Nobody
    NoLease = NoLease
    Keys = {1, 2}
    Debounce = 1
    RequeueDelay = 2
    NoConfig = NoConfig
    EmptyResources <- MCEmptyResources
    d1 = d1
    d2 = d2
    Sources = {1, 2}
    Ids = {1, 2}
    Definitions <- MCDefinitions
    Bad = Bad
    NoCall = NoCall
    Absent = Absent
    MaxNow = 3
    DrainGrace = 2
    Mixes <- MCMixes
INVARIANTS
    
    ControllerSound
PROPERTIES
    
    WorkDone
CHECK_DEADLOCK FALSE
