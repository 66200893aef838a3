\* One admin connection and SIGHUP, one edit of the file, one fault.
CONSTANTS
    Names <- MCNames
    Configs = {"ephemeral", "moved", "tuned", "broken"}
    FirstConfigs = {"ephemeral"}
    ListenersOf <- MCListenersOf
    Clients = {"c1"}
    MaxListeners = 4
    MaxEdits = 1
    MaxFaults = 1
    None = None
SPECIFICATION FairSpec
INVARIANTS
    ListenersAccounted
    AppliedWasServed

    
