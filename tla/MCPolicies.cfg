SPECIFICATION Spec
CONSTANTS
    SlotIds = {s1, s2}
    SourcePolicy <- MCSourcePolicy
    AuthTasks = {t1, t2}
    KeyNames = {"k1", "k2"}
    KeyFiles <- MCKeyFiles
    AuthPolicies <- MCAuthPolicies
    AuthRequests <- MCAuthRequests
    AuthContexts <- MCAuthContexts
    PluginNames = {"p"}
    MaxConsecutiveFailures = 2
    IsolationCooldown = 2
    Bases <- MCBases
    Edits <- MCEdits
    Foundation <- MCFoundation
    MaxEdits = 2
    Mixes <- AllMixes

    
    
PROPERTIES
    
    ScreeningSound
    PluginsSound
CHECK_DEADLOCK FALSE
