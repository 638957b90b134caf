SPECIFICATION DeploymentSpec
CONSTANTS
    UnsafeNames = {"1=1"}
    Instances <- MCInstances
    Data <- MCData
    Loaders = {"load"}
    Serialised = TRUE
    MaxEdits = 1
    MaxStops = 1
    Searches <- MCSearches
    Calls <- MCCalls
INVARIANTS
    ServedIsSound
    FiltersTell
    PreflightTells
    SettledClosuresAreCurrent
CHECK_DEADLOCK FALSE
