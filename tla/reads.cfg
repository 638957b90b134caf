CONSTANTS
    r1 = r1
    r2 = r2
    Requests = {r1, r2}
    Users <- MCUsers
    Settings <- MCSettings
    Registries <- MCRegistries
    FirstProfile <- MCFirstProfile
    Profiles <- MCProfiles
    Batches <- MCBatches
    DefaultKey <- MCDefaultKey
    MaxSnapshots = 1
    MaxTries = 2
    MaxChanges = 1
SPECIFICATION Spec
INVARIANTS
    OwnWritesSeen
    CapsKept
    GrantsHold
PROPERTIES EveryCallAnswered
CHECK_DEADLOCK FALSE
