SPECIFICATION FairSpec
CONSTANTS
    MaxExponent = 1024
    MaxLoginFailures = 5
    MaxLives = 2
    MaxFaults = 3
    MaxTaps = 2
INVARIANTS
    TypeOK
    OnlineIsGuarded
    TapActedOnce
PROPERTIES
    OfflineAtLast
    LoginRetried
    WaitsGrow
CHECK_DEADLOCK FALSE
