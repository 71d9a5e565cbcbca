SPECIFICATION Spec
CONSTANTS
    s1 = s1
    s2 = s2
    r1 = r1
    r2 = r2
    r3 = r3
    Servers <- MCServers
    Requests <- MCRequests
    Host <- MCHost
    Skew <- MCSkew
    Algs = {"RS256"}
    None = None
    Propagation = 3
    Rotation = 6
    Retention = 1
    InitDuration = 1
    SyncDelay = 1
    InitCacheDuration = 1
    KeyCacheDuration = 9
    LockTimeout = 2
    Lag = 0
    MaxTime = 6
    MaxTies = 2
CONSTRAINT AtMostTwo
INVARIANTS TypeOK SignedKeysPublished OneRotationPerServer
PROPERTY NoEarlySigning
SYMMETRY MCSymmetry
