SPECIFICATION FairSpec
CONSTANTS
    s1 = s1
    r1 = r1
    r2 = r2
    Servers <- MCServers
    Requests <- MCRequests
    Host <- MCHost
    Skew <- MCSkew
    Algs = {"RS256", "ES256"}
    None = None
    Propagation = 2
    Rotation = 3
    Retention = 2
    InitDuration = 1
    SyncDelay = 1
    InitCacheDuration = 1
    KeyCacheDuration = 1
    LockTimeout = 1
    Lag = 0
    MaxTime = 1
    MaxTies = 2
INVARIANT AnswerIsConsistent
PROPERTY LockReleased
