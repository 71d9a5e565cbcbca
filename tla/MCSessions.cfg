SPECIFICATION Spec
CONSTANTS
    r1 = r1
    r2 = r2
    h1 = h1
    k1 = k1
    c1 = c1
    Requests <- MCRequests
    Hosts <- MCHosts
    Sessions <- MCKeys
    Clients <- MCClients
    Coordinated <- MCCoordinated
    Lifetime = 1
    BatchSize = 2
    NoRow = NoRow
    MaxInserts = 2
    MaxTime = 2
SYMMETRY MCSymmetry
INVARIANTS TypeOK ExpirationProcessed EndedForGood
PROPERTY LostByOverlapOnly
