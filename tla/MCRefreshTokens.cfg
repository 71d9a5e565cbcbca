SPECIFICATION Spec
CONSTANTS
    r1 = r1
    r2 = r2
    a1 = a1
    Requests <- MCRequests
    Auths <- MCAuths
    Clients <- MCClients
    CodeLifetime = 1
    NoRow = NoRow
    MaxHandles = 2
    MaxInserts = 2
    MaxTime = 2
SYMMETRY MCSymmetry
INVARIANTS TypeOK NoReplay RevokedRejected
PROPERTIES GoneForGood AcceptedInTime ImplementsOneTimeGrants
