SPECIFICATION Spec
CONSTANTS
    r1 = r1
    r2 = r2
    g1 = g1
    Requests <- MCRequests
    Grants <- MCGrants
    DefaultInterval <- MCDefault
    ClientIntervals <- MCClientIntervals
    Lifetime = 2
    None = None
    MaxInserts = 2
    MaxTime = 3
SYMMETRY MCSymmetry
INVARIANT ToldIntervalSuffices
CHECK_DEADLOCK FALSE
