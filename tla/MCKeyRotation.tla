--------------------------- MODULE MCKeyRotation ---------------------------
\* Two servers with clocks one unit apart.  The first one has two requests
\* that contend for its lock.
EXTENDS KeyManagement, TLC

CONSTANTS s1, s2, r1, r2, r3

MCServers == {s1, s2}
MCRequests == {r1, r2, r3}
MCHost == (r1 :> s1) @@ (r2 :> s1) @@ (r3 :> s2)
MCSkew == (s1 :> 0) @@ (s2 :> 1)
MCSymmetry == Permutations({r1, r2})

\* Bound of the model: two of the three requests at a time.
AtMostTwo == Cardinality({r \in Requests : pc[r] # "idle"}) <= 2
=============================================================================
