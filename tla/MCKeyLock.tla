------------------------------ MODULE MCKeyLock -----------------------------
\* Two requests of one server that create keys for two algorithms.
EXTENDS KeyManagement, TLC

CONSTANTS s1, r1, r2

MCServers == {s1}
MCRequests == {r1, r2}
MCHost == (r1 :> s1) @@ (r2 :> s1)
MCSkew == (s1 :> 0)
=============================================================================
