----------------------------- MODULE MCKeyStartup ---------------------------
\* The first start of two servers: both create a key, the one with the older
\* time stamp is written last, and a second request of one server reads the
\* store in between.
EXTENDS KeyManagement, TLC

CONSTANTS s1, s2, r1, r2, r3

MCServers == {s1, s2}
MCRequests == {r1, r2, r3}
MCHost == (r1 :> s1) @@ (r2 :> s2) @@ (r3 :> s2)
MCSkew == (s1 :> 0) @@ (s2 :> 0)
=============================================================================
