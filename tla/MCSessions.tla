----------------------------- MODULE MCSessions -----------------------------
\* Two requests and a cleanup host on one session of a user with one client,
\* which is coordinated with the session.
EXTENDS ServerSideSessions, TLC

CONSTANTS r1, r2, h1, k1, c1

MCRequests == {r1, r2}
MCHosts == {h1}
MCKeys == {k1}
MCClients == {c1}
MCCoordinated == {c1}
MCSymmetry == Permutations(MCRequests)
=============================================================================
