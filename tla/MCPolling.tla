----------------------------- MODULE MCPolling -----------------------------
\* Two requests on one grant of either flow; the client has an interval of
\* its own or not.
EXTENDS PollingGrants, TLC

CONSTANTS r1, r2, g1

MCRequests == {r1, r2}
MCGrants == {g1}
MCDefault == [f \in Flows |-> 1]
MCClientIntervals == {None, 2}
MCSymmetry == Permutations(MCRequests)
=============================================================================
