-------------------------- MODULE MCRefreshTokens --------------------------
\* Two requests on the grants of one authorization: the client has one-time
\* tokens or tokens extended by each use, with an absolute lifetime that cuts
\* the extension short or not, or tokens of a fixed lifetime.
EXTENDS RefreshTokens, TLC

CONSTANTS r1, r2, a1

MCRequests == {r1, r2}
MCAuths == {a1}
MCClients ==
    {[usage |-> t[1], sliding |-> t[2], absolute |-> t[3], updates |-> FALSE] :
        t \in {<<"rotate", 1, 1>>, <<"rotate", 1, 2>>, <<"consume", 1, 1>>,
               <<"extend", 1, 2>>, <<"extend", 0, 1>>}}
MCSymmetry == Permutations(MCRequests)
=============================================================================
