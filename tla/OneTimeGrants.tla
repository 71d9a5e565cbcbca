--------------------------- MODULE OneTimeGrants ---------------------------
(***************************************************************************)
(* What the grant stores promise about a grant that is good for one use:   *)
(* an authorization code, a one-time refresh token, a device code.         *)
(*                                                                         *)
(* A request claims a grant that is live and answers for it only when it   *)
(* is live no more.  A grant that is not live, for whatever reason, never  *)
(* becomes so again: several requests that claimed it at the same time may *)
(* all answer, but none that comes later.                                  *)
(***************************************************************************)
EXTENDS TLAPS

CONSTANTS Requests, Grants, None

VARIABLES
    issued,     \* grants that were made
    live,       \* grants that can be claimed
    holder,     \* the grant a request has claimed, or None
    spent       \* grants that were answered for

vars == <<issued, live, holder, spent>>

Init ==
    /\ issued \in SUBSET Grants /\ live = issued
    /\ holder = [r \in Requests |-> None]
    /\ spent = {}

\* A grant is made; the write may be lost.
Issue(g) ==
    /\ g \notin issued
    /\ issued' = issued \union {g}
    /\ live' \in {live, live \union {g}}
    /\ UNCHANGED <<holder, spent>>

Claim(r, g) ==
    /\ holder[r] = None /\ g \in live
    /\ holder' = [holder EXCEPT ![r] = g]
    /\ UNCHANGED <<issued, live, spent>>

\* Grants are used up, revoked or expire, or a request gives up.
Retire ==
    /\ UNCHANGED <<issued, spent>>
    /\ live' \subseteq live
    /\ \/ UNCHANGED holder
       \/ \E r \in Requests : holder' = [holder EXCEPT ![r] = None]

Answer(r) ==
    /\ holder[r] # None /\ holder[r] \notin live
    /\ spent' = spent \union {holder[r]}
    /\ holder' = [holder EXCEPT ![r] = None]
    /\ UNCHANGED <<issued, live>>

Next ==
    \/ Retire
    \/ \E g \in Grants : Issue(g)
    \/ \E r \in Requests : Answer(r) \/ \E g \in Grants : Claim(r, g)

Spec == Init /\ [][Next]_vars

-----------------------------------------------------------------------------
\* The inductive invariant.
Consistent ==
    /\ live \subseteq issued /\ spent \subseteq issued
    /\ holder \in [Requests -> issued \union {None}]
    /\ spent \cap live = {}

\* A grant that was answered for is not live, however many requests had
\* claimed it, and so no later request can claim it.
SpentIsGone == spent \cap live = {}

\* Whatever implements this specification exchanges a grant once.
THEOREM SpentStaysGone == Spec => []SpentIsGone
<1>1. Init => Consistent
  BY DEF Init, Consistent
<1>2. Consistent /\ [Next]_vars => Consistent'
  <2> SUFFICES ASSUME Consistent, [Next]_vars PROVE Consistent'
    OBVIOUS
  <2>1. ASSUME NEW g \in Grants, Issue(g) PROVE Consistent'
    BY <2>1 DEF Consistent, Issue
  <2>2. ASSUME NEW r \in Requests, Answer(r) PROVE Consistent'
    BY <2>2 DEF Consistent, Answer
  <2>3. ASSUME NEW r \in Requests, NEW g \in Grants, Claim(r, g) PROVE Consistent'
    BY <2>3 DEF Consistent, Claim
  <2>4. CASE Retire
    BY <2>4 DEF Consistent, Retire
  <2>5. CASE UNCHANGED vars
    BY <2>5 DEF Consistent, vars
  <2> QED BY <2>1, <2>2, <2>3, <2>4, <2>5 DEF Next
<1>3. Consistent => SpentIsGone
  BY DEF Consistent, SpentIsGone
<1> QED BY <1>1, <1>2, <1>3, PTL DEF Spec
=============================================================================
