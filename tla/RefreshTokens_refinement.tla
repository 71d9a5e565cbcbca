---------------------- MODULE RefreshTokens_refinement ----------------------
(***************************************************************************)
(* More proofs about RefreshTokens, for all clients, requests and bounds:  *)
(* what a revocation and the lifetimes promise, and that the requests      *)
(* implement OneTimeGrants.                                                *)
(*                                                                         *)
(* The invariant of RefreshTokens_proofs says where a grant that is used   *)
(* up has gone.  JInv adds the times: a row of the table, and the copy of  *)
(* it a request works on, began with the chain of its handle and lasts no  *)
(* longer than the client allows from its last use on; and it adds the     *)
(* revocations: a revoked handle is withdrawn, and a request that revokes  *)
(* has withdrawn it or still has the row of it to remove.                  *)
(***************************************************************************)
EXTENDS RefreshTokens_proofs

-----------------------------------------------------------------------------
(* Revocation and lifetimes. *)

\* A token nobody can use any more, unless its uses extend it.
Withdrawn(h) ==
    Present(h) => grants[h].consumed \/ (~OneTime(grants[h].auth) /\ NeedsUpdate(grants[h].auth))

\* The lifetime of a row that was computed at time t or before is within the
\* limits of its client.
Limited(row, t) ==
    LET c == client[row.auth]
    IN /\ c.absolute > 0 => row.lifetime <= c.absolute
       /\ c.sliding > 0 => row.created + row.lifetime <= t + c.sliding

\* A row for a handle, in the table or in the locals of a request.
Timely(row, h) == row.created = started[h] /\ Limited(row, used[h])

\* What the locals l of a request at p refer to, beside Shape.
Fits(p, l) ==
    /\ p = "idle" => l = NoLocals
    /\ l.kind = "revoke" =>
          /\ inserts[l.key] > 0
          /\ p = "save" => \/ Withdrawn(l.key)
                           \/ Present(l.key) /\ l.found = {<<l.key, grants[l.key].id>>}
          /\ p = "removed" => Withdrawn(l.key)
    /\ (l.kind \in Usages /\ p \in {"query", "save"}) =>
          /\ Timely(l.row, l.key)
          /\ NeedsUpdate(l.row.auth)
    /\ (l.kind \in {"rotate", "consume"} /\ p = "create") =>
          l.row.created = started[l.key] /\ Limited(l.row, now)

TableFits ==
    /\ \A a \in Auths : Present(a) => ~grants[a].consumed
    /\ \A h \in Handles : used[h] <= now /\ (Present(h) => Timely(grants[h], h))
    /\ \A h \in revoked : inserts[h] > 0 /\ Withdrawn(h)

JInv == IInv /\ TableFits /\ \A r \in Requests : Fits(pc[r], loc[r])

\* What a step may do to a row.
RowChange(k) ==
    \/ grants'[k] = grants[k]
    \/ ~Present(k)'
    \/ /\ k \in Handles /\ Timely(grants[k], k)'
       /\ inserts[k] > 0 => Withdrawn(k)'

LEMMA CapBounds ==
    ASSUME TypeOK, NEW a \in Auths, NEW t \in Nat
    PROVE  /\ Cap(a, t) \in Nat /\ Cap(a, t) <= t
           /\ client[a].absolute > 0 => Cap(a, t) <= client[a].absolute
BY ClientType DEF Cap

LEMMA NewRowLimited ==
    ASSUME TypeOK, NEW a \in Auths
    PROVE  Limited(NewRow(a), now)
<1>1. /\ NewRow(a).auth = a /\ NewRow(a).created = now
      /\ NewRow(a).lifetime = IF client[a].sliding > 0 THEN Cap(a, client[a].sliding)
                                                      ELSE client[a].absolute
    BY DEF NewRow
<1>2. client[a].sliding \in Nat /\ client[a].absolute \in Nat /\ now \in Nat
    BY ClientType DEF TypeOK
<1>3. /\ Cap(a, client[a].sliding) \in Nat
      /\ Cap(a, client[a].sliding) <= client[a].sliding
      /\ client[a].absolute > 0 => Cap(a, client[a].sliding) <= client[a].absolute
    BY <1>2, CapBounds
<1> QED
    BY <1>1, <1>2, <1>3 DEF Limited

\* Sliding a row keeps it within the limits of its client.
LEMMA SlideLimited ==
    ASSUME TypeOK, NEW row \in Rows, row.created <= now,
           NEW t \in Nat, t <= now, Limited(row, t)
    PROVE  Limited(Slide(row), now)
<1>1. /\ row.auth \in Auths /\ row.created \in Nat /\ row.lifetime \in Nat /\ now \in Nat
    BY DEF Rows, TypeOK
<1> DEFINE a == row.auth
           life == now - row.created + client[a].sliding
<1>2. client[a].sliding \in Nat /\ client[a].absolute \in Nat
    BY <1>1, ClientType
<1>3. CASE client[a].sliding = 0
    BY <1>1, <1>2, <1>3 DEF Slide, Limited
<1>4. CASE client[a].sliding # 0
    <2>1. life \in Nat
        BY <1>1, <1>2
    <2>2. /\ Cap(a, life) \in Nat /\ Cap(a, life) <= life
          /\ client[a].absolute > 0 => Cap(a, life) <= client[a].absolute
        BY <1>1, <2>1, CapBounds
    <2>3. /\ Slide(row).auth = a /\ Slide(row).created = row.created
          /\ Slide(row).lifetime = Cap(a, life)
        BY <1>4 DEF Slide, Rows
    <2> QED
        BY <1>1, <1>2, <2>1, <2>2, <2>3 DEF Limited
<1> QED
    BY <1>3, <1>4

\* A limit that holds for a time holds for a later one.
LEMMA LimitedLater ==
    ASSUME TypeOK, client' = client, NEW row \in Rows, NEW t \in Nat, NEW u \in Nat, t <= u,
           Limited(row, t)
    PROVE  Limited(row, u) /\ Limited(row, u)'
<1>1. row.auth \in Auths /\ row.created \in Nat /\ row.lifetime \in Nat
    BY DEF Rows
<1>2. client[row.auth].sliding \in Nat
    BY <1>1, ClientType
<1>3. Limited(row, u)
    BY <1>1, <1>2 DEF Limited
<1> QED
    BY <1>3 DEF Limited

LEMMA WithdrawnKept ==
    ASSUME client' = client, NEW h \in Keys, inserts[h] > 0, RowChange(h), Withdrawn(h)
    PROVE  Withdrawn(h)'
BY DEF RowChange, Withdrawn, Present, OneTime, NeedsUpdate

\* What the store and the clock do to what a request refers to.
LEMMA FitsKept ==
    ASSUME JInv, client' = client, now' \in Nat, now <= now',
           \A h \in Handles : inserts[h] > 0 =>
               started'[h] = started[h] /\ used'[h] \in Nat /\ used[h] <= used'[h],
           \A k \in Keys : inserts[k] > 0 => inserts'[k] > 0,
           \A k \in Keys : RowChange(k),
           NEW p, NEW l \in Locals, Shape(p, l), Fits(p, l)
    PROVE  Fits(p, l)'
<1>1. TypeOK /\ now \in Nat /\ used \in [Handles -> Nat]
    BY DEF JInv, IInv, TypeOK
<1>2. (p = "idle" => l = NoLocals)'
    BY DEF Fits
<1>3. ASSUME l.kind = "revoke"
      PROVE  (/\ inserts[l.key] > 0
              /\ p = "save" => \/ Withdrawn(l.key)
                               \/ Present(l.key) /\ l.found = {<<l.key, grants[l.key].id>>}
              /\ p = "removed" => Withdrawn(l.key))'
    <2>1. l.key \in Handles /\ l.key \in Keys /\ inserts[l.key] > 0
        BY <1>3, KeyFacts DEF Shape, Fits
    <2>2. Withdrawn(l.key) => Withdrawn(l.key)'
        BY <2>1, WithdrawnKept
    <2>3. (Present(l.key) /\ l.found = {<<l.key, grants[l.key].id>>}) =>
            (Withdrawn(l.key) \/ (Present(l.key) /\ l.found = {<<l.key, grants[l.key].id>>}))'
        BY <2>1 DEF RowChange, Present, Withdrawn
    <2> QED
        BY <1>3, <2>1, <2>2, <2>3 DEF Fits
<1>4. ASSUME l.kind \in Usages, p \in {"query", "save"}
      PROVE  (Timely(l.row, l.key) /\ NeedsUpdate(l.row.auth))'
    <2>1. l.key \in Handles /\ l.key \in Keys /\ inserts[l.key] > 0 /\ l.row \in Rows
        BY <1>4, KeyFacts DEF Shape
    <2>2. /\ started'[l.key] = started[l.key] /\ used'[l.key] \in Nat
          /\ used[l.key] \in Nat /\ used[l.key] <= used'[l.key]
        BY <1>1, <2>1
    <2>3. Timely(l.row, l.key) /\ NeedsUpdate(l.row.auth)
        BY <1>4 DEF Fits
    <2>4. PICK t \in Nat, u \in Nat : t = used[l.key] /\ u = used'[l.key]
        BY <2>2
    <2>5. Limited(l.row, u)'
        BY <1>1, <2>1, <2>2, <2>3, <2>4, LimitedLater DEF Timely
    <2> QED
        BY <2>2, <2>3, <2>4, <2>5 DEF Timely, Limited, NeedsUpdate, OneTime
<1>5. ASSUME l.kind \in {"rotate", "consume"}, p = "create"
      PROVE  (l.row.created = started[l.key] /\ Limited(l.row, now))'
    <2>1. l.key \in Handles /\ inserts[l.key] > 0 /\ l.row \in Rows
        BY <1>5 DEF Shape, Usages
    <2>2. l.row.created = started[l.key] /\ Limited(l.row, now)
        BY <1>5 DEF Fits
    <2>3. PICK t \in Nat, u \in Nat : t = now /\ u = now'
        BY <1>1
    <2>4. Limited(l.row, u)'
        BY <1>1, <2>1, <2>2, <2>3, LimitedLater
    <2> QED
        BY <2>1, <2>2, <2>3, <2>4 DEF Limited
<1> QED
    BY <1>2, <1>3, <1>4, <1>5 DEF Fits

\* The shape of a step that preserves the invariant.
LEMMA StepFits ==
    ASSUME JInv, IInv', client' = client, now <= now',
           \A h \in Handles : /\ used'[h] <= now'
                              /\ inserts[h] > 0 => started'[h] = started[h] /\ used[h] <= used'[h],
           \A k \in Keys : inserts[k] > 0 => inserts'[k] > 0,
           \A k \in Keys : RowChange(k),
           \A h \in revoked' : h \in revoked \/ (inserts[h] > 0 /\ Withdrawn(h)),
           \A q \in Requests : \/ pc'[q] = pc[q] /\ loc'[q] = loc[q]
                               \/ Fits(pc[q], loc[q])'
    PROVE  JInv'
<1>1. /\ now' \in Nat /\ used \in [Handles -> Nat] /\ used' \in [Handles -> Nat]
      /\ started \in [Handles -> Nat] /\ TypeOK /\ loc \in [Requests -> Locals]
      /\ revoked \subseteq Handles /\ revoked' \subseteq Handles /\ TypeOK'
    BY DEF JInv, IInv, TypeOK
<1>2. (\A a \in Auths : Present(a) => ~grants[a].consumed)'
    BY KeyFacts DEF JInv, TableFits, RowChange, Present
<1>3. ASSUME NEW h \in Handles, Present(h)'
      PROVE  Timely(grants[h], h)'
    <2>1. h \in Keys /\ RowChange(h)
        BY KeyFacts
    <2>2. CASE grants'[h] = grants[h]
        <3>1. Present(h) /\ inserts[h] > 0 /\ grants[h] \in Rows /\ Timely(grants[h], h)
            BY <1>3, <2>1, <2>2 DEF Present, JInv, IInv, KeyInv, TypeOK, TableFits
        <3>2. PICK row \in Rows, t \in Nat, u \in Nat :
                 row = grants[h] /\ t = used[h] /\ u = used'[h]
            BY <1>1, <3>1
        <3>3. Limited(row, u)'
            BY <1>1, <3>1, <3>2, LimitedLater DEF Timely
        <3> QED
            BY <2>2, <3>1, <3>2, <3>3 DEF Timely, Limited
    <2> QED
        BY <1>3, <2>1, <2>2 DEF RowChange
<1>4. ASSUME NEW h \in revoked'
      PROVE  inserts'[h] > 0 /\ Withdrawn(h)'
    <2>1. h \in Keys /\ inserts[h] > 0 /\ Withdrawn(h)
        BY <1>1, KeyFacts DEF JInv, TableFits
    <2> QED
        BY <2>1, WithdrawnKept
<1>5. TableFits'
    BY <1>2, <1>3, <1>4 DEF TableFits
<1>6. ASSUME NEW q \in Requests
      PROVE  Fits(pc[q], loc[q])'
    <2>1. CASE pc'[q] = pc[q] /\ loc'[q] = loc[q]
        <3>1. PICK p \in PCs, l \in Locals : p = pc[q] /\ l = loc[q]
            BY <1>1 DEF TypeOK, PCs
        <3>2. Shape(p, l) /\ Fits(p, l)
            BY <3>1 DEF JInv, IInv, RequestInv
        <3>3. Fits(p, l)'
            BY <1>1, <3>2, FitsKept
        <3> QED
            BY <2>1, <3>1, <3>3
    <2> QED
        BY <2>1
<1> QED
    BY <1>5, <1>6 DEF JInv

\* A step of a request that leaves the table alone.
LEMMA ControlFits ==
    ASSUME JInv, IInv', UNCHANGED <<client, now, grants, inserts, started, revoked>>,
           \A h \in Handles : used'[h] <= now /\ used[h] <= used'[h],
           NEW r \in Requests, NEW p \in PCs, NEW m \in Locals, Goto(r, p, m), Fits(p, m)'
    PROVE  JInv'
<1>1. /\ pc'[r] = p /\ loc'[r] = m
      /\ \A q \in Requests : q # r => pc'[q] = pc[q] /\ loc'[q] = loc[q]
    BY GotoType DEF JInv, IInv
<1>2. \A q \in Requests : \/ pc'[q] = pc[q] /\ loc'[q] = loc[q]
                          \/ Fits(pc[q], loc[q])'
    BY <1>1
<1>3. \A k \in Keys : RowChange(k)
    BY DEF RowChange
<1>4. now <= now' /\ now' \in Nat
    BY DEF JInv, IInv, TypeOK
<1> QED
    BY <1>2, <1>3, <1>4, StepFits

\* Nothing is written when a token was used.
LEMMA UsedSame ==
    ASSUME JInv, used' = used
    PROVE  \A h \in Handles : used'[h] <= now /\ used[h] <= used'[h]
BY DEF JInv, IInv, TypeOK, TableFits

LEMMA EndFits ==
    ASSUME JInv, IInv', UNCHANGED <<client, now, grants, inserts, started, revoked, used>>,
           NEW r \in Requests, End(r)
    PROVE  JInv'
<1>1. Goto(r, "idle", NoLocals) /\ "idle" \in PCs /\ NoLocals \in Locals
    BY NoLocalsType DEF End, PCs
<1>2. Fits("idle", NoLocals)'
    BY NoLocalsType DEF Fits, Usages
<1> QED
    BY <1>1, <1>2, ControlFits, UsedSame

\* A request begins.
LEMMA BeginFits ==
    ASSUME JInv, IInv', NEW r \in Requests, NEW p \in PCs, NEW kind \in Kinds,
           NEW key \in Keys \union {0}, NEW row \in Rows \union {NoRow},
           Begin(r, p, kind, key, row), p # "idle",
           NEW m, m = [NoLocals EXCEPT !.kind = kind, !.key = key, !.row = row,
                                  !.replay = kind # "revoke" /\ key \in spent],
           Fits(p, m)
    PROVE  JInv'
<1>1. Goto(r, p, m) /\ UNCHANGED <<client, now, grants, inserts, known, spent,
                                  revoked, started, used>>
    BY DEF Begin
<1>2. m \in Locals
    BY DEF NoLocals, Locals
<1>3. Fits(p, m)'
    BY <1>1 DEF Fits, Withdrawn, Timely, Limited, Present, NeedsUpdate, OneTime
<1> QED
    BY <1>1, <1>2, <1>3, ControlFits, UsedSame

LEMMA RedeemFits ==
    ASSUME JInv, IInv', NEW r \in Requests, NEW a \in Auths, Redeem(r, a)
    PROVE  JInv'
<1> DEFINE m == [NoLocals EXCEPT !.kind = "redeem", !.key = a, !.row = grants[a],
                                 !.replay = "redeem" # "revoke" /\ a \in spent]
<1>1. m.kind = "redeem"
    BY DEF NoLocals
<1>2. a \in Keys /\ Present(a) /\ grants[a] \in Rows
    BY KeyFacts DEF Redeem, JInv, IInv, TypeOK, Present
<1>3. Begin(r, "query", "redeem", a, grants[a]) /\ "query" \in PCs /\ "redeem" \in Kinds
    BY DEF Redeem, PCs, Kinds
<1> HIDE DEF m
<1>4. Fits("query", m)
    BY <1>1 DEF Fits, Usages
<1> QED
    BY <1>2, <1>3, <1>4, BeginFits DEF m

LEMMA RefreshFits ==
    ASSUME JInv, IInv', NEW r \in Requests, NEW h \in Handles, Refresh(r, h)
    PROVE  JInv'
<1> DEFINE a == grants[h].auth
           u == client[a].usage
           p == IF NeedsUpdate(a) THEN "query" ELSE "answer"
           m == [NoLocals EXCEPT !.kind = u, !.key = h, !.row = grants[h],
                                 !.replay = u # "revoke" /\ h \in spent]
<1>1. h \in Keys /\ Present(h) /\ grants[h] \in Rows
    BY KeyFacts DEF Refresh, Valid, JInv, IInv, TypeOK, Present
<1>2. a \in Auths /\ u \in Usages
    BY <1>1, ClientType DEF JInv, IInv, Rows
<1>3. Begin(r, p, u, h, grants[h])
    BY DEF Refresh
<1>4. p \in {"query", "answer"} /\ p \in PCs /\ u \in Kinds
    BY <1>2 DEF PCs, Kinds
<1>5. m.kind = u /\ m.key = h /\ m.row = grants[h]
    BY DEF NoLocals
<1>6. p = "query" => NeedsUpdate(m.row.auth) /\ Timely(m.row, m.key)
    BY <1>1, <1>5 DEF JInv, TableFits
<1> HIDE DEF m
<1>7. Fits(p, m)
    BY <1>2, <1>4, <1>5, <1>6 DEF Fits, Usages
<1> HIDE DEF p, u, a
<1> QED
    BY <1>1, <1>3, <1>4, <1>7, BeginFits DEF m

LEMMA RevokeFits ==
    ASSUME JInv, IInv', NEW r \in Requests, NEW h \in Handles, Revoke(r, h)
    PROVE  JInv'
<1> DEFINE m == [NoLocals EXCEPT !.kind = "revoke", !.key = h, !.row = NoRow,
                                 !.replay = "revoke" # "revoke" /\ h \in spent]
<1>1. m.kind = "revoke" /\ m.key = h
    BY DEF NoLocals
<1>2. Begin(r, "query", "revoke", h, NoRow) /\ h \in Keys /\ inserts[h] > 0
    BY KeyFacts DEF Revoke, JInv, IInv, KeyInv
<1>3. "query" \in PCs /\ "revoke" \in Kinds
    BY DEF PCs, Kinds
<1> HIDE DEF m
<1>4. Fits("query", m)
    BY <1>1, <1>2 DEF Fits, Usages
<1> QED
    BY <1>2, <1>3, <1>4, BeginFits DEF m

LEMMA LogoutFits ==
    ASSUME JInv, IInv', NEW r \in Requests, Logout(r)
    PROVE  JInv'
<1> DEFINE m == [NoLocals EXCEPT !.kind = "logout", !.key = 0, !.row = NoRow,
                                 !.replay = "logout" # "revoke" /\ 0 \in spent]
<1>1. m.kind = "logout"
    BY DEF NoLocals
<1>2. Begin(r, "query", "logout", 0, NoRow) /\ "query" \in PCs /\ "logout" \in Kinds
    BY DEF Logout, PCs, Kinds
<1> HIDE DEF m
<1>3. Fits("query", m)
    BY <1>1 DEF Fits, Usages
<1> QED
    BY <1>2, <1>3, BeginFits DEF m

\* Where Continue leads to.
LEMMA ContinueFits ==
    ASSUME TypeOK, client' = client, now' = now, started' = started,
           NEW r \in Requests, NEW l \in Locals, Continue(r, l),
           l.kind \in Usages \union {"redeem"} => l.row \in Rows /\ l.row.created <= now,
           l.kind \in Usages => l.row.created = started[l.key] /\ Limited(l.row, now),
           l.kind = "revoke" => inserts'[l.key] > 0 /\ Withdrawn(l.key)'
    PROVE  \E p \in PCs : \E m \in Locals : Goto(r, p, m) /\ Fits(p, m)'
<1>1. /\ "idle" \in PCs /\ "create" \in PCs /\ "answer" \in PCs /\ "removed" \in PCs
      /\ NoLocals \in Locals /\ Fits("idle", NoLocals)'
    BY NoLocalsType DEF PCs, Fits, Usages
<1>2. CASE l.kind = "redeem"
    <2>1. Goto(r, "idle", NoLocals) \/ Goto(r, "create", l)
        BY <1>2 DEF Continue, End
    <2>2. Fits("create", l)'
        BY <1>2 DEF Fits, Usages
    <2> QED
        BY <1>1, <2>1, <2>2
<1>3. CASE l.kind \in {"rotate", "consume"}
    <2>1. l.row \in Rows /\ l.row.created <= now /\ Limited(l.row, now) /\ now \in Nat
        BY <1>3 DEF Usages, TypeOK
    <2> DEFINE fresh == [l.row EXCEPT !.consumed = FALSE]
               next == [l EXCEPT !.found = {}, !.row = Slide(fresh)]
    <2>2. PICK row \in Rows : /\ row = fresh
                              /\ row.created = l.row.created /\ row.auth = l.row.auth
                              /\ row.lifetime = l.row.lifetime
        <3>1. /\ fresh \in Rows /\ fresh.created = l.row.created /\ fresh.auth = l.row.auth
              /\ fresh.lifetime = l.row.lifetime
            BY <2>1 DEF Rows
        <3> QED
            BY <3>1
    <2>3. Limited(row, now)
        BY <2>1, <2>2 DEF Limited
    <2>4. /\ Slide(row) \in Rows /\ Slide(row).created = l.row.created
          /\ Limited(Slide(row), now)
        <3>1. row.created <= now /\ now <= now
            BY <2>1, <2>2
        <3> QED
            BY <2>1, <2>2, <2>3, <3>1, SlideType, SlideLimited
    <2> HIDE DEF fresh
    <2>5. PICK m \in Locals : /\ m = next
                              /\ m.kind = l.kind /\ m.key = l.key /\ m.row = Slide(row)
        <3>1. /\ next \in Locals /\ next.kind = l.kind /\ next.key = l.key
              /\ next.row = Slide(row)
            BY <2>2, <2>4 DEF Locals
        <3> QED
            BY <3>1
    <2>6. Goto(r, "create", m)
        BY <1>3, <2>5 DEF Continue, fresh
    <2>7. m.row.created = started[m.key] /\ Limited(m.row, now)
        BY <1>3, <2>4, <2>5 DEF Usages
    <2>8. Fits("create", m)'
        BY <1>3, <2>5, <2>7 DEF Fits, Limited
    <2> QED
        BY <1>1, <2>6, <2>8
<1>4. CASE l.kind = "extend"
    <2> DEFINE m == [l EXCEPT !.row = NoRow, !.found = {}]
    <2>1. Goto(r, "answer", m) /\ m \in Locals /\ m.kind = l.kind
        BY <1>4 DEF Continue, Locals
    <2> HIDE DEF m
    <2>2. Fits("answer", m)'
        BY <1>4, <2>1 DEF Fits
    <2> QED
        BY <1>1, <2>1, <2>2
<1>5. CASE l.kind \in {"revoke", "logout"}
    <2>1. Goto(r, "removed", l)
        BY <1>5 DEF Continue
    <2>2. Fits("removed", l)'
        BY <1>5 DEF Fits, Usages
    <2> QED
        BY <1>1, <2>1, <2>2
<1> QED
    BY <1>2, <1>3, <1>4, <1>5 DEF Locals, Kinds, Usages

LEMMA QueryFits ==
    ASSUME JInv, IInv', NEW r \in Requests, Query(r)
    PROVE  JInv'
<1>0. PICK o \in Locals : o = loc[r]
    BY DEF JInv, IInv, TypeOK
<1>1. /\ Shape("query", o) /\ Fits("query", o)
      /\ TypeOK /\ now \in Nat /\ used \in [Handles -> Nat]
    BY <1>0 DEF Query, JInv, IInv, TypeOK, RequestInv
<1>2. o.kind \in Usages \union {"redeem"} => o.row \in Rows /\ o.row.created <= now
    BY <1>1 DEF Shape
<1>3. o.kind \in Kinds /\ o.key \in Keys \union {0} /\ (o.kind # "logout" => o.key \in Keys)
    BY <1>1, KeyFacts DEF Locals, Shape, Kinds, Usages
<1>4. PICK found \in SUBSET (Keys \X Nat) :
        found = RowsOf(IF o.kind = "logout" THEN Keys ELSE {o.key})
    <2>1. \A k \in Keys : Present(k) => grants[k].id \in Nat
        BY <1>1 DEF TypeOK, Present, Rows
    <2>2. RowsOf(IF o.kind = "logout" THEN Keys ELSE {o.key}) \in SUBSET (Keys \X Nat)
        BY <1>3, <2>1 DEF RowsOf
    <2> QED
        BY <2>2
<1>5. /\ Updated(o) \in Rows \union {NoRow}
      /\ o.kind \in Usages \union {"redeem"} =>
           /\ Updated(o) \in Rows
           /\ Updated(o).created = o.row.created
           /\ Updated(o).auth = o.row.auth
    BY <1>1, <1>2, UpdatedType
<1> DEFINE next == [o EXCEPT !.found = found, !.row = Updated(o)]
<1>6. PICK l \in Locals : /\ l = next /\ l.kind = o.kind /\ l.key = o.key
                          /\ l.row = Updated(o) /\ l.found = found
    <2>1. /\ next \in Locals /\ next.kind = o.kind /\ next.key = o.key
          /\ next.row = Updated(o) /\ next.found = found
        BY <1>4, <1>5 DEF Locals
    <2> QED
        BY <2>1
<1>7. o.kind # "logout" => found = (IF Present(o.key) THEN {<<o.key, grants[o.key].id>>} ELSE {})
    BY <1>4 DEF RowsOf
<1>8. /\ IF found = {} /\ o.kind \in Removals THEN Continue(r, l) ELSE Goto(r, "save", l)
      /\ UNCHANGED <<client, now, grants, inserts, known, spent, revoked, started>>
      /\ used' = IF o.kind = "extend" THEN [used EXCEPT ![o.key] = now] ELSE used
    BY <1>0, <1>4, <1>6 DEF Query
<1>9. \A h \in Handles : used'[h] <= now /\ used[h] <= used'[h]
    BY <1>1, <1>8 DEF JInv, TableFits
<1>10. ASSUME o.kind \in Usages
       PROVE  /\ l.row \in Rows /\ l.row.created = started[o.key]
              /\ Limited(l.row, now) /\ Timely(l.row, o.key)'
              /\ l.row.auth = o.row.auth
    <2>1. /\ o.key \in Handles /\ o.row \in Rows /\ o.row.created = started[o.key]
          /\ Limited(o.row, used[o.key])
        BY <1>1, <1>10 DEF Shape, Fits, Timely
    <2>2. PICK t \in Nat : t = used[o.key] /\ t <= now
        BY <1>1, <2>1 DEF JInv, TableFits
    <2>3. Limited(o.row, now)
        BY <1>1, <1>8, <2>1, <2>2, LimitedLater
    <2>4. CASE o.kind = "extend"
        <3>1. l.row = Slide(o.row)
            BY <1>6, <2>4 DEF Updated
        <3>2. Limited(l.row, now)
            BY <1>1, <1>2, <2>1, <2>3, <2>4, <3>1, SlideLimited DEF Usages
        <3>3. used'[o.key] = now
            BY <1>1, <1>8, <2>1, <2>4
        <3> QED
            BY <1>5, <1>6, <1>8, <1>10, <2>1, <3>2, <3>3 DEF Timely, Limited
    <2>5. CASE o.kind # "extend"
        <3>1. l.row = o.row \/ l.row = [o.row EXCEPT !.consumed = TRUE]
            BY <1>6, <2>5 DEF Updated
        <3>2. /\ l.row \in Rows /\ l.row.created = o.row.created
              /\ l.row.auth = o.row.auth /\ l.row.lifetime = o.row.lifetime
            BY <2>1, <3>1 DEF Rows
        <3> QED
            BY <1>8, <2>1, <2>3, <2>5, <3>2 DEF Timely, Limited
    <2> QED
        BY <2>4, <2>5
<1>11. CASE found = {} /\ o.kind \in Removals
    <2>1. l.kind = "revoke" => inserts'[l.key] > 0 /\ Withdrawn(l.key)'
        BY <1>1, <1>6, <1>7, <1>8, <1>11 DEF Fits, Withdrawn, Present
    <2>2. l.kind \in Usages \union {"redeem"} => l.row \in Rows /\ l.row.created <= now
        BY <1>2, <1>5, <1>6
    <2>3. PICK p \in PCs, m \in Locals : Goto(r, p, m) /\ Fits(p, m)'
        BY <1>1, <1>6, <1>8, <1>10, <1>11, <2>1, <2>2, ContinueFits
    <2> QED
        BY <1>8, <1>9, <2>3, ControlFits
<1>12. CASE ~(found = {} /\ o.kind \in Removals)
    <2>1. Goto(r, "save", l) /\ "save" \in PCs
        BY <1>8, <1>12 DEF PCs
    <2>2. o.kind \in Usages => NeedsUpdate(l.row.auth)'
        BY <1>1, <1>8, <1>10 DEF Fits, NeedsUpdate, OneTime
    <2>3. o.kind = "revoke" =>
            /\ inserts'[l.key] > 0
            /\ (Withdrawn(l.key) \/ (Present(l.key) /\ l.found = {<<l.key, grants[l.key].id>>}))'
        BY <1>1, <1>6, <1>7, <1>8 DEF Fits, Withdrawn, Present
    <2>4. Fits("save", l)'
        BY <1>6, <1>10, <2>2, <2>3 DEF Fits
    <2> QED
        BY <1>6, <1>8, <1>9, <2>1, <2>4, ControlFits
<1> QED
    BY <1>11, <1>12

LEMMA SaveFailsFits ==
    ASSUME JInv, IInv', NEW r \in Requests, SaveFails(r)
    PROVE  JInv'
<1>0. PICK o \in Locals : o = loc[r]
    BY DEF JInv, IInv, TypeOK
<1>1. /\ Shape("save", o) /\ Fits("save", o)
      /\ TypeOK /\ now \in Nat /\ used \in [Handles -> Nat]
    BY <1>0 DEF SaveFails, JInv, IInv, TypeOK, RequestInv
<1> DEFINE next == [o EXCEPT !.stuck = TRUE]
<1>2. PICK l \in Locals : /\ l = next /\ l.kind = o.kind /\ l.key = o.key
                          /\ l.row = o.row
    <2>1. next \in Locals /\ next.kind = o.kind /\ next.key = o.key /\ next.row = o.row
        BY DEF Locals
    <2> QED
        BY <2>1
<1>3. /\ ~Unchanged(o.found) /\ Continue(r, l)
      /\ UNCHANGED <<client, now, grants, inserts, known, spent, revoked, started, used>>
    BY <1>0, <1>2 DEF SaveFails
<1>4. l.kind = "revoke" => inserts'[l.key] > 0 /\ Withdrawn(l.key)'
    BY <1>1, <1>2, <1>3 DEF Fits, Unchanged, Withdrawn, Present, OneTime, NeedsUpdate
<1>5. l.kind \in Usages => l.row.created = started[l.key] /\ Limited(l.row, now)
    <2> SUFFICES ASSUME l.kind \in Usages
                 PROVE  l.row.created = started[l.key] /\ Limited(l.row, now)
        OBVIOUS
    <2>1. l.row \in Rows /\ l.key \in Handles /\ Timely(l.row, l.key)
        BY <1>1, <1>2 DEF Shape, Fits
    <2>2. PICK t \in Nat : t = used[l.key] /\ t <= now
        BY <1>1, <2>1 DEF JInv, TableFits
    <2> QED
        BY <1>1, <1>3, <2>1, <2>2, LimitedLater DEF Timely
<1>6. l.kind \in Usages \union {"redeem"} => l.row \in Rows /\ l.row.created <= now
    BY <1>1, <1>2 DEF Shape
<1>7. PICK p \in PCs, m \in Locals : Goto(r, p, m) /\ Fits(p, m)'
    BY <1>1, <1>2, <1>3, <1>4, <1>5, <1>6, ContinueFits
<1> QED
    BY <1>3, <1>7, ControlFits, UsedSame

\* A request that saves an update writes its own row back.
LEMMA RowWritten ==
    ASSUME IInv, NEW r \in Requests, SaveDone(r), NEW l \in Locals, l = loc[r],
           l.kind \notin Removals
    PROVE  /\ l.kind \in {"consume", "extend"} /\ l.key \in Handles /\ inserts[l.key] > 0
           /\ \E row \in Rows :
                /\ grants' = [grants EXCEPT ![l.key] = row]
                /\ row.auth = l.row.auth /\ row.created = l.row.created
                /\ row.lifetime = l.row.lifetime /\ row.consumed = l.row.consumed
<1> DEFINE row(i) == [l.row EXCEPT !.id = i]
<1>1. Shape("save", l) /\ Unchanged(l.found)
    BY DEF SaveDone, IInv, RequestInv
<1>2. /\ l.kind \in {"consume", "extend"} /\ l.kind \in Usages
      /\ l.key \in Handles /\ l.key \in Keys /\ inserts[l.key] > 0 /\ l.row \in Rows
    BY <1>1, KeyFacts DEF Shape, Locals, Kinds, Usages, Removals
<1>3. \A i \in Nat : /\ row(i) \in Rows
                     /\ row(i).auth = l.row.auth /\ row(i).created = l.row.created
                     /\ row(i).lifetime = l.row.lifetime
                     /\ row(i).consumed = l.row.consumed
    BY <1>2 DEF Rows
<1>4. \E i \in Nat : grants' = [grants EXCEPT ![l.key] = row(i)]
    <2>1. CASE l.found # {}
        <3>1. Present(l.key)
            BY <1>1, <1>2, <2>1 DEF Shape, Unchanged
        <3>2. grants[l.key].id \in Nat
            BY <1>2, <3>1 DEF Present, Rows, IInv, TypeOK
        <3>3. grants' = [grants EXCEPT ![l.key] = row(grants[l.key].id)]
            BY <2>1 DEF SaveDone
        <3> QED
            BY <3>2, <3>3
    <2>2. CASE l.found = {}
        <3>1. grants' = [grants EXCEPT ![l.key] = row(inserts[l.key] + 1)]
            BY <2>2 DEF SaveDone
        <3>2. inserts[l.key] + 1 \in Nat
            BY <1>2 DEF IInv, TypeOK
        <3> QED
            BY <3>1, <3>2
    <2> QED
        BY <2>1, <2>2
<1> HIDE DEF row
<1> QED
    BY <1>2, <1>3, <1>4

LEMMA SaveDoneFits ==
    ASSUME JInv, IInv', NEW r \in Requests, SaveDone(r)
    PROVE  JInv'
<1>0. PICK l \in Locals : l = loc[r]
    BY DEF JInv, IInv, TypeOK
<1>1. /\ Shape("save", l) /\ Fits("save", l) /\ IInv
      /\ TypeOK /\ now \in Nat /\ used \in [Handles -> Nat]
      /\ grants \in [Keys -> Rows \union {NoRow}]
    BY <1>0 DEF SaveDone, JInv, IInv, TypeOK, RequestInv
<1>2. /\ Continue(r, l)
      /\ UNCHANGED <<client, now, known, spent, revoked, started, used>>
    BY <1>0 DEF SaveDone
<1>3. \A k \in Keys : inserts[k] > 0 => inserts'[k] > 0
    BY <1>0, <1>1, RemovedOrStored
<1>4. /\ \A k \in Keys : RowChange(k)
      /\ l.kind = "revoke" => Withdrawn(l.key)'
    <2>1. CASE l.kind \in Removals
        <3>1. grants' = [k \in Keys |-> IF k \in {t[1] : t \in l.found} THEN NoRow ELSE grants[k]]
            BY <1>0, <2>1 DEF SaveDone
        <3>2. \A k \in Keys : RowChange(k)
            BY <3>1 DEF RowChange, Present
        <3>3. ASSUME l.kind = "revoke"
              PROVE  Withdrawn(l.key)'
            <4>1. l.key \in Keys /\ inserts[l.key] > 0
                BY <1>1, <3>3, KeyFacts DEF Shape, Fits
            <4>2. CASE Withdrawn(l.key)
                BY <1>2, <3>2, <4>1, <4>2, WithdrawnKept
            <4>3. CASE l.found = {<<l.key, grants[l.key].id>>}
                <5>1. <<l.key, grants[l.key].id>> \in l.found
                    BY <4>3
                <5>2. l.key \in {t[1] : t \in l.found}
                    BY <5>1
                <5> QED
                    BY <3>1, <4>1, <5>2 DEF Withdrawn, Present
            <4> QED
                BY <1>1, <3>3, <4>2, <4>3 DEF Fits
        <3> QED
            BY <3>2, <3>3
    <2>2. CASE l.kind \notin Removals
        <3>1. l.kind \in {"consume", "extend"} /\ l.key \in Handles /\ l.key \in Keys
            BY <1>0, <1>1, <2>2, RowWritten, KeyFacts
        <3>2. PICK row \in Rows : /\ grants' = [grants EXCEPT ![l.key] = row]
                                  /\ row.auth = l.row.auth /\ row.created = l.row.created
                                  /\ row.lifetime = l.row.lifetime
                                  /\ row.consumed = l.row.consumed
            BY <1>0, <1>1, <2>2, RowWritten
        <3>3. /\ grants'[l.key] = row
              /\ \A k \in Keys : k # l.key => grants'[k] = grants[k]
            BY <1>1, <3>1, <3>2
        <3>4. Timely(l.row, l.key) /\ NeedsUpdate(l.row.auth)
            BY <1>1, <3>1 DEF Fits, Usages
        <3>5. Timely(row, l.key)
            BY <3>2, <3>4 DEF Timely, Limited
        <3>6. Timely(grants[l.key], l.key)'
            BY <1>2, <3>3, <3>5 DEF Timely, Limited
        <3>7. l.row.consumed \/ ~OneTime(l.row.auth)
            BY <1>1, <3>1 DEF Shape, OneTime, Usages
        <3>8. Withdrawn(l.key)'
            BY <1>2, <3>2, <3>3, <3>4, <3>7 DEF Withdrawn, OneTime, NeedsUpdate
        <3> QED
            BY <3>1, <3>3, <3>6, <3>8 DEF RowChange, Removals
    <2> QED
        BY <2>1, <2>2
<1>5. l.kind = "revoke" => inserts'[l.key] > 0 /\ Withdrawn(l.key)'
    BY <1>1, <1>3, <1>4, KeyFacts DEF Shape, Fits
<1>6. l.kind \in Usages => l.row.created = started[l.key] /\ Limited(l.row, now)
    <2> SUFFICES ASSUME l.kind \in Usages
                 PROVE  l.row.created = started[l.key] /\ Limited(l.row, now)
        OBVIOUS
    <2>1. l.row \in Rows /\ l.key \in Handles /\ Timely(l.row, l.key)
        BY <1>1 DEF Shape, Fits
    <2>2. PICK t \in Nat : t = used[l.key] /\ t <= now
        BY <1>1, <2>1 DEF JInv, TableFits
    <2> QED
        BY <1>1, <1>2, <2>1, <2>2, LimitedLater DEF Timely
<1>7. l.kind \in Usages \union {"redeem"} => l.row \in Rows /\ l.row.created <= now
    BY <1>1 DEF Shape
<1>8. PICK p \in PCs, m \in Locals : Goto(r, p, m) /\ Fits(p, m)'
    BY <1>1, <1>2, <1>5, <1>6, <1>7, ContinueFits
<1>9. /\ pc'[r] = p /\ loc'[r] = m
      /\ \A q \in Requests : q # r => pc'[q] = pc[q] /\ loc'[q] = loc[q]
    BY <1>1, <1>8, GotoType
<1>10. \A q \in Requests : (pc'[q] = pc[q] /\ loc'[q] = loc[q]) \/ Fits(pc[q], loc[q])'
    BY <1>8, <1>9
<1>11. \A h \in Handles : /\ used'[h] <= now'
                          /\ inserts[h] > 0 => started'[h] = started[h] /\ used[h] <= used'[h]
    BY <1>1, <1>2, UsedSame
<1>12. now <= now'
    BY <1>1, <1>2
<1> QED
    BY <1>2, <1>3, <1>4, <1>10, <1>11, <1>12, StepFits

LEMMA CreateFits ==
    ASSUME JInv, IInv', NEW r \in Requests, Create(r)
    PROVE  JInv'
<1>0. PICK l \in Locals : l = loc[r]
    BY DEF JInv, IInv, TypeOK
<1>1. /\ Shape("create", l) /\ Fits("create", l) /\ IInv
      /\ TypeOK /\ now \in Nat /\ used \in [Handles -> Nat] /\ started \in [Handles -> Nat]
      /\ grants \in [Keys -> Rows \union {NoRow}] /\ inserts \in [Keys -> Nat]
    BY <1>0 DEF Create, JInv, IInv, TypeOK, RequestInv
<1> DEFINE base == IF l.kind = "redeem" THEN NewRow(l.key) ELSE l.row
           new == [base EXCEPT !.id = 1]
           begin == IF l.kind = "redeem" THEN now ELSE started[l.key]
           m(h) == [l EXCEPT !.row = NoRow, !.found = {<<h, 1>>}]
<1>2. PICK h \in Handles :
        /\ inserts[h] = 0 /\ inserts' = [inserts EXCEPT ![h] = 1]
        /\ grants' = IF l.stuck THEN grants ELSE [grants EXCEPT ![h] = new]
        /\ started' = [started EXCEPT ![h] = begin]
        /\ used' = [used EXCEPT ![h] = now]
        /\ Goto(r, "answer", m(h))
    BY <1>0 DEF Create
<1>3. UNCHANGED <<client, now, known, spent, revoked>>
    BY DEF Create
<1>4. l.kind \in Consumers /\ "answer" \in PCs
    BY <1>1 DEF Shape, PCs
<1>5. h \in Keys /\ m(h) \in Locals /\ m(h).kind = l.kind
    <2>1. h \in Keys /\ <<h, 1>> \in Keys \X Nat
        BY KeyFacts
    <2> QED
        BY <2>1 DEF Locals
<1>6. \E row \in Rows : row = new /\ row.created = begin /\ Limited(row, now)
    <2>1. base \in Rows /\ base.created = begin /\ Limited(base, now)
        <3>1. CASE l.kind = "redeem"
            BY <1>1, <3>1, NewRowType, NewRowLimited DEF Shape
        <3>2. CASE l.kind # "redeem"
            BY <1>1, <1>4, <3>2 DEF Shape, Fits, Consumers, Usages
        <3> QED
            BY <3>1, <3>2
    <2> HIDE DEF base, begin
    <2>2. PICK row \in Rows : /\ row = new /\ row.created = base.created
                              /\ row.auth = base.auth /\ row.lifetime = base.lifetime
        <3>1. /\ new \in Rows /\ new.created = base.created
              /\ new.auth = base.auth /\ new.lifetime = base.lifetime
            BY <2>1 DEF Rows
        <3> QED
            BY <3>1
    <2> QED
        BY <2>1, <2>2 DEF Limited
<1> HIDE DEF m, new, begin
<1>7. /\ started'[h] = begin /\ used'[h] = now
      /\ \A g \in Handles : g # h => started'[g] = started[g] /\ used'[g] = used[g]
      /\ \A k \in Keys : k # h => inserts'[k] = inserts[k] /\ grants'[k] = grants[k]
      /\ inserts'[h] = 1
    BY <1>1, <1>2, <1>5
<1>8. \A k \in Keys : RowChange(k)
    <2>1. PICK row \in Rows : row = new /\ row.created = begin /\ Limited(row, now)
        BY <1>6
    <2>2. grants'[h] = grants[h] \/ grants'[h] = row
        BY <1>1, <1>2, <1>5, <2>1
    <2>3. grants'[h] = row => Timely(grants[h], h)'
        BY <1>3, <1>7, <2>1 DEF Timely, Limited
    <2> QED
        BY <1>2, <1>7, <2>2, <2>3 DEF RowChange
<1>9. Fits("answer", m(h))'
    BY <1>4, <1>5 DEF Fits, Consumers
<1>10. /\ pc'[r] = "answer" /\ loc'[r] = m(h)
       /\ \A q \in Requests : q # r => pc'[q] = pc[q] /\ loc'[q] = loc[q]
    BY <1>1, <1>2, <1>4, <1>5, GotoType
<1>11. \A q \in Requests : (pc'[q] = pc[q] /\ loc'[q] = loc[q]) \/ Fits(pc[q], loc[q])'
    BY <1>9, <1>10
<1>12. \A g \in Handles : /\ used'[g] <= now'
                          /\ inserts[g] > 0 => started'[g] = started[g] /\ used[g] <= used'[g]
    BY <1>1, <1>2, <1>3, <1>7 DEF JInv, TableFits
<1>13. now <= now' /\ \A k \in Keys : inserts[k] > 0 => inserts'[k] > 0
    BY <1>1, <1>3, <1>7
<1> QED
    BY <1>3, <1>8, <1>11, <1>12, <1>13, StepFits

LEMMA DoneFits ==
    ASSUME JInv, IInv', NEW r \in Requests, Done(r)
    PROVE  JInv'
<1>1. /\ Fits("removed", loc[r]) /\ TypeOK /\ now \in Nat
    BY DEF Done, JInv, IInv, TypeOK
<1>2. /\ UNCHANGED <<client, now, grants, inserts, known, spent, started, used>>
      /\ Goto(r, "idle", NoLocals) /\ "idle" \in PCs /\ NoLocals \in Locals
    BY NoLocalsType DEF Done, End, PCs
<1>3. \A h \in revoked' : h \in revoked \/ (inserts[h] > 0 /\ Withdrawn(h))
    BY <1>1 DEF Done, Fits
<1>4. /\ pc'[r] = "idle" /\ loc'[r] = NoLocals
      /\ \A q \in Requests : q # r => pc'[q] = pc[q] /\ loc'[q] = loc[q]
    BY <1>1, <1>2, GotoType
<1>5. Fits("idle", NoLocals)'
    BY NoLocalsType DEF Fits, Usages
<1>6. \A q \in Requests : (pc'[q] = pc[q] /\ loc'[q] = loc[q]) \/ Fits(pc[q], loc[q])'
    BY <1>4, <1>5
<1>7. \A k \in Keys : RowChange(k)
    BY <1>2 DEF RowChange
<1>8. \A h \in Handles : used'[h] <= now' /\ used[h] <= used'[h]
    BY <1>2, UsedSame
<1> QED
    BY <1>1, <1>2, <1>3, <1>6, <1>7, <1>8, StepFits

LEMMA AnswerFits ==
    ASSUME JInv, IInv', NEW r \in Requests, InsertClashes(r) \/ Answer(r) \/ Abort(r)
    PROVE  JInv'
BY EndFits DEF InsertClashes, Answer, Abort

LEMMA CleanUpFits ==
    ASSUME JInv, IInv', NEW k \in Keys, CleanUp(k)
    PROVE  JInv'
<1>1. /\ grants' = [grants EXCEPT ![k] = NoRow]
      /\ UNCHANGED <<client, now, inserts, known, pc, loc, spent, revoked, started, used>>
    BY DEF CleanUp
<1>2. \A j \in Keys : RowChange(j)
    BY <1>1 DEF RowChange, Present, JInv, IInv, TypeOK
<1>3. \A h \in Handles : used'[h] <= now' /\ used[h] <= used'[h]
    BY <1>1, UsedSame
<1>4. now <= now'
    BY <1>1 DEF JInv, IInv, TypeOK
<1> QED
    BY <1>1, <1>2, <1>3, <1>4, StepFits

LEMMA TickFits ==
    ASSUME JInv, IInv', Tick
    PROVE  JInv'
<1>1. /\ now' = now + 1
      /\ UNCHANGED <<client, grants, inserts, known, pc, loc, spent, revoked, started, used>>
    BY DEF Tick
<1>2. now \in Nat /\ now <= now' /\ used \in [Handles -> Nat]
    BY <1>1 DEF JInv, IInv, TypeOK
<1>3. \A h \in Handles : used'[h] <= now' /\ used[h] <= used'[h]
    BY <1>1, <1>2 DEF JInv, TableFits
<1>4. \A j \in Keys : RowChange(j)
    BY <1>1 DEF RowChange
<1> QED
    BY <1>1, <1>2, <1>3, <1>4, StepFits

LEMMA InitFits == Init => JInv
<1> SUFFICES ASSUME Init PROVE JInv
    OBVIOUS
<1>1. TableFits
    BY KeyFacts, GrantAssumption DEF Init, TableFits, Present
<1>2. \A r \in Requests : Fits(pc[r], loc[r])
    BY NoLocalsType DEF Init, Fits, Usages
<1> QED
    BY <1>1, <1>2, InitOK DEF JInv

LEMMA NextFits == JInv /\ [Next]_vars => JInv'
<1> SUFFICES ASSUME JInv, [Next]_vars PROVE JInv'
    OBVIOUS
<1>0. IInv'
    BY NextOK DEF JInv
<1>1. ASSUME NEW r \in Requests, NEW a \in Auths, Redeem(r, a) PROVE JInv'
    BY <1>0, <1>1, RedeemFits
<1>2. ASSUME NEW r \in Requests, NEW h \in Handles, Refresh(r, h) \/ Revoke(r, h)
      PROVE  JInv'
    BY <1>0, <1>2, RefreshFits, RevokeFits
<1>3. ASSUME NEW r \in Requests, Logout(r) \/ Query(r) \/ SaveDone(r) \/ SaveFails(r)
      PROVE  JInv'
    BY <1>0, <1>3, LogoutFits, QueryFits, SaveDoneFits, SaveFailsFits
<1>4. ASSUME NEW r \in Requests,
             InsertClashes(r) \/ Create(r) \/ Answer(r) \/ Done(r) \/ Abort(r)
      PROVE  JInv'
    BY <1>0, <1>4, CreateFits, AnswerFits, DoneFits
<1>5. ASSUME NEW k \in Keys, CleanUp(k) PROVE JInv'
    BY <1>0, <1>5, CleanUpFits
<1>6. CASE Tick
    BY <1>0, <1>6, TickFits
<1>7. CASE UNCHANGED vars
    BY <1>0, <1>7 DEF vars, JInv, TableFits, Fits, Timely, Limited, Withdrawn, Present,
                      OneTime, NeedsUpdate
<1> QED
    BY <1>1, <1>2, <1>3, <1>4, <1>5, <1>6, <1>7 DEF Next

\* Revocations and lifetimes keep to their bookkeeping in every run.
THEOREM Bookkeeping == Spec => []JInv
BY InitFits, NextFits, PTL DEF Spec

\* A revoked one-time token is not accepted again, nor is one whose use does
\* not update it, even if another request exchanged it while it was revoked.
THEOREM RevocationHolds == Spec => []RevokedRejected
<1>1. JInv => RevokedRejected
    BY DEF JInv, TableFits, RevokedRejected, Withdrawn, Valid
<1> QED
    BY Bookkeeping, <1>1, PTL

\* No chain of exchanges and extensions gets a token past the absolute
\* lifetime of its client, counted from the creation of the chain's first
\* token at the redemption of the code, and none is accepted that was left
\* unused for longer than the sliding lifetime.
THEOREM LifetimesHold == Spec => AcceptedInTime
<1>1. ASSUME JInv, NEW r \in Requests, NEW h \in Handles, Refresh(r, h)
      PROVE  LET c == client[grants[h].auth]
             IN /\ c.absolute > 0 => now <= started[h] + c.absolute
                /\ c.sliding > 0 => now <= used[h] + c.sliding
    <2>1. h \in Keys /\ Present(h) /\ ~IsExpired(grants[h])
        BY <1>1, KeyFacts DEF Refresh, Valid
    <2>2. PICK row \in Rows : row = grants[h]
        BY <1>1, <2>1 DEF JInv, IInv, TypeOK, Present
    <2>3. row.created = started[h] /\ Limited(row, used[h]) /\ now <= row.created + row.lifetime
        BY <1>1, <2>1, <2>2 DEF JInv, IInv, TypeOK, TableFits, Timely, IsExpired, Rows
    <2>4. /\ row.created \in Nat /\ row.lifetime \in Nat /\ now \in Nat /\ used[h] \in Nat
          /\ client[row.auth].sliding \in Nat /\ client[row.auth].absolute \in Nat
        BY <1>1, <2>2, ClientType DEF JInv, IInv, TypeOK, Rows
    <2> QED
        BY <2>2, <2>3, <2>4 DEF Limited
<1>2. JInv => (\A r \in Requests, h \in Handles : Refresh(r, h) =>
          LET c == client[grants[h].auth]
          IN /\ c.absolute > 0 => now <= started[h] + c.absolute
             /\ c.sliding > 0 => now <= used[h] + c.sliding)
    BY <1>1
<1>3. JInv /\ [Next]_vars => [\A r \in Requests, h \in Handles : Refresh(r, h) =>
          LET c == client[grants[h].auth]
          IN /\ c.absolute > 0 => now <= started[h] + c.absolute
             /\ c.sliding > 0 => now <= used[h] + c.sliding]_vars
    BY <1>2
<1> QED
    BY Bookkeeping, <1>3, PTL DEF Spec, AcceptedInTime

-----------------------------------------------------------------------------
(* The refinement of OneTimeGrants. *)

Issued == {k \in Keys : inserts[k] > 0}
LiveKeys == {k \in Keys : Live(k)}
Holder == [r \in Requests |-> Held(r)]

\* What a request at locals l holds.
HeldAt(l) == IF l.kind \in Consumers THEN l.key ELSE 0

\* A step that retires grants, lets a request go or does neither.
LEMMA RetireRefines ==
    ASSUME Issued' = Issued, spent' = spent, LiveKeys' \subseteq LiveKeys,
           \/ Holder' = Holder
           \/ \E r \in Requests : Holder' = [Holder EXCEPT ![r] = 0]
    PROVE  Abstract!Next
BY DEF Issued, LiveKeys, Holder, Abstract!Next, Abstract!Retire

LEMMA HolderStep ==
    ASSUME TypeOK, NEW r \in Requests, NEW p \in PCs, NEW m \in Locals, Goto(r, p, m)
    PROVE  /\ Holder' = [Holder EXCEPT ![r] = HeldAt(m)]
           /\ Holder[r] = HeldAt(loc[r])
           /\ HeldAt(m) = HeldAt(loc[r]) => Holder' = Holder
<1>1. /\ loc'[r] = m
      /\ \A q \in Requests : q # r => loc'[q] = loc[q]
    BY GotoType
<1>2. \A q \in Requests : Held(q) = HeldAt(loc[q]) /\ Held(q)' = HeldAt(loc'[q])
    BY DEF Held, HeldAt, Consumers
<1> QED
    BY <1>1, <1>2 DEF Holder

LEMMA StoreSame ==
    ASSUME UNCHANGED <<client, grants, inserts>>
    PROVE  Issued' = Issued /\ LiveKeys' = LiveKeys
BY DEF Issued, LiveKeys, Live, Present, SingleUse, OneTime

\* A request moves on with what it holds, or lets it go.
LEMMA ControlRefines ==
    ASSUME TypeOK, UNCHANGED spent, Issued' = Issued, LiveKeys' \subseteq LiveKeys,
           NEW r \in Requests, NEW p \in PCs, NEW m \in Locals, Goto(r, p, m),
           HeldAt(m) \in {0, HeldAt(loc[r])}
    PROVE  Abstract!Next
<1>1. Holder' = Holder \/ Holder' = [Holder EXCEPT ![r] = 0]
    BY HolderStep
<1> QED
    BY <1>1, RetireRefines

LEMMA NothingHeld == HeldAt(NoLocals) = 0
BY NoLocalsType DEF HeldAt, Consumers

LEMMA EndRefines ==
    ASSUME TypeOK, UNCHANGED <<client, grants, inserts, spent>>,
           NEW r \in Requests, End(r)
    PROVE  Abstract!Next
<1>1. Goto(r, "idle", NoLocals) /\ "idle" \in PCs /\ NoLocals \in Locals
    BY NoLocalsType DEF End, PCs
<1> QED
    BY <1>1, ControlRefines, StoreSame, NothingHeld

\* A request claims a live grant, or begins without one.
LEMMA BeginRefines ==
    ASSUME JInv, NEW r \in Requests, NEW p \in PCs, NEW kind \in Kinds,
           NEW key \in Keys \union {0}, NEW row \in Rows \union {NoRow},
           Begin(r, p, kind, key, row),
           kind \in Consumers => key \in LiveKeys
    PROVE  Abstract!Next
<1> DEFINE next == [NoLocals EXCEPT !.kind = kind, !.key = key, !.row = row,
                                    !.replay = kind # "revoke" /\ key \in spent]
<1>1. PICK m \in Locals : m = next /\ m.kind = kind /\ m.key = key
    <2>1. next \in Locals /\ next.kind = kind /\ next.key = key
        BY DEF NoLocals, Locals
    <2> QED
        BY <2>1
<1>2. /\ Goto(r, p, m) /\ TypeOK
      /\ UNCHANGED <<client, grants, inserts, spent>>
    BY <1>1 DEF Begin, JInv, IInv
<1>3. HeldAt(loc[r]) = 0
    BY NothingHeld DEF Begin, JInv, Fits
<1>4. CASE kind \in Consumers
    <2>0. HeldAt(m) = key
        BY <1>1, <1>4 DEF HeldAt
    <2>1. Holder' = [Holder EXCEPT ![r] = key] /\ Holder[r] = 0
        BY <1>2, <1>3, <2>0, HolderStep
    <2>2. key \in Keys
        BY <1>4 DEF LiveKeys
    <2> QED
        BY <1>2, <1>4, <2>1, <2>2, StoreSame
        DEF Issued, LiveKeys, Holder, Abstract!Next, Abstract!Claim
<1>5. CASE kind \notin Consumers
    <2>1. HeldAt(m) = 0
        BY <1>1, <1>5 DEF HeldAt
    <2> QED
        BY <1>2, <2>1, ControlRefines, StoreSame
<1> QED
    BY <1>4, <1>5

LEMMA RedeemRefines ==
    ASSUME JInv, NEW r \in Requests, NEW a \in Auths, Redeem(r, a)
    PROVE  Abstract!Next
<1>1. a \in Keys /\ Present(a) /\ grants[a] \in Rows
    BY KeyFacts DEF Redeem, JInv, IInv, TypeOK, Present
<1>2. Begin(r, "query", "redeem", a, grants[a]) /\ "query" \in PCs /\ "redeem" \in Kinds
    BY DEF Redeem, PCs, Kinds
<1>3. a \in LiveKeys
    BY <1>1 DEF LiveKeys, Live, SingleUse, JInv, TableFits
<1> QED
    BY <1>1, <1>2, <1>3, BeginRefines

LEMMA RefreshRefines ==
    ASSUME JInv, NEW r \in Requests, NEW h \in Handles, Refresh(r, h)
    PROVE  Abstract!Next
<1> DEFINE a == grants[h].auth
           u == client[a].usage
           p == IF NeedsUpdate(a) THEN "query" ELSE "answer"
<1>1. h \in Keys /\ Present(h) /\ grants[h] \in Rows /\ ~grants[h].consumed
    BY KeyFacts DEF Refresh, Valid, JInv, IInv, TypeOK, Present
<1>2. a \in Auths /\ u \in Usages
    BY <1>1, ClientType DEF JInv, IInv, Rows
<1>3. Begin(r, p, u, h, grants[h])
    BY DEF Refresh
<1>4. p \in PCs /\ u \in Kinds
    BY <1>2 DEF PCs, Kinds
<1>5. u \in Consumers => h \in LiveKeys
    BY <1>1 DEF Consumers, LiveKeys, Live, SingleUse, OneTime
<1> HIDE DEF u, p
<1> QED
    BY <1>1, <1>3, <1>4, <1>5, BeginRefines

LEMMA RemovalRefines ==
    ASSUME JInv, NEW r \in Requests, Logout(r) \/ \E h \in Handles : Revoke(r, h)
    PROVE  Abstract!Next
<1>1. PICK kind \in {"revoke", "logout"}, key \in Keys \union {0} :
        Begin(r, "query", kind, key, NoRow)
    BY KeyFacts DEF Logout, Revoke
<1>2. "query" \in PCs /\ kind \in Kinds /\ kind \notin Consumers
    BY DEF PCs, Kinds, Consumers
<1> QED
    BY <1>1, <1>2, BeginRefines

LEMMA ContinueRefines ==
    ASSUME TypeOK, UNCHANGED spent, Issued' = Issued, LiveKeys' \subseteq LiveKeys,
           NEW r \in Requests, NEW l \in Locals, Continue(r, l),
           l.kind = loc[r].kind, l.key = loc[r].key,
           l.kind \in Usages \union {"redeem"} => l.row \in Rows /\ l.row.created <= now
    PROVE  Abstract!Next
<1>1. PICK p \in PCs, m \in Locals : Goto(r, p, m) /\ After(p, m, l)
    BY ContinueAfter
<1>2. HeldAt(m) \in {0, HeldAt(loc[r])}
    BY <1>1, NothingHeld DEF After, HeldAt
<1> QED
    BY <1>1, <1>2, ControlRefines

LEMMA QueryRefines ==
    ASSUME JInv, NEW r \in Requests, Query(r)
    PROVE  Abstract!Next
<1>0. PICK o \in Locals : o = loc[r]
    BY DEF JInv, IInv, TypeOK
<1>1. Shape("query", o) /\ TypeOK
    BY <1>0 DEF Query, JInv, IInv, RequestInv
<1>2. o.kind \in Usages \union {"redeem"} => o.row \in Rows /\ o.row.created <= now
    BY <1>1 DEF Shape
<1>3. o.kind \in Kinds /\ o.key \in Keys \union {0} /\ (o.kind # "logout" => o.key \in Keys)
    BY <1>1, KeyFacts DEF Locals, Shape, Kinds, Usages
<1> DEFINE found == RowsOf(IF o.kind = "logout" THEN Keys ELSE {o.key})
           next == [o EXCEPT !.found = found, !.row = Updated(o)]
<1>4. found \in SUBSET (Keys \X Nat)
    <2>1. \A k \in Keys : Present(k) => grants[k].id \in Nat
        BY <1>1 DEF TypeOK, Present, Rows
    <2> QED
        BY <1>3, <2>1 DEF RowsOf
<1>5. /\ Updated(o) \in Rows \union {NoRow}
      /\ o.kind \in Usages \union {"redeem"} =>
            Updated(o) \in Rows /\ Updated(o).created = o.row.created
    BY <1>1, <1>2, UpdatedType
<1> HIDE DEF found
<1>6. PICK l \in Locals : /\ l = next /\ l.kind = o.kind /\ l.key = o.key
                          /\ l.row = Updated(o)
    <2>1. next \in Locals /\ next.kind = o.kind /\ next.key = o.key /\ next.row = Updated(o)
        BY <1>4, <1>5 DEF Locals
    <2> QED
        BY <2>1
<1>7. /\ Continue(r, l) \/ Goto(r, "save", l)
      /\ UNCHANGED <<client, now, grants, inserts, known, spent, revoked, started>>
    BY <1>0, <1>6 DEF Query, found
<1>8. Issued' = Issued /\ LiveKeys' \subseteq LiveKeys
    BY <1>7, StoreSame
<1>9. CASE Continue(r, l)
    BY <1>0, <1>1, <1>2, <1>5, <1>6, <1>7, <1>8, <1>9, ContinueRefines
<1>10. CASE Goto(r, "save", l)
    <2>1. HeldAt(l) = HeldAt(loc[r]) /\ "save" \in PCs
        BY <1>0, <1>6 DEF HeldAt, PCs
    <2> QED
        BY <1>1, <1>7, <1>8, <1>10, <2>1, ControlRefines
<1> QED
    BY <1>7, <1>9, <1>10

LEMMA SaveFailsRefines ==
    ASSUME JInv, NEW r \in Requests, SaveFails(r)
    PROVE  Abstract!Next
<1>0. PICK o \in Locals : o = loc[r]
    BY DEF JInv, IInv, TypeOK
<1>1. Shape("save", o) /\ TypeOK
    BY <1>0 DEF SaveFails, JInv, IInv, RequestInv
<1> DEFINE next == [o EXCEPT !.stuck = TRUE]
<1>2. PICK l \in Locals : l = next /\ l.kind = o.kind /\ l.key = o.key /\ l.row = o.row
    <2>1. next \in Locals /\ next.kind = o.kind /\ next.key = o.key /\ next.row = o.row
        BY DEF Locals
    <2> QED
        BY <2>1
<1>3. Continue(r, l) /\ UNCHANGED <<client, grants, inserts, spent>>
    BY <1>0, <1>2 DEF SaveFails
<1>4. l.kind \in Usages \union {"redeem"} => l.row \in Rows /\ l.row.created <= now
    BY <1>1, <1>2 DEF Shape
<1> QED
    BY <1>0, <1>1, <1>2, <1>3, <1>4, StoreSame, ContinueRefines

LEMMA SaveDoneRefines ==
    ASSUME JInv, NEW r \in Requests, SaveDone(r)
    PROVE  Abstract!Next
<1>0. PICK l \in Locals : l = loc[r]
    BY DEF JInv, IInv, TypeOK
<1>1. Shape("save", l) /\ TypeOK /\ IInv
    BY <1>0 DEF SaveDone, JInv, IInv, RequestInv
<1>2. Continue(r, l) /\ UNCHANGED <<client, spent>>
    BY <1>0 DEF SaveDone
<1>3. \A k \in Keys : inserts'[k] > 0 <=> inserts[k] > 0
    <2>1. CASE l.kind \in Removals
        BY <1>0, <2>1 DEF SaveDone, Removals
    <2>2. CASE l.kind \notin Removals
        <3>1. l.key \in Handles /\ l.key \in Keys /\ inserts[l.key] > 0
            BY <1>0, <1>1, <2>2, RowWritten, KeyFacts
        <3>2. inserts' = inserts \/ inserts' = [inserts EXCEPT ![l.key] = @ + 1]
            BY <1>0, <2>2 DEF SaveDone
        <3> QED
            BY <1>1, <3>1, <3>2 DEF TypeOK
    <2> QED
        BY <2>1, <2>2
<1>4. ASSUME NEW k \in Keys, Live(k)'
      PROVE  Live(k)
    <2>1. StoreChange(k) /\ inserts[k] \in Nat
        BY <1>0, <1>1, RemovedOrStored DEF TypeOK
    <2>2. Present(k)' /\ ~grants'[k].consumed /\ SingleUse(k)'
        BY <1>4 DEF Live
    <2>3. k \in Handles => client[grants'[k].auth].usage # "extend"
        BY <1>2, <2>2, KeyFacts DEF SingleUse, OneTime
    <2>4. grants'[k] = grants[k]
        BY <1>3, <2>1, <2>2, <2>3 DEF StoreChange, Written
    <2> QED
        BY <1>2, <2>2, <2>4 DEF Live, Present, SingleUse, OneTime
<1>5. Issued' = Issued /\ LiveKeys' \subseteq LiveKeys
    BY <1>3, <1>4 DEF Issued, LiveKeys
<1>6. l.kind \in Usages \union {"redeem"} => l.row \in Rows /\ l.row.created <= now
    BY <1>1 DEF Shape
<1> QED
    BY <1>0, <1>1, <1>2, <1>5, <1>6, ContinueRefines

\* A new handle is issued; a failed save loses the token.
LEMMA CreateRefines ==
    ASSUME JInv, NEW r \in Requests, Create(r)
    PROVE  Abstract!Next
<1>0. PICK l \in Locals : l = loc[r]
    BY DEF JInv, IInv, TypeOK
<1>1. TypeOK /\ IInv /\ "answer" \in PCs
    BY DEF JInv, IInv, PCs
<1> DEFINE m(h) == [l EXCEPT !.row = NoRow, !.found = {<<h, 1>>}]
<1>2. PICK h \in Handles :
        /\ inserts[h] = 0 /\ inserts' = [inserts EXCEPT ![h] = 1]
        /\ \A k \in Keys : k # h => grants'[k] = grants[k]
        /\ Goto(r, "answer", m(h))
    <2>1. grants \in [Keys -> Rows \union {NoRow}]
        BY <1>1 DEF TypeOK
    <2> QED
        BY <1>0, <2>1 DEF Create
<1>3. client' = client /\ spent' = spent
    BY DEF Create
<1>4. h \in Keys /\ m(h) \in Locals /\ HeldAt(m(h)) = HeldAt(l)
    <2>1. h \in Keys /\ <<h, 1>> \in Keys \X Nat
        BY KeyFacts
    <2> QED
        BY <2>1 DEF Locals, HeldAt
<1> HIDE DEF m
<1>5. Holder' = Holder
    BY <1>0, <1>1, <1>2, <1>4, HolderStep
<1>6. h \notin Issued /\ Issued' = Issued \union {h}
    BY <1>1, <1>2, <1>4 DEF Issued, TypeOK
<1>7. h \notin LiveKeys
    BY <1>1, <1>2, <1>4 DEF LiveKeys, Live, IInv, KeyInv
<1>8. \A k \in Keys : k # h => (Live(k)' <=> Live(k))
    BY <1>2, <1>3 DEF Live, Present, SingleUse, OneTime
<1>9. LiveKeys' \in {LiveKeys, LiveKeys \union {h}}
    BY <1>4, <1>7, <1>8 DEF LiveKeys
<1> QED
    BY <1>3, <1>4, <1>5, <1>6, <1>9
    DEF Issued, LiveKeys, Holder, Abstract!Next, Abstract!Issue

\* A request answers for what it holds, which is live no more.
LEMMA AnswerRefines ==
    ASSUME JInv, NEW r \in Requests, Answer(r)
    PROVE  Abstract!Next
<1>1. PICK l \in Locals : l = loc[r]
    BY DEF JInv, IInv, TypeOK
<1>2. /\ pc[r] = "answer" /\ Shape("answer", l) /\ Settled("answer", l) /\ TypeOK
    BY <1>1 DEF Answer, JInv, IInv, RequestInv
<1>3. End(r) /\ UNCHANGED <<client, grants, inserts>>
    BY DEF Answer
<1>4. CASE l.kind = "extend"
    BY <1>1, <1>2, <1>3, <1>4, EndRefines DEF Answer
<1>5. CASE l.kind # "extend"
    <2>1. l.kind \in Consumers /\ l.key \in Keys /\ Dead(l.key)
        BY <1>2, <1>5, KeyFacts DEF Shape, Settled, Consumers, Usages
    <2>2. spent' = spent \union {l.key}
        BY <1>1, <1>5 DEF Answer
    <2>3. Goto(r, "idle", NoLocals) /\ "idle" \in PCs /\ NoLocals \in Locals
        BY <1>3, NoLocalsType DEF End, PCs
    <2>4. HeldAt(l) = l.key /\ HeldAt(NoLocals) = 0
        BY <2>1, NothingHeld DEF HeldAt
    <2>5. Holder' = [Holder EXCEPT ![r] = 0] /\ Holder[r] = l.key
        BY <1>1, <1>2, <2>3, <2>4, HolderStep
    <2>6. l.key # 0 /\ l.key \notin LiveKeys
        BY <2>1, KeyFacts DEF LiveKeys, Live, Dead
    <2> QED
        BY <1>3, <2>2, <2>5, <2>6, StoreSame
        DEF Issued, LiveKeys, Holder, Abstract!Next, Abstract!Answer
<1> QED
    BY <1>4, <1>5

LEMMA CleanUpRefines ==
    ASSUME JInv, NEW k \in Keys, CleanUp(k)
    PROVE  Abstract!Next
<1>1. /\ grants' = [grants EXCEPT ![k] = NoRow] /\ grants \in [Keys -> Rows \union {NoRow}]
      /\ UNCHANGED <<client, inserts, loc, spent>>
    BY DEF CleanUp, JInv, IInv, TypeOK
<1>2. \A j \in Keys : Live(j)' => Live(j)
    BY <1>1 DEF Live, Present, SingleUse, OneTime
<1>3. Issued' = Issued /\ LiveKeys' \subseteq LiveKeys /\ Holder' = Holder
    BY <1>1, <1>2 DEF Issued, LiveKeys, Holder, Held
<1> QED
    BY <1>1, <1>3, RetireRefines

LEMMA IdleRefines ==
    ASSUME UNCHANGED <<client, grants, inserts, loc, spent>>
    PROVE  Abstract!Next
<1>1. Holder' = Holder
    BY DEF Holder, Held
<1> QED
    BY <1>1, StoreSame, RetireRefines

LEMMA InitRefines == Init => Abstract!Init
<1> SUFFICES ASSUME Init PROVE Abstract!Init
    OBVIOUS
<1>0. \A a \in Auths : /\ a \in Keys /\ grants[a] \in Rows
                       /\ inserts[a] = 1 /\ ~grants[a].consumed
    BY KeyFacts, GrantAssumption DEF Init, Rows
<1>1. ASSUME NEW k \in Keys
      PROVE  Live(k) <=> inserts[k] > 0
    <2>1. CASE k \in Auths
        BY <1>0, <2>1, GrantAssumption DEF Live, Present, SingleUse
    <2>2. CASE k \notin Auths
        BY <2>2 DEF Init, Live, Present
    <2> QED
        BY <2>1, <2>2
<1>2. \A r \in Requests : Held(r) = 0
    BY NothingHeld DEF Init, Held, HeldAt, Consumers
<1> QED
    BY <1>1, <1>2 DEF Init, Abstract!Init

LEMMA NextRefines == JInv /\ [Next]_vars => Abstract!Next
<1> SUFFICES ASSUME JInv, [Next]_vars PROVE Abstract!Next
    OBVIOUS
<1>1. ASSUME NEW r \in Requests, NEW a \in Auths, Redeem(r, a) PROVE Abstract!Next
    BY <1>1, RedeemRefines
<1>2. ASSUME NEW r \in Requests, NEW h \in Handles, Refresh(r, h) PROVE Abstract!Next
    BY <1>2, RefreshRefines
<1>3. ASSUME NEW r \in Requests, Logout(r) \/ \E h \in Handles : Revoke(r, h)
      PROVE  Abstract!Next
    BY <1>3, RemovalRefines
<1>4. ASSUME NEW r \in Requests, Query(r) \/ SaveDone(r) \/ SaveFails(r)
      PROVE  Abstract!Next
    BY <1>4, QueryRefines, SaveDoneRefines, SaveFailsRefines
<1>5. ASSUME NEW r \in Requests, Create(r) \/ Answer(r) PROVE Abstract!Next
    BY <1>5, CreateRefines, AnswerRefines
<1>6. ASSUME NEW r \in Requests, InsertClashes(r) \/ Done(r) \/ Abort(r)
      PROVE  Abstract!Next
    BY <1>6, EndRefines DEF InsertClashes, Done, Abort, JInv, IInv
<1>7. ASSUME NEW k \in Keys, CleanUp(k) PROVE Abstract!Next
    BY <1>7, CleanUpRefines
<1>8. CASE Tick \/ UNCHANGED vars
    BY <1>8, IdleRefines DEF Tick, vars
<1> QED
    BY <1>1, <1>2, <1>3, <1>4, <1>5, <1>6, <1>7, <1>8 DEF Next

\* Codes and one-time tokens are one-time grants: each step of the requests,
\* of the cleanup and of the clock is a step of OneTimeGrants, so a grant is
\* claimed only while it is live and answered for only when it no longer is.
THEOREM Implementation == Spec => ImplementsOneTimeGrants
<1>1. JInv /\ [Next]_vars => [Abstract!Next]_(Abstract!vars)
    BY NextRefines
<1> QED
    BY Bookkeeping, InitRefines, <1>1, PTL DEF Spec, ImplementsOneTimeGrants, Abstract!Spec
=============================================================================
