------------------------ MODULE RefreshTokens_proofs ------------------------
(***************************************************************************)
(* Proofs about RefreshTokens, for every number of requests and            *)
(* authorizations and every client setting: a code or a one-time token     *)
(* that was answered for is never exchanged again.                         *)
(***************************************************************************)
EXTENDS RefreshTokens, TLAPS

-----------------------------------------------------------------------------
(* The inductive invariant. *)

\* A code or a one-time token nobody can use any more.
Dead(k) == Present(k) => k \in Handles /\ grants[k].consumed

\* The requests that use up a code or a token.
Consumers == {"redeem", "rotate", "consume"}

\* Rows and handles are of keys that were inserted, by a clock that has not
\* gone back.
KeyInv ==
    /\ \A k \in Keys : Present(k) => inserts[k] > 0 /\ grants[k].created <= now
    /\ \A a \in Auths : inserts[a] > 0
    /\ \A k \in known \union spent : inserts[k] > 0

SpentInv == \A k \in spent : Dead(k)

\* What the locals l of a request at p refer to.
Shape(p, l) ==
    /\ ~l.replay
    /\ l.kind \in Usages => l.key \in Handles /\ inserts[l.key] > 0
    /\ l.kind = "redeem" => l.key \in Auths
    /\ l.kind = "revoke" => l.key \in Handles
    /\ (l.kind \in Usages \union {"redeem"} /\ p \in {"query", "save", "create"}) =>
          l.row \in Rows /\ l.row.created <= now
    /\ (l.kind \in Usages /\ p \in {"query", "save", "create"}) =>
          client[l.row.auth].usage = l.kind
    /\ p = "save" =>
          /\ l.kind # "logout" => \A t \in l.found : t[1] = l.key
          /\ l.kind = "consume" => l.row.consumed
    /\ p = "create" => l.kind \in Consumers
    /\ p = "answer" =>
          /\ l.kind \in Usages \union {"redeem"}
          /\ \A t \in l.found : t[1] \in Handles /\ inserts[t[1]] > 0
    /\ p = "removed" => l.kind \in {"revoke", "logout"}

\* The row of a token and all requests that use it are of one client setting.
SameUsage(l) ==
    l.kind \in Usages =>
        /\ Present(l.key) => client[grants[l.key].auth].usage = l.kind
        /\ \A q \in Requests :
              (loc[q].kind \in Usages /\ loc[q].key = l.key) => loc[q].kind = l.kind
        /\ l.key \in spent => l.kind # "extend"

\* A request that uses up a grant leaves it dead, or has still to save that.
Settled(p, l) ==
    l.kind \in Consumers =>
        /\ p \in {"create", "answer"} => Dead(l.key)
        /\ p = "save" =>
              Dead(l.key) \/ (Present(l.key) /\ l.found = {<<l.key, grants[l.key].id>>})

RequestInv ==
    \A r \in Requests :
        Shape(pc[r], loc[r]) /\ SameUsage(loc[r]) /\ Settled(pc[r], loc[r])

IInv == TypeOK /\ KeyInv /\ SpentInv /\ RequestInv

-----------------------------------------------------------------------------
(* Types of the operators. *)

PCs == {"idle", "query", "save", "create", "answer", "removed"}

LEMMA ClientType ==
    ASSUME TypeOK, NEW a \in Auths
    PROVE  /\ client[a] \in Clients
           /\ client[a].usage \in Usages
           /\ client[a].sliding \in Nat /\ client[a].absolute \in Nat
BY GrantAssumption DEF TypeOK

LEMMA CapType ==
    ASSUME TypeOK, NEW a \in Auths, NEW t \in Nat
    PROVE  Cap(a, t) \in Nat
BY ClientType DEF Cap

\* A new row begins now.
LEMMA NewRowType ==
    ASSUME TypeOK, NEW a \in Auths
    PROVE  NewRow(a) \in Rows /\ NewRow(a).created = now
<1>1. Cap(a, client[a].sliding) \in Nat /\ client[a].absolute \in Nat
    BY ClientType, CapType
<1> QED
    BY <1>1 DEF NewRow, Rows, TypeOK

\* Sliding changes the lifetime only.
LEMMA SlideType ==
    ASSUME TypeOK, NEW row \in Rows, row.created <= now
    PROVE  /\ Slide(row) \in Rows
           /\ Slide(row).created = row.created
           /\ Slide(row).auth = row.auth
<1>1. row.auth \in Auths /\ row.created \in Nat /\ now \in Nat
    BY DEF Rows, TypeOK
<1>2. now - row.created + client[row.auth].sliding \in Nat
    BY <1>1, ClientType
<1>3. Cap(row.auth, now - row.created + client[row.auth].sliding) \in Nat
    BY <1>1, <1>2, CapType
<1> QED
    BY <1>3 DEF Slide, Rows

LEMMA UpdatedType ==
    ASSUME TypeOK, NEW l \in Locals,
           l.kind \in Usages \union {"redeem"} => l.row \in Rows /\ l.row.created <= now
    PROVE  /\ Updated(l) \in Rows \union {NoRow}
           /\ l.kind \in Usages \union {"redeem"} =>
                /\ Updated(l) \in Rows
                /\ Updated(l).created = l.row.created
                /\ Updated(l).auth = l.row.auth
           /\ l.kind = "consume" => Updated(l).consumed
<1>1. CASE l.kind = "consume"
    <2>1. Updated(l) = [l.row EXCEPT !.consumed = TRUE] /\ l.row \in Rows
        BY <1>1 DEF Updated, Usages
    <2> QED
        BY <1>1, <2>1 DEF Rows
<1>2. CASE l.kind = "extend"
    <2>1. Updated(l) = Slide(l.row) /\ l.row \in Rows /\ l.row.created <= now
        BY <1>2 DEF Updated, Usages
    <2> QED
        BY <1>2, <2>1, SlideType
<1>3. CASE l.kind \notin {"consume", "extend"}
    BY <1>3 DEF Updated, Locals
<1> QED
    BY <1>1, <1>2, <1>3

LEMMA NoLocalsType ==
    /\ NoLocals \in Locals
    /\ NoLocals.kind = "logout" /\ NoLocals.key = 0 /\ ~NoLocals.replay
BY DEF NoLocals, Locals, Kinds

\* A key of nothing is no key.
LEMMA KeyFacts ==
    /\ 0 \notin Keys
    /\ Auths \cap Handles = {}
    /\ Auths \subseteq Keys /\ Handles \subseteq Keys
BY GrantAssumption DEF Keys, Handles

LEMMA GotoType ==
    ASSUME TypeOK, NEW r \in Requests, NEW p \in PCs, NEW l \in Locals, Goto(r, p, l)
    PROVE  /\ pc' \in [Requests -> PCs] /\ loc' \in [Requests -> Locals]
           /\ pc'[r] = p /\ loc'[r] = l
           /\ \A q \in Requests : q # r => pc'[q] = pc[q] /\ loc'[q] = loc[q]
BY DEF TypeOK, Goto, PCs

-----------------------------------------------------------------------------
(* Steps that move one request on and leave the store alone. *)

\* A request that is over refers to nothing.
LEMMA IdleOK == Shape("idle", NoLocals) /\ SameUsage(NoLocals) /\ Settled("idle", NoLocals)
BY NoLocalsType DEF Shape, SameUsage, Settled, Usages, Consumers

LEMMA ControlStep ==
    ASSUME IInv, TypeOK', UNCHANGED <<client, now, grants, inserts, known, spent>>,
           NEW r \in Requests, NEW p \in PCs, NEW m \in Locals, Goto(r, p, m),
           Shape(p, m), SameUsage(m), Settled(p, m)
    PROVE  IInv'
<1> USE DEF IInv
<1>1. KeyInv' /\ SpentInv'
    BY DEF KeyInv, SpentInv, Dead, Present
<1>2. ASSUME NEW q \in Requests
      PROVE  (Shape(pc[q], loc[q]) /\ SameUsage(loc[q]) /\ Settled(pc[q], loc[q]))'
    <2> DEFINE n == loc'[q]
               o == pc'[q]
    <2>1. (q = r /\ n = m /\ o = p) \/ (q # r /\ n = loc[q] /\ o = pc[q])
        BY GotoType
    <2>2. Shape(o, n) /\ SameUsage(n) /\ Settled(o, n)
        BY <2>1 DEF RequestInv
    <2>3. (Shape(pc[q], loc[q]) /\ Settled(pc[q], loc[q]))'
        BY <2>2 DEF Shape, Settled, Dead, Present
    <2>4. SameUsage(loc[q])'
        <3> SUFFICES ASSUME n.kind \in Usages
                     PROVE  SameUsage(loc[q])'
            BY DEF SameUsage
        <3>1. ASSUME NEW u \in Requests, loc'[u].kind \in Usages, loc'[u].key = n.key
              PROVE  loc'[u].kind = n.kind
            <4>1. (u = r /\ loc'[u] = m) \/ (u # r /\ loc'[u] = loc[u])
                BY GotoType
            <4> QED
                BY <2>1, <2>2, <3>1, <4>1 DEF SameUsage
        <3> QED
            BY <2>2, <3>1 DEF SameUsage, Present
    <2> QED
        BY <2>3, <2>4
<1> QED
    BY <1>1, <1>2 DEF RequestInv

LEMMA ControlType ==
    ASSUME TypeOK, UNCHANGED <<client, now, grants, inserts>>,
           known' \in SUBSET Handles, spent' \in SUBSET Keys, revoked' \in SUBSET Handles,
           started' \in [Handles -> Nat], used' \in [Handles -> Nat],
           NEW r \in Requests, NEW p \in PCs, NEW m \in Locals, Goto(r, p, m)
    PROVE  TypeOK'
BY GotoType DEF TypeOK, PCs

LEMMA EndOK ==
    ASSUME IInv, UNCHANGED <<client, now, grants, inserts, known, spent, started, used>>,
           revoked' \in SUBSET Handles, NEW r \in Requests, End(r)
    PROVE  IInv'
<1>1. Goto(r, "idle", NoLocals) /\ "idle" \in PCs /\ NoLocals \in Locals
    BY NoLocalsType DEF End, PCs
<1>2. TypeOK'
    BY <1>1, ControlType DEF IInv, TypeOK
<1> QED
    BY <1>1, <1>2, IdleOK, ControlStep

\* A request begins.
LEMMA BeginOK ==
    ASSUME IInv, NEW r \in Requests, NEW p \in PCs, NEW kind \in Kinds,
           NEW key \in Keys \union {0}, NEW row \in Rows \union {NoRow},
           Begin(r, p, kind, key, row),
           NEW m, m = [NoLocals EXCEPT !.kind = kind, !.key = key, !.row = row,
                                  !.replay = kind # "revoke" /\ key \in spent],
           Shape(p, m), SameUsage(m), Settled(p, m)
    PROVE  IInv'
<1>1. Goto(r, p, m) /\ UNCHANGED <<client, now, grants, inserts, known, spent,
                                  revoked, started, used>>
    BY DEF Begin
<1>2. m \in Locals
    BY DEF NoLocals, Locals
<1>3. TypeOK'
    BY <1>1, <1>2, ControlType DEF IInv, TypeOK
<1> QED
    BY <1>1, <1>2, <1>3, ControlStep

LEMMA RedeemOK ==
    ASSUME IInv, NEW r \in Requests, NEW a \in Auths, Redeem(r, a)
    PROVE  IInv'
<1> DEFINE m == [NoLocals EXCEPT !.kind = "redeem", !.key = a, !.row = grants[a],
                                 !.replay = "redeem" # "revoke" /\ a \in spent]
<1>1. /\ m.kind = "redeem" /\ m.key = a /\ m.row = grants[a]
      /\ m.replay = (a \in spent)
    BY DEF NoLocals
<1>2. a \in Keys /\ a \notin Handles /\ Present(a)
    BY KeyFacts DEF Redeem
<1>3. grants[a] \in Rows /\ grants[a].created <= now
    BY <1>2 DEF IInv, KeyInv, TypeOK, Present
<1>4. a \notin spent
    BY <1>2 DEF IInv, SpentInv, Dead
<1>5. Begin(r, "query", "redeem", a, grants[a])
    BY DEF Redeem
<1>6. "query" \in PCs /\ "redeem" \in Kinds
    BY DEF PCs, Kinds
<1> HIDE DEF m
<1>7. Shape("query", m) /\ SameUsage(m) /\ Settled("query", m)
    BY <1>1, <1>3, <1>4 DEF Shape, SameUsage, Settled, Usages
<1> QED
    BY <1>2, <1>3, <1>5, <1>6, <1>7, BeginOK DEF m

LEMMA RefreshOK ==
    ASSUME IInv, NEW r \in Requests, NEW h \in Handles, Refresh(r, h)
    PROVE  IInv'
<1> DEFINE a == grants[h].auth
           u == client[a].usage
           p == IF NeedsUpdate(a) THEN "query" ELSE "answer"
           m == [NoLocals EXCEPT !.kind = u, !.key = h, !.row = grants[h],
                                 !.replay = u # "revoke" /\ h \in spent]
<1>1. h \in Keys /\ Present(h) /\ ~grants[h].consumed /\ h \in known
    BY KeyFacts DEF Refresh, Valid
<1>2. grants[h] \in Rows /\ grants[h].created <= now /\ inserts[h] > 0
    BY <1>1 DEF IInv, KeyInv, TypeOK, Present
<1>3. a \in Auths /\ u \in Usages
    BY <1>2, ClientType DEF IInv, Rows
<1>4. h \notin spent
    BY <1>1 DEF IInv, SpentInv, Dead
<1>5. Begin(r, p, u, h, grants[h])
    BY DEF Refresh
<1>6. p \in {"query", "answer"} /\ p \in PCs /\ u \in Kinds
    BY <1>3 DEF PCs, Kinds
<1>7. p = "answer" => u = "extend"
    BY DEF NeedsUpdate, OneTime
<1>8. m.kind = u /\ m.key = h /\ m.row = grants[h] /\ m.found = {} /\ ~m.replay
    BY <1>4 DEF NoLocals
<1>9. u \notin {"redeem", "revoke", "logout"}
    BY <1>3 DEF Usages
<1> HIDE DEF m
<1>10. Shape(p, m)
    BY <1>2, <1>3, <1>6, <1>7, <1>8, <1>9 DEF Shape, Consumers, Usages
<1>11. SameUsage(m)
    BY <1>1, <1>4, <1>8 DEF SameUsage, IInv, RequestInv
<1>12. Settled(p, m)
    BY <1>6, <1>7, <1>8 DEF Settled, Consumers
<1> HIDE DEF p, u, a
<1> QED
    BY <1>1, <1>2, <1>5, <1>6, <1>10, <1>11, <1>12, BeginOK DEF m

LEMMA RevokeOK ==
    ASSUME IInv, NEW r \in Requests, NEW h \in Handles, Revoke(r, h)
    PROVE  IInv'
<1> DEFINE m == [NoLocals EXCEPT !.kind = "revoke", !.key = h, !.row = NoRow,
                                 !.replay = "revoke" # "revoke" /\ h \in spent]
<1>1. m.kind = "revoke" /\ m.key = h /\ ~m.replay
    BY DEF NoLocals
<1>2. Begin(r, "query", "revoke", h, NoRow) /\ h \in Keys
    BY KeyFacts DEF Revoke
<1>3. "query" \in PCs /\ "revoke" \in Kinds
    BY DEF PCs, Kinds
<1> HIDE DEF m
<1>4. Shape("query", m) /\ SameUsage(m) /\ Settled("query", m)
    BY <1>1 DEF Shape, SameUsage, Settled, Usages, Consumers
<1> QED
    BY <1>2, <1>3, <1>4, BeginOK DEF m

LEMMA LogoutOK ==
    ASSUME IInv, NEW r \in Requests, Logout(r)
    PROVE  IInv'
<1> DEFINE m == [NoLocals EXCEPT !.kind = "logout", !.key = 0, !.row = NoRow,
                                 !.replay = "logout" # "revoke" /\ 0 \in spent]
<1>1. 0 \notin spent
    BY KeyFacts DEF IInv, TypeOK
<1>2. m.kind = "logout" /\ m.key = 0 /\ ~m.replay
    BY <1>1 DEF NoLocals
<1>3. Begin(r, "query", "logout", 0, NoRow)
    BY DEF Logout
<1>4. "query" \in PCs /\ "logout" \in Kinds
    BY DEF PCs, Kinds
<1> HIDE DEF m
<1>5. Shape("query", m) /\ SameUsage(m) /\ Settled("query", m)
    BY <1>2 DEF Shape, SameUsage, Settled, Usages, Consumers
<1> QED
    BY <1>3, <1>4, <1>5, BeginOK DEF m

\* Where a request is, and with which locals, after Continue(r, l).
After(p, m, l) ==
    \/ p = "idle" /\ m = NoLocals
    \/ /\ m.kind = l.kind /\ m.key = l.key /\ m.replay = l.replay
       /\ \/ /\ p = "create" /\ l.kind \in Consumers
             /\ m.row \in Rows /\ m.row.created = l.row.created
             /\ m.row.auth = l.row.auth
          \/ p = "answer" /\ l.kind = "extend" /\ m.found = {}
          \/ p = "removed" /\ l.kind \in {"revoke", "logout"}

LEMMA ContinueAfter ==
    ASSUME TypeOK, NEW r \in Requests, NEW l \in Locals, Continue(r, l),
           l.kind \in Usages \union {"redeem"} => l.row \in Rows /\ l.row.created <= now
    PROVE  \E p \in PCs : \E m \in Locals : Goto(r, p, m) /\ After(p, m, l)
<1>1. /\ "idle" \in PCs /\ "create" \in PCs /\ "answer" \in PCs /\ "removed" \in PCs
      /\ NoLocals \in Locals
    BY NoLocalsType DEF PCs
<1>2. CASE l.kind = "redeem"
    <2>1. Goto(r, "idle", NoLocals) \/ Goto(r, "create", l)
        BY <1>2 DEF Continue, End
    <2> QED
        BY <1>1, <1>2, <2>1 DEF After, Consumers
<1>3. CASE l.kind \in {"rotate", "consume"}
    <2> DEFINE row == [l.row EXCEPT !.consumed = FALSE]
               m == [l EXCEPT !.found = {}, !.row = Slide(row)]
    <2>1. l.row \in Rows /\ l.row.created <= now
        BY <1>3 DEF Usages
    <2>2. /\ row \in Rows /\ row.created = l.row.created /\ row.auth = l.row.auth
        BY <2>1 DEF Rows
    <2>3. Goto(r, "create", m)
        BY <1>3 DEF Continue
    <2> HIDE DEF row
    <2>4. /\ Slide(row) \in Rows
          /\ Slide(row).created = l.row.created /\ Slide(row).auth = l.row.auth
        BY <2>1, <2>2, SlideType
    <2>5. /\ m \in Locals /\ m.kind = l.kind /\ m.key = l.key /\ m.replay = l.replay
          /\ m.row = Slide(row)
        BY <2>4 DEF Locals
    <2> HIDE DEF m
    <2>6. After("create", m, l)
        BY <1>3, <2>4, <2>5 DEF After, Consumers
    <2> QED
        BY <1>1, <2>3, <2>5, <2>6
<1>4. CASE l.kind = "extend"
    <2> DEFINE m == [l EXCEPT !.row = NoRow, !.found = {}]
    <2>1. Goto(r, "answer", m)
        BY <1>4 DEF Continue
    <2>2. /\ m \in Locals /\ m.kind = l.kind /\ m.key = l.key /\ m.replay = l.replay
          /\ m.found = {}
        BY DEF Locals
    <2> HIDE DEF m
    <2>3. After("answer", m, l)
        BY <1>4, <2>2 DEF After
    <2> QED
        BY <1>1, <2>1, <2>2, <2>3
<1>5. CASE l.kind \in {"revoke", "logout"}
    <2>1. Goto(r, "removed", l)
        BY <1>5 DEF Continue
    <2>2. After("removed", l, l)
        BY <1>5 DEF After
    <2> QED
        BY <1>1, <2>1, <2>2
<1> QED
    BY <1>2, <1>3, <1>4, <1>5 DEF Locals, Kinds, Usages

\* What a request refers to after Continue.
LEMMA AfterShape ==
    ASSUME NEW q \in {"query", "save"}, NEW p, NEW l, NEW m, Shape(q, l), After(p, m, l)
    PROVE  Shape(p, m)
<1>1. CASE p = "idle" /\ m = NoLocals
    BY <1>1, IdleOK
<1>2. CASE ~(p = "idle" /\ m = NoLocals)
    BY <1>2 DEF After, Shape, Usages, Consumers
<1> QED
    BY <1>1, <1>2

LEMMA AfterOK ==
    ASSUME NEW q \in {"query", "save"}, NEW p, NEW l, NEW m,
           Shape(q, l), SameUsage(l), l.kind \in Consumers => Dead(l.key), After(p, m, l)
    PROVE  Shape(p, m) /\ SameUsage(m) /\ Settled(p, m)
<1>1. CASE p = "idle" /\ m = NoLocals
    BY <1>1, IdleOK
<1>2. CASE ~(p = "idle" /\ m = NoLocals)
    <2>1. m.kind = l.kind /\ m.key = l.key /\ m.replay = l.replay
        BY <1>2 DEF After
    <2>2. SameUsage(m)
        BY <2>1 DEF SameUsage
    <2>3. Shape(p, m)
        BY AfterShape
    <2>4. Settled(p, m)
        BY <1>2, <2>1 DEF After, Settled
    <2> QED
        BY <2>2, <2>3, <2>4
<1> QED
    BY <1>1, <1>2

\* A step that ends with Continue and leaves the store alone.
LEMMA ContinueOK ==
    ASSUME IInv, NEW r \in Requests, NEW q \in {"query", "save"}, NEW l \in Locals,
           Continue(r, l), Shape(q, l), SameUsage(l), l.kind \in Consumers => Dead(l.key),
           UNCHANGED <<client, now, grants, inserts, known, spent, revoked, started>>,
           used' \in [Handles -> Nat]
    PROVE  IInv'
<1>1. l.kind \in Usages \union {"redeem"} => l.row \in Rows /\ l.row.created <= now
    BY DEF Shape
<1>2. PICK p \in PCs, m \in Locals : Goto(r, p, m) /\ After(p, m, l)
    BY <1>1, ContinueAfter DEF IInv
<1>3. Shape(p, m) /\ SameUsage(m) /\ Settled(p, m)
    BY <1>2, AfterOK
<1>4. TypeOK'
    BY <1>2, ControlType DEF IInv, TypeOK
<1> QED
    BY <1>2, <1>3, <1>4, ControlStep

LEMMA QueryOK ==
    ASSUME IInv, NEW r \in Requests, Query(r)
    PROVE  IInv'
<1> DEFINE o == loc[r]
           found == RowsOf(IF o.kind = "logout" THEN Keys ELSE {o.key})
           l == [o EXCEPT !.found = found, !.row = Updated(o)]
<1>1. /\ pc[r] = "query" /\ o \in Locals
      /\ Shape("query", o) /\ SameUsage(o)
    BY DEF Query, IInv, TypeOK, RequestInv
<1>2. o.kind \in Usages \union {"redeem"} => o.row \in Rows /\ o.row.created <= now
    BY <1>1 DEF Shape
<1>3. o.kind \in Kinds /\ o.key \in Keys \union {0} /\ (o.kind # "logout" => o.key \in Keys)
    BY <1>1, KeyFacts DEF Locals, Shape, Kinds, Usages
<1>4. found \in SUBSET (Keys \X Nat)
    <2>1. \A k \in Keys : Present(k) => grants[k].id \in Nat
        BY DEF IInv, TypeOK, Present, Rows
    <2> QED
        BY <1>3, <2>1 DEF RowsOf
<1>5. /\ Updated(o) \in Rows \union {NoRow}
      /\ o.kind \in Usages \union {"redeem"} =>
           /\ Updated(o) \in Rows
           /\ Updated(o).created = o.row.created
           /\ Updated(o).auth = o.row.auth
    BY <1>1, <1>2, UpdatedType DEF IInv
<1>6. /\ l \in Locals /\ l.kind = o.kind /\ l.key = o.key /\ l.replay = o.replay
      /\ l.row = Updated(o) /\ l.found = found
    BY <1>1, <1>4, <1>5 DEF Locals
<1>7. o.kind # "logout" => found = (IF Present(o.key) THEN {<<o.key, grants[o.key].id>>} ELSE {})
    BY DEF RowsOf
<1>8. /\ IF found = {} /\ o.kind \in Removals THEN Continue(r, l) ELSE Goto(r, "save", l)
      /\ UNCHANGED <<client, now, grants, inserts, known, spent, revoked, started>>
    BY DEF Query
<1>9. used' \in [Handles -> Nat]
    BY DEF Query, IInv, TypeOK
<1> HIDE DEF l, found
<1>10. Shape("query", l) /\ Shape("save", l) /\ SameUsage(l)
    <2>1. o.kind = "consume" => Updated(o).consumed
        BY <1>1, <1>2, UpdatedType DEF IInv
    <2>2. o.kind # "logout" => \A t \in l.found : t[1] = o.key
        BY <1>6, <1>7
    <2> QED
        BY <1>1, <1>2, <1>5, <1>6, <2>1, <2>2 DEF Shape, SameUsage
<1>11. CASE found = {} /\ o.kind \in Removals
    <2>1. l.kind \in Consumers => Dead(l.key)
        BY <1>6, <1>7, <1>11 DEF Dead, Consumers
    <2> QED
        BY <1>6, <1>8, <1>9, <1>10, <1>11, <2>1, ContinueOK
<1>12. CASE ~(found = {} /\ o.kind \in Removals)
    <2>1. Settled("save", l)
        BY <1>6, <1>7 DEF Settled, Dead, Consumers
    <2>2. Goto(r, "save", l) /\ "save" \in PCs
        BY <1>8, <1>12 DEF PCs
    <2>3. TypeOK'
        BY <1>6, <1>8, <1>9, <2>2, ControlType DEF IInv, TypeOK
    <2> QED
        BY <1>6, <1>8, <1>10, <2>1, <2>2, <2>3, ControlStep
<1> QED
    BY <1>11, <1>12

LEMMA SaveFailsOK ==
    ASSUME IInv, NEW r \in Requests, SaveFails(r)
    PROVE  IInv'
<1> DEFINE o == loc[r]
           l == [o EXCEPT !.stuck = TRUE]
<1>1. /\ pc[r] = "save" /\ o \in Locals
      /\ Shape("save", o) /\ SameUsage(o) /\ Settled("save", o)
    BY DEF SaveFails, IInv, TypeOK, RequestInv
<1>2. /\ l \in Locals /\ l.kind = o.kind /\ l.key = o.key /\ l.replay = o.replay
      /\ l.row = o.row /\ l.found = o.found
    BY <1>1 DEF Locals
<1>3. /\ ~Unchanged(o.found) /\ Continue(r, l)
      /\ UNCHANGED <<client, now, grants, inserts, known, spent, revoked, started, used>>
    BY DEF SaveFails
<1>4. o.kind \in Consumers => Dead(o.key)
    BY <1>1, <1>3 DEF Settled, Unchanged
<1> HIDE DEF l
<1>5. Shape("save", l) /\ SameUsage(l) /\ (l.kind \in Consumers => Dead(l.key))
    BY <1>1, <1>2, <1>4 DEF Shape, SameUsage
<1>6. used' \in [Handles -> Nat]
    BY <1>3 DEF IInv, TypeOK
<1> QED
    BY <1>2, <1>3, <1>5, <1>6, ContinueOK

LEMMA DoneOK ==
    ASSUME IInv, NEW r \in Requests, Done(r)
    PROVE  IInv'
<1>1. loc[r].kind = "revoke" => loc[r].key \in Handles
    BY DEF IInv, RequestInv, Shape
<1>2. revoked' \in SUBSET Handles
    BY <1>1 DEF Done, IInv, TypeOK
<1> QED
    BY <1>2, EndOK DEF Done

LEMMA AbortOK ==
    ASSUME IInv, NEW r \in Requests, InsertClashes(r) \/ Abort(r)
    PROVE  IInv'
BY EndOK DEF InsertClashes, Abort, IInv, TypeOK

-----------------------------------------------------------------------------
(* Steps that change the store. *)

\* A request stores its token again, consumed or with a new lifetime.
Written(k) ==
    \E r \in Requests :
        /\ loc[r].key = k /\ loc[r].kind \in {"consume", "extend"}
        /\ client[grants'[k].auth].usage = loc[r].kind
        /\ loc[r].kind = "consume" => grants'[k].consumed
        /\ grants'[k].created <= now

\* What may become of a key.
StoreChange(k) ==
    \/ grants'[k] = grants[k]
    \/ ~Present(k)'
    \/ k \in Handles /\ inserts'[k] > 0 /\ Written(k)
    \/ k \in Handles /\ inserts[k] = 0 /\ inserts'[k] > 0 /\ grants'[k].created <= now

\* A dead grant stays dead, unless a request extends it.
LEMMA DeadStays ==
    ASSUME NEW k \in Keys, StoreChange(k), Dead(k),
           inserts[k] # 0 \/ k \in Auths,
           \A r \in Requests : loc[r].key = k => loc[r].kind # "extend"
    PROVE  Dead(k)'
BY KeyFacts DEF StoreChange, Written, Dead, Present

LEMMA SameUsageKept ==
    ASSUME IInv, client' = client, spent' = spent,
           \A k \in Keys : StoreChange(k),
           \A q \in Requests : \/ loc'[q] = NoLocals
                               \/ loc'[q].kind = loc[q].kind /\ loc'[q].key = loc[q].key,
           NEW q \in Requests
    PROVE  SameUsage(loc[q])'
<1> DEFINE n == loc'[q]
<1> SUFFICES ASSUME n.kind \in Usages
             PROVE  SameUsage(loc[q])'
    BY DEF SameUsage
<1>1. n.kind = loc[q].kind /\ n.key = loc[q].key
    BY NoLocalsType DEF Usages
<1>2. /\ SameUsage(loc[q]) /\ loc[q].kind \in Usages
      /\ n.key \in Handles /\ n.key \in Keys /\ inserts[n.key] > 0
    BY <1>1, KeyFacts DEF IInv, RequestInv, Shape
<1>3. ASSUME NEW u \in Requests, loc'[u].kind \in Usages, loc'[u].key = n.key
      PROVE  loc'[u].kind = n.kind
    <2>1. loc'[u].kind = loc[u].kind /\ loc'[u].key = loc[u].key
        BY <1>3, NoLocalsType DEF Usages
    <2> QED
        BY <1>1, <1>2, <1>3, <2>1 DEF SameUsage
<1>4. PICK k \in Handles : k = n.key
    BY <1>2
<1>5. ASSUME Present(k)'
      PROVE  client'[grants'[k].auth].usage = n.kind
    <2>1. StoreChange(k)
        BY <1>2, <1>4
    <2>2. CASE grants'[k] = grants[k]
        BY <1>1, <1>2, <1>4, <1>5, <2>2 DEF SameUsage, Present
    <2>3. CASE Written(k)
        <3>1. PICK r \in Requests : /\ loc[r].key = k /\ loc[r].kind \in Usages
                                    /\ client[grants'[k].auth].usage = loc[r].kind
            BY <2>3 DEF Written, Usages
        <3>2. loc[r].kind = n.kind
            BY <1>1, <1>2, <1>4, <3>1 DEF SameUsage
        <3> QED
            BY <3>1, <3>2
    <2>4. inserts[k] # 0
        BY <1>2, <1>4 DEF IInv, TypeOK
    <2> QED
        BY <1>5, <2>1, <2>2, <2>3, <2>4 DEF StoreChange
<1>6. k \in spent => n.kind # "extend"
    BY <1>1, <1>2, <1>4 DEF SameUsage
<1> QED
    BY <1>3, <1>4, <1>5, <1>6 DEF SameUsage, Present

LEMMA SettledKept ==
    ASSUME IInv, \A k \in Keys : StoreChange(k),
           NEW q \in Requests, pc'[q] = pc[q], loc'[q] = loc[q]
    PROVE  Settled(pc[q], loc[q])'
<1> DEFINE n == loc[q]
           k == n.key
<1> SUFFICES ASSUME n.kind \in Consumers
             PROVE  Settled(pc[q], loc[q])'
    BY DEF Settled
<1>1. Shape(pc[q], n) /\ SameUsage(n) /\ Settled(pc[q], n)
    BY DEF IInv, RequestInv
<1>2. \/ n.kind = "redeem" /\ k \in Auths
      \/ n.kind \in Usages /\ n.kind # "extend" /\ k \in Handles /\ inserts[k] > 0
    BY <1>1 DEF Shape, Consumers, Usages
<1>3. k \in Keys /\ StoreChange(k) /\ (inserts[k] # 0 \/ k \in Auths)
    BY <1>2, KeyFacts DEF IInv, TypeOK
<1>4. \A r \in Requests : loc[r].key = k => loc[r].kind # "extend"
    <2> SUFFICES ASSUME NEW r \in Requests, loc[r].key = k, loc[r].kind = "extend"
                 PROVE  FALSE
        OBVIOUS
    <2>1. loc[r].kind \in Usages /\ k \in Handles
        BY DEF Usages, IInv, RequestInv, Shape
    <2> QED
        BY <1>1, <1>2, <2>1, KeyFacts DEF SameUsage
<1>5. Dead(k) => Dead(k)'
    BY <1>3, <1>4, DeadStays
<1>6. ASSUME Present(k), n.found = {<<k, grants[k].id>>}
      PROVE  Dead(k)' \/ (Present(k)' /\ n.found = {<<k, grants'[k].id>>})
    <2>1. Written(k) => grants'[k].consumed
        BY <1>4 DEF Written
    <2> QED
        BY <1>2, <1>3, <1>6, <2>1, KeyFacts DEF StoreChange, Dead, Present
<1> QED
    BY <1>1, <1>5, <1>6 DEF Settled

LEMMA ShapeKept ==
    ASSUME client' = client, now \in Nat, now' \in Nat, now <= now',
           \A k \in Keys : inserts[k] > 0 => inserts'[k] > 0,
           NEW p, NEW l, Shape(p, l)
    PROVE  Shape(p, l)'
<1>1. \A row \in Rows : row.created <= now => row.created <= now'
    BY DEF Rows
<1> QED
    BY <1>1, KeyFacts DEF Shape

LEMMA StoreStep ==
    ASSUME IInv, TypeOK', client' = client, known' = known, spent' = spent,
           now <= now',
           \A k \in Keys : inserts[k] > 0 => inserts'[k] > 0,
           \A k \in Keys : StoreChange(k),
           \A q \in Requests : \/ loc'[q] = NoLocals
                               \/ loc'[q].kind = loc[q].kind /\ loc'[q].key = loc[q].key,
           \A q \in Requests : \/ pc'[q] = pc[q] /\ loc'[q] = loc[q]
                               \/ (Shape(pc[q], loc[q]) /\ Settled(pc[q], loc[q]))'
    PROVE  IInv'
<1>1. now \in Nat /\ now' \in Nat
    BY DEF IInv, TypeOK
<1>2. KeyInv'
    <2>1. \A k \in known \union spent : k \in Keys /\ inserts[k] > 0
        BY KeyFacts DEF IInv, KeyInv, TypeOK
    <2>2. \A a \in Auths : a \in Keys /\ inserts[a] > 0
        BY KeyFacts DEF IInv, KeyInv
    <2>3. ASSUME NEW k \in Keys, Present(k)'
          PROVE  inserts'[k] > 0 /\ grants'[k].created <= now'
        <3>1. grants'[k].created \in Nat
            BY <2>3 DEF TypeOK, Present, Rows
        <3>2. StoreChange(k)
            OBVIOUS
        <3>3. CASE grants'[k] = grants[k]
            BY <1>1, <2>3, <3>1, <3>3 DEF IInv, KeyInv, Present
        <3>4. CASE grants'[k] # grants[k]
            <4>1. inserts'[k] > 0 /\ grants'[k].created <= now
                BY <2>3, <3>2, <3>4 DEF StoreChange, Written
            <4> QED
                BY <1>1, <3>1, <4>1
        <3> QED
            BY <3>3, <3>4
    <2> QED
        BY <2>1, <2>2, <2>3 DEF KeyInv
<1>3. SpentInv'
    <2> SUFFICES ASSUME NEW k \in spent
                 PROVE  Dead(k)'
        BY DEF SpentInv
    <2>1. k \in Keys /\ inserts[k] > 0 /\ inserts[k] # 0 /\ Dead(k)
        BY DEF IInv, TypeOK, KeyInv, SpentInv
    <2>2. \A r \in Requests : loc[r].key = k => loc[r].kind # "extend"
        BY DEF IInv, RequestInv, SameUsage, Usages
    <2> QED
        BY <2>1, <2>2, DeadStays
<1>4. RequestInv'
    <2> SUFFICES ASSUME NEW q \in Requests
                 PROVE  (Shape(pc[q], loc[q]) /\ SameUsage(loc[q]) /\ Settled(pc[q], loc[q]))'
        BY DEF RequestInv
    <2>1. SameUsage(loc[q])'
        BY SameUsageKept
    <2>2. CASE pc'[q] = pc[q] /\ loc'[q] = loc[q]
        <3>1. PICK p, l : p = pc[q] /\ l = loc[q]
            OBVIOUS
        <3>2. Shape(p, l)
            BY <3>1 DEF IInv, RequestInv
        <3>3. Shape(p, l)'
            BY <1>1, <3>2, ShapeKept
        <3> QED
            BY <2>1, <2>2, <3>1, <3>3, SettledKept
    <2> QED
        BY <2>1, <2>2
<1> QED
    BY <1>2, <1>3, <1>4 DEF IInv

\* What SaveDone makes of the table.
LEMMA RemovedOrStored ==
    ASSUME IInv, NEW r \in Requests, SaveDone(r), NEW l \in Locals, l = loc[r]
    PROVE  /\ grants' \in [Keys -> Rows \union {NoRow}] /\ inserts' \in [Keys -> Nat]
           /\ \A k \in Keys : inserts[k] > 0 => inserts'[k] > 0
           /\ \A k \in Keys : StoreChange(k)
           /\ l.kind \in Consumers => Dead(l.key)'
<1> DEFINE keys == {t[1] : t \in l.found}
           row(i) == [l.row EXCEPT !.id = i]
<1>1. /\ Shape("save", l) /\ Settled("save", l) /\ Unchanged(l.found)
      /\ client' = client
    BY DEF SaveDone, IInv, RequestInv
<1>2. /\ grants \in [Keys -> Rows \union {NoRow}] /\ inserts \in [Keys -> Nat]
    BY DEF IInv, TypeOK
<1>3. CASE l.kind \in Removals
    <2>1. /\ grants' = [k \in Keys |-> IF k \in keys THEN NoRow ELSE grants[k]]
          /\ inserts' = inserts
        BY <1>3 DEF SaveDone
    <2>2. \A k \in Keys : StoreChange(k)
        BY <2>1 DEF StoreChange, Present
    <2>3. ASSUME l.kind \in Consumers
          PROVE  Dead(l.key)'
        <3>1. l.key \in Keys
            BY <1>1, <2>3, KeyFacts DEF Shape, Consumers, Usages
        <3>2. CASE <<l.key, grants[l.key].id>> \in l.found
            <4>1. l.key \in keys
                BY <3>2
            <4> QED
                BY <2>1, <3>1, <4>1 DEF Dead, Present
        <3>3. CASE Dead(l.key)
            BY <2>1, <3>1, <3>3 DEF Dead, Present
        <3> QED
            BY <1>1, <2>3, <3>2, <3>3 DEF Settled
    <2> QED
        BY <1>2, <2>1, <2>2, <2>3
<1>4. CASE l.kind \notin Removals
    <2>1. /\ l.kind \in {"consume", "extend"} /\ l.kind \in Usages
          /\ l.key \in Handles /\ l.key \in Keys /\ inserts[l.key] > 0
          /\ l.row \in Rows /\ l.row.created <= now
          /\ client[l.row.auth].usage = l.kind
          /\ l.kind = "consume" => l.row.consumed
        BY <1>1, <1>4, KeyFacts DEF Shape, Locals, Kinds, Usages, Removals
    <2>2. \A i \in Nat : /\ row(i) \in Rows
                         /\ row(i).created = l.row.created
                         /\ row(i).auth = l.row.auth
                         /\ row(i).consumed = l.row.consumed
        BY <2>1 DEF Rows
    <2>3. \E i \in Nat : grants' = [grants EXCEPT ![l.key] = row(i)]
        <3>1. CASE l.found # {}
            <4>1. Present(l.key)
                BY <1>1, <2>1, <3>1 DEF Shape, Unchanged
            <4>2. grants[l.key].id \in Nat
                BY <1>2, <2>1, <4>1 DEF Present, Rows
            <4>3. grants' = [grants EXCEPT ![l.key] = row(grants[l.key].id)]
                BY <1>4, <3>1 DEF SaveDone
            <4> QED
                BY <4>2, <4>3
        <3>2. CASE l.found = {}
            <4>1. grants' = [grants EXCEPT ![l.key] = row(inserts[l.key] + 1)]
                BY <1>4, <3>2 DEF SaveDone
            <4>2. inserts[l.key] + 1 \in Nat
                BY <1>2, <2>1
            <4> QED
                BY <4>1, <4>2
        <3> QED
            BY <3>1, <3>2
    <2>4. /\ inserts' \in [Keys -> Nat]
          /\ \A k \in Keys : inserts[k] > 0 => inserts'[k] > 0
        <3>1. inserts' = inserts \/ inserts' = [inserts EXCEPT ![l.key] = @ + 1]
            BY <1>4 DEF SaveDone
        <3> QED
            BY <1>2, <2>1, <3>1
    <2> HIDE DEF row
    <2>5. PICK i \in Nat : grants' = [grants EXCEPT ![l.key] = row(i)]
        BY <2>3
    <2>6. grants'[l.key] = row(i) /\ \A k \in Keys : k # l.key => grants'[k] = grants[k]
        BY <1>2, <2>1, <2>5
    <2>7. Written(l.key)
        BY <2>1, <2>2, <2>6 DEF Written
    <2>8. \A k \in Keys : StoreChange(k)
        BY <2>1, <2>4, <2>6, <2>7 DEF StoreChange
    <2>9. l.kind \in Consumers => Dead(l.key)'
        BY <2>1, <2>2, <2>6 DEF Consumers, Dead
    <2>10. grants' \in [Keys -> Rows \union {NoRow}]
        BY <1>2, <2>2, <2>5
    <2> QED
        BY <2>4, <2>8, <2>9, <2>10
<1> QED
    BY <1>3, <1>4

LEMMA SaveDoneOK ==
    ASSUME IInv, NEW r \in Requests, SaveDone(r)
    PROVE  IInv'
<1>1. PICK l \in Locals : l = loc[r]
    BY DEF IInv, TypeOK
<1>2. Shape("save", l)
    BY <1>1 DEF SaveDone, IInv, RequestInv
<1>3. Continue(r, l) /\ UNCHANGED <<client, now, known, spent, revoked, started, used>>
    BY <1>1 DEF SaveDone
<1>4. l.kind \in Usages \union {"redeem"} => l.row \in Rows /\ l.row.created <= now
    BY <1>2 DEF Shape
<1>5. PICK p \in PCs, m \in Locals : Goto(r, p, m) /\ After(p, m, l)
    BY <1>3, <1>4, ContinueAfter DEF IInv
<1>6. /\ grants' \in [Keys -> Rows \union {NoRow}] /\ inserts' \in [Keys -> Nat]
      /\ \A k \in Keys : inserts[k] > 0 => inserts'[k] > 0
      /\ \A k \in Keys : StoreChange(k)
      /\ l.kind \in Consumers => Dead(l.key)'
    BY <1>1, RemovedOrStored
<1>7. /\ pc' \in [Requests -> PCs] /\ loc' \in [Requests -> Locals]
      /\ pc'[r] = p /\ loc'[r] = m
      /\ \A q \in Requests : q # r => pc'[q] = pc[q] /\ loc'[q] = loc[q]
    BY <1>5, GotoType DEF IInv
<1>8. TypeOK'
    BY <1>3, <1>6, <1>7 DEF IInv, TypeOK, PCs
<1>9. now \in Nat /\ now' \in Nat /\ now <= now'
    BY <1>3 DEF IInv, TypeOK
<1>10. Shape(p, m)'
    <2>1. Shape(p, m)
        BY <1>2, <1>5, AfterShape
    <2> QED
        BY <1>3, <1>6, <1>9, <2>1, ShapeKept
<1>11. Settled(p, m)'
    BY <1>5, <1>6, NoLocalsType DEF After, Settled, Consumers
<1>12. (Shape(pc[r], loc[r]) /\ Settled(pc[r], loc[r]))'
    BY <1>7, <1>10, <1>11
<1>13. \A q \in Requests : \/ loc'[q] = NoLocals
                           \/ loc'[q].kind = loc[q].kind /\ loc'[q].key = loc[q].key
    BY <1>1, <1>5, <1>7 DEF After
<1> QED
    BY <1>3, <1>6, <1>7, <1>8, <1>9, <1>12, <1>13, StoreStep

LEMMA CreateOK ==
    ASSUME IInv, NEW r \in Requests, Create(r)
    PROVE  IInv'
<1>1. PICK l \in Locals : l = loc[r]
    BY DEF IInv, TypeOK
<1> DEFINE row == IF l.kind = "redeem" THEN NewRow(l.key) ELSE l.row
           new == [row EXCEPT !.id = 1]
           m(h) == [l EXCEPT !.row = NoRow, !.found = {<<h, 1>>}]
<1>2. PICK h \in Handles :
        /\ inserts[h] = 0 /\ inserts' = [inserts EXCEPT ![h] = 1]
        /\ grants' = IF l.stuck THEN grants ELSE [grants EXCEPT ![h] = new]
        /\ started' = [started EXCEPT ![h] = IF l.kind = "redeem" THEN now ELSE started[l.key]]
        /\ used' = [used EXCEPT ![h] = now]
        /\ Goto(r, "answer", m(h))
    BY <1>1 DEF Create
<1>3. UNCHANGED <<client, now, known, spent, revoked>>
    BY DEF Create
<1>4. Shape("create", l) /\ Settled("create", l)
    BY <1>1 DEF Create, IInv, RequestInv
<1>5. l.kind \in Consumers /\ Dead(l.key) /\ l.key \in Keys
    BY <1>4, KeyFacts DEF Shape, Settled, Consumers, Usages
<1>6. new \in Rows /\ new.created <= now
    <2>1. row \in Rows /\ row.created <= now
        <3>1. CASE l.kind = "redeem"
            BY <1>4, <3>1, NewRowType DEF Shape, IInv, TypeOK
        <3>2. CASE l.kind # "redeem"
            BY <1>4, <1>5, <3>2 DEF Shape, Consumers, Usages
        <3> QED
            BY <3>1, <3>2
    <2> HIDE DEF row
    <2> QED
        BY <2>1 DEF Rows
<1> HIDE DEF new
<1>7. h \in Keys /\ <<h, 1>> \in Keys \X Nat
    BY KeyFacts
<1>8. /\ m(h) \in Locals /\ m(h).kind = l.kind /\ m(h).key = l.key
      /\ m(h).replay = l.replay /\ m(h).found = {<<h, 1>>}
    BY <1>7 DEF Locals
<1>9. "answer" \in PCs
    BY DEF PCs
<1> HIDE DEF m
<1>10. /\ pc' \in [Requests -> PCs] /\ loc' \in [Requests -> Locals]
       /\ pc'[r] = "answer" /\ loc'[r] = m(h)
       /\ \A q \in Requests : q # r => pc'[q] = pc[q] /\ loc'[q] = loc[q]
    BY <1>2, <1>8, <1>9, GotoType DEF IInv
<1>11. now \in Nat /\ now' \in Nat /\ now <= now'
    BY <1>3 DEF IInv, TypeOK
<1>12. started' \in [Handles -> Nat] /\ used' \in [Handles -> Nat]
    <2>1. l.kind # "redeem" => l.key \in Handles
        BY <1>4, <1>5 DEF Shape, Consumers, Usages
    <2> QED
        BY <1>2, <1>11, <2>1 DEF IInv, TypeOK
<1>13. /\ grants' \in [Keys -> Rows \union {NoRow}] /\ inserts' \in [Keys -> Nat]
       /\ inserts'[h] = 1
       /\ \A k \in Keys : inserts[k] > 0 => inserts'[k] > 0
    BY <1>2, <1>6, <1>7 DEF IInv, TypeOK
<1>14. TypeOK'
    BY <1>3, <1>10, <1>12, <1>13 DEF IInv, TypeOK, PCs
<1>15. ASSUME NEW k \in Keys
       PROVE  StoreChange(k)
    <2>1. CASE k = h /\ ~l.stuck
        <3>1. grants'[h] = new
            BY <1>2, <1>7, <2>1 DEF IInv, TypeOK
        <3> QED
            BY <1>2, <1>6, <1>13, <2>1, <3>1 DEF StoreChange
    <2>2. CASE k # h \/ l.stuck
        BY <1>2, <2>2 DEF StoreChange, IInv, TypeOK
    <2> QED
        BY <2>1, <2>2
<1>16. Dead(l.key)'
    <2>1. l.key = h => FALSE
        BY <1>2, <1>4, <1>5, KeyFacts DEF Shape, Consumers, Usages
    <2>2. grants'[l.key] = grants[l.key]
        BY <1>2, <1>5, <2>1 DEF IInv, TypeOK
    <2> QED
        BY <1>5, <2>2 DEF Dead, Present
<1>17. Shape("answer", m(h))'
    <2>1. \A t \in m(h).found : t[1] \in Handles /\ inserts'[t[1]] > 0
        BY <1>8, <1>13
    <2>2. l.key \in Keys /\ (inserts[l.key] > 0 => inserts'[l.key] > 0)
        BY <1>5, <1>13
    <2> QED
        BY <1>4, <1>5, <1>8, <2>1, <2>2 DEF Shape, Consumers, Usages
<1>18. Settled("answer", m(h))'
    BY <1>8, <1>16 DEF Settled
<1>19. (Shape(pc[r], loc[r]) /\ Settled(pc[r], loc[r]))'
    BY <1>10, <1>17, <1>18
<1>20. \A q \in Requests : \/ loc'[q] = NoLocals
                           \/ loc'[q].kind = loc[q].kind /\ loc'[q].key = loc[q].key
    BY <1>1, <1>8, <1>10
<1> QED
    BY <1>3, <1>10, <1>11, <1>13, <1>14, <1>15, <1>19, <1>20, StoreStep

LEMMA CleanUpOK ==
    ASSUME IInv, NEW k \in Keys, CleanUp(k)
    PROVE  IInv'
<1>1. /\ grants' = [grants EXCEPT ![k] = NoRow]
      /\ UNCHANGED <<client, now, inserts, known, pc, loc, spent, revoked, started, used>>
    BY DEF CleanUp
<1>2. TypeOK'
    BY <1>1 DEF IInv, TypeOK
<1>3. \A j \in Keys : StoreChange(j)
    BY <1>1 DEF StoreChange, Present, IInv, TypeOK
<1>4. now <= now'
    BY <1>1 DEF IInv, TypeOK
<1> QED
    BY <1>1, <1>2, <1>3, <1>4, StoreStep

LEMMA TickOK ==
    ASSUME IInv, Tick
    PROVE  IInv'
<1>1. /\ now' = now + 1
      /\ UNCHANGED <<client, grants, inserts, known, pc, loc, spent, revoked, started, used>>
    BY DEF Tick
<1>2. now <= now' /\ now' \in Nat
    BY <1>1 DEF IInv, TypeOK
<1>3. TypeOK'
    BY <1>1, <1>2 DEF IInv, TypeOK
<1>4. \A j \in Keys : StoreChange(j)
    BY <1>1 DEF StoreChange
<1> QED
    BY <1>1, <1>2, <1>3, <1>4, StoreStep

-----------------------------------------------------------------------------
(* The answer: a handle is given away and its predecessor is spent. *)

LEMMA AnswerOK ==
    ASSUME IInv, NEW r \in Requests, Answer(r)
    PROVE  IInv'
<1>1. PICK l \in Locals : l = loc[r]
    BY DEF IInv, TypeOK
<1>2. /\ pc[r] = "answer" /\ Shape("answer", l) /\ SameUsage(l) /\ Settled("answer", l)
    BY <1>1 DEF Answer, IInv, RequestInv
<1>3. /\ End(r)
      /\ UNCHANGED <<client, now, grants, inserts, revoked, started, used>>
    BY DEF Answer
<1>4. CASE l.kind = "extend"
    <2>1. UNCHANGED <<known, spent>>
        BY <1>1, <1>4 DEF Answer
    <2>2. revoked' \in SUBSET Handles
        BY <1>3 DEF IInv, TypeOK
    <2> QED
        BY <1>3, <2>1, <2>2, EndOK
<1>5. CASE l.kind # "extend"
    <2>1. l.kind \in Consumers /\ l.key \in Keys /\ inserts[l.key] > 0 /\ Dead(l.key)
        BY <1>2, <1>5, KeyFacts DEF Shape, Settled, Consumers, Usages, IInv, KeyInv
    <2>2. /\ known' = known \union {t[1] : t \in l.found}
          /\ spent' = spent \union {l.key}
        BY <1>1, <1>5 DEF Answer
    <2>3. \A t \in l.found : t[1] \in Handles /\ inserts[t[1]] > 0
        BY <1>2 DEF Shape
    <2>4. Goto(r, "idle", NoLocals) /\ "idle" \in PCs /\ NoLocals \in Locals
        BY <1>3, NoLocalsType DEF End, PCs
    <2>5. known' \in SUBSET Handles /\ spent' \in SUBSET Keys
        BY <2>1, <2>2, <2>3 DEF IInv, TypeOK
    <2>6. TypeOK'
        BY <1>3, <2>4, <2>5, ControlType DEF IInv, TypeOK
    <2>7. KeyInv'
        BY <1>3, <2>1, <2>2, <2>3 DEF IInv, KeyInv, Present
    <2>8. SpentInv'
        BY <1>3, <2>1, <2>2 DEF IInv, SpentInv, Dead, Present
    <2>9. /\ pc'[r] = "idle" /\ loc'[r] = NoLocals
          /\ \A q \in Requests : q # r => pc'[q] = pc[q] /\ loc'[q] = loc[q]
        BY <2>4, GotoType DEF IInv
    <2>10. ASSUME NEW q \in Requests
           PROVE  (Shape(pc[q], loc[q]) /\ SameUsage(loc[q]) /\ Settled(pc[q], loc[q]))'
        <3>1. CASE q = r
            BY <2>9, <3>1, NoLocalsType DEF Shape, SameUsage, Settled, Usages, Consumers
        <3>2. CASE q # r
            <4>1. Shape(pc[q], loc[q]) /\ SameUsage(loc[q]) /\ Settled(pc[q], loc[q])
                BY DEF IInv, RequestInv
            <4>2. (Shape(pc[q], loc[q]) /\ Settled(pc[q], loc[q]))'
                BY <1>3, <2>9, <3>2, <4>1 DEF Shape, Settled, Dead, Present
            <4>3. (loc[q].kind \in Usages /\ loc[q].key = l.key) => loc[q].kind # "extend"
                <5>1. l.kind = "redeem" => l.key \notin Handles
                    BY <1>2, KeyFacts DEF Shape
                <5>2. l.kind \in Usages \/ l.kind = "redeem"
                    BY <2>1 DEF Consumers, Usages
                <5> QED
                    BY <1>2, <1>5, <4>1, <5>1, <5>2 DEF SameUsage, Shape
            <4>4. \A u \in Requests : loc'[u].kind \in Usages => loc'[u] = loc[u]
                BY <2>9, NoLocalsType DEF Usages
            <4>5. SameUsage(loc[q])'
                BY <1>3, <2>2, <2>9, <3>2, <4>1, <4>3, <4>4 DEF SameUsage, Present
            <4> QED
                BY <4>2, <4>5
        <3> QED
            BY <3>1, <3>2
    <2> QED
        BY <2>6, <2>7, <2>8, <2>10 DEF IInv, RequestInv
<1> QED
    BY <1>4, <1>5

-----------------------------------------------------------------------------
(* The theorems. *)

LEMMA InitOK == Init => IInv
<1> SUFFICES ASSUME Init PROVE IInv
    OBVIOUS
<1>1. \A k \in Keys : k \in Handles => k \notin Auths
    BY KeyFacts
<1>2. TypeOK
    BY GrantAssumption, NoLocalsType, KeyFacts DEF Init, TypeOK, Rows, Keys
<1>3. KeyInv
    BY KeyFacts DEF Init, KeyInv, Present
<1>4. SpentInv
    BY DEF Init, SpentInv
<1>5. RequestInv
    BY IdleOK DEF Init, RequestInv
<1> QED
    BY <1>2, <1>3, <1>4, <1>5 DEF IInv

LEMMA NextOK == IInv /\ [Next]_vars => IInv'
<1> SUFFICES ASSUME IInv, [Next]_vars PROVE IInv'
    OBVIOUS
<1>1. ASSUME NEW r \in Requests, NEW a \in Auths, Redeem(r, a) PROVE IInv'
    BY <1>1, RedeemOK
<1>2. ASSUME NEW r \in Requests, NEW h \in Handles, Refresh(r, h) \/ Revoke(r, h)
      PROVE  IInv'
    BY <1>2, RefreshOK, RevokeOK
<1>3. ASSUME NEW r \in Requests, Logout(r) \/ Query(r) \/ SaveDone(r) \/ SaveFails(r)
      PROVE  IInv'
    BY <1>3, LogoutOK, QueryOK, SaveDoneOK, SaveFailsOK
<1>4. ASSUME NEW r \in Requests,
             InsertClashes(r) \/ Create(r) \/ Answer(r) \/ Done(r) \/ Abort(r)
      PROVE  IInv'
    BY <1>4, CreateOK, AnswerOK, DoneOK, AbortOK
<1>5. ASSUME NEW k \in Keys, CleanUp(k) PROVE IInv'
    BY <1>5, CleanUpOK
<1>6. CASE Tick
    BY <1>6, TickOK
<1>7. CASE UNCHANGED vars
    BY <1>7 DEF vars, IInv, TypeOK, KeyInv, SpentInv, RequestInv, Shape, SameUsage,
                Settled, Dead, Present
<1> QED
    BY <1>1, <1>2, <1>3, <1>4, <1>5, <1>6, <1>7 DEF Next

\* The strengthening of the theorems below is an invariant of every run.
THEOREM Invariance == Spec => []IInv
BY InitOK, NextOK, PTL DEF Spec

\* The state of the grants and of the requests is always of its type.
THEOREM TypeCorrect == Spec => []TypeOK
<1>1. IInv => TypeOK
    BY DEF IInv
<1> QED
    BY Invariance, <1>1, PTL

\* A code or a one-time token is exchanged once, whatever the interleaving,
\* the failed saves and the settings: a request that arrives after another
\* was answered for the same handle does not come to create a new token.
THEOREM ExchangedOnce == Spec => []NoReplay
<1>1. IInv => NoReplay
    BY DEF IInv, RequestInv, Shape, NoReplay
<1> QED
    BY Invariance, <1>1, PTL

\* No update under way brings a code or a one-time token back into the store
\* after its removal, but as a consumed one.
THEOREM NothingComesBack == Spec => GoneForGood
<1> DEFINE Back(k) == inserts[k] > 0 /\ ~Present(k) /\ Present(k)'
<1>1. ASSUME IInv, Next
      PROVE  \A k \in Keys : Back(k) => (SingleUse(k)' => grants'[k].consumed)
    <2> SUFFICES ASSUME NEW k \in Keys, Back(k), SingleUse(k)'
                 PROVE  grants'[k].consumed
        OBVIOUS
    <2>1. inserts[k] # 0
        BY <1>1 DEF IInv, TypeOK
    <2>2. client' = client
        BY <1>1 DEF Next, Redeem, Refresh, Revoke, Logout, Begin, Query, SaveDone,
                    SaveFails, InsertClashes, Create, Answer, Done, Abort, CleanUp, Tick
    <2>3. CASE \E r \in Requests : SaveDone(r)
        <3>1. PICK r \in Requests : SaveDone(r)
            BY <2>3
        <3>2. PICK l \in Locals : l = loc[r]
            BY <1>1 DEF IInv, TypeOK
        <3>3. StoreChange(k)
            BY <1>1, <3>1, <3>2, RemovedOrStored
        <3>4. k \in Handles /\ Written(k)
            BY <2>1, <3>3 DEF StoreChange, Present
        <3> QED
            BY <2>2, <3>4, KeyFacts DEF Written, SingleUse, OneTime
    <2>4. CASE ~\E r \in Requests : SaveDone(r)
        <3>1. \/ grants' = grants
              \/ \E j \in Keys : CleanUp(j)
              \/ \E r \in Requests : Create(r)
            BY <1>1, <2>4 DEF Next, Redeem, Refresh, Revoke, Logout, Begin, Query,
                  SaveFails, InsertClashes, Answer, Done, Abort, Tick
        <3>2. grants'[k] = grants[k] \/ ~Present(k)'
            BY <1>1, <2>1, <3>1 DEF CleanUp, Create, Present, IInv, TypeOK
        <3> QED
            BY <3>2 DEF Present
    <2> QED
        BY <2>3, <2>4
<1>2. IInv /\ [Next]_vars =>
        [\A k \in Keys : Back(k) => (SingleUse(k)' => grants'[k].consumed)]_vars
    BY <1>1
<1> QED
    BY Invariance, <1>2, PTL DEF Spec, GoneForGood

=============================================================================
