--------------------------- MODULE RefreshTokens ---------------------------
(***************************************************************************)
(* The grants of a client in the persisted grant store: an authorization   *)
(* code is redeemed for a refresh token, a refresh token is exchanged for  *)
(* another or extended, revoked, removed with all others at logout, or     *)
(* removed by the token cleanup.  Requests run concurrently, on any number *)
(* of servers, and an action is one stretch between two database calls.    *)
(*                                                                         *)
(* The store is the Entity Framework one: a write is a query followed by   *)
(* SaveChanges, which does all pending changes of the request's DbContext  *)
(* or, if a row to change is gone, none of them.  The exception is logged  *)
(* and the changes stay pending, so no later save of the request succeeds. *)
(***************************************************************************)
EXTENDS Integers, FiniteSets

CONSTANTS
    Requests,           \* concurrent requests
    Auths,              \* authorizations: a client's code and its tokens
    Clients,            \* client settings the authorizations may be under
    CodeLifetime,
    NoRow,
    MaxHandles,         \* bound of the model on handles
    MaxInserts,         \* bound of the model on rows for one key
    MaxTime             \* bound of the model on the clock

\* The settings of a client: what using a token does to it (TokenUsage, and
\* for OneTimeOnly the server's DeleteOneTimeOnlyRefreshTokensOnUse), the
\* lifetime a use adds (0: absolute expiration), AbsoluteRefreshTokenLifetime
\* (0: none) and UpdateAccessTokenClaimsOnRefresh.
Usages == {"rotate", "consume", "extend"}

\* The rows of the table of grants.
Rows == [id : Nat, auth : Auths, created : Nat, lifetime : Nat, consumed : BOOLEAN]

ASSUME GrantAssumption ==
    /\ Clients \subseteq [usage : Usages, sliding : Nat, absolute : Nat,
                          updates : BOOLEAN]
    /\ CodeLifetime \in Nat
    /\ Auths \cap Nat = {}
    /\ NoRow \notin Rows
    /\ MaxHandles \in Nat /\ MaxInserts \in Nat \ {0} /\ MaxTime \in Nat

VARIABLES
    client,     \* the settings of the client of an authorization
    now,
    grants,     \* the table, by key: a row or none
    inserts,    \* rows inserted so far, by key: the next row's Id
    known,      \* handles given to clients
    pc, loc,    \* where a request is, and its locals
    spent,      \* codes and one-time tokens some request was answered for
    revoked,    \* handles whose revocation was answered
    started,    \* when the first token of a handle's chain was created
    used        \* when a handle was last given a new lifetime

vars == <<client, now, grants, inserts, known, pc, loc, spent, revoked,
          started, used>>

Handles == 1..MaxHandles

\* An authorization is the key of its own code.
Keys == Auths \union Handles

Kinds == Usages \union {"redeem", "revoke", "logout"}
Removals == {"redeem", "rotate", "revoke", "logout"}

IsExpired(row) == now > row.created + row.lifetime

Present(k) == grants[k] # NoRow

\* The rows of a set of keys, as a tracking query returns them.
RowsOf(K) == {<<k, grants[k].id>> : k \in {j \in K : Present(j)}}

Unchanged(found) == \A t \in found : Present(t[1]) /\ grants[t[1]].id = t[2]

NoLocals == [kind |-> "logout", key |-> 0, row |-> NoRow, found |-> {},
             stuck |-> FALSE, replay |-> FALSE]

Init ==
    /\ client \in [Auths -> Clients]
    /\ now = 0
    /\ grants = [k \in Keys |->
                   IF k \in Auths THEN [id |-> 1, auth |-> k, created |-> 0,
                                        lifetime |-> CodeLifetime, consumed |-> FALSE]
                                  ELSE NoRow]
    /\ inserts = [k \in Keys |-> IF k \in Auths THEN 1 ELSE 0]
    /\ known = {}
    /\ pc = [r \in Requests |-> "idle"]
    /\ loc = [r \in Requests |-> NoLocals]
    /\ spent = {} /\ revoked = {}
    /\ started = [h \in Handles |-> 0]
    /\ used = [h \in Handles |-> 0]

-----------------------------------------------------------------------------
(* Lifetimes. *)

\* Mutant: a lifetime grows without bound.
Uncapped(a, t) == t

Cap(a, t) ==
    IF client[a].absolute > 0 /\ t > client[a].absolute THEN client[a].absolute ELSE t

\* CreateRefreshTokenAsync.
NewRow(a) ==
    [id |-> 0, auth |-> a, created |-> now, consumed |-> FALSE,
     lifetime |-> IF client[a].sliding > 0 THEN Cap(a, client[a].sliding)
                                          ELSE client[a].absolute]

\* Mutant: the age of the token with the wrong sign.
SlideBack(row) ==
    LET a == row.auth
    IN IF client[a].sliding = 0 THEN row
       ELSE [row EXCEPT !.lifetime = Cap(a, row.created - now + client[a].sliding)]

\* UpdateRefreshTokenAsync: a sliding lifetime is extended from now on.
Slide(row) ==
    LET a == row.auth
    IN IF client[a].sliding = 0 THEN row
       ELSE [row EXCEPT !.lifetime = Cap(a, now - row.created + client[a].sliding)]

-----------------------------------------------------------------------------
(* Steps of a request. *)

Goto(r, label, l) ==
    /\ pc' = [pc EXCEPT ![r] = label]
    /\ loc' = [loc EXCEPT ![r] = l]

End(r) == Goto(r, "idle", NoLocals)

Begin(r, label, kind, key, row) ==
    /\ pc[r] = "idle"
    /\ Goto(r, label, [NoLocals EXCEPT !.kind = kind, !.key = key, !.row = row,
                                       !.replay = kind # "revoke" /\ key \in spent])
    /\ UNCHANGED <<client, now, grants, inserts, known, spent, revoked, started, used>>

\* Mutant: the token is not removed.
RevokeNothing(r, h) ==
    /\ h \in known /\ Present(h)
    /\ Begin(r, "removed", "revoke", h, NoRow)

\* ValidateAuthorizationCodeRequestAsync: the code exists; it is removed
\* before its lifetime is looked at.
Redeem(r, a) ==
    /\ Present(a)
    /\ Begin(r, "query", "redeem", a, grants[a])

\* Mutant: the consumed time is not looked at.
ValidIfConsumed(h) == Present(h) /\ ~IsExpired(grants[h])

\* ValidateRefreshTokenAsync accepts the token of the handle.
Valid(h) == Present(h) /\ ~IsExpired(grants[h]) /\ ~grants[h].consumed

OneTime(a) == client[a].usage # "extend"

NeedsUpdate(a) == OneTime(a) \/ client[a].updates \/ client[a].sliding > 0

Refresh(r, h) ==
    /\ h \in known /\ Valid(h)
    /\ LET a == grants[h].auth
       IN Begin(r, IF NeedsUpdate(a) THEN "query" ELSE "answer", client[a].usage, h, grants[h])

\* RevokeRefreshTokenAsync of the revocation endpoint.
Revoke(r, h) ==
    /\ h \in known /\ Present(h)
    /\ Begin(r, "query", "revoke", h, NoRow)

\* RemoveAllAsync for the session at logout or when the session expires.
Logout(r) == Begin(r, "query", "logout", 0, NoRow)

\* What a request does after it has removed or updated its grant.
Continue(r, l) ==
    CASE l.kind = "redeem" -> IF IsExpired(l.row) THEN End(r) ELSE Goto(r, "create", l)
      [] l.kind \in {"rotate", "consume"} ->
            Goto(r, "create", [l EXCEPT !.found = {},
                                      !.row = Slide([@ EXCEPT !.consumed = FALSE])])
      [] l.kind = "extend" -> Goto(r, "answer", [l EXCEPT !.row = NoRow, !.found = {}])
      [] OTHER -> Goto(r, "removed", l)

\* Mutant: a used token is stored as it was.
UpdatedUnmarked(l) == IF l.kind = "extend" THEN Slide(l.row) ELSE l.row

\* A token is marked as consumed, or its lifetime extended, before it is stored.
Updated(l) ==
    CASE l.kind = "consume" -> [l.row EXCEPT !.consumed = TRUE]
      [] l.kind = "extend" -> Slide(l.row)
      [] OTHER -> l.row

\* The first half of RemoveAsync, RemoveAllAsync and StoreAsync.
Query(r) ==
    LET found == RowsOf(IF loc[r].kind = "logout" THEN Keys ELSE {loc[r].key})
        l == [loc[r] EXCEPT !.found = found, !.row = Updated(loc[r])]
    IN /\ pc[r] = "query"
       /\ used' = IF loc[r].kind = "extend" THEN [used EXCEPT ![loc[r].key] = now]
                                            ELSE used
       /\ IF found = {} /\ loc[r].kind \in Removals THEN Continue(r, l)
                                                    ELSE Goto(r, "save", l)
       /\ UNCHANGED <<client, now, grants, inserts, known, spent, revoked, started>>

\* SaveChanges did what was pending.
SaveDone(r) ==
    LET l == loc[r]
        keys == {t[1] : t \in l.found}
    IN /\ pc[r] = "save" /\ Unchanged(l.found)
       /\ \/ /\ l.kind \in Removals
             /\ grants' = [k \in Keys |-> IF k \in keys THEN NoRow ELSE grants[k]]
             /\ UNCHANGED inserts
          \/ /\ l.kind \notin Removals /\ l.found # {}
             /\ grants' = [grants EXCEPT ![l.key] = [l.row EXCEPT !.id = grants[l.key].id]]
             /\ UNCHANGED inserts
          \/ /\ l.kind \notin Removals /\ l.found = {}
             /\ ~Present(l.key) /\ inserts[l.key] < MaxInserts
             /\ grants' = [grants EXCEPT ![l.key] = [l.row EXCEPT !.id = inserts[l.key] + 1]]
             /\ inserts' = [inserts EXCEPT ![l.key] = @ + 1]
       /\ Continue(r, l)
       /\ UNCHANGED <<client, now, known, spent, revoked, started, used>>

\* A row was gone: DbUpdateConcurrencyException is caught and logged.
SaveFails(r) ==
    /\ pc[r] = "save" /\ ~Unchanged(loc[r].found)
    /\ Continue(r, [loc[r] EXCEPT !.stuck = TRUE])
    /\ UNCHANGED <<client, now, grants, inserts, known, spent, revoked, started, used>>

\* The key was inserted meanwhile: the unique index refuses it and the
\* exception ends the request.
InsertClashes(r) ==
    /\ pc[r] = "save" /\ loc[r].kind \notin Removals
    /\ loc[r].found = {} /\ Present(loc[r].key)
    /\ End(r)
    /\ UNCHANGED <<client, now, grants, inserts, known, spent, revoked, started, used>>

\* StoreRefreshTokenAsync under a new handle.
Create(r) ==
    LET l == loc[r]
        row == IF l.kind = "redeem" THEN NewRow(l.key) ELSE l.row
    IN /\ pc[r] = "create"
       /\ \E h \in Handles :
            /\ inserts[h] = 0 /\ \A g \in 1..(h - 1) : inserts[g] # 0
            /\ inserts' = [inserts EXCEPT ![h] = 1]
            /\ grants' = IF l.stuck THEN grants
                         ELSE [grants EXCEPT ![h] = [row EXCEPT !.id = 1]]
            /\ started' = [started EXCEPT ![h] =
                             IF l.kind = "redeem" THEN now ELSE started[l.key]]
            /\ used' = [used EXCEPT ![h] = now]
            /\ Goto(r, "answer", [l EXCEPT !.row = NoRow, !.found = {<<h, 1>>}])
       /\ UNCHANGED <<client, now, known, spent, revoked>>

\* The response carries the new handle, or the one that was extended.
Answer(r) ==
    LET l == loc[r] IN
    /\ pc[r] = "answer"
    /\ IF l.kind = "extend" THEN UNCHANGED <<known, spent>>
       ELSE /\ known' = known \union {t[1] : t \in l.found}
            /\ spent' = spent \union {l.key}
    /\ End(r)
    /\ UNCHANGED <<client, now, grants, inserts, revoked, started, used>>

\* A revocation or a logout is over.
Done(r) ==
    /\ pc[r] = "removed"
    /\ revoked' = IF loc[r].kind = "revoke" THEN revoked \union {loc[r].key} ELSE revoked
    /\ End(r)
    /\ UNCHANGED <<client, now, grants, inserts, known, spent, started, used>>

\* The database throws, the user is no longer active, the process dies or the
\* connection is lost: no answer.
Abort(r) ==
    /\ pc[r] # "idle"
    /\ End(r)
    /\ UNCHANGED <<client, now, grants, inserts, known, spent, revoked, started, used>>

\* TokenCleanupService: an expired or a consumed row is deleted, in a
\* statement of its own.
CleanUp(k) ==
    /\ Present(k) /\ (IsExpired(grants[k]) \/ grants[k].consumed)
    /\ grants' = [grants EXCEPT ![k] = NoRow]
    /\ UNCHANGED <<client, now, inserts, known, pc, loc, spent, revoked, started, used>>

Tick ==
    /\ now < MaxTime
    /\ now' = now + 1
    /\ UNCHANGED <<client, grants, inserts, known, pc, loc, spent, revoked, started, used>>

Next ==
    \/ \E r \in Requests :
          \/ \E a \in Auths : Redeem(r, a)
          \/ \E h \in Handles : Refresh(r, h) \/ Revoke(r, h)
          \/ Logout(r)
          \/ Query(r) \/ SaveDone(r) \/ SaveFails(r) \/ InsertClashes(r)
          \/ Create(r) \/ Answer(r) \/ Done(r) \/ Abort(r)
    \/ \E k \in Keys : CleanUp(k)
    \/ Tick

Spec == Init /\ [][Next]_vars

-----------------------------------------------------------------------------
(***************************************************************************)
(* Properties                                                              *)
(***************************************************************************)
Locals == [kind : Kinds, key : Keys \union {0}, row : Rows \union {NoRow},
           found : SUBSET (Keys \X Nat), stuck : BOOLEAN, replay : BOOLEAN]

\* The type of the state.
TypeOK ==
    /\ client \in [Auths -> Clients] /\ now \in Nat
    /\ grants \in [Keys -> Rows \union {NoRow}]
    /\ inserts \in [Keys -> Nat]
    /\ known \in SUBSET Handles
    /\ pc \in [Requests -> {"idle", "query", "save", "create", "answer", "removed"}]
    /\ loc \in [Requests -> Locals]
    /\ spent \in SUBSET Keys /\ revoked \in SUBSET Handles
    /\ started \in [Handles -> Nat] /\ used \in [Handles -> Nat]

\* A code or a one-time token is exchanged once: no request that arrives after
\* another was answered for the same handle comes to create a new token.
NoReplay ==
    \A r \in Requests : pc[r] \in {"create", "answer"} => ~loc[r].replay

\* Codes and one-time tokens that have left the store do not come back, but
\* as consumed ones: whatever update of theirs is still under way.
SingleUse(k) == k \in Auths \/ (Present(k) /\ OneTime(grants[k].auth))

GoneForGood ==
    [][\A k \in Keys : (inserts[k] > 0 /\ ~Present(k) /\ Present(k)') =>
          (SingleUse(k)' => grants'[k].consumed)]_vars

\* A token is accepted only within its client's absolute lifetime from the
\* creation of the first token of its chain, when the code was redeemed, on,
\* however often it was exchanged or extended, and not when it was left
\* unused for longer than the sliding lifetime.
AcceptedInTime ==
    [][\A r \in Requests, h \in Handles : Refresh(r, h) =>
          LET c == client[grants[h].auth]
          IN /\ c.absolute > 0 => now <= started[h] + c.absolute
             /\ c.sliding > 0 => now <= used[h] + c.sliding]_vars

\* A revoked one-time token, or one whose use does not update it, is not
\* accepted again, even if it was being exchanged during the revocation.
RevokedRejected ==
    \A h \in revoked : Valid(h) =>
        ~OneTime(grants[h].auth) /\ NeedsUpdate(grants[h].auth)

\* "Removes all grants that satisfy the conditions": none of the grants the
\* query of RemoveAllAsync found are left when it is over.
RemovesAll ==
    \A r \in Requests : (pc[r] = "removed" /\ loc[r].kind = "logout") =>
        \A t \in loc[r].found : ~Unchanged({t})

\* "Replaces the stored data for an existing refresh token": a reusable token
\* that was revoked is not stored again, where it would still be accepted.
UpdatesExisting == \A h \in revoked : Valid(h) => OneTime(grants[h].auth)

\* "Persists a new refresh token and returns the opaque handle": the handle
\* a request goes on with is that of a token in the store.
PersistsNew ==
    [][\A r \in Requests : Create(r) => \E h \in Handles : ~Present(h) /\ Present(h)']_vars

-----------------------------------------------------------------------------
(***************************************************************************)
(* The abstract specification                                              *)
(***************************************************************************)
Live(k) == Present(k) /\ ~grants[k].consumed /\ SingleUse(k)

\* The code or one-time token a request exchanges.
Held(r) == IF loc[r].kind \in {"redeem", "rotate", "consume"} THEN loc[r].key ELSE 0

Abstract == INSTANCE OneTimeGrants WITH
    Grants <- Keys, None <- 0,
    issued <- {k \in Keys : inserts[k] > 0},
    live <- {k \in Keys : Live(k)},
    holder <- [r \in Requests |-> Held(r)],
    spent <- spent

\* Codes and one-time tokens are one-time grants: claimed only while they are
\* stored and unused, never live again, and no answer leaves one live.
ImplementsOneTimeGrants == Abstract!Spec

=============================================================================
