------------------------- MODULE ServerSideSessions -------------------------
(***************************************************************************)
(* The server-side sessions of one user: created at sign-in, rewritten by  *)
(* every request that renews the cookie, adds a client or uses a token,    *)
(* ended by sign-out, by an administrator, by a request that finds its     *)
(* session expired, or by the cleanup hosts.  An action is one stretch     *)
(* between two database calls.                                             *)
(*                                                                         *)
(* The store is the Entity Framework one: a change is a tracking query and *)
(* SaveChanges, which does all of it or, if a row is gone, nothing.  The   *)
(* exception is logged; the change stays pending in the request's          *)
(* DbContext, so that later saves of the request fail as well.             *)
(***************************************************************************)
EXTENDS Integers, FiniteSets

CONSTANTS
    Requests,           \* concurrent requests
    Hosts,              \* cleanup hosts, one for each server
    Sessions,           \* session keys; each has its own session id
    Clients,
    Coordinated,        \* clients whose tokens live as long as the session
    Lifetime,
    BatchSize,          \* RemoveExpiredSessionsBatchSize
    NoRow,
    MaxInserts,         \* bound of the model on rows for one key
    MaxTime             \* bound of the model on the clock

\* The rows of the table of sessions.
Rows == [id : Nat, expires : Nat, clients : SUBSET Clients, persistent : BOOLEAN]

\* Three conflicts of a cleanup's save are survived (see RetryRemove).
ASSUME SessionAssumption ==
    /\ Requests \cap Hosts = {}
    /\ Coordinated \subseteq Clients /\ NoRow \notin Sessions \union Rows
    /\ Lifetime \in Nat \ {0} /\ BatchSize \in 1..3
    /\ MaxInserts \in Nat \ {0} /\ MaxTime \in Nat

VARIABLES
    now,
    row,                \* the table, by key: a row or none
    inserts,            \* rows inserted so far, by key: the next row's Id
    tokens,             \* codes and tokens: <<session, client>>
    pc, loc,            \* where a request or a host is, and its locals
    due,                \* sessions that were removed as expired and not yet
                        \* processed, unless that broke off
    ended               \* sessions that a sign-out or an administrator removed

vars == <<now, row, inserts, tokens, pc, loc, due, ended>>
table == <<row, inserts>>
history == <<due, ended>>

Processes == Requests \union Hosts

Present(k) == row[k] # NoRow

IsExpired(k) == row[k].expires < now

RowsOf(K) == {<<k, row[k].id>> : k \in {j \in K : Present(j)}}

Unchanged(found) == \A t \in found : Present(t[1]) /\ row[t[1]].id = t[2]

\* Sessions as they were read.
Copies(K) == {[key |-> k, clients |-> row[k].clients] : k \in {j \in K : Present(j)}}

\* The requests that write a session they have read.
Renewing == {"page", "authorize", "token"}

NoLocals == [kind |-> "page", key |-> NoRow, client |-> NoRow, ticket |-> NoRow,
             found |-> {}, todo |-> {}, stuck |-> FALSE, stale |-> FALSE,
             late |-> FALSE]

Init ==
    /\ now = 0
    /\ row = [k \in Sessions |-> NoRow]
    /\ inserts = [k \in Sessions |-> 0]
    /\ tokens = {}
    /\ pc = [p \in Processes |-> "idle"]
    /\ loc = [p \in Processes |-> NoLocals]
    /\ due = {} /\ ended = {}

Goto(p, label, l) ==
    /\ pc' = [pc EXCEPT ![p] = label]
    /\ loc' = [loc EXCEPT ![p] = l]

End(p) == Goto(p, "idle", NoLocals)

-----------------------------------------------------------------------------
(* Requests with the user's cookie. *)

\* StoreAsync under a new key.
SignIn(k) ==
    /\ inserts[k] = 0
    /\ \E persistent \in BOOLEAN :
          row' = [row EXCEPT ![k] = [id |-> 1, expires |-> now + Lifetime,
                                     clients |-> {}, persistent |-> persistent]]
    /\ inserts' = [inserts EXCEPT ![k] = 1]
    /\ UNCHANGED <<now, tokens, pc, loc, history>>

Begin(r, label, kind, k, client, ticket) ==
    /\ pc[r] = "idle"
    /\ Goto(r, label, [NoLocals EXCEPT !.kind = kind, !.key = k, !.client = client,
                                       !.ticket = ticket, !.late = k \in ended])
    /\ UNCHANGED <<now, table, tokens, history>>

\* What is read of a session, to be written back.
Ticket(k) == [row[k] EXCEPT !.id = 0]

\* Mutants: the lifetime with the wrong sign; the client list is forgotten.
Shortened(k) == [Ticket(k) EXCEPT !.expires = now - Lifetime]
Emptied(k) == [Ticket(k) EXCEPT !.expires = now + Lifetime, !.clients = {}]

Extended(k) == [Ticket(k) EXCEPT !.expires = now + Lifetime]

\* RetrieveAsync.  The cookie handler drops an expired session, and may renew
\* one at the end of any request; adding a client keeps the expiration.
Authenticate(r, k) ==
    /\ Present(k)
    /\ \/ /\ IsExpired(k)
          /\ Begin(r, "lookup", "expired", k, NoRow, NoRow)
       \/ /\ ~IsExpired(k)
          /\ \/ Begin(r, "get", "page", k, NoRow, Extended(k))
             \/ \E c \in Clients : Begin(r, "issue", "authorize", k, c, Ticket(k))
             \/ Begin(r, "lookup", "signout", k, NoRow, Ticket(k))

\* The code is stored; AddClientIdAsync writes a new client into the ticket.
Issue(r) ==
    LET l == loc[r] IN
    /\ pc[r] = "issue"
    /\ tokens' = tokens \union {<<l.key, l.client>>}
    /\ IF l.client \in l.ticket.clients THEN End(r)
       ELSE Goto(r, "get", [l EXCEPT !.client = NoRow, !.ticket.clients = @ \union {l.client}])
    /\ UNCHANGED <<now, table, history>>

\* RenewAsync reads the session, which may be gone.
Get(r) ==
    /\ pc[r] = "get"
    /\ Goto(r, IF Present(loc[r].key) THEN "query" ELSE "create", loc[r])
    /\ UNCHANGED <<now, table, tokens, history>>

\* The cookie is renewed, the client recorded or the token accepted.  If the
\* row was written, other requests have an older one now.
Answer(r, written) ==
    LET l == loc[r] IN
    /\ pc' = [pc EXCEPT ![r] = "idle"]
    /\ loc' = [p \in Processes |->
         IF p = r THEN NoLocals
         ELSE IF written /\ loc[p].key = l.key /\ loc[p].kind \in Renewing /\ loc[p].ticket # NoRow
              THEN [loc[p] EXCEPT !.stale = TRUE] ELSE loc[p]]
    /\ UNCHANGED <<now, tokens, history>>

\* CreateSessionAsync; a row that is already there is left alone.
Create(r) ==
    LET k == loc[r].key IN
    /\ pc[r] = "create"
    /\ \/ /\ ~Present(k) /\ inserts[k] < MaxInserts
          /\ row' = [row EXCEPT ![k] = [loc[r].ticket EXCEPT !.id = inserts[k] + 1]]
          /\ inserts' = [inserts EXCEPT ![k] = @ + 1]
          /\ Answer(r, TRUE)
       \/ Present(k) /\ Answer(r, FALSE) /\ UNCHANGED table

\* UpdateSessionAsync finds the row, or does nothing.
Query(r) ==
    /\ pc[r] = "query"
    /\ \/ /\ Present(loc[r].key)
          /\ Goto(r, "save", [loc[r] EXCEPT !.found = RowsOf({loc[r].key})])
          /\ UNCHANGED <<now, table, tokens, history>>
       \/ ~Present(loc[r].key) /\ Answer(r, FALSE) /\ UNCHANGED table

\* ... and writes all of the ticket.
Save(r) ==
    LET k == loc[r].key IN
    /\ pc[r] = "save" /\ Unchanged(loc[r].found)
    /\ row' = [row EXCEPT ![k] = [loc[r].ticket EXCEPT !.id = row[k].id]]
    /\ Answer(r, TRUE)
    /\ UNCHANGED inserts

SaveFails(r) ==
    /\ pc[r] = "save" /\ ~Unchanged(loc[r].found)
    /\ Answer(r, FALSE) /\ UNCHANGED table

-----------------------------------------------------------------------------
(* Token requests. *)

\* A coordinated client presents a refresh or access token.  Any other token
\* is accepted without a look at the session, and changes nothing here.
UseToken(r, k, c) ==
    /\ <<k, c>> \in tokens /\ c \in Coordinated
    /\ Begin(r, "validate", "token", k, c, NoRow)

ValidSession(k) == Present(k) /\ now < row[k].expires

\* Mutant: a missing session is as good as a valid one.
ValidateExpired(r) ==
    LET l == loc[r] IN
    /\ pc[r] = "validate"
    /\ IF Present(l.key) /\ ~ValidSession(l.key) THEN End(r)
       ELSE Goto(r, "query", [l EXCEPT !.client = NoRow,
                   !.ticket = IF Present(l.key) THEN Extended(l.key) ELSE NoRow])
    /\ UNCHANGED <<now, table, tokens, history>>

\* ValidateSessionAsync: the token is refused, or the new expiration stored.
Validate(r) ==
    LET l == loc[r] IN
    /\ pc[r] = "validate"
    /\ IF ~ValidSession(l.key) THEN End(r)
       ELSE Goto(r, IF row[l.key].persistent THEN "retrieve" ELSE "query",
                 [l EXCEPT !.client = NoRow, !.ticket = Extended(l.key)])
    /\ UNCHANGED <<now, table, tokens, history>>

\* With a persistent cookie the ticket is read again, to be renewed.
Retrieve(r) ==
    LET k == loc[r].key IN
    /\ pc[r] = "retrieve"
    /\ IF Present(k) THEN Goto(r, "get", [loc[r] EXCEPT !.ticket.clients = row[k].clients])
                     ELSE Goto(r, "query", loc[r])
    /\ UNCHANGED <<now, table, tokens, history>>

-----------------------------------------------------------------------------
(* Removal of sessions. *)

\* Mutant: nobody processes the session that is removed.
LookupNothing(r) ==
    /\ pc[r] = "lookup"
    /\ Goto(r, "find", loc[r])
    /\ UNCHANGED <<now, table, tokens, history>>

\* RemoveAsync of the ticket store: an expired session is kept for processing.
Lookup(r) ==
    LET l == loc[r] IN
    /\ pc[r] = "lookup"
    /\ Goto(r, "find", [l EXCEPT !.todo = IF l.kind = "expired" THEN Copies({l.key}) ELSE {}])
    /\ UNCHANGED <<now, table, tokens, history>>

\* RemoveAllAsync of the grant store.  On a conflict, over a row of T that is
\* gone by the time of the save, nothing is removed; that is only logged.
RemoveAll(T, conflict) ==
    IF conflict THEN T \cap tokens # {} /\ UNCHANGED tokens ELSE tokens' = tokens \ T

\* RemoveSessionsAsync for the user: the tokens go first.
RemoveSessions(r) ==
    /\ Begin(r, "revoke", "remove", NoRow, NoRow, NoRow)

Revoke(r) ==
    /\ pc[r] = "revoke"
    /\ \E conflict \in BOOLEAN :
          /\ RemoveAll(Sessions \X Clients, conflict)
          /\ Goto(r, "find", [loc[r] EXCEPT !.stuck = conflict])
    /\ UNCHANGED <<now, table, history>>

\* What a request does when its sessions have been deleted.
Deleted(r, l) ==
    CASE l.kind = "expired" /\ l.todo # {} -> Goto(r, "expire", l)
      [] l.kind = "signout" -> Goto(r, "logout", l)
      [] OTHER -> End(r)

\* DeleteSessionAsync, DeleteSessionsAsync: the query.
Find(r) ==
    LET l == loc[r]
        found == RowsOf(IF l.kind = "remove" THEN Sessions ELSE {l.key})
    IN /\ pc[r] = "find"
       /\ IF found = {} THEN Deleted(r, l) ELSE Goto(r, "delete", [l EXCEPT !.found = found])
       /\ UNCHANGED <<now, table, tokens, history>>

Without(K) == [k \in Sessions |-> IF k \in K THEN NoRow ELSE row[k]]

Delete(r) ==
    LET l == loc[r]
        keys == {t[1] : t \in l.found}
    IN /\ pc[r] = "delete" /\ Unchanged(l.found) /\ ~l.stuck
       /\ row' = Without(keys)
       /\ due' = IF l.kind = "expired" THEN due \union keys ELSE due
       /\ ended' = IF l.kind = "remove" THEN ended \union keys ELSE ended
       /\ Deleted(r, l)
       /\ UNCHANGED <<now, inserts, tokens>>

DeleteFails(r) ==
    /\ pc[r] = "delete" /\ (~Unchanged(loc[r].found) \/ loc[r].stuck)
    /\ Deleted(r, [loc[r] EXCEPT !.stuck = TRUE])
    /\ UNCHANGED <<now, table, tokens, history>>

\* The grants of the coordinated clients; none if the request is stuck.
Revoked(l, k, clients) ==
    IF l.stuck THEN {} ELSE {<<k, c>> : c \in clients \intersect Coordinated}

\* ProcessLogoutAsync, when the response starts.
Logout(r) ==
    LET l == loc[r] IN
    /\ pc[r] = "logout"
    /\ \E conflict \in BOOLEAN : RemoveAll(Revoked(l, l.key, l.ticket.clients), conflict)
    /\ ended' = IF Present(l.key) THEN ended ELSE ended \union {l.key}
    /\ End(r)
    /\ UNCHANGED <<now, table, due>>

-----------------------------------------------------------------------------
(* Cleanup. *)

\* GetAndRemoveExpiredSessionsAsync: the query.
Sweep(h) ==
    LET old == {k \in Sessions : Present(k) /\ IsExpired(k)} IN
    /\ pc[h] = "idle" /\ old # {}
    /\ \E K \in SUBSET old :
          /\ Cardinality(K) = IF Cardinality(old) < BatchSize THEN Cardinality(old)
                                                              ELSE BatchSize
          /\ Goto(h, "remove", [NoLocals EXCEPT !.kind = "cleanup", !.found = RowsOf(K),
                                                !.todo = Copies(K)])
    /\ UNCHANGED <<now, table, tokens, history>>

\* Rows are deleted by Id, whatever became of them since.
Remove(h) ==
    LET l == loc[h]
        keys == {t[1] : t \in l.found}
    IN /\ pc[h] = "remove" /\ Unchanged(l.found)
       /\ row' = Without(keys)
       /\ due' = due \union keys
       /\ IF l.todo = {} THEN End(h) ELSE Goto(h, "expire", [l EXCEPT !.found = {}])
       /\ UNCHANGED <<now, inserts, tokens, ended>>

\* SaveChangesWithConcurrencyCheckAsync: somebody else has deleted a row, and
\* will process it.
RetryRemove(h) ==
    LET l == loc[h] IN
    /\ pc[h] = "remove"
    /\ \E t \in l.found :
          /\ ~Unchanged({t})
          /\ Goto(h, "remove", [l EXCEPT !.found = @ \ {t},
                                         !.todo = {s \in @ : s.key # t[1]}])
    /\ UNCHANGED <<now, table, tokens, history>>

\* ProcessExpirationAsync: the tokens of the coordinated clients are removed,
Expire(p) ==
    /\ pc[p] = "expire"
    /\ \E s \in loc[p].todo, conflict \in BOOLEAN :
          /\ RemoveAll(Revoked(loc[p], s.key, s.clients), conflict)
          /\ Goto(p, "notify", [loc[p] EXCEPT !.key = s.key, !.stuck = @ \/ conflict])
    /\ UNCHANGED <<now, table, history>>

\* ... and the clients notified.
Notify(p) ==
    LET rest == {s \in loc[p].todo : s.key # loc[p].key}
    IN /\ pc[p] = "notify"
       /\ due' = due \ {loc[p].key}
       /\ IF rest = {} THEN End(p) ELSE Goto(p, "expire", [loc[p] EXCEPT !.todo = rest])
       /\ UNCHANGED <<now, table, tokens, ended>>

\* The sessions whose expiration a request or a host will process.
ToProcess(p) == IF pc[p] = "remove" THEN {} ELSE {s.key : s \in loc[p].todo}

\* A database call throws, the connection is lost, or the process stops.
Abort(p) ==
    /\ pc[p] # "idle"
    /\ due' = due \intersect UNION {ToProcess(q) : q \in Processes \ {p}}
    /\ End(p)
    /\ UNCHANGED <<now, table, tokens, ended>>

Tick ==
    /\ now < MaxTime
    /\ now' = now + 1
    /\ UNCHANGED <<table, tokens, pc, loc, history>>

Next ==
    \/ \E k \in Sessions : SignIn(k)
    \/ \E r \in Requests :
          \/ \E k \in Sessions : Authenticate(r, k) \/ \E c \in Clients : UseToken(r, k, c)
          \/ Issue(r) \/ Get(r) \/ Create(r) \/ Query(r) \/ Save(r) \/ SaveFails(r)
          \/ Validate(r) \/ Retrieve(r)
          \/ RemoveSessions(r) \/ Revoke(r)
          \/ Lookup(r) \/ Find(r) \/ Delete(r) \/ DeleteFails(r) \/ Logout(r)
    \/ \E h \in Hosts : Sweep(h) \/ Remove(h) \/ RetryRemove(h)
    \/ \E p \in Processes : Expire(p) \/ Notify(p) \/ Abort(p)
    \/ Tick

Spec == Init /\ [][Next]_vars

-----------------------------------------------------------------------------
(***************************************************************************)
(* Properties                                                              *)
(***************************************************************************)
Ids == Sessions \X Nat

Locals == [kind : {"page", "authorize", "token", "expired", "signout", "remove", "cleanup"},
           key : Sessions \union {NoRow}, client : Clients \union {NoRow},
           ticket : Rows \union {NoRow}, found : SUBSET Ids,
           todo : SUBSET [key : Sessions, clients : SUBSET Clients],
           stuck : BOOLEAN, stale : BOOLEAN, late : BOOLEAN]

\* The type of the state.
TypeOK ==
    /\ now \in Nat
    /\ row \in [Sessions -> Rows \union {NoRow}]
    /\ inserts \in [Sessions -> Nat]
    /\ tokens \in SUBSET (Sessions \X Clients)
    /\ pc \in [Processes -> {"idle", "issue", "get", "create", "query", "save",
                 "validate", "retrieve", "lookup", "find", "delete", "revoke",
                 "logout", "remove", "expire", "notify"}]
    /\ loc \in [Processes -> Locals]
    /\ due \in SUBSET Sessions /\ ended \in SUBSET Sessions

\* A session that was removed as expired is processed as such, or somebody has
\* still to do it: whoever removed it, or else found it removed already.  The
\* exceptions are a session that a renewal under way had stored again, and one
\* whose last such process broke off between the removal and the end of the
\* processing: Abort takes it out of due, since nothing in the code resumes it.
ExpirationProcessed ==
    \A k \in due : inserts[k] > 1 \/ \E p \in Processes : k \in ToProcess(p)

\* A write to a session drops a client from its list, or brings its expiration
\* forward, only if another write came between the read and it.
LostByOverlapOnly ==
    [][\A k \in Sessions :
          (Present(k) /\ Present(k)' /\ ( \/ ~(row[k].clients \subseteq row'[k].clients)
                                          \/ row'[k].expires < row[k].expires))
          => \E r \in Requests : pc[r] = "save" /\ loc[r].key = k /\ loc[r].stale]_vars

\* Once a session was removed by its sign-out or by an administrator, no request
\* that comes later gets past the first check, with its cookie or with a
\* coordinated client's token, unless a renewal under way stored it again.  A
\* removal that fails over a conflict has removed nothing, though its caller
\* goes on.
EndedForGood ==
    \A r \in Requests : loc[r].late =>
        pc[r] = "validate" \/ inserts[loc[r].key] > 1

\* "Records that the specified client has participated in the current user's
\* session": a client that is in the list of a session stays there.
ClientsKept ==
    [][\A k \in Sessions : (Present(k) /\ Present(k)') =>
          row[k].clients \subseteq row'[k].clients]_vars

=============================================================================
