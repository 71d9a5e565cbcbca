--------------------------- MODULE PollingGrants ---------------------------
(***************************************************************************)
(* Grants a client polls for while a user decides about them: the codes of *)
(* the device flow and the requests of client-initiated backchannel        *)
(* authentication (CIBA).  Polls and users' decisions run concurrently, on *)
(* any number of servers, over the database and a distributed cache that   *)
(* holds the time of the last poll.  An action is one stretch between two  *)
(* of their calls.                                                         *)
(*                                                                         *)
(* A write to the database is a tracking query followed by SaveChanges; if *)
(* the row is gone by then, the exception is logged and the request goes   *)
(* on.                                                                     *)
(***************************************************************************)
EXTENDS Integers, FiniteSets

CONSTANTS
    Requests,           \* concurrent requests: polls and decisions
    Grants,             \* device codes, or CIBA requests
    DefaultInterval,    \* DeviceFlow.Interval and Ciba.DefaultPollingInterval
    ClientIntervals,    \* settings of Client.PollingInterval, or None
    Lifetime,
    None,
    MaxInserts,         \* bound of the model on rows for one grant
    MaxTime             \* bound of the model on the clock

Flows == {"device", "ciba"}

\* The rows of the table of a flow, and what the cache holds for a grant.
Rows == [id : Nat, created : Nat, decision : {"none", "approve", "deny"}]
Entries == [at : Nat, expires : Nat]

ASSUME PollingAssumption ==
    /\ DefaultInterval \in [Flows -> Nat]
    /\ ClientIntervals \subseteq Nat \union {None}
    /\ None \notin Nat \union Grants \union Rows \union Entries
    /\ Lifetime \in Nat
    /\ MaxInserts \in Nat \ {0} /\ MaxTime \in Nat

VARIABLES
    flow, interval,     \* the flow of a grant, its client's PollingInterval
    now,
    row,                \* the table, by grant: a row or none
    inserts,            \* rows inserted so far: the next row's Id
    seen,               \* the cache, by grant: the last poll
    pc, loc,            \* where a request is, and its locals
    final,              \* grants a poll was answered for with tokens or, in
                        \* CIBA, with the denial
    answered,           \* when the last poll of a grant was over
    passed              \* when the last lone poll was not slowed down

vars == <<flow, interval, now, row, inserts, seen, pc, loc, final, answered, passed>>
table == <<row, inserts>>
settings == <<flow, interval>>
history == <<final, answered, passed>>

Present(g) == row[g] # None

\* The lifetime check of a poll, and what the cleanup deletes.
IsExpired(r) == r.created + Lifetime < now

\* The throttling services ask the client first.
Enforced(g) == IF interval[g] = None THEN DefaultInterval[flow[g]] ELSE interval[g]

\* What the client is told when it starts: the device authorization response
\* has the default of the server whatever the client's own setting.
Told(g) == IF flow[g] = "device" THEN DefaultInterval["device"] ELSE Enforced(g)

NoLocals == [kind |-> "poll", grant |-> None, row |-> None, found |-> 0,
             last |-> None, stamp |-> 0, expires |-> 0, slow |-> FALSE,
             replay |-> FALSE, alone |-> FALSE, polite |-> FALSE]

Init ==
    /\ flow \in [Grants -> Flows]
    /\ interval \in [Grants -> ClientIntervals]
    /\ now = 0
    /\ row = [g \in Grants |-> None]
    /\ inserts = [g \in Grants |-> 0]
    /\ seen = [g \in Grants |-> None]
    /\ pc = [r \in Requests |-> "idle"]
    /\ loc = [r \in Requests |-> NoLocals]
    /\ final = {}
    /\ answered = [g \in Grants |-> None]
    /\ passed = [g \in Grants |-> None]

-----------------------------------------------------------------------------
Goto(r, label, l) ==
    /\ pc' = [pc EXCEPT ![r] = label]
    /\ loc' = [loc EXCEPT ![r] = l]

Polling(g) == {r \in Requests : pc[r] # "idle" /\ loc[r].kind = "poll" /\ loc[r].grant = g}

\* A request is over.
End(r) ==
    /\ Goto(r, "idle", NoLocals)
    /\ answered' = IF loc[r].kind = "poll" THEN [answered EXCEPT ![loc[r].grant] = now]
                                           ELSE answered

\* StoreDeviceAuthorizationAsync, CreateRequestAsync: under a new code.  The
\* model's clock starts with the grants: no code looks at absolute time.
Authorize(g) ==
    /\ inserts[g] = 0 /\ now = 0
    /\ row' = [row EXCEPT ![g] = [id |-> 1, created |-> now, decision |-> "none"]]
    /\ inserts' = [inserts EXCEPT ![g] = 1]
    /\ UNCHANGED <<settings, now, seen, pc, loc, history>>

\* ValidateAsync finds the grant; other polls of it are not alone any more.
Poll(r, g) ==
    /\ pc[r] = "idle" /\ Present(g)
    /\ pc' = [pc EXCEPT ![r] = "look"]
    /\ LET alone == Polling(g) = {}
       IN loc' = [q \in Requests |->
            IF q = r THEN [NoLocals EXCEPT !.grant = g, !.row = row[g],
                              !.replay = g \in final, !.alone = alone,
                              !.polite = alone /\ (answered[g] # None =>
                                                     now >= answered[g] + Told(g))]
            ELSE IF q \in Polling(g) THEN [loc[q] EXCEPT !.alone = FALSE, !.polite = FALSE]
            ELSE loc[q]]
    /\ UNCHANGED <<settings, now, table, seen, history>>

\* Mutant: the time a cache entry expires, with the wrong sign.
ExpiresBefore == now - Lifetime

ExpiresAt == now + Lifetime

\* ShouldSlowDown reads the cache.
Look(r) ==
    LET g == loc[r].grant IN
    /\ pc[r] = "look"
    /\ Goto(r, "judge",
            [loc[r] EXCEPT !.expires = ExpiresAt,
               !.last = IF seen[g] # None /\ now < seen[g].expires THEN seen[g].at
                                                                 ELSE None])
    /\ UNCHANGED <<settings, now, table, seen, history>>

\* Mutant: a poll at the very end of the interval is slowed down.
TooSoonInclusive(l) == l.last # None /\ now <= l.last + Enforced(l.grant)

TooSoon(l) == l.last # None /\ now < l.last + Enforced(l.grant)

\* ... compares, once it has the client, and takes the time to be recorded.
Judge(r) ==
    /\ pc[r] = "judge"
    /\ Goto(r, "record", [loc[r] EXCEPT !.slow = TooSoon(loc[r]), !.stamp = now, !.last = None])
    /\ UNCHANGED <<settings, now, table, seen, history>>

\* Mutant: only the first poll is recorded.
RecordedOnce(l) ==
    IF seen[l.grant] # None THEN seen
    ELSE [seen EXCEPT ![l.grant] = [at |-> l.stamp, expires |-> l.expires]]

Recorded(l) == [seen EXCEPT ![l.grant] = [at |-> l.stamp, expires |-> l.expires]]

\* The locals a poll still needs when its grant is decided.
Kept(l) == [NoLocals EXCEPT !.grant = l.grant, !.replay = l.replay]

\* The answer to a poll that is not too early, by the row it read: tokens, or
\* in CIBA a denial, once the row has been removed; otherwise an error.
Respond(r, l) ==
    LET decided == l.row.decision = "approve"
                    \/ (l.row.decision = "deny" /\ flow[l.grant] = "ciba")
    IN IF ~IsExpired(l.row) /\ decided
       THEN Goto(r, "query", Kept(l)) /\ UNCHANGED answered
       ELSE End(r)

\* The cache has the time of this poll.
Record(r) ==
    LET l == loc[r] IN
    /\ pc[r] = "record"
    /\ seen' = Recorded(l)
    /\ passed' = IF l.alone /\ ~l.slow THEN [passed EXCEPT ![l.grant] = l.stamp] ELSE passed
    /\ IF l.slow THEN End(r) ELSE Respond(r, l)
    /\ UNCHANGED <<settings, now, table, final>>

\* HandleRequestAsync and CompleteLoginRequestAsync: the grant exists; neither
\* looks at its lifetime or at an earlier decision.
Decide(r, g) ==
    /\ pc[r] = "idle" /\ Present(g)
    /\ \E d \in {"approve", "deny"} :
         Goto(r, "query", [NoLocals EXCEPT !.kind = "decide", !.grant = g,
                                           !.row = [row[g] EXCEPT !.decision = d]])
    /\ UNCHANGED <<settings, now, table, seen, history>>

\* The first half of a removal or an update; the device flow store does not
\* update a row that is not there.
Query(r) ==
    LET l == loc[r] IN
    /\ pc[r] = "query"
    /\ \/ /\ Present(l.grant) \/ (l.kind = "decide" /\ flow[l.grant] = "ciba")
          /\ Goto(r, "save", [l EXCEPT !.found = IF Present(l.grant) THEN row[l.grant].id ELSE 0])
          /\ UNCHANGED answered
       \/ /\ ~Present(l.grant) /\ l.kind = "poll"
          /\ Goto(r, "answer", l) /\ UNCHANGED answered
       \/ /\ ~Present(l.grant) /\ l.kind = "decide" /\ flow[l.grant] = "device"
          /\ End(r)
    /\ UNCHANGED <<settings, now, table, seen, final, passed>>

\* The row that was found is still there.
StillThere(l) == Present(l.grant) /\ row[l.grant].id = l.found

\* Mutant: the grant is answered for but stays.
SaveNothing(r) ==
    /\ pc[r] = "save" /\ loc[r].kind = "poll"
    /\ Goto(r, "answer", loc[r])
    /\ UNCHANGED <<settings, now, table, seen, history>>

\* SaveChanges of a poll: the row is removed, now or by somebody else.
SaveRemoval(r) ==
    LET l == loc[r] IN
    /\ pc[r] = "save" /\ l.kind = "poll"
    /\ row' = IF StillThere(l) THEN [row EXCEPT ![l.grant] = None] ELSE row
    /\ Goto(r, "answer", l)
    /\ UNCHANGED <<settings, now, inserts, seen, history>>

\* SaveChanges of a decision: the row that was read, with it, is written back;
\* in CIBA it is inserted if there was none.
SaveDecision(r) ==
    LET l == loc[r]
    IN /\ pc[r] = "save" /\ l.kind = "decide"
       /\ \/ /\ l.found # 0 /\ StillThere(l)
             /\ row' = [row EXCEPT ![l.grant] = [l.row EXCEPT !.id = l.found]]
             /\ UNCHANGED inserts
          \/ /\ l.found = 0 /\ ~Present(l.grant) /\ inserts[l.grant] < MaxInserts
             /\ row' = [row EXCEPT ![l.grant] = [l.row EXCEPT !.id = inserts[l.grant] + 1]]
             /\ inserts' = [inserts EXCEPT ![l.grant] = @ + 1]
          \/ /\ ~StillThere(l) /\ (l.found # 0 \/ Present(l.grant))
             /\ UNCHANGED table
       /\ End(r)
       /\ UNCHANGED <<settings, now, seen, final, passed>>

\* The client has the tokens, or the denial.
Answer(r) ==
    /\ pc[r] = "answer"
    /\ final' = final \union {loc[r].grant}
    /\ End(r)
    /\ UNCHANGED <<settings, now, table, seen, passed>>

\* The database or the cache throws, the user is no longer active, the
\* process dies or the connection is lost.
Abort(r) ==
    /\ pc[r] # "idle"
    /\ End(r)
    /\ UNCHANGED <<settings, now, table, seen, final, passed>>

\* TokenCleanupService.
CleanUp(g) ==
    /\ Present(g) /\ IsExpired(row[g])
    /\ row' = [row EXCEPT ![g] = None]
    /\ UNCHANGED <<settings, now, inserts, seen, pc, loc, history>>

\* Time passes: a cache entry expires, and an answer is long enough ago for
\* the client to poll again.
Tick ==
    /\ now < MaxTime
    /\ now' = now + 1
    /\ seen' = [g \in Grants |-> IF seen[g] # None /\ seen[g].expires <= now'
                                THEN None ELSE seen[g]]
    /\ answered' = [g \in Grants |-> IF answered[g] # None /\ answered[g] + Told(g) <= now'
                                    THEN None ELSE answered[g]]
    /\ UNCHANGED <<settings, table, pc, loc, final, passed>>

Next ==
    \/ \E g \in Grants :
          \/ Authorize(g) \/ CleanUp(g)
          \/ \E r \in Requests : Poll(r, g) \/ Decide(r, g)
    \/ \E r \in Requests :
          \/ Look(r) \/ Judge(r) \/ Record(r) \/ Query(r)
          \/ SaveRemoval(r) \/ SaveDecision(r) \/ Answer(r) \/ Abort(r)
    \/ Tick

Spec == Init /\ [][Next]_vars

-----------------------------------------------------------------------------
(***************************************************************************)
(* Properties                                                              *)
(***************************************************************************)
Locals == [kind : {"poll", "decide"}, grant : Grants \union {None},
           row : Rows \union {None}, found : Nat, last : Nat \union {None},
           stamp : Nat, expires : Nat, slow : BOOLEAN, replay : BOOLEAN,
           alone : BOOLEAN, polite : BOOLEAN]

\* The type of the state.
TypeOK ==
    /\ flow \in [Grants -> Flows] /\ interval \in [Grants -> ClientIntervals]
    /\ now \in Nat
    /\ row \in [Grants -> Rows \union {None}]
    /\ inserts \in [Grants -> Nat]
    /\ seen \in [Grants -> Entries \union {None}]
    /\ pc \in [Requests -> {"idle", "look", "judge", "record", "query", "save", "answer"}]
    /\ loc \in [Requests -> Locals]
    /\ final \in SUBSET Grants
    /\ answered \in [Grants -> Nat \union {None}]
    /\ passed \in [Grants -> Nat \union {None}]

\* A grant is answered for once: no poll that arrives after another was
\* answered comes to an answer of its own, unless a decision that was under
\* way stored a CIBA request again.
AnsweredOnce ==
    \A r \in Requests : (pc[r] = "answer" /\ loc[r].replay) =>
        flow[loc[r].grant] = "ciba" /\ inserts[loc[r].grant] > 1

\* Polls that do not overlap are the enforced interval apart, or slowed down,
\* as long as the grant lives: whatever other polls do at the same time as
\* the later one.
PollsSpaced ==
    \A r \in Requests : (pc[r] = "record" /\ ~loc[r].slow) =>
        LET g == loc[r].grant
        IN \/ passed[g] = None
           \/ loc[r].stamp >= passed[g] + Enforced(g)
           \/ loc[r].stamp >= loc[r].row.created + Lifetime

\* A client that waits after each answer for the interval it was told is not
\* slowed down, whatever it did before.
NotSlowed(r) == ~(pc[r] = "record" /\ loc[r].slow /\ loc[r].polite)

ToldIntervalSuffices == \A r \in Requests : NotSlowed(r)

\* The same where the client was told what is enforced.
EnforcedIntervalSuffices ==
    \A r \in Requests :
        pc[r] = "record" => (Told(loc[r].grant) = Enforced(loc[r].grant) => NotSlowed(r))

-----------------------------------------------------------------------------
(***************************************************************************)
(* The abstract specification                                              *)
(***************************************************************************)
ByDevice(g) == flow[g] = "device"

\* The device code a request polls for.
Held(r) == IF loc[r].kind = "poll" /\ loc[r].grant # None /\ ByDevice(loc[r].grant)
           THEN loc[r].grant ELSE None

Abstract == INSTANCE OneTimeGrants WITH
    issued <- {g \in Grants : inserts[g] > 0 /\ ByDevice(g)},
    live <- {g \in Grants : Present(g) /\ ByDevice(g)},
    holder <- [r \in Requests |-> Held(r)],
    spent <- {g \in final : ByDevice(g)}

\* Device codes are one-time grants: polled for only while they are stored,
\* gone before a poll is answered with tokens, and never stored again.
ImplementsOneTimeGrants == Abstract!Spec

=============================================================================
