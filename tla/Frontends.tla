----------------------------- MODULE Frontends -----------------------------
(***************************************************************************)
(* The frontends of a BFF host, which callers and reloads of the           *)
(* configuration change while requests are served.  The collection is      *)
(* swapped under a lock; the index that requests are matched with, the     *)
(* options of the authentication schemes and the cached index.html follow  *)
(* by event handlers that run after the lock is released, and by a queue.  *)
(*                                                                         *)
(* A frontend is its name, the criteria it is matched by and a version     *)
(* that stands for everything else.  Host, path and default matching are   *)
(* reduced to one lookup by criteria with a fallback.                      *)
(***************************************************************************)
EXTENDS Naturals, SequencesExt

CONSTANTS
    Names,              \* numbers, in the order of the configuration's keys
    Criteria,
    AnyRequest,         \* the criteria of a default frontend
    Callers,            \* threads that change the collection
    Requests,
    None,
    MaxChanges,         \* bound of the model on changes
    Cached              \* bound of the model: names with requests

ASSUME FrontendAssumption ==
    /\ Names \subseteq Nat
    /\ AnyRequest \in Criteria
    /\ MaxChanges \in Nat
    /\ Cached \subseteq Names

VARIABLES
    frontends,          \* FrontendCollection: the array, names distinct
    order,              \* which of the index and the caches was first to subscribe
    todo,               \* by caller: the handlers still to run
    snapshot,           \* by caller: the collection its index is built from
    index,              \* FrontendSelector: by scheme name, by criteria
    options,            \* by name: cached options of its schemes, or none
    page,               \* by name: the cached index.html, or none
    queue,              \* frontends whose cached entries are to be cleared
    request,            \* by request: what it works on, or none
    changes,            \* changes so far: the version of the next
    overlapped          \* two changes overlapped, and no update or removal
                        \* ran alone since

collection == <<frontends, changes>>
handlers == <<todo, snapshot>>
caches == <<options, page, queue>>
vars == <<collection, order, handlers, index, caches, request, overlapped>>

Frontend == [name : Names, criteria : Criteria, version : 0..MaxChanges]

ASSUME NoneAssumption == None \notin Frontend

Quiet == \A c \in Callers : todo[c] = << >>

NamesOf(s) == {s[i].name : i \in DOMAIN s}

\* The elements of s at the positions of P, in their order.
At(s, P) ==
    [i \in 1..Cardinality(P) |->
        s[CHOOSE p \in P : Cardinality({q \in P : q < p}) = i - 1]]

Where(s, Test(_)) == At(s, {p \in DOMAIN s : Test(s[p])})

HeadOrNone(s) == IF s = << >> THEN None ELSE Head(s)

Named(s, n) == HeadOrNone(Where(s, LAMBDA f : f.name = n))

Current(n) == Named(frontends, n)

\* The index of a collection: the first to claim criteria has them.
Index(s) ==
    [byName |-> [n \in Names |-> Named(s, n)],
     byCriteria |-> [m \in Criteria |-> HeadOrNone(Where(s, LAMBDA f : f.criteria = m))]]

Match(m) ==
    IF index.byCriteria[m] # None THEN index.byCriteria[m]
    ELSE index.byCriteria[AnyRequest]

Init ==
    /\ frontends = << >>
    /\ order \in {"index", "caches"}
    /\ todo = [c \in Callers |-> << >>]
    /\ snapshot = [c \in Callers |-> << >>]
    /\ index = Index(<< >>)
    /\ options = [n \in Names |-> None]
    /\ page = [n \in Names |-> None]
    /\ queue = << >>
    /\ request = [r \in Requests |-> None]
    /\ changes = 0
    /\ overlapped = FALSE

-----------------------------------------------------------------------------
(* Changes of the collection. *)

\* Mutant: an addition is not announced.
AddedSilently(added) == << >>

Added(added) == [i \in DOMAIN added |-> [do |-> "add", frontend |-> added[i]]]

\* Handlers run in the order of their subscription.
Changed(changed) ==
    [i \in DOMAIN changed |->
        [do |-> IF order = "index" THEN "read" ELSE "clear", frontend |-> changed[i]]]

\* The swap under the lock, and the events raised after it.
Swap(c, new, added, changed) ==
    /\ frontends' = new
    /\ todo' = [todo EXCEPT ![c] = Added(added) \o Changed(changed)]
    /\ overlapped' = IF Quiet THEN overlapped /\ changed = << >> ELSE TRUE
    /\ UNCHANGED <<order, snapshot, index, caches, request>>

Change(c) ==
    /\ todo[c] = << >> /\ changes < MaxChanges
    /\ changes' = changes + 1

Fresh == {f \in Frontend : f.version = changes + 1}

\* Mutant: the frontend of the name stays in the array.
EveryOne(n) == frontends

Others(n) == Where(frontends, LAMBDA f : f.name # n)

\* A frontend that differs from the one of its name, or may: delegates cannot
\* be compared.
AddOrUpdate(c) ==
    /\ Change(c)
    /\ \E f \in Fresh :
          LET new == Append(Others(f.name), f)
          IN IF Current(f.name) = None THEN Swap(c, new, <<f>>, << >>)
             ELSE Swap(c, new, << >>, <<f>>)

RemoveFrontend(c) ==
    /\ Change(c)
    /\ \E n \in NamesOf(frontends) : Swap(c, Others(n), << >>, <<Current(n)>>)

\* What the configuration may say, in the order of its keys: of each frontend
\* nothing, what it was, or anything new.
Configurations ==
    {s \in SeqOf(Fresh \union Range(frontends), Cardinality(Names)) :
        \A i, j \in DOMAIN s : i < j => s[i].name < s[j].name}

\* The configuration replaces the collection, and with it what was added by
\* AddOrUpdate.
Reload(c) ==
    /\ Change(c)
    /\ \E new \in Configurations :
          LET IsNew(f) == Current(f.name) = None
              IsChanged(f) == Current(f.name) \notin {None, f}
              IsGone(f) == Named(new, f.name) = None
          IN Swap(c, new, Where(new, IsNew),
                  Where(new, IsChanged) \o Where(frontends, IsGone))

-----------------------------------------------------------------------------
(* The handlers of a change. *)

Due(c, do) == todo[c] # << >> /\ Head(todo[c]).do = do

\* The handler that comes after this one for the change, or the next change.
Then(c, do) == todo' = [todo EXCEPT ![c][1].do = do]

Done(c) == todo' = [todo EXCEPT ![c] = Tail(@)]

\* History: f is not what the collection has under the name n now.
Behind(f, n) == f = None \/ f # Current(n)

\* History: the change of a frontend of this name is still to be handled, and
\* its cached options to be cleared after the index is replaced.
Clears(e) == e.do = "clear" \/ (e.do \in {"read", "assign"} /\ order = "index")

ClearDue(n) ==
    \E c \in Callers : \E i \in DOMAIN todo[c] :
        Clears(todo[c][i]) /\ todo[c][i].frontend.name = n

\* History: a clear that will not happen; what is cached stays.
Missed(entries, N) ==
    [n \in Names |-> IF n \in N /\ entries[n] # None /\ Behind(entries[n].of, n)
                     THEN [entries[n] EXCEPT !.exempt = TRUE] ELSE entries[n]]

\* History: requests that still hold an old frontend may cache its index.html
\* after the clear.
Holding(N) ==
    [r \in Requests |->
        IF /\ request[r] # None /\ request[r].frontend.name \in N
           /\ Behind(request[r].frontend, request[r].frontend.name)
        THEN [request[r] EXCEPT !.exempt = TRUE] ELSE request[r]]

\* Adding a name twice to a dictionary throws, and the other handlers of the
\* change are not called.
Throw(c) ==
    /\ todo' = [todo EXCEPT ![c] = << >>]
    /\ LET N == {todo[c][i].frontend.name : i \in 2..Len(todo[c])}
       IN /\ options' = Missed(options, N)
          /\ page' = Missed(page, N)
          /\ request' = Holding(N)
    /\ overlapped' = TRUE
    /\ UNCHANGED <<collection, order, snapshot, index, queue>>

AddToIndex(f) ==
    [byName |-> [index.byName EXCEPT ![f.name] = f],
     byCriteria |-> [index.byCriteria EXCEPT ![f.criteria] = IF @ = None THEN f ELSE @]]

\* The dictionaries are not synchronised: of two additions one may be lost.
AddFrontend(c) ==
    /\ Due(c, "add")
    /\ LET f == Head(todo[c]).frontend
       IN IF index.byName[f.name] # None THEN Throw(c)
          ELSE /\ Done(c)
               /\ \/ index' = AddToIndex(f)
                  \/ /\ \E d \in Callers \ {c} : Due(d, "add")
                     /\ UNCHANGED index
               /\ UNCHANGED <<collection, order, snapshot, caches, request, overlapped>>

ReadFrontends(c) ==
    /\ Due(c, "read")
    /\ snapshot' = [snapshot EXCEPT ![c] = frontends]
    /\ Then(c, "assign")
    /\ UNCHANGED <<collection, order, index, caches, request, overlapped>>

AssignIndex(c) ==
    /\ Due(c, "assign")
    /\ index' = Index(snapshot[c])
    /\ snapshot' = [snapshot EXCEPT ![c] = << >>]
    /\ IF order = "index" THEN Then(c, "clear") ELSE Done(c)
    /\ UNCHANGED <<collection, order, caches, request, overlapped>>

Cleared(c) == IF order = "index" THEN Done(c) ELSE Then(c, "read")

\* Mutant: only the queue is told.
QueueOnly(c) ==
    /\ Due(c, "clear")
    /\ queue' = Append(queue, Head(todo[c]).frontend.name)
    /\ Cleared(c)
    /\ UNCHANGED <<collection, order, snapshot, index, options, page, request, overlapped>>

ClearOptions(c) ==
    /\ Due(c, "clear")
    /\ LET n == Head(todo[c]).frontend.name
       IN /\ options' = [options EXCEPT ![n] = None]
          /\ queue' = Append(queue, n)
    /\ Cleared(c)
    /\ UNCHANGED <<collection, order, snapshot, index, page, request, overlapped>>

Handle(c) == AddFrontend(c) \/ ReadFrontends(c) \/ AssignIndex(c) \/ ClearOptions(c)

-----------------------------------------------------------------------------
(* The background service. *)

Processed(entries) ==
    /\ queue # << >>
    /\ queue' = Tail(queue)
    /\ page' = entries
    /\ request' = Holding({Head(queue)})
    /\ UNCHANGED <<collection, order, handlers, index, options, overlapped>>

\* Mutant: the page is kept.
ProcessTokensOnly == Processed(page)

ProcessFrontendChange == Processed([page EXCEPT ![Head(queue)] = None])

\* The cache fails: the exception is logged and the change forgotten.
ProcessingFails == Processed(Missed(page, {Head(queue)}))

-----------------------------------------------------------------------------
(* Requests. *)

\* The frontend a request is matched with is the one it keeps.
Select(r, m) ==
    /\ request[r] = None
    /\ frontends # << >> /\ Match(m) # None /\ Match(m).name \in Cached
    /\ LET n == Match(m).name
       IN request' = [request EXCEPT ![r] =
             [frontend |-> Match(m),
              exempt |-> Behind(Match(m), n) /\ ~ClearDue(n) /\ n \notin Range(queue)]]
    /\ UNCHANGED <<collection, order, handlers, index, caches, overlapped>>

\* Options are built from the index on first use and kept until cleared.
Configure(r) ==
    /\ request[r] # None
    /\ LET n == request[r].frontend.name
       IN /\ options[n] = None
          /\ options' = [options EXCEPT ![n] =
                [of |-> index.byName[n],
                 exempt |-> Behind(index.byName[n], n) /\ ~ClearDue(n)]]
    /\ UNCHANGED <<collection, order, handlers, index, page, queue, request, overlapped>>

\* GetIndexHtmlAsync: only one request at a time fetches a page that is not
\* cached, and stores what its own frontend says.
Store(r) ==
    /\ request[r] # None
    /\ page[request[r].frontend.name] = None
    /\ page' = [page EXCEPT ![request[r].frontend.name] =
          [of |-> request[r].frontend, exempt |-> request[r].exempt]]
    /\ request' = [request EXCEPT ![r] = None]
    /\ UNCHANGED <<collection, order, handlers, index, options, queue, overlapped>>

\* Served, answered without the page, or failed.
EndRequest(r) ==
    /\ request[r] # None
    /\ request' = [request EXCEPT ![r] = None]
    /\ UNCHANGED <<collection, order, handlers, index, caches, overlapped>>

\* IndexHtmlDefaultCacheDuration.
Expire(n) ==
    /\ page[n] # None
    /\ page' = [page EXCEPT ![n] = None]
    /\ UNCHANGED <<collection, order, handlers, index, options, queue, request, overlapped>>

-----------------------------------------------------------------------------

Next ==
    \/ \E c \in Callers : AddOrUpdate(c) \/ RemoveFrontend(c) \/ Reload(c) \/ Handle(c)
    \/ ProcessFrontendChange
    \/ ProcessingFails
    \/ \E r \in Requests : Configure(r) \/ Store(r) \/ EndRequest(r)
    \/ \E r \in Requests, m \in Criteria : Select(r, m)
    \/ \E n \in Names : Expire(n)

\* A thread that raises events runs their handlers, and the background
\* service reads its queue until the host stops.
Fairness ==
    /\ \A c \in Callers : WF_vars(Handle(c))
    /\ WF_vars(ProcessFrontendChange \/ ProcessingFails)

Spec == Init /\ [][Next]_vars /\ Fairness

-----------------------------------------------------------------------------
(* Properties. *)

Event == [do : {"add", "read", "assign", "clear"}, frontend : Frontend]

Entry == [of : Frontend \union {None}, exempt : BOOLEAN]

\* The collection holds one frontend for each name, the index, the caches and
\* the requests hold frontends that were once in it.
TypeOK ==
    /\ frontends \in Seq(Frontend)
    /\ \A i, j \in DOMAIN frontends : frontends[i].name = frontends[j].name => i = j
    /\ todo \in [Callers -> Seq(Event)]
    /\ snapshot \in [Callers -> Seq(Frontend)]
    /\ index \in [byName : [Names -> Frontend \union {None}],
                  byCriteria : [Criteria -> Frontend \union {None}]]
    /\ options \in [Names -> Entry \union {None}]
    /\ page \in [Names -> Entry \union {None}]
    /\ queue \in Seq(Names)
    /\ request \in [Requests ->
          [frontend : Frontend, exempt : BOOLEAN] \union {None}]
    /\ changes \in 0..MaxChanges
    /\ order \in {"index", "caches"} /\ overlapped \in BOOLEAN

\* When the handlers of every change have run, requests and schemes find
\* exactly the frontends of the collection, each as it is now, and all
\* criteria in use lead to one of their frontends: additions to the index and
\* new indexes agree with the collection (FrontendSelector).  The exception is
\* what overlapping changes leave behind, because handlers run outside the
\* lock: a frontend that was removed is still matched, or one that was added
\* is not, until an update or a removal runs alone.
IndexCurrent ==
    Quiet /\ ~overlapped =>
        /\ \A n \in Names : index.byName[n] = Current(n)
        /\ \A m \in Criteria :
              LET f == index.byCriteria[m]
                  Claiming == {g \in Range(frontends) : g.criteria = m}
              IN IF Claiming = {} THEN f = None ELSE f \in Claiming

\* When the handlers of every change have run, the cached options of a scheme
\* are those of its frontend as it is now (BffCacheClearingHostedService).
\* The exceptions are options that were built from an index that was behind
\* with no clear of theirs to come, and stay stale until the next change of
\* their frontend: during a change, after the clear and before the new index,
\* if the background service subscribed first; at any later time, from an index
\* that overlapping changes left behind; and of a frontend that was not in the
\* index, since its addition clears nothing.  A handler that throws keeps the
\* clears after it from being made, and what they would have cleared is the
\* last exception.
OptionsCurrent ==
    Quiet => \A n \in Names :
        options[n] # None /\ ~options[n].exempt => options[n].of = Current(n)

\* A cached index.html of a frontend that has been changed or removed is
\* cleared, however late the background service gets to it
\* (StaticFilesHttpClient caches by name).  The exceptions are a clear that
\* failed, or that was never asked for because a handler before it threw; a
\* page stored after the clear by a request that had selected the old frontend
\* before it; and, at any time, a page stored by a request that selected an
\* old frontend from an index left behind, with no clear of it to come.
PagesCleared ==
    \A n \in Cached :
        LET Stale == page[n] # None /\ ~page[n].exempt /\ page[n].of # Current(n)
        IN Stale ~> ~Stale

=============================================================================
