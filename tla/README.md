# Formal models of IdentityServer

TLA+ models of the parts of this repository whose correctness depends on the
order in which concurrent requests, servers, clocks and failures act on shared
state, with TLC configurations that check them on small instances and proofs
that TLAPS checks for every instance.

All source paths below are relative to `src/identity-server/src/` unless they
begin with another product's directory.

## 1. The system and its components

The repository holds several products: IdentityServer (an OpenID Connect and
SAML provider), BFF (a backend for browser applications), user management, a
storage engine, and a DPoP extension for JWT-protected APIs. An IdentityServer
deployment is a number of identical ASP.NET Core processes over one operational
database. A process handles requests concurrently; each request has its own
services and its own `DbContext`; the only state requests of a process share in
memory is a few caches and one lock. Hosted services run clean-ups on timers in
every process.

| Component | State | Operations | Hard behaviour |
|---|---|---|---|
| Automatic key management (`IdentityServer/Services/Default/KeyManagement`) | key store shared by all servers; key cache and lock of each server | get keys to publish and to sign with; create, cache, retire keys | servers with stale caches and skewed clocks; simultaneous first start; the lock with a time-out; store failures half-way |
| Refresh tokens and codes (`Services/Default/DefaultRefreshTokenService.cs`, `Validation/Default/TokenRequestValidator.cs`, `EntityFramework.Storage/Stores/PersistedGrantStore.cs`) | one row per grant: created, lifetime, consumed | redeem, exchange, extend, revoke, remove all | read at the start and written at the end of a request; swallowed concurrency failures; lost answers |
| Token cleanup (`EntityFramework.Storage/TokenCleanup`) | none of its own | delete expired and consumed grants, device codes, pushed requests, SAML state; notify | runs in every server, against requests in flight; notification after the delete |
| Session coordination (`Services/Default/DefaultSessionCoordinationService.cs`, `DefaultSessionManagementService.cs`) | none of its own | logout, expiration, prolongation by use of tokens, termination by an administrator | several stores changed one after another, no transaction |
| Server-side sessions (`Stores/Default/ServerSideTicketStore.cs`, `EntityFramework.Storage/Stores/ServerSideSessionStore.cs`, `Hosting/ServerSideSessionCleanupHost.cs`) | one row per session: subject, session id, renewed, expires | create, retrieve, renew, delete, remove expired in batches | a renewal creates a removed session again; a stop between removal and processing |
| Device flow (`Validation/Default/DeviceCodeValidator.cs`, `DefaultDeviceFlowInteractionService.cs`, `DistributedDeviceFlowThrottlingService.cs`) | one row per device code: pending, approved, denied; last poll in a distributed cache | authorize a device, approve or deny, poll | polls race each other and the approval; get and set of the cache |
| CIBA (`Validation/Default/BackchannelAuthenticationRequestIdValidator.cs`, `DefaultBackchannelAuthenticationInteractionService.cs`) | a persisted grant: pending, completed | request, complete, poll | a completion written back after the redemption |
| DPoP replay and pushed requests (`DefaultDPoPProofValidator.cs`, `PushedAuthorizationService.cs`) | replay cache; stored requests | look up and add; push, read, consume | look-up and insert are two calls; expiry against clock skew |
| Endpoints, validation, response generation | none between requests | parameter validation, token creation | sequential; the calls that change stored state belong to the rows above |
| SAML (`Saml`) | sign-in state, logout sessions | sign-in, logout | mostly XML; front-channel logout over several messages |
| BFF sessions (`src/bff/src/Bff/SessionManagement`) | one row per user session | as for server-side sessions; back-channel logout; refresh token revocation | as for server-side sessions |
| BFF frontends (`src/bff/src/Bff/DynamicFrontends/Internal`) | the set of frontends, caches derived from it | add, update, remove, reload from configuration | events raised outside the lock |
| User management (`src/user-management/src`) | users, authenticators with failure counters, one-time-password workflows | sign in, enrol, lock out; profiles, groups, SCIM | versioned writes that conflict; attempt counting |
| Storage engine (`src/storage/src`) | versioned entities, keys, links, outbox in SQL | CRUD with optimistic concurrency, queries | conflicts, uniqueness, outbox delivery |

How they interact: requests call KeyManager to sign tokens and to publish keys;
the token endpoint calls the validators, then the refresh token service, which
call the grant store; session coordination and the session cleanup call the
grant store and the back-channel logout service; the token cleanup works on the
same tables as the requests. Processes interact only through the database, the
distributed cache and their clocks.

What makes each component correct:

* Keys: a token signed by any server can be validated with the keys published
  by any other; a rotation happens once, on time, and never skips the time
  clients need to learn the new key; the lock is never lost.
* Grants: a code and a one-time token yield tokens once; a revoked or expired
  token is not accepted; a chain of exchanges ends with the absolute lifetime;
  removal removes.
* Sessions: a terminated or expired session stays so, its grants go with it,
  its clients are notified at least once.
* Device flow and CIBA: one approval yields tokens once; a denial none; a client
  cannot poll faster than its interval, and one that keeps the interval it was
  told is not slowed down.
* Replay: a proof is accepted once; a pushed request starts one authorization.
* BFF frontends: caches reflect the last change.

The hazards behind these properties are listed, line by line, in
`PROJECT.json`.

## 2. Plan

| Order | Module | Composes with | Status |
|---|---|---|---|
| 1 | `KeyManagement` | – | written, checked; every safety property proved, but `EarlyKeysPublished`, which fails |
| 2 | `RefreshTokens` (codes, tokens, grant store, cleanup, logout) | – | written, checked; every safety property of the passing run proved, with the refinement |
| 3 | `PollingGrants`: device flow and CIBA with throttling | – | written, checked; every safety property of the passing run proved, with the refinement |
| 4 | `OneTimeGrants`: the abstract grant, claimed by some requests, answered for, gone | implemented by `RefreshTokens` (codes and one-time tokens) and `PollingGrants` (device codes) | written, proved; the refinements checked and proved |
| 5 | `ServerSideSessions`: ticket store, session store, cleanup host, coordination and management services | the session's grants, as one abstract set | written, checked; every safety property of the passing run proved |
| 6 | `Frontends`: configuration reload, programmatic changes, event-driven caches | – | written, checked; every safety property proved |
| 7 | the replay cache and pushed requests; BFF sessions | – | not written |

Each module has CONSTANTS for its servers, requests and durations, one action
per stretch of code between two awaits, its invariants as named conjuncts, and
no recursive operator, so that it can be proved about as well as checked.

Every safety property of a run that passes is a theorem (section 5). Theorems
worth proving next belong to the modules of row 7.

## 3. Modules

### 3.1 KeyManagement

`KeyManager` (`IdentityServer/Services/Default/KeyManagement/KeyManager.cs`)
answers two questions: which keys to publish and which to sign with. Both run
`GetAllKeysInternalAsync`.

| Model | Code |
|---|---|
| `store` | `ISigningKeyStore` (Entity Framework: `SigningKeyStore`) |
| `cache[s]` | `InMemoryKeyStoreCache` of server `s`: keys and `_expires` |
| `lock[s]` | `DefaultConcurrencyLock<KeyManager>`, a semaphore of the process |
| `pc[r]`, `loc[r]`, `due[r]` | the await a request is at, its locals, and how long it may stay there |
| `signed`, `early` | history: keys used for signing, after or before their propagation time |
| `Start` | the cache look-up and the first checks |
| `Load`, `DeleteRetired`, `CheckLoaded` | the store is read, retired keys are deleted one by one, the rest is cached and checked |
| `Acquire`, `LockTimesOut` | `LockAsync` and the checks on the cache under the lock |
| `Reload`, `CheckReloaded` | the store is read again under the lock, cached and checked: are new keys still needed? |
| `Create` | `CreateNewKeysAndAddToCacheAsync` reads the cache, which another request may have overwritten meanwhile, and creates the first key |
| `Write` | one `StoreKeyAsync`; after the last key the delay, or the answer |
| `Resync`, `FinishSynced` | the delay is over, the store is read, cached and answered from |
| `Reply` | the caller signs (`AutomaticKeyManagerKeyStore`) |
| `StoreFails` | a store call throws, `finally` unlocks |
| `Restart` | the process restarts and loses cache, lock and requests |
| `Tick` | time passes |

Abstractions. A key is its algorithm, creation time and creating server (`by`,
history only); `seq` tells keys with one time stamp apart, as the real clock's
resolution would. Keys that cannot be unprotected, the X.509 option, and a
change of the algorithm list at run time are left out. `DeleteRetiredKeys` is
on, as it is by default. An out-of-date cache entry is forgotten by `Tick`: it
can never be read again. Clocks differ by a constant `Skew`.

Time bounds. `Lag` bounds the time between two steps of a request, with limits
of their own for the lock (`LockTimeout`) and the delay (`SyncDelay`). Without
such a bound no cache duration makes publication safe. `MaxTime` bounds the
clock and `MaxTies` the keys of one time stamp (a failure after the key was
stored, repeated within one unit of time, would make any number).

### 3.2 RefreshTokens

A grant is a row of the persisted grant table; a request reads it, decides and
writes it back, in database calls that other requests interleave with.

| Model | Code |
|---|---|
| `grants[k]` | the row for a key: `Id`, creation, lifetime, consumed; `NoRow` if there is none |
| `inserts[k]` | the next `Id` for the key, so that a row inserted again is another row |
| `client[a]` | the client's settings: one-time or reusable, deletion or marking, sliding and absolute lifetime, claims updated on refresh |
| `pc[r]`, `loc[r]` | the await a request is at and its locals: the token it read, the rows it tracks, whether its `DbContext` is stuck |
| `Redeem` | `ValidateAuthorizationCodeRequestAsync` up to the removal of the code |
| `Refresh` | `ValidateRefreshTokenAsync` accepts the token |
| `Revoke`, `Logout` | the revocation endpoint; `RemoveAllAsync` for a session |
| `Query`, `SaveDone`, `SaveFails`, `InsertClashes` | the two halves of `PersistedGrantStore.StoreAsync`, `RemoveAsync` and `RemoveAllAsync`: the tracking query, then `SaveChanges` |
| `Create`, `Answer`, `Done` | the new token is stored; the answer reaches the client |
| `Abort` | the request ends without an answer, at any await |
| `CleanUp` | the token cleanup deletes an expired or consumed row |
| `known`, `spent`, `revoked`, `started`, `used` | history: what clients were told, and when a chain began and was last extended |

Entity Framework (external, modelled from the code's handling of it): a save
does all pending changes or none; it fails with `DbUpdateConcurrencyException`
when a row to be changed or deleted is gone, and with another exception, which
the store does not catch, when an inserted key exists. A failed change stays
pending in the request's context (`DbContextExtensions.cs:45` detaches entries
for that reason; `PersistedGrantStore` does not), so later saves of the request
fail too: the local `stuck`.

Abstractions. All grants of the model belong to one session, so the filter of
`RemoveAllAsync` selects all. Reference tokens, consents, DPoP bindings and a
custom `AcceptConsumedTokenAsync` are left out. The cleanup may delete an
expired or consumed row at any time, which covers every interval and delay it
can be configured with.

The code allows two requests that run at the same time to exchange the same
one-time token, since both read it before either removes it; `NoReplay` is
therefore about requests that arrive after another was answered.

### 3.3 PollingGrants

A device code and a CIBA request live the same life: a client starts one, polls
for it, a user approves or denies it in another request, and the poll that sees
the decision removes the row and answers. The two flows differ where the model
looks at `flow[g]`: who tells which interval, whether a denial removes the row,
and whether an update inserts a missing row.

| Model | Code |
|---|---|
| `row[g]` | the row of the device flow table, or the persisted grant of the CIBA request: `Id`, creation, decision |
| `seen[g]` | the distributed cache: time of the last poll and expiration of the entry |
| `interval[g]` | `Client.PollingInterval`, or none |
| `pc[r]`, `loc[r]` | the await a request is at and its locals: the row it read, the cache entry it read, the time to be recorded |
| `Authorize` | the device authorization or backchannel authentication response, up to the stored row |
| `Poll` | `ValidateAsync` finds the row |
| `Look`, `Judge`, `Record` | `ShouldSlowDown`: read the cache, compare after the client is loaded, write the cache |
| `Respond` (part of `Record`) | the checks of `ValidateAsync` after throttling |
| `Decide` | `HandleRequestAsync`, `CompleteLoginRequestAsync`, up to the update |
| `Query`, `SaveRemoval`, `SaveDecision` | the two halves of `RemoveByDeviceCodeAsync`, `UpdateByUserCodeAsync` and, for CIBA, of `PersistedGrantStore.RemoveAsync` and `StoreAsync` |
| `Answer` | tokens, or the CIBA denial, reach the client |
| `Abort`, `CleanUp`, `Tick` | a request ends at any await; the token cleanup; time |
| `final`, `answered`, `passed` | history: grants answered for, the end of the last poll, the last lone poll that passed |

`loc[r].replay`, `alone` and `polite` are history too: whether the poll arrived
after the grant was answered for, overlaps no other poll, and arrived the told
interval after the last answer.

Abstractions. A client polls only for its own grants; an inactive user ends the
request as `Abort` does. The search for a free user code is left out: user codes
are the primary key of the table, so that the later of two requests fails
without effect. The cache is not emptied before an entry expires; `Tick` forgets
an entry that has expired, and the time of an answer once it no longer matters.
Polls that
overlap may pass throttling together, since `ShouldSlowDown` reads and writes
the cache in two calls, and may both be answered with tokens, since both read
the row before either removes it; `PollsSpaced` and `AnsweredOnce` are therefore
about polls one after another.

### 3.4 OneTimeGrants

What the stores promise of a grant that is good for one use, without tables,
rows or `DbContext`s: `live` grants can be claimed, a claim is answered only
when the grant is live no more, and a grant that is not live never becomes so
again. `RefreshTokens` and `PollingGrants` state at their end what each of its
variables is in theirs (`Abstract`); `ImplementsOneTimeGrants` is a property of
their runs.

| Abstract | `RefreshTokens` | `PollingGrants` |
|---|---|---|
| `issued` | keys with a row so far | device codes with a row so far |
| `live` | a row, not consumed, of a code or one-time token | a row |
| `holder[r]` | the code or token a request exchanges | the device code a request polls with |
| `spent` | answered for | answered for with tokens |

CIBA requests do not implement it: a decision that is under way when the poll
removes the request stores it again (see `AnsweredOnce` below).

### 3.5 ServerSideSessions

One user's sessions. A request reads the session when its cookie is looked at
and writes the whole ticket back later; sign-out, an administrator and the
cleanup hosts remove rows meanwhile.

| Model | Code |
|---|---|
| `row[k]` | the row for a session key: `Id`, expiration, the client list and persistence of its ticket; `NoRow` if there is none |
| `inserts[k]` | the next `Id`, so that a row stored again is another row |
| `tokens` | persisted grants of a session and a client; `RefreshTokens` has their details |
| `pc[p]`, `loc[p]` | the await a request or host is at; the ticket it will write, the rows it tracks, the sessions it has still to process, whether its `DbContext` is stuck |
| `SignIn` | `ServerSideTicketStore.StoreAsync` |
| `Authenticate` | `RetrieveAsync`, and what the request goes on to do: renew the cookie, authorize a client, sign out, or drop an expired session |
| `Issue`, `Get`, `Create`, `Query`, `Save`, `SaveFails` | `AddClientIdAsync` after a code was stored; `RenewAsync`; `CreateSessionAsync` and the two halves of `UpdateSessionAsync` |
| `UseToken`, `Validate`, `Retrieve` | a token is presented: `ValidateSessionAsync` checks and prolongs the session |
| `Lookup`, `Find`, `Delete`, `DeleteFails` | `RemoveAsync` of the ticket store, and the two halves of `DeleteSessionAsync` and `DeleteSessionsAsync` |
| `RemoveSessions`, `Revoke`, `Logout` | an administrator's `RemoveSessionsAsync`; `ProcessLogoutAsync` when the response of a sign-out starts |
| `Sweep`, `Remove`, `RetryRemove` | the cleanup: query, save, and a save repeated without the rows that are gone |
| `Expire`, `Notify` | `ProcessExpirationAsync`, called by the cleanup or when the response of the request that dropped the session starts |
| `Abort`, `Tick` | a request or host breaks off at any await; time |
| `due`, `ended` | history: sessions removed as expired and not yet processed; sessions whose end was answered |

`loc[p].stale` and `late` are history too: whether the session was written since
it was read, and whether the request came after the session was ended.

The cookie handler of ASP.NET Core is external: it removes an expired session it
has retrieved, and may renew any other at the end of a request. Left out: signing
in as another user over a session, sessions without expiration, tickets that
cannot be read. A session's lifetime is constant, since each renewal adds the
difference of the stored expiration and renewal times. Delivery of notifications
is not modelled: `Notify` is the step that ends the processing.

The store is changed a `DbContext` at a time as in `RefreshTokens`. The removal of
grants is one step here (`RemoveAll`), which may remove nothing: a conflict over
one grant is swallowed (`PersistedGrantStore.cs:153`), and the failed deletions
stay in the context, so that an administrator's removal goes on to fail with the
sessions as well. Only tokens of coordinated clients are presented in the model:
`ValidateSessionAsync` accepts any other without a look at the session, so that
such a request neither reads nor changes anything here.

### 3.6 Frontends

A BFF host serves several frontends. `FrontendCollection` swaps an array under a
lock and raises events after it has left the lock; handlers, run one after
another by the thread that made the change, keep what is derived from the array.

| Model | Code |
|---|---|
| `frontends` | the array; a frontend is a name, matching criteria, and a version for all else |
| `AddOrUpdate`, `RemoveFrontend`, `Reload` | the methods, and the handler of a configuration change, up to the swap |
| `todo[c]` | the events a thread has still to raise, each with the handler it has come to (`do`); `Then` and `Done` go on to the next handler and the next event, in the order of `order` |
| `order` | which of `FrontendSelector` and `BffCacheClearingHostedService` subscribed first: the host creates the first with the request pipeline or with the first options, the second when its hosted services start |
| `AddFrontend` | the selector's handler of additions: the index is changed in place; a name that is there already throws, and the handlers that follow are not run |
| `ReadFrontends`, `AssignIndex` | its handler of changes: a new index is built from the array and put in place |
| `ClearOptions`, `queue` | the background service's handler: cached options are removed, the change is queued |
| `ProcessFrontendChange`, `ProcessingFails` | the background service clears cached tokens and pages, or fails and goes on |
| `Select`, `Configure`, `Store`, `EndRequest` | a request is matched with a frontend, which it keeps; options are built from the index by scheme name; a page is fetched for its frontend and cached by name |
| `Expire` | the cached page expires |
| `overlapped` | history: handlers of two changes have overlapped since the index was last built alone |
| `exempt` | history: a cached entry, or the frontend a request has selected, that no clearing will reach: it was taken from an index that was behind when none was to come, or the one to come was not made |

Abstractions. The tries for hosts and paths are one lookup by criteria with the
default frontend as fallback. The options of the cookie, OpenID Connect and
client credentials schemes are cached and cleared alike and are one entry. Two
additions at once to the unsynchronised dictionaries may lose one. Left out:
cached access tokens and the proxy's transformer cache; frontends configured in
code at start-up, which every reload keeps (`FrontendCollection.cs:147`); two
frontends of one name in the configuration; and changes before both handlers are
subscribed. The last is a gap of the code that the model does not show: a change
between `FrontendSelector.cs:23`, where the index is built, and line 25, where the
selector subscribes, never reaches the index until the next change that rebuilds it.

## 4. What the runs show

| Run | Instance | Properties |
|---|---|---|
| `MCKeyRotation` | two servers, clocks one unit apart, two requests that contend for the lock of the first and one on the second, two of the three at a time, six units of time: creation, propagation, take-over, expiry and retirement of a key | `TypeOK`, `SignedKeysPublished`, `OneRotationPerServer`, `NoEarlySigning` |
| `MCKeyLock` | one server, two requests, two algorithms, failures and restarts | `AnswerIsConsistent`, `LockReleased` (liveness) |
| `MCKeyStartup` | two servers, two requests on one of them, first start | `EarlyKeysPublished` is violated |
| `MCRefreshTokens` | two requests, one authorization, five client configurations, two handles, two units of time | `TypeOK`, `NoReplay`, `RevokedRejected`, `GoneForGood`, `AcceptedInTime`, `ImplementsOneTimeGrants` |
| `MCGrantRemoval`, `MCGrantUpdate`, `MCGrantCreation` | the same instance | `RemovesAll`, `UpdatesExisting`, `PersistsNew` are violated |
| `MCPolling` | two requests (polls or decisions), one grant of either flow, a client with an interval of 2 or none (then 1), lifetime 2 | `TypeOK`, `AnsweredOnce`, `PollsSpaced`, `EnforcedIntervalSuffices`, `ImplementsOneTimeGrants` |
| `MCDeviceInterval` | the same instance | `ToldIntervalSuffices` is violated |
| `MCSessions` | two requests and a cleanup host, one session key with two insertions, one client that is coordinated with the session, lifetime 1, two units of time | `TypeOK`, `ExpirationProcessed`, `EndedForGood`, `LostByOverlapOnly` |
| `MCSessionClients` | the same instance | `ClientsKept` is violated |
| `MCFrontends` | two frontends that claim the same criteria, two threads and reloads, three changes, one request at a time for one of the frontends, both orders of subscription | `TypeOK`, `IndexCurrent`, `OptionsCurrent`, `PagesCleared` (liveness) |

* `SignedKeysPublished`: a key that signed after its propagation time is in the
  store and in every unexpired cache until it is retired. It holds because key
  sets are cached for at most half the propagation time, as `Validate` enforces
  (the configuration asks for more and is capped).
* `NoEarlySigning`: a key signs before its propagation time only when no key
  past its own exists.
* `OneRotationPerServer`: the keys of a server are a rotation interval less the
  propagation time apart, with one algorithm. It is what the lock and the second
  check under it are for: two requests of the first server find the rotation due,
  one waits for the other, and then finds the work done; without the second check
  the property fails. With several algorithms, a failure after the
  first key was stored makes the next request create keys for all again.
* `AnswerIsConsistent`: whatever path a request took, the keys to sign with are
  one for each algorithm and among those published. The exception needs several
  algorithms and takes TLC 34 steps: a creation stopped half-way; the next one
  saw the key it left, a request outside the lock then cached a set it had read
  earlier, and the creation starts from that. The key is missing from the answer,
  for as long as it is younger than a unit of time. The run is too small for it;
  with three requests over four units of time (3.1 million states, too long for
  the runs) the property holds, and fails without the exception. It is about one
  server, as is its run: with a second one a request may have chosen the other's new key
  before it waits for the lock, and be answered from a cache that a creation of
  its own server filled without that key (TLC finds this with two servers and
  two algorithms; both keys are known to every server soon after).
* `RevokedRejected` leaves out reusable tokens that each use updates: they can
  be stored again by a use that was under way. `MCGrantUpdate` shows it for a
  client with a sliding lifetime: the use reads the row, a revocation removes it
  and is answered, the use inserts it again, and the token is valid.
* `PersistsNew` fails when two requests exchange one grant, in the trace a code:
  the later removal fails and is swallowed, and the new token's insertion fails
  with it, but its handle is returned.
* `GoneForGood`: a one-time token or code that left the store comes back only
  as consumed (an update that was under way inserts it so).
* `AcceptedInTime`: an accepted token is within the absolute lifetime counted
  from the creation of the chain's first token, when the code was redeemed, over
  any chain of exchanges, and within the sliding lifetime of its last use. The
  time between authorization and redemption, at most the lifetime of the code,
  comes on top.
* `AnsweredOnce`: no poll that arrives after a grant was answered for comes to an
  answer of its own. It excepts a CIBA request that a decision under way has
  inserted again, the upsert of `MCGrantUpdate` in another place.
* `PollsSpaced`: a poll that passes throttling comes the enforced interval after
  the last poll that passed while it was alone, whatever other polls do at the
  same time as the later one, as long as the grant lives.
* `EnforcedIntervalSuffices`: a client that waits after each answer for the
  interval is not slowed down, where it was told the interval that is enforced;
  `MCDeviceInterval` shows a device that was told another.

* `ImplementsOneTimeGrants`: every behaviour of the tables is one of the abstract
  grant; in particular a grant that left the store, for whatever reason, is never
  usable again, and no answer leaves its grant usable.
* `ExpirationProcessed`: a session that was removed as expired is processed, or a
  host or request that removed it, or found it removed, is about to. It excepts
  sessions that a renewal under way has stored again, and a process that breaks
  off between the removal and the end of the processing, which nobody makes up
  for: `Abort` takes its sessions out of `due`, so that such a stop is modelled but
  not caught by this property.
* `EndedForGood`: a request that comes after a session was removed by its
  sign-out or an administrator, with its cookie or with a coordinated client's
  token, gets past no check. A removal that fails over a swallowed conflict has
  removed nothing, though its caller goes on. The exception is again a session
  that was stored again by a renewal under way: `RenewAsync` creates a row that
  is gone, which the tests ask for.
* `LostByOverlapOnly`: a write drops a client from the list of a session, or
  brings its expiration forward, only if another write came between it and its
  read; `MCSessionClients` shows that it does so then, against what
  `IUserSession` says.
* `IndexCurrent`: when no handler is left to run, the index holds exactly the
  frontends of the collection. The exception is what overlapping changes leave
  behind (a removed frontend still served, a new one not), until an update or a
  removal runs alone.
* `OptionsCurrent`: once the handlers of every change have run, whatever changes
  overlapped, cached options are those of the frontend as it is now. The
  exceptions, each until the next change of the frontend: options that were built
  from an index that was behind with no clearing of theirs to come, which happens
  in the midst of a change, after the clearing and before the new index, if the
  background service subscribed first; at any later time, from an index that
  overlapping changes left behind; and for a frontend that was not in the index,
  since its addition clears nothing. And options whose clearing was not made
  because a handler before it threw. Options built from an index that is behind
  are not excepted while their clearing is still to come.
* `PagesCleared`: a cached page of a frontend that has changed is eventually
  cleared. The exceptions: the clearing failed, or was never asked for because a
  handler threw; the page was stored after the clearing by a request that had
  selected the frontend before it; or, at any time, by a request that selected
  an old frontend from an index left behind, with no clearing to come.

Bounds. In `MCKeyRotation` the clock covers the whole life of a key (retired at
age 7, which the second server's clock, one unit ahead, reaches) and the take-over
by its successor; with one unit of time more the properties hold as well (637,000
states). No more than two of its three requests
run at a time (`AtMostTwo`): two of the first server contend for its lock, or one
of each server interleave. It has one algorithm, and calls of the store take less
than a unit of time; creations for two algorithms that stop half-way, and their
time-outs, are the business of `MCKeyLock`. Two
handles in `MCRefreshTokens` give a token and its successor, two insertions for
a key the row that comes back. With a sliding lifetime of 1, two units of time
are past an absolute lifetime of 1, however often the tokens are exchanged, and
past the sliding lifetime of a token left unused under an absolute one of 2;
four of the configurations with three units of time (2.6 million states) and
seven with two hold as well but take too long for the runs. In `MCPolling` a lifetime of 2 is as long as
the longer interval, and a clock up to 3 reaches an expired grant and an expired
cache entry; two insertions give the CIBA request that comes back. Three
requests do not finish in reasonable time; in a cycle of a poll and a decision,
or of two polls, every read can already be followed by the other's write.

In `MCSessions` a lifetime of 1 and a clock up to 2 give a session that expires
while a request that read it before prolongs or stores it, two insertions the session that comes back, and two
requests with a host every pair of writers of a session, with the cleanup; a
batch of at most three sessions keeps within the three attempts of a cleanup's
save; the properties hold up to time 3 too, where a prolonged session expires
(3.8 million states). In `MCFrontends` three changes are two that overlap and one that runs
alone after them, or a removal, an addition of the same name and an update; with
one criterion the frontends contend for it, and the caches of the frontends are
independent of each other, so that one of them is followed (`Cached`). With two
criteria and three changes the invariants hold too (9.9 million states), outside
the runs since it takes too long for them.

Deadlock is checked except in `MCPolling` and `MCDeviceInterval`, where the
grants of the model end and its clock stops, and in `MCFrontends`, where a host
without frontends that nobody changes any more has nothing to do.

Fairness. `LockReleased` and `PagesCleared` need it. For the first, each request is scheduled (weak
fairness of `Step`), the semaphore serves its waiters in order (strong fairness
of `Acquire`), and time goes on (strong fairness of `Tick`). Nothing is assumed
of new calls, failures and restarts. For the second, a thread that raises events
runs the handlers it has begun with, and the background service reads its queue
until the host stops (weak fairness of both); a failure counts as having read
the change. Nothing is assumed of requests, changes and expiration.

Six disagreements between comments or interface documentation and the code
were met; each has a run that shows it and an entry in `PROJECT.json`.

## 5. What is proved

The proofs start from the assumptions named in the modules and from nothing
else: `OptionsAssumption`, `GrantAssumption`, `PollingAssumption`,
`SessionAssumption`, `FrontendAssumption` and `NoneAssumption` say what option
validation accepts and that the constants are well formed (the value for "none"
is no row, no request, no time, no frontend). A theorem that needs more of the
settings says so in its statement. They hold for any numbers of servers,
requests, grants, sessions, clients, frontends and threads, and for all
durations.

| Module | Theorem | Property |
|---|---|---|
| `KeyManagement_proofs` | `TypeCorrect`, `RotationsSpaced` | `TypeOK`, `OneRotationPerServer` |
| `KeyManagement_publication` | `SignedKeysKnown`, if `Timely` | `SignedKeysPublished` |
| | `NoEarlyTakeover`, if `TimelyChoice` | `NoEarlySigning` |
| | `AnswersConsistent`, if `Alone` | `AnswerIsConsistent` |
| `RefreshTokens_proofs` | `TypeCorrect`, `ExchangedOnce`, `NothingComesBack` | `TypeOK`, `NoReplay`, `GoneForGood` |
| `RefreshTokens_refinement` | `RevocationHolds`, `LifetimesHold`, `Implementation` | `RevokedRejected`, `AcceptedInTime`, `ImplementsOneTimeGrants` |
| `PollingGrants_proofs` | `TypeCorrect`, `PollAnsweredOnce`, `PollsKeptApart`, `WaitingSuffices`, `Implementation` | `TypeOK`, `AnsweredOnce`, `PollsSpaced`, `EnforcedIntervalSuffices`, `ImplementsOneTimeGrants` |
| `ServerSideSessions_proofs` | `TypeCorrect`, `EndedStaysEnded`, `ExpirationsProcessed`, `UpdatesLostByOverlapOnly` | `TypeOK`, `EndedForGood`, `ExpirationProcessed`, `LostByOverlapOnly` |
| `Frontends_proofs` | `TypeCorrect`, `IndexFollows`, `OptionsFollow` | `TypeOK`, `IndexCurrent`, `OptionsCurrent` |
| `OneTimeGrants` | `SpentStaysGone` | a grant that was answered for is never live again |

None of the properties is inductive: each says nothing of what requests hold in
their locals between two awaits, and that is where it can be lost. The
inductive invariants supply it; TLC checked each on the instances of the runs
before it was proved.

### 5.1 Keys

* `RotationsSpaced`. A server's lock is held by exactly the request that is
  inside it (`LockInv`). A request that is about to create a key has seen, in
  its locals, every key of its server that is recent, and nobody else of that
  server creates one meanwhile (`KnownInv`). A new key is created only when the
  youngest key known is old, hence when every key of the server is.
* `SignedKeysKnown`. The invariant `PInv` dates key sets. What a request has just
  read lacks no stored key but those its server retires (`Sees`); a cache that
  lacks a stored key was filled before the key was stamped, and expires at most
  `LongestCached` later (`CacheOK`); no key is lost before some clock retires it
  (`Known`); a key that signed was past its propagation time on some clock
  (`SignedOK`). So when a key may sign, every cache filled without it is out of
  date.
* `NoEarlyTakeover`. `CInv` adds that a request that holds a choice of keys knew,
  when it chose, every key of the algorithm but those stamped at most
  `LongestCached` and the wait for the lock ago (`Settled`): a stored key past
  its propagation time would have been chosen instead.
* `AnswersConsistent`. The requests of a server check key sets that were read at
  different times, and one that has chosen its keys and waits for the lock to
  rotate may find the rotation done. `AInv` says that the key sets read by
  requests and the one cached are ordered by inclusion, but for retired keys
  (`ReadInOrder`), so that each of them contains the choice or calls for a
  rotation itself (`WaitsWithChoice`); that under the lock a request knows the
  whole store (`KnowsStore`); that the cache from which a creation starts lacks no
  stored key (`MayCreate`), which needs the one algorithm; and that a creation ends with a fresh
  key for each algorithm (`CreatesAll`). The existence of an oldest and a youngest key is
  proved from the well-foundedness of the natural numbers.

The conditions are about settings that `Validate()` accepts without question:

* `Timely`: the calls of the store take less than a unit of time, key sets of new
  keys are cached if key sets are, and the longest time a key set is cached and
  the difference of two clocks together are less than the propagation time.
  `Validate()` caps `KeyCacheDuration` at half the propagation time but neither
  `InitializationKeyCacheDuration` nor, of course, the clocks. The defaults
  (a minute, a day, and a propagation time of 14 days) leave 13 days for the
  clocks. The instance of `MCKeyRotation` satisfies it.
* `TimelyChoice`: the same with `CacheLockTimeout` on top (a minute by default) and
  with caches in use. The latter is needed: with `KeyCacheDuration` and
  `InitializationDuration` 0, which `Validate()` accepts, a creation starts from
  an empty cache (`CacheKeysAsync` stores nothing for no time), and a rotation
  signs with its new key at once although the store holds others; TLC shows
  that `NoEarlySigning` then fails.
* `Alone`: one server with one algorithm and its cache in use, a lock time-out
  below the retention time, and an initialisation delay within the rotation
  interval. The instance of `MCKeyLock` has two algorithms and satisfies the rest:
  several algorithms, where the exception of `AnswerIsConsistent` can occur, are
  only model-checked.

### 5.2 Grants

* `ExchangedOnce`. The inductive invariant of `RefreshTokens_proofs` says of every
  spent code or one-time token that its row is gone or consumed, or is of no
  use to the requests that still hold it; that a request which arrives after
  the answer cannot come to hold it; and that requests in flight can only store
  it again marked as consumed. `NothingComesBack`, an action property, follows
  from it: every insertion of a key that was there before is the save of a
  request that marked the row as consumed or that holds a reusable token.
* `RevocationHolds`, `LifetimesHold`. `JInv` adds times and revocations: a row, and
  each copy of it a request works on, began with the first token of its chain and
  lasts no longer than the client allows from its last use (`Timely`); a revoked
  handle is withdrawn, and a request that revokes has withdrawn it or still has
  its row to remove (`Fits`).
* `Implementation`. Under `JInv` every step of `RefreshTokens` is a step of
  `OneTimeGrants` under the mapping `Abstract`, or none: a request claims a
  grant that is live; none that left the table, was consumed or was revoked
  becomes live again; and an answer finds its grant gone.
* `PollAnsweredOnce` and the `Implementation` of `PollingGrants`. A grant that was
  answered for has no row, except for a CIBA request with more than one row in
  its history (`GrantInv`, `Gone`), and a poll that is about to answer has seen to
  that (`Shape`).
* `PollsKeptApart`, `WaitingSuffices`. The interval is kept by the cache alone.
  `TInv` relates the entry to the last lone poll that passed and to the last
  answer (`Times`), and the copy each poll has read, compares with and writes
  back to them (`Paced`): entries live as long as the grant, later polls write
  later times, and a poll that keeps the interval has nobody beside it.

### 5.3 Sessions

* `EndedStaysEnded`. A session that was ended has no row, or has had more than one
  (`KeyInv`), and a request that came after that is at its first check or holds
  a session that was stored again (`Shape`).
* `ExpirationsProcessed`. `Removal` ties what a process is about to delete to what
  it will process: the cleanup deletes exactly the rows of its list, a request
  that drops an expired session has it on its list or finds it gone. The theorem
  then needs that whoever loses the race for a row either still has it on its
  list or leaves it to the winner.
* `UpdatesLostByOverlapOnly`. `FInv`: the ticket a request is about to write has at
  least the clients and the expiration of the row, or some write has come since
  it was read.

### 5.4 Frontends

* `IndexFollows`. While changes do not overlap, the index agrees with the
  collection but for the additions that the one thread at work has still to
  handle, or that thread will build a new index (`IndexInv`); an index it has
  read the collection for is of the collection as it is. When no handler is left
  to run, nothing excuses a difference.
* `OptionsFollow`. Options that are not exempt are those of the frontend as it is
  now, or some thread has still to clear them (`OptionsInv`), whether or not
  changes overlap. The exemptions are those of `OptionsCurrent` in section 4 and no
  more: options are exempt only if they were taken from an index that was behind
  while no clearing of theirs was to come, or if that was not made.

Both rest on what a change announces (`Announced`, one lemma for each of the
three changes): a name whose frontend differs is among the changed or among the
added, and an addition is of a name that was not there. For a reload this says
that the three comparisons of the old and the new array leave nothing out.
`TodoInv` orders what a thread has still to do: additions first, each of another
name, and only the event at hand between its handlers.

The code filters arrays with `Where`, in the model too, as a sequence indexed by
the ranks of the positions that pass (`At`). The recursive `SelectSeq` is beyond
the prover; `AtElements` proves, from the cardinalities of finite sets, that `At`
lists each element that passes once, and nothing else.

Each invariance proof has one step per action and, under it, one per conjunct
the action can disturb; the theorems' last step is temporal (PTL).

## 6. What is only model-checked, and what is not modelled

Liveness under fairness is out of the prover's reach and is checked by TLC
(`LockReleased`, `PagesCleared`). The properties of the runs that expect a
violation are false, and a run is all there is to them. No recursive operators
are used.

Not modelled: the components of the table in section 1 that have no module yet;
parameter validation, token and XML formats and cryptography, which keep no
state; configuration stores; user interface, samples, tools and templates.
`PROJECT.json` gives the reason for each.

The products of this repository are written in C#. Little of its JavaScript
belongs to them: the script of the check-session page
(`IdentityServer/Endpoints/Results/check-session-result.js`), which compares a
session state in the browser, and that of the passkey pages (`passkeys.js` of user management). The
rest is pages of sample clients and copies of libraries (`oidc-client.js`, jQuery
validation, Bootstrap). None of it holds the logic above, and none is modelled.
