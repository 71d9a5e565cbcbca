--------------------------- MODULE KeyManagement ---------------------------
(***************************************************************************)
(* Automatic signing-key management: every server of a deployment runs     *)
(* requests that ask KeyManager for the keys to publish and the keys to    *)
(* sign with.  A server has an in-memory key cache and a lock shared by    *)
(* its requests; all servers share one key store.  A request that finds    *)
(* no usable key, or a key close to its expiry, creates new keys.          *)
(*                                                                         *)
(* Time is a clock `now` that servers read with a constant skew.  A        *)
(* request takes at most Lag units between two of its steps; the wait      *)
(* for the lock and the initialisation delay have limits of their own.     *)
(***************************************************************************)
EXTENDS Integers, FiniteSets

CONSTANTS
    Servers,            \* the processes of the deployment
    Requests,           \* concurrent callers of KeyManager
    Host,               \* the server a request runs on
    Algs,               \* KeyManagementOptions.SigningAlgorithms
    Skew,               \* how far the clock of a server is ahead
    None,               \* no lock holder, no key
    Propagation, Rotation, Retention,
    InitDuration, SyncDelay, InitCacheDuration, KeyCacheDuration,
    LockTimeout,        \* Caching.CacheLockTimeout
    Lag,                \* bound on the time between two steps of a request
    MaxTime,            \* bound of the model on the clock
    MaxTies             \* bound of the model on keys with one time stamp

\* What KeyManagementOptions.Validate accepts, and the well-formedness of
\* the bounds.
ASSUME OptionsAssumption ==
    /\ Host \in [Requests -> Servers]
    /\ Skew \in [Servers -> Nat]
    /\ None \notin Requests /\ Algs # {}
    /\ Propagation \in Nat \ {0}
    /\ Rotation \in Nat /\ Rotation > Propagation
    /\ Retention \in Nat \ {0}
    /\ InitDuration \in Nat /\ SyncDelay \in Nat
    /\ InitCacheDuration \in Nat /\ KeyCacheDuration \in Nat
    /\ LockTimeout \in Nat /\ Lag \in Nat
    /\ MaxTime \in Nat /\ MaxTies \in Nat

VARIABLES
    now,        \* the true time
    store,      \* ISigningKeyStore
    cache,      \* cache[s]: ISigningKeyStoreCache of server s
    lock,       \* lock[s]: holder of the new-key lock of server s
    pc,         \* pc[r]: the await a request is at
    loc,        \* loc[r]: its local variables
    due,        \* due[r]: the time by which (for a delay: at which) it goes on
    signed,     \* keys signed with after their propagation time
    early       \* keys signed with before it was over

vars == <<now, store, cache, lock, pc, loc, due, signed, early>>

(***************************************************************************)
(* Keys.  `by` records the creating server and is not part of the program; *)
(* `seq` orders time stamps the coarse clock of the model cannot tell      *)
(* apart.                                                                  *)
(***************************************************************************)
Key == [alg: Algs, created: Nat, seq: Nat, by: Servers]

Older(j, k) ==
    \/ j.created < k.created
    \/ j.created = k.created /\ j.seq < k.seq

\* Mutant: the skew with the wrong sign.
LocalBehind(s) == now - Skew[s]

Local(s) == now + Skew[s]

Age(k, s) == IF k.created > Local(s) THEN 0 ELSE Local(s) - k.created

RetirementAge == Rotation + Retention
IsRetired(k, s) == Age(k, s) >= RetirementAge
IsExpired(k, s) == Age(k, s) >= Rotation
IsNew(k, s) == Age(k, s) <= InitDuration

\* Mutant: the duration as it was set.
UncappedDuration == KeyCacheDuration

\* Validate() lowers a cache duration above half the propagation time.
CacheDuration ==
    IF 2 * KeyCacheDuration > Propagation THEN Propagation \div 2
                                          ELSE KeyCacheDuration

AllKeysNew(K, s) ==
    /\ InitDuration > 0
    /\ \A k \in K : IsExpired(k, s) \/ IsNew(k, s)

CanSign(k, s, ignoreDelay) ==
    LET t == IF k.created > Local(s) THEN k.created ELSE Local(s)
    IN /\ ignoreDelay \/ k.created + Propagation <= t
       /\ t <= k.created + Rotation

\* The oldest of the keys past the propagation delay, else the oldest usable.
Candidates(K, s) ==
    LET active == {k \in K : CanSign(k, s, FALSE)}
    IN IF active # {} THEN active ELSE {k \in K : CanSign(k, s, TRUE)}

OfAlg(K, a) == {k \in K : k.alg = a}

\* Mutant: the youngest usable key.
YoungestSigningKey(K, s) ==
    LET usable == {k \in K : CanSign(k, s, TRUE)}
    IN {k \in usable : \A j \in usable : ~Older(k, j)}

CurrentSigningKey(K, s) ==
    {k \in Candidates(K, s) : \A j \in Candidates(K, s) : ~Older(j, k)}

SigningKeys(K, s) == UNION {CurrentSigningKey(OfAlg(K, a), s) : a \in Algs}

\* A finite set of candidates has an oldest: none to sign with, no candidate.
HasAllSigningKeys(K, s) == \A a \in Algs : Candidates(OfAlg(K, a), s) # {}

\* For some algorithm there is no key to sign with, or the youngest key that
\* could take over is within the propagation time of its own expiry.
RotationRequired(K, s) ==
    \E a \in Algs :
        \/ Candidates(OfAlg(K, a), s) = {}
        \/ \E k \in OfAlg(K, a) :
             /\ \A j \in OfAlg(K, a) : ~Older(k, j)
             /\ Rotation - Age(k, s) <= Propagation

-----------------------------------------------------------------------------
(***************************************************************************)
(* GetAllKeysInternalAsync, one action per stretch between two awaits.     *)
(***************************************************************************)
PCs == {"idle", "load", "loaded", "wait", "reload", "reloaded", "create",
        "write", "delay", "synced", "done"}

\* The places between LockAsync and the Unlock of the finally block.
InLock == {"reload", "reloaded", "create", "write", "delay", "synced"}

NoLocals == [keys |-> {}, doomed |-> {}, signing |-> {}, ok |-> FALSE,
             rot |-> FALSE, todo |-> {}, new |-> None]

NoEntry == [keys |-> {}, expires |-> 0]

Init ==
    /\ now = 0
    /\ store = {}
    /\ cache = [s \in Servers |-> NoEntry]
    /\ lock = [s \in Servers |-> None]
    /\ pc = [r \in Requests |-> "idle"]
    /\ loc = [r \in Requests |-> NoLocals]
    /\ due = [r \in Requests |-> 0]
    /\ signed = {} /\ early = {}

\* InMemoryKeyStoreCache.GetKeysAsync: nothing once the entry is out of date.
Cached(s) == IF cache[s].expires >= Local(s) THEN cache[s].keys ELSE {}

\* CacheKeysAsync: no entry for no keys, nor for a zero duration.
CacheKeys(s, K) ==
    LET duration == IF AllKeysNew(K, s) THEN InitCacheDuration ELSE CacheDuration
    IN cache' = IF K # {} /\ duration > 0
                THEN [cache EXCEPT ![s] =
                         [keys |-> K, expires |-> Local(s) + duration]]
                ELSE cache

Goto(r, label, l, wait) ==
    /\ pc' = [pc EXCEPT ![r] = label]
    /\ loc' = [loc EXCEPT ![r] = l]
    /\ due' = [due EXCEPT ![r] = now + wait]

\* The request is over.
End(r) ==
    /\ pc' = [pc EXCEPT ![r] = "idle"]
    /\ loc' = [loc EXCEPT ![r] = NoLocals]
    /\ due' = [due EXCEPT ![r] = 0]

Unlock(r) == lock' = [lock EXCEPT ![Host[r]] = None]

\* Mutant: the keys to sign with are those of the first check.
CheckedOnce(l, K, s) ==
    [l EXCEPT !.keys = K, !.ok = l.ok \/ HasAllSigningKeys(K, s),
              !.rot = l.rot /\ RotationRequired(K, s)]

\* Mutant: no check is made again.
NotRechecked(l, K, s) == [l EXCEPT !.keys = K]

\* The checks a request makes on a key set: those still to be made are made.
Checked(l, K, s) ==
    LET ok == l.ok \/ HasAllSigningKeys(K, s)
    IN [l EXCEPT !.keys = K, !.ok = ok,
                 !.signing = IF l.ok THEN l.signing ELSE SigningKeys(K, s),
                 !.rot = l.rot /\ RotationRequired(K, s)]

\* The first checks: rotation matters only if there are keys to sign with.
FirstChecked(K, s) ==
    [NoLocals EXCEPT !.keys = K, !.signing = SigningKeys(K, s),
                     !.ok = HasAllSigningKeys(K, s),
                     !.rot = HasAllSigningKeys(K, s) /\ RotationRequired(K, s)]

NewKeyNeeded(l) == ~l.ok \/ l.rot

\* The return statement, or the exception when no key can sign.
Answer(r, l) ==
    IF l.signing = {} THEN End(r)
    ELSE Goto(r, "done", [NoLocals EXCEPT !.keys = l.keys,
                                          !.signing = l.signing], Lag)

AnswerOrWait(r, l) ==
    IF NewKeyNeeded(l) THEN Goto(r, "wait", l, LockTimeout) ELSE Answer(r, l)

\* A call arrives and reads the cache of its server.
Start(r) ==
    LET s == Host[r] IN
    /\ pc[r] = "idle"
    /\ IF Cached(s) = {} THEN Goto(r, "load", NoLocals, Lag)
                         ELSE AnswerOrWait(r, FirstChecked(Cached(s), s))
    /\ UNCHANGED <<now, store, cache, lock, signed, early>>

\* LoadKeysAsync, then the filter of FilterAndDeleteRetiredKeysAsync.
ReadStore(r, from, to) ==
    LET s == Host[r] IN
    /\ pc[r] = from
    /\ Goto(r, to, [loc[r] EXCEPT !.keys = {k \in store : ~IsRetired(k, s)},
                                  !.doomed = {k \in store : IsRetired(k, s)}], Lag)
    /\ UNCHANGED <<now, store, cache, lock, signed, early>>

Load(r) == ReadStore(r, "load", "loaded")
Reload(r) == ReadStore(r, "reload", "reloaded")

\* Task.Delay(InitializationSynchronizationDelay) is over.
Resync(r) == now >= due[r] /\ ReadStore(r, "delay", "synced")

\* DeleteKeysAsync: one awaited delete per retired key.
DeleteRetired(r) ==
    \E k \in loc[r].doomed :
        /\ store' = store \ {k}
        /\ Goto(r, pc[r], [loc[r] EXCEPT !.doomed = @ \ {k}], Lag)
        /\ UNCHANGED <<now, cache, lock, signed, early>>

\* The keys of the store go to the cache and are checked.
CheckLoaded(r) ==
    LET s == Host[r] IN
    /\ pc[r] = "loaded" /\ loc[r].doomed = {}
    /\ CacheKeys(s, loc[r].keys)
    /\ AnswerOrWait(r, FirstChecked(loc[r].keys, s))
    /\ UNCHANGED <<now, store, lock, signed, early>>

\* The lock is granted; another request may have filled the cache meanwhile.
Acquire(r) ==
    LET s == Host[r]
        l == Checked(loc[r], Cached(s), s)
    IN /\ pc[r] = "wait" /\ lock[s] = None
       /\ IF NewKeyNeeded(l)
          THEN lock' = [lock EXCEPT ![s] = r] /\ Goto(r, "reload", l, Lag)
          ELSE UNCHANGED lock /\ Answer(r, l)
       /\ UNCHANGED <<now, store, cache, signed, early>>

\* LockAsync returned false: the request fails.
LockTimesOut(r) ==
    /\ pc[r] = "wait" /\ lock[Host[r]] # None /\ now >= due[r]
    /\ End(r)
    /\ UNCHANGED <<now, store, cache, lock, signed, early>>

\* Keys whose time stamps have been taken.
Stamped == store \union {loc[r].new : r \in {q \in Requests : pc[q] = "write"}}

\* The next number free for a key with this time stamp.
NextSeq(a, created, n) ==
    LET ties == {k \in OfAlg(Stamped, a) : k.created = created}
    IN /\ \A k \in ties : k.seq < n
       /\ n = 0 \/ \E k \in ties : k.seq = n - 1

\* CreateAndStoreNewKeyAsync, up to the call of the store, for one of the
\* algorithms still to be served.
CreateKey(r, l) ==
    LET s == Host[r] IN
    \E a \in l.todo, n \in 0..MaxTies :
        /\ NextSeq(a, Local(s), n)
        /\ Goto(r, "write",
                [l EXCEPT !.todo = @ \ {a},
                     !.new = [alg |-> a, created |-> Local(s), seq |-> n, by |-> s]],
                Lag)

\* The keys of the store are cached and checked: are new ones still needed?
CheckReloaded(r) ==
    LET s == Host[r]
        l == Checked(loc[r], loc[r].keys, s)
    IN /\ pc[r] = "reloaded" /\ loc[r].doomed = {}
       /\ CacheKeys(s, loc[r].keys)
       /\ IF NewKeyNeeded(l) THEN Goto(r, "create", l, Lag) /\ UNCHANGED lock
                             ELSE Answer(r, l) /\ Unlock(r)
       /\ UNCHANGED <<now, store, signed, early>>

\* CreateNewKeysAndAddToCacheAsync starts from what is cached by now: a
\* request outside the lock may have cached a set it loaded earlier.
Create(r) ==
    /\ pc[r] = "create"
    /\ CreateKey(r, [loc[r] EXCEPT !.keys = Cached(Host[r]), !.todo = Algs])
    /\ UNCHANGED <<now, store, cache, lock, signed, early>>

\* CacheKeysAsync and GetAllCurrentSigningKeys at the end of the creation.
Finish(r, K) ==
    LET s == Host[r] IN
    /\ CacheKeys(s, K)
    /\ Answer(r, [loc[r] EXCEPT !.keys = K, !.signing = SigningKeys(K, s)])
    /\ Unlock(r)

\* The store has the key; after the last one, a delay if all keys are new.
Write(r) ==
    LET s == Host[r]
        K == loc[r].keys \union {loc[r].new}
        l == [loc[r] EXCEPT !.keys = K, !.new = None]
    IN /\ pc[r] = "write"
       /\ store' = store \union {loc[r].new}
       /\ \/ /\ l.todo # {}
             /\ CreateKey(r, l)
             /\ UNCHANGED <<cache, lock>>
          \/ /\ l.todo = {} /\ AllKeysNew(K, s)
             /\ Goto(r, "delay", l, SyncDelay)
             /\ UNCHANGED <<cache, lock>>
          \/ /\ l.todo = {} /\ ~AllKeysNew(K, s)
             /\ Finish(r, K)
       /\ UNCHANGED <<now, signed, early>>

FinishSynced(r) ==
    /\ pc[r] = "synced" /\ loc[r].doomed = {}
    /\ Finish(r, loc[r].keys)
    /\ UNCHANGED <<now, store, signed, early>>

\* The caller signs with the keys it was given.
Reply(r) ==
    /\ pc[r] = "done"
    /\ LET young == {k \in loc[r].signing : Age(k, Host[r]) < Propagation}
       IN /\ signed' = signed \union (loc[r].signing \ young)
          /\ early' = early \union young
    /\ End(r)
    /\ UNCHANGED <<now, store, cache, lock>>

\* Bound of the model: nothing fails when failures have already left many
\* keys with one time stamp.
MayFail == \A k \in Stamped : k.seq + 1 < MaxTies

\* Mutant: no finally.
StoreFailsLocked(r) ==
    /\ MayFail
    /\ pc[r] \in {"load", "reload", "write"}
    /\ End(r)
    /\ UNCHANGED <<now, store, cache, lock, signed, early>>

\* A call of the store throws: finally releases the lock.
StoreFails(r) ==
    /\ MayFail
    /\ \/ pc[r] \in {"load", "reload", "write"} \/ loc[r].doomed # {}
       \/ pc[r] = "delay" /\ now >= due[r]
    /\ End(r)
    /\ IF pc[r] \in InLock THEN Unlock(r) ELSE UNCHANGED lock
    /\ UNCHANGED <<now, store, cache, signed, early>>

\* The process of a server restarts: its cache, lock and requests are gone.
Restart(s) ==
    /\ MayFail
    /\ cache' = [cache EXCEPT ![s] = NoEntry]
    /\ lock' = [lock EXCEPT ![s] = None]
    /\ pc' = [r \in Requests |-> IF Host[r] = s THEN "idle" ELSE pc[r]]
    /\ loc' = [r \in Requests |-> IF Host[r] = s THEN NoLocals ELSE loc[r]]
    /\ due' = [r \in Requests |-> IF Host[r] = s THEN 0 ELSE due[r]]
    /\ UNCHANGED <<now, store, signed, early>>

\* Time passes while no request is held up beyond its bound.  An entry of a
\* cache that is out of date is never read again: the model forgets it.
Tick ==
    /\ now < MaxTime \/ \E r \in Requests : pc[r] \in {"delay", "wait"}
    /\ \A r \in Requests : pc[r] # "idle" =>
         now < due[r] /\ (pc[r] = "wait" => lock[Host[r]] # None)
    /\ now' = now + 1
    /\ cache' = [s \in Servers |-> IF cache[s].expires >= Local(s)' THEN cache[s]
                                   ELSE NoEntry]
    /\ UNCHANGED <<store, lock, pc, loc, due, signed, early>>

Step(r) ==
    \/ Load(r) \/ CheckLoaded(r) \/ Acquire(r) \/ LockTimesOut(r)
    \/ Reload(r) \/ CheckReloaded(r) \/ Create(r) \/ Write(r)
    \/ Resync(r) \/ FinishSynced(r) \/ DeleteRetired(r)
    \/ Reply(r)

Next ==
    \/ \E r \in Requests : Start(r) \/ Step(r) \/ StoreFails(r)
    \/ \E s \in Servers : Restart(s)
    \/ Tick

Spec == Init /\ [][Next]_vars

\* The runtime schedules every request, the semaphore of the lock queues its
\* waiters (DefaultConcurrencyLock), and time goes on however many calls
\* come and go within one unit of it; calls, failures and restarts need not
\* happen.
FairSpec ==
    /\ Spec
    /\ \A r \in Requests : WF_vars(Step(r)) /\ SF_vars(Acquire(r))
    /\ SF_vars(Tick)

-----------------------------------------------------------------------------
(***************************************************************************)
(* Properties                                                              *)
(***************************************************************************)
Locals == [keys : SUBSET Key, doomed : SUBSET Key, signing : SUBSET Key,
           ok : BOOLEAN, rot : BOOLEAN, todo : SUBSET Algs,
           new : Key \union {None}]

\* The type of the state.
TypeOK ==
    /\ now \in Nat
    /\ store \in SUBSET Key
    /\ cache \in [Servers -> [keys : SUBSET Key, expires : Nat]]
    /\ lock \in [Servers -> Requests \union {None}]
    /\ pc \in [Requests -> PCs]
    /\ loc \in [Requests -> Locals]
    /\ due \in [Requests -> Nat]
    /\ signed \in SUBSET Key /\ early \in SUBSET Key

\* A token signed with k can be validated with the key set of every server,
\* until a server's clock retires k.
PublishedEverywhere(k) ==
    (\A s \in Servers : ~IsRetired(k, s)) =>
        /\ k \in store
        /\ \A s \in Servers : Cached(s) # {} => k \in Cached(s)

\* A key that signed after its propagation time is published by every server
\* from then on: key sets are cached for at most half that time.
SignedKeysPublished == \A k \in signed : PublishedEverywhere(k)

\* What the synchronisation delay at the first start is meant to give: the
\* servers agree on the oldest key before anything is signed with it.
EarlyKeysPublished == \A k \in early : PublishedEverywhere(k)

\* The lock and the checks repeated under it stop the requests of one server
\* from rotating twice: with one algorithm, the keys a server creates are a
\* rotation interval less the propagation time apart.
SingleAlg == \A a, b \in Algs : a = b

OneRotationPerServer ==
    SingleAlg =>
        \A j, k \in store :
            (j.by = k.by /\ j # k) =>
                \/ j.created >= k.created + (Rotation - Propagation)
                \/ k.created >= j.created + (Rotation - Propagation)

\* Whatever path a request took, with checks made before and after the lock,
\* the keys to sign with have one key for each algorithm and are among the
\* keys it publishes.  One key may be missing from the latter for a moment: a
\* creation for several algorithms that stopped half-way left it, the next
\* creation saw it, and before that one read the cache a request outside the
\* lock had cached an older set.  It was stamped in this very unit of time.
AnswerIsConsistent ==
    \A r \in Requests : pc[r] = "done" =>
        /\ \A k \in loc[r].signing :
             k \in loc[r].keys \/ (~SingleAlg /\ Age(k, Host[r]) = 0)
        /\ \A a \in Algs : Cardinality(OfAlg(loc[r].signing, a)) = 1

\* A key signs before its propagation time is over only if no key of its
\* algorithm in the store is past its own: a rotation never skips the time
\* in which clients learn of the new key.
NoEarlySigning ==
    [][\A r \in Requests : \A k \in loc[r].signing :
          (Reply(r) /\ Age(k, Host[r]) < Propagation) =>
              \A j \in OfAlg(store, k.alg) : ~CanSign(j, Host[r], FALSE)]_vars

\* Whatever store calls fail and whichever way a request leaves, the lock of
\* a server is always released.
LockReleased == \A s \in Servers : lock[s] # None ~> lock[s] = None

=============================================================================
