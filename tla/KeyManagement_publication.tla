--------------------- MODULE KeyManagement_publication ---------------------
(***************************************************************************)
(* What servers publish and what their requests answer: why a key that has *)
(* signed after its propagation time is known to every server, why no key  *)
(* takes over before that time, and why the keys a request signs with are  *)
(* among those it publishes.  Each argument is about time, about the age   *)
(* of the key sets that caches and requests hold, and has a condition of   *)
(* its own: Timely, TimelyChoice, Alone.                                   *)
(***************************************************************************)
EXTENDS KeyManagement_proofs, WellFoundedInduction, FiniteSetTheorems

\* The longest time a key set stays in a cache.
LongestCached ==
  IF InitCacheDuration > CacheDuration THEN InitCacheDuration ELSE CacheDuration

\* The calls of the store take less than a unit of time, for a read that a
\* request sits on may be as old as a cache.  And if key sets are cached at
\* all then so are those of new keys, as the creation of a key starts from
\* the cache.
Prompt ==
  /\ Lag = 0
  /\ CacheDuration > 0 => InitCacheDuration > 0

\* What publication in time rests on beside Validate(): a cached key set and
\* the difference of two clocks together take less than the propagation time.
\* Validate() sees to it that half of it is enough for the one, the other
\* half is left for the clocks; InitializationKeyCacheDuration it does not
\* check.
Timely ==
  /\ Prompt
  /\ \A s, t \in Servers : Skew[s] - Skew[t] + LongestCached < Propagation

\* The true time at which a key was stamped.
Stamp(k) == k.created - Skew[k.by]

\* A key that has not been lost: it is stored, or some clock retires it.
Known(k) == k \in store \/ \E s \in Servers : IsRetired(k, s)

\* A key set that a server read just now: it lacks no stored key but those
\* the server retires and those stamped since.
Sees(K, s) == \A k \in store : k \in K \/ IsRetired(k, s) \/ now <= Stamp(k)

\* What a creation starts from: the store has just been read into the cache,
\* by this request or by one that overwrote it.
StartsFresh(r) ==
  pc[r] = "create" /\ CacheDuration > 0 => Sees(Cached(Host[r]), Host[r])

\* A request takes no time but for the lock and the delay, knows no lost key,
\* and what it is going to cache it has just read.
RequestOK(r) ==
  /\ pc[r] \notin {"idle", "wait", "delay"} => due[r] <= now
  /\ pc[r] = "write" => loc[r].new.created = Local(Host[r])
  /\ \A k \in loc[r].keys \union loc[r].signing : Known(k)
  /\ \A k \in loc[r].doomed : IsRetired(k, Host[r])
  /\ \/ pc[r] \in {"loaded", "reloaded", "synced"}
     \/ pc[r] = "write" /\ CacheDuration > 0
     => Sees(loc[r].keys, Host[r])
  /\ StartsFresh(r)

\* A cache that lacks a stored key was filled before that key was stamped,
\* and is out of date soon after.
CacheOK(s) ==
  /\ cache[s].expires <= Local(s) + LongestCached
  /\ \A k \in cache[s].keys : Known(k)
  /\ \A k \in store :
       \/ k \in cache[s].keys \/ cache[s].keys = {} \/ IsRetired(k, s)
       \/ cache[s].expires <= Stamp(k) + Skew[s] + LongestCached

\* A key that signed was past its propagation time on some clock.
SignedOK ==
  \A k \in signed : Known(k) /\ \E s \in Servers : k.created + Propagation <= Local(s)

PInv ==
  /\ IInv
  /\ \A r \in Requests : RequestOK(r)
  /\ \A s \in Servers : CacheOK(s)
  /\ SignedOK


-----------------------------------------------------------------------------
(* What time, and the steps of others, leave alone. *)

LEMMA RetiredStays ==
  ASSUME TypeOK, TypeOK', now <= now', NEW s \in Servers, NEW k \in Key,
         IsRetired(k, s)
  PROVE  IsRetired(k, s)'
<1>1. /\ k.created \in Nat /\ Local(s) \in Nat /\ Local(s)' \in Nat
      /\ Local(s) <= Local(s)' /\ RetirementAge \in Nat \ {0}
  BY LocalType, OptionsAssumption DEF Key, RetirementAge, TypeOK, Local
<1> HIDE DEF RetirementAge
<1> QED
  BY <1>1 DEF IsRetired, Age

\* A key is taken from the store only by a server that retires it.
Kept == \A k \in store : k \in store' \/ \E s \in Servers : IsRetired(k, s)

LEMMA KnownStays ==
  ASSUME TypeOK, TypeOK', now <= now', Kept, NEW k \in Key, Known(k)
  PROVE  Known(k)'
<1>1. k \in store' \/ \E s \in Servers : IsRetired(k, s)
  BY DEF Known, Kept
<1>2. ASSUME NEW s \in Servers, IsRetired(k, s)
      PROVE  IsRetired(k, s)'
  BY <1>2, RetiredStays
<1> QED
  BY <1>1, <1>2 DEF Known

LEMMA StampType ==
  ASSUME NEW k \in Key
  PROVE  /\ Stamp(k) \in Int /\ k.created \in Nat /\ k.by \in Servers
         /\ Skew[k.by] \in Nat
BY OptionsAssumption DEF Stamp, Key

LEMMA LongestType ==
  /\ LongestCached \in Nat
  /\ CacheDuration <= LongestCached /\ InitCacheDuration <= LongestCached
BY CacheDurationType, OptionsAssumption DEF LongestCached

\* The store gains keys stamped now, if any.
Gains == \A k \in store' : k \in store \/ now <= Stamp(k)

\* A set read before the step is as good after it.
LEMMA SeesStays ==
  ASSUME TypeOK, TypeOK', UNCHANGED now, Gains,
         NEW K, NEW s \in Servers, Sees(K, s)
  PROVE  \A k \in store' : k \in K \/ IsRetired(k, s)' \/ now' <= Stamp(k)
<1> SUFFICES ASSUME NEW k \in store', k \notin K, ~(now <= Stamp(k))
             PROVE  IsRetired(k, s)'
  OBVIOUS
<1>1. k \in store /\ k \in Key
  BY DEF Gains, TypeOK
<1>2. IsRetired(k, s)
  BY <1>1 DEF Sees
<1>3. now <= now'
  BY DEF TypeOK
<1> QED
  BY <1>1, <1>2, <1>3, RetiredStays

\* A step leaves a cache alone, or fills it with what the store has now.
Refreshed(s) ==
  \/ cache'[s] = cache[s] \/ CacheDuration = 0
  \/ cache'[s].expires >= Local(s) /\ Sees(cache'[s].keys, s)

LEMMA FreshStays ==
  ASSUME TypeOK, TypeOK', UNCHANGED now, Gains, NEW s \in Servers,
         Refreshed(s), CacheDuration > 0, Sees(Cached(s), s)
  PROVE  Sees(Cached(s), s)'
<1>1. Local(s)' = Local(s)
  BY DEF Local
<1>2. Sees(Cached(s)', s)
  BY <1>1 DEF Refreshed, Cached
<1>3. \A k \in store' : k \in Cached(s)' \/ IsRetired(k, s)' \/ now' <= Stamp(k)
  BY <1>2, SeesStays
<1> QED
  BY <1>3 DEF Sees

\* A request that a step leaves alone, within one unit of time.
LEMMA RequestStays ==
  ASSUME TypeOK, TypeOK', UNCHANGED now, Gains, Kept, NEW r \in Requests,
         Refreshed(Host[r]), RequestOK(r), pc'[r] = pc[r], loc'[r] = loc[r], due'[r] = due[r]
  PROVE  RequestOK(r)'
<1>1. Host[r] \in Servers /\ now <= now'
  BY OptionsAssumption DEF TypeOK
<1>2. /\ loc[r].keys \in SUBSET Key /\ loc[r].signing \in SUBSET Key
      /\ loc[r].doomed \in SUBSET Key
  BY DEF TypeOK, Locals
<1>3. \A k \in loc[r].keys \union loc[r].signing : Known(k)'
  BY <1>1, <1>2, KnownStays DEF RequestOK
<1>4. \A k \in loc[r].doomed : IsRetired(k, Host[r])'
  BY <1>1, <1>2, RetiredStays DEF RequestOK
<1>5. Sees(loc[r].keys, Host[r]) =>
        \A k \in store' : \/ k \in loc[r].keys \/ IsRetired(k, Host[r])'
                          \/ now' <= Stamp(k)
  BY <1>1, SeesStays
<1>6. Local(Host[r])' = Local(Host[r])
  BY DEF Local
<1>7. StartsFresh(r)'
  BY <1>1, FreshStays DEF StartsFresh, RequestOK
<1> QED
  BY <1>3, <1>4, <1>5, <1>6, <1>7 DEF RequestOK, Sees

\* A cache that a step leaves alone, within one unit of time.
LEMMA CacheStays ==
  ASSUME TypeOK, TypeOK', UNCHANGED now, Gains, Kept, NEW s \in Servers,
         CacheOK(s), cache'[s] = cache[s]
  PROVE  CacheOK(s)'
<1>1. now <= now' /\ Local(s)' = Local(s)
  BY DEF TypeOK, Local
<1>2. cache[s].keys \in SUBSET Key /\ cache[s].expires \in Nat
  BY DEF TypeOK
<1>3. \A k \in cache[s].keys : Known(k)'
  BY <1>1, <1>2, KnownStays DEF CacheOK
<1>4. ASSUME NEW k \in store'
      PROVE  \/ k \in cache[s].keys \/ cache[s].keys = {} \/ IsRetired(k, s)'
             \/ cache[s].expires <= Stamp(k) + Skew[s] + LongestCached
  <2>1. k \in Key
    BY DEF TypeOK
  <2>2. CASE k \in store
    BY <1>1, <2>1, <2>2, RetiredStays DEF CacheOK
  <2>3. CASE now <= Stamp(k)
    BY <2>1, <2>3, <1>2, StampType, LongestType, OptionsAssumption
       DEF CacheOK, Local, TypeOK
  <2> QED
    BY <2>2, <2>3 DEF Gains
<1> QED
  BY <1>1, <1>3, <1>4 DEF CacheOK

LEMMA SignedStays ==
  ASSUME TypeOK, TypeOK', now <= now', Kept, SignedOK, UNCHANGED signed
  PROVE  SignedOK'
<1> SUFFICES ASSUME NEW k \in signed
             PROVE  Known(k)' /\ \E s \in Servers : k.created + Propagation <= Local(s)'
  BY DEF SignedOK
<1>1. k \in Key
  BY DEF TypeOK
<1>2. Known(k)'
  BY <1>1, KnownStays DEF SignedOK
<1>3. PICK s \in Servers : k.created + Propagation <= Local(s)
  BY DEF SignedOK
<1>4. k.created + Propagation <= Local(s)'
  BY <1>1, <1>3, StampType, OptionsAssumption DEF Local, TypeOK
<1> QED
  BY <1>2, <1>4

-----------------------------------------------------------------------------
(* What a request and a cache come to. *)

\* Where a request may go, and with which locals.
MayLand(r, label, l, wait) ==
  /\ wait = 0 \/ label \in {"wait", "delay"}
  /\ label = "write" => l.new.created = Local(Host[r])
  /\ \A k \in l.keys \union l.signing : Known(k)'
  /\ \A k \in l.doomed : IsRetired(k, Host[r])'
  /\ \/ label \in {"loaded", "reloaded", "synced"}
     \/ label = "write" /\ CacheDuration > 0
     => Sees(l.keys, Host[r])
  /\ label = "create" /\ CacheDuration > 0 => Sees(Cached(Host[r])', Host[r])

LEMMA Landing ==
  ASSUME TypeOK, TypeOK', UNCHANGED now, Gains, NEW r \in Requests,
         NEW label, NEW l, NEW wait,
         Goto(r, label, l, wait), MayLand(r, label, l, wait)
  PROVE  RequestOK(r)'
<1>1. /\ pc'[r] = label /\ loc'[r] = l /\ due'[r] = now + wait
      /\ Host[r] \in Servers /\ now \in Nat
  BY OptionsAssumption DEF Goto, TypeOK
<1>2. Sees(l.keys, Host[r]) =>
        \A k \in store' : \/ k \in l.keys \/ IsRetired(k, Host[r])'
                          \/ now' <= Stamp(k)
  BY <1>1, SeesStays
<1>3. Local(Host[r])' = Local(Host[r])
  BY DEF Local
<1>4. label \notin {"wait", "delay"} => due'[r] <= now'
  BY <1>1 DEF MayLand
<1>5. StartsFresh(r)'
  <2> SUFFICES ASSUME label = "create", CacheDuration > 0
               PROVE  Sees(Cached(Host[r]), Host[r])'
    BY <1>1 DEF StartsFresh
  <2>1. \A k \in store' : \/ k \in Cached(Host[r])' \/ IsRetired(k, Host[r])'
                         \/ now' <= Stamp(k)
    BY <1>1, SeesStays DEF MayLand
  <2> QED
    BY <2>1 DEF Sees
<1> QED
  BY <1>1, <1>2, <1>3, <1>4, <1>5 DEF RequestOK, Sees, MayLand

LEMMA Ending ==
  ASSUME TypeOK, TypeOK', NEW r \in Requests, End(r)
  PROVE  RequestOK(r)'
BY DEF End, TypeOK, RequestOK, StartsFresh, NoLocals

LEMMA Answering ==
  ASSUME Lag = 0, TypeOK, TypeOK', UNCHANGED now, Gains, NEW r \in Requests,
         NEW l, Answer(r, l), \A k \in l.keys \union l.signing : Known(k)'
  PROVE  RequestOK(r)'
<1> DEFINE m == [NoLocals EXCEPT !.keys = l.keys, !.signing = l.signing]
<1>1. CASE l.signing = {}
  BY <1>1, Ending DEF Answer
<1>2. CASE l.signing # {}
  <2>1. Goto(r, "done", m, Lag)
    BY <1>2 DEF Answer
  <2>2. MayLand(r, "done", m, Lag)
    BY DEF MayLand, NoLocals
  <2> HIDE DEF m
  <2> QED
    BY <2>1, <2>2, Landing
<1> QED
  BY <1>1, <1>2

LEMMA AnsweringOrWaiting ==
  ASSUME Lag = 0, TypeOK, TypeOK', UNCHANGED now, Gains, NEW r \in Requests,
         NEW l, AnswerOrWait(r, l), l.doomed = {},
         \A k \in l.keys \union l.signing : Known(k)'
  PROVE  RequestOK(r)'
<1>1. MayLand(r, "wait", l, LockTimeout)
  BY DEF MayLand
<1> QED
  BY <1>1, Landing, Answering DEF AnswerOrWait

\* A request goes on to the store with a key it has just stamped.
LEMMA Creating ==
  ASSUME Lag = 0, TypeOK, TypeOK', UNCHANGED now, Gains, NEW r \in Requests,
         NEW l \in Locals, CreateKey(r, l),
         \A k \in l.keys \union l.signing : Known(k)',
         \A k \in l.doomed : IsRetired(k, Host[r])',
         CacheDuration > 0 => Sees(l.keys, Host[r])
  PROVE  RequestOK(r)'
<1> DEFINE s == Host[r]
           K(a, n) == [alg |-> a, created |-> Local(s), seq |-> n, by |-> s]
           m(a, n) == [l EXCEPT !.todo = @ \ {a}, !.new = K(a, n)]
<1>1. PICK a \in l.todo, n \in 0..MaxTies : Goto(r, "write", m(a, n), Lag)
  BY DEF CreateKey
<1>2. /\ m(a, n).keys = l.keys /\ m(a, n).signing = l.signing
      /\ m(a, n).doomed = l.doomed /\ m(a, n).new.created = Local(s)
  BY DEF Locals
<1> HIDE DEF m
<1>3. MayLand(r, "write", m(a, n), Lag)
  BY <1>2 DEF MayLand
<1> QED
  BY <1>1, <1>3, Landing

\* What is cached was seen just now.
LEMMA Caching ==
  ASSUME TypeOK, TypeOK', UNCHANGED now, Gains, Kept,
         NEW s \in Servers, NEW K \in SUBSET Key, CacheKeys(s, K),
         \A t \in Servers : CacheOK(t),
         \A k \in K : Known(k)',
         Sees(K, s) \/ (~AllKeysNew(K, s) /\ CacheDuration = 0)
  PROVE  \A t \in Servers : CacheOK(t)' /\ Refreshed(t)
<1> DEFINE d == IF AllKeysNew(K, s) THEN InitCacheDuration ELSE CacheDuration
<1>1. d \in Nat /\ d <= LongestCached
  BY CacheDurationType, LongestType, OptionsAssumption
<1>2. CASE UNCHANGED cache
  BY <1>2, CacheStays DEF Refreshed
<1>3. CASE /\ Sees(K, s)
           /\ cache' = [cache EXCEPT ![s] = [keys |-> K, expires |-> Local(s) + d]]
  <2>1. \A t \in Servers : t # s => cache'[t] = cache[t]
    BY <1>3 DEF TypeOK
  <2>2. cache'[s].keys = K /\ cache'[s].expires = Local(s) + d
    BY <1>3 DEF TypeOK
  <2>3. Local(s)' = Local(s) /\ Local(s) = now + Skew[s] /\ now \in Nat /\ Skew[s] \in Nat
    BY OptionsAssumption DEF Local, TypeOK
  <2> HIDE DEF d
  <2>4. \A k \in store' : k \in K \/ IsRetired(k, s)' \/ now' <= Stamp(k)
    BY <1>3, SeesStays
  <2>5. \A k \in store' : k \in Key
    BY DEF TypeOK
  <2>6. CacheOK(s)'
    <3>1. cache'[s].expires <= Local(s)' + LongestCached
      BY <1>1, <2>2, <2>3, LongestType
    <3>2. ASSUME NEW k \in store'
          PROVE  \/ k \in cache'[s].keys \/ cache'[s].keys = {} \/ IsRetired(k, s)'
                 \/ cache'[s].expires <= Stamp(k) + Skew[s] + LongestCached
      <4>1. CASE now' <= Stamp(k)
        BY <4>1, <1>1, <2>2, <2>3, <2>5, LongestType, StampType
      <4> QED
        BY <2>2, <2>4, <4>1
    <3> QED
      BY <2>2, <3>1, <3>2 DEF CacheOK
  <2>7. cache'[s].expires >= Local(s) /\ Sees(cache'[s].keys, s)
    BY <1>1, <1>3, <2>2, <2>3
  <2> QED
    BY <2>1, <2>6, <2>7, CacheStays DEF Refreshed
<1>4. \/ UNCHANGED cache
      \/ /\ d > 0
         /\ cache' = [cache EXCEPT ![s] = [keys |-> K, expires |-> Local(s) + d]]
  BY DEF CacheKeys
<1>5. d > 0 => Sees(K, s)
  BY CacheDurationType
<1> QED
  BY <1>2, <1>3, <1>4, <1>5

-----------------------------------------------------------------------------
(* A step of a request. *)

Untouched(r) ==
  \A q \in Requests \ {r} : pc'[q] = pc[q] /\ loc'[q] = loc[q] /\ due'[q] = due[q]

LEMMA GotoTouches ==
  ASSUME TypeOK, NEW r \in Requests, NEW label, NEW l, NEW wait, Goto(r, label, l, wait)
  PROVE  Untouched(r)
BY DEF Goto, TypeOK, Untouched

LEMMA EndTouches ==
  ASSUME TypeOK, NEW r \in Requests, End(r)
  PROVE  Untouched(r)
BY DEF End, TypeOK, Untouched

LEMMA AnswerTouches ==
  ASSUME TypeOK, NEW r \in Requests, NEW l, Answer(r, l)
  PROVE  Untouched(r)
BY GotoTouches, EndTouches DEF Answer

LEMMA CreateTouches ==
  ASSUME TypeOK, NEW r \in Requests, NEW l, CreateKey(r, l)
  PROVE  Untouched(r)
BY GotoTouches DEF CreateKey

\* What is left to show of a step of a request: where it comes to, what it
\* caches, and with which keys it signs.
LEMMA Assembled ==
  ASSUME PInv, IInv', UNCHANGED now, Gains, Kept, NEW r \in Requests,
         Untouched(r), RequestOK(r)',
         UNCHANGED cache \/ \A s \in Servers : CacheOK(s)' /\ Refreshed(s),
         UNCHANGED signed \/ SignedOK'
  PROVE  PInv'
<1>1. TypeOK /\ TypeOK' /\ now <= now' /\ \A s \in Servers : Refreshed(s)
  BY DEF PInv, IInv, TypeOK, Refreshed
<1>2. \A q \in Requests \ {r} : RequestOK(q)'
  BY <1>1, RequestStays, OptionsAssumption DEF PInv, Untouched
<1>3. \A s \in Servers : CacheOK(s)'
  BY <1>1, CacheStays DEF PInv
<1>4. SignedOK'
  BY <1>1, SignedStays DEF PInv
<1> QED
  BY <1>2, <1>3, <1>4 DEF PInv

\* Nothing is stored and nothing deleted.
LEMMA SameStore ==
  ASSUME UNCHANGED store
  PROVE  Gains /\ Kept
BY DEF Gains, Kept

LEMMA KnownLocals ==
  ASSUME PInv, IInv', UNCHANGED now, Kept, NEW r \in Requests
  PROVE  /\ \A k \in loc[r].keys \union loc[r].signing : Known(k)'
         /\ \A k \in loc[r].doomed : IsRetired(k, Host[r])'
         /\ \A s \in Servers : \A k \in cache[s].keys : Known(k)'
<1>1. TypeOK /\ TypeOK' /\ now <= now' /\ Host[r] \in Servers
  BY OptionsAssumption DEF PInv, IInv, TypeOK
<1>2. /\ loc[r].keys \in SUBSET Key /\ loc[r].signing \in SUBSET Key
      /\ loc[r].doomed \in SUBSET Key
      /\ \A s \in Servers : cache[s].keys \in SUBSET Key
  BY <1>1 DEF TypeOK, Locals
<1>3. /\ \A k \in loc[r].keys \union loc[r].signing : Known(k)
      /\ \A k \in loc[r].doomed : IsRetired(k, Host[r])
      /\ \A s \in Servers : \A k \in cache[s].keys : Known(k)
  BY DEF PInv, RequestOK, CacheOK
<1> QED
  BY <1>1, <1>2, <1>3, KnownStays, RetiredStays

\* The store is read: what is not retired is what the server sees.
LEMMA Reading ==
  ASSUME Lag = 0, PInv, IInv', NEW r \in Requests, NEW from, NEW to,
         ReadStore(r, from, to), to \notin {"create", "write"}
  PROVE  PInv'
<1> DEFINE s == Host[r]
           K == {k \in store : ~IsRetired(k, s)}
           D == {k \in store : IsRetired(k, s)}
           l == [loc[r] EXCEPT !.keys = K, !.doomed = D]
<1>0. /\ TypeOK /\ TypeOK' /\ s \in Servers /\ now <= now'
      /\ UNCHANGED <<now, store, cache, signed>> /\ Gains /\ Kept
  BY SameStore, OptionsAssumption DEF PInv, IInv, TypeOK, ReadStore
<1>1. Goto(r, to, l, Lag)
  BY DEF ReadStore
<1>2. l.keys = K /\ l.signing = loc[r].signing /\ l.doomed = D
  BY <1>0 DEF TypeOK, Locals
<1>3. \A k \in loc[r].signing : Known(k)'
  BY <1>0, KnownLocals
<1>4. \A k \in K : Known(k)'
  BY <1>0 DEF Known
<1>5. \A k \in D : IsRetired(k, s)'
  BY <1>0, RetiredStays DEF TypeOK
<1>6. Sees(K, s)
  BY DEF Sees
<1> HIDE DEF l, K, D
<1>7. MayLand(r, to, l, Lag)
  BY <1>2, <1>3, <1>4, <1>5, <1>6 DEF MayLand
<1>8. RequestOK(r)' /\ Untouched(r)
  BY <1>0, <1>1, <1>7, Landing, GotoTouches
<1> QED
  BY <1>0, <1>8, Assembled

\* The end of a creation.
LEMMA Finishing ==
  ASSUME Lag = 0, PInv, IInv', UNCHANGED <<now, signed>>, Gains, Kept,
         NEW r \in Requests, NEW K \in SUBSET Key, Finish(r, K),
         \A k \in K : Known(k)',
         \/ Sees(K, Host[r])
         \/ ~AllKeysNew(K, Host[r]) /\ CacheDuration = 0
  PROVE  PInv'
<1> DEFINE s == Host[r]
           l == [loc[r] EXCEPT !.keys = K, !.signing = SigningKeys(K, s)]
<1>0. TypeOK /\ TypeOK' /\ s \in Servers /\ \A t \in Servers : CacheOK(t)
  BY OptionsAssumption DEF PInv, IInv
<1>1. Answer(r, l) /\ CacheKeys(s, K)
  BY DEF Finish
<1>2. l.keys = K /\ l.signing \subseteq K
  BY <1>0, SigningKeysSubset DEF TypeOK, Locals
<1> HIDE DEF l
<1>3. RequestOK(r)' /\ Untouched(r)
  BY <1>0, <1>1, <1>2, Answering, AnswerTouches
<1>4. \A t \in Servers : CacheOK(t)' /\ Refreshed(t)
  BY <1>0, <1>1, Caching
<1> QED
  BY <1>3, <1>4, Assembled

-----------------------------------------------------------------------------
(* The steps one by one. *)

LEMMA Starts ==
  ASSUME Lag = 0, PInv, IInv', NEW r \in Requests, Start(r)
  PROVE  PInv'
<1> DEFINE s == Host[r]
           K == Cached(s)
           l == FirstChecked(K, s)
<1>0. /\ TypeOK /\ TypeOK' /\ s \in Servers
      /\ UNCHANGED <<now, store, cache, signed>> /\ Gains /\ Kept
  BY SameStore, OptionsAssumption DEF PInv, IInv, Start
<1>1. \A k \in K : Known(k)'
  BY <1>0, KnownLocals DEF Cached
<1>2. Goto(r, "load", NoLocals, Lag) \/ AnswerOrWait(r, l)
  BY DEF Start
<1>3. l.keys = K /\ l.signing \subseteq K /\ l.doomed = {}
  BY SigningKeysSubset DEF FirstChecked, NoLocals
<1> HIDE DEF l, K
<1>4. MayLand(r, "load", NoLocals, Lag)
  BY DEF MayLand, NoLocals
<1>5. RequestOK(r)'
  BY <1>0, <1>1, <1>2, <1>3, <1>4, Landing, AnsweringOrWaiting
<1>6. Untouched(r)
  BY <1>0, <1>2, GotoTouches, AnswerTouches DEF AnswerOrWait
<1> QED
  BY <1>0, <1>5, <1>6, Assembled

LEMMA ChecksLoaded ==
  ASSUME Lag = 0, PInv, IInv', NEW r \in Requests, CheckLoaded(r)
  PROVE  PInv'
<1> DEFINE s == Host[r]
           K == loc[r].keys
           l == FirstChecked(K, s)
<1>0. /\ TypeOK /\ TypeOK' /\ s \in Servers /\ K \in SUBSET Key
      /\ UNCHANGED <<now, store, signed>> /\ Gains /\ Kept
      /\ \A t \in Servers : CacheOK(t)
  BY SameStore, OptionsAssumption DEF PInv, IInv, CheckLoaded, TypeOK, Locals
<1>1. \A k \in K : Known(k)'
  BY <1>0, KnownLocals
<1>2. Sees(K, s)
  BY DEF CheckLoaded, PInv, RequestOK
<1>3. CacheKeys(s, K) /\ AnswerOrWait(r, l)
  BY DEF CheckLoaded
<1>4. l.keys = K /\ l.signing \subseteq K /\ l.doomed = {}
  BY SigningKeysSubset DEF FirstChecked, NoLocals
<1> HIDE DEF l, K
<1>5. RequestOK(r)'
  BY <1>0, <1>1, <1>3, <1>4, AnsweringOrWaiting
<1>6. Untouched(r)
  BY <1>0, <1>3, GotoTouches, AnswerTouches DEF AnswerOrWait
<1>7. \A t \in Servers : CacheOK(t)' /\ Refreshed(t)
  BY <1>0, <1>1, <1>2, <1>3, Caching
<1> QED
  BY <1>0, <1>5, <1>6, <1>7, Assembled

\* The keys of a second check come from the set checked, those to sign with
\* from that set or an earlier one.
LEMMA CheckedFields ==
  ASSUME NEW l \in Locals, NEW K, NEW s
  PROVE  /\ Checked(l, K, s).keys = K
         /\ Checked(l, K, s).signing \subseteq l.signing \union K
         /\ Checked(l, K, s).doomed = l.doomed
BY SigningKeysSubset DEF Checked, Locals

LEMMA Acquires ==
  ASSUME Lag = 0, PInv, IInv', NEW r \in Requests, Acquire(r)
  PROVE  PInv'
<1> DEFINE s == Host[r]
           K == Cached(s)
           l == Checked(loc[r], K, s)
<1>0. /\ TypeOK /\ TypeOK' /\ s \in Servers /\ loc[r] \in Locals
      /\ UNCHANGED <<now, store, cache, signed>> /\ Gains /\ Kept
  BY SameStore, OptionsAssumption DEF PInv, IInv, Acquire, TypeOK
<1>1. \A k \in K : Known(k)'
  BY <1>0, KnownLocals DEF Cached
<1>2. Goto(r, "reload", l, Lag) \/ Answer(r, l)
  BY DEF Acquire
<1>3. l.keys = K /\ l.signing \subseteq loc[r].signing \union K /\ l.doomed = loc[r].doomed
  BY <1>0, CheckedFields
<1> HIDE DEF l, K
<1>4. \A k \in l.keys \union l.signing : Known(k)'
  BY <1>0, <1>1, <1>3, KnownLocals
<1>5. \A k \in l.doomed : IsRetired(k, s)'
  BY <1>0, <1>3, KnownLocals
<1>6. MayLand(r, "reload", l, Lag)
  BY <1>4, <1>5 DEF MayLand
<1>7. RequestOK(r)'
  BY <1>0, <1>2, <1>4, <1>6, Landing, Answering
<1>8. Untouched(r)
  BY <1>0, <1>2, GotoTouches, AnswerTouches
<1> QED
  BY <1>0, <1>7, <1>8, Assembled

\* The store has just been read, and now it is in the cache.
LEMMA ChecksReloaded ==
  ASSUME Prompt, PInv, IInv', NEW r \in Requests, CheckReloaded(r)
  PROVE  PInv'
<1> DEFINE s == Host[r]
           K == loc[r].keys
           l == Checked(loc[r], K, s)
           C == Cached(s)'
<1>0. /\ TypeOK /\ TypeOK' /\ s \in Servers /\ K \in SUBSET Key
      /\ loc[r] \in Locals /\ loc[r].doomed = {} /\ Lag = 0
      /\ UNCHANGED <<now, store, signed>> /\ Gains /\ Kept
      /\ \A t \in Servers : CacheOK(t)
  BY SameStore, OptionsAssumption
     DEF PInv, IInv, CheckReloaded, TypeOK, Locals, Prompt
<1>1. \A k \in K \union loc[r].signing : Known(k)'
  BY <1>0, KnownLocals
<1>2. Sees(K, s)
  BY DEF CheckReloaded, PInv, RequestOK
<1>3. /\ CacheKeys(s, K)
      /\ Goto(r, "create", l, Lag) \/ Answer(r, l)
  BY DEF CheckReloaded
<1>4. \A t \in Servers : CacheOK(t)' /\ Refreshed(t)
  BY <1>0, <1>1, <1>2, <1>3, Caching
<1>5. CacheDuration > 0 => Sees(C, s)
  <2> SUFFICES ASSUME CacheDuration > 0
               PROVE  Sees(C, s)
    OBVIOUS
  <2>1. CASE K = {}
    BY <1>2, <2>1 DEF Sees
  <2>2. CASE K # {}
    <3> DEFINE d == IF AllKeysNew(K, s) THEN InitCacheDuration ELSE CacheDuration
    <3>1. d \in Nat /\ d > 0
      BY CacheDurationType, OptionsAssumption DEF Prompt
    <3>2. cache' = [cache EXCEPT ![s] = [keys |-> K, expires |-> Local(s) + d]]
      BY <1>3, <2>2, <3>1 DEF CacheKeys
    <3>3. Local(s)' = Local(s) /\ Local(s) \in Nat
      BY <1>0, LocalType DEF Local
    <3> HIDE DEF d
    <3>4. cache'[s].keys = K /\ cache'[s].expires >= Local(s)'
      BY <1>0, <3>1, <3>2, <3>3 DEF TypeOK
    <3>5. C = K
      BY <3>4 DEF Cached
    <3> QED
      BY <1>2, <3>5
  <2> QED
    BY <2>1, <2>2
<1>6. /\ l.keys = K /\ l.doomed = {}
      /\ l.signing \subseteq loc[r].signing \union K
  BY <1>0, CheckedFields
<1> HIDE DEF l, C
<1>7. MayLand(r, "create", l, Lag)
  BY <1>0, <1>1, <1>5, <1>6 DEF MayLand, C
<1>8. RequestOK(r)'
  BY <1>0, <1>1, <1>3, <1>6, <1>7, Landing, Answering
<1>9. Untouched(r)
  BY <1>0, <1>3, GotoTouches, AnswerTouches
<1> QED
  BY <1>0, <1>4, <1>8, <1>9, Assembled

\* The creation starts from the cache.
LEMMA Creates ==
  ASSUME Lag = 0, PInv, IInv', NEW r \in Requests, Create(r)
  PROVE  PInv'
<1> DEFINE s == Host[r]
           C == Cached(s)
           m == [loc[r] EXCEPT !.keys = C, !.todo = Algs]
<1>0. /\ TypeOK /\ TypeOK' /\ s \in Servers /\ loc[r] \in Locals
      /\ UNCHANGED <<now, store, cache, signed>> /\ Gains /\ Kept
  BY SameStore, OptionsAssumption DEF PInv, IInv, Create, TypeOK
<1>1. /\ C \in SUBSET Key /\ \A k \in C \union loc[r].signing : Known(k)'
      /\ \A k \in loc[r].doomed : IsRetired(k, s)'
  BY <1>0, CachedType, KnownLocals DEF Cached
<1>2. CacheDuration > 0 => Sees(C, s)
  BY DEF Create, PInv, RequestOK, StartsFresh
<1>3. CreateKey(r, m)
  BY DEF Create
<1> HIDE DEF C
<1>4. /\ m \in Locals /\ m.keys = C /\ m.doomed = loc[r].doomed
      /\ m.signing = loc[r].signing
  BY <1>0, <1>1 DEF Locals
<1> HIDE DEF m
<1>5. RequestOK(r)' /\ Untouched(r)
  BY <1>0, <1>1, <1>2, <1>3, <1>4, Creating, CreateTouches
<1> QED
  BY <1>0, <1>5, Assembled

LEMMA Writes ==
  ASSUME Prompt, PInv, IInv', NEW r \in Requests, Write(r)
  PROVE  PInv'
<1> DEFINE s == Host[r]
           new == loc[r].new
           K == loc[r].keys \union {new}
           l == [loc[r] EXCEPT !.keys = K, !.new = None]
<1>0. /\ TypeOK /\ TypeOK' /\ s \in Servers /\ loc[r] \in Locals
      /\ new \in Key /\ loc[r].keys \in SUBSET Key
      /\ UNCHANGED <<now, signed>> /\ store' = store \union {new} /\ Lag = 0
  BY OptionsAssumption
     DEF PInv, IInv, WritersHaveKeys, Write, TypeOK, Locals, Prompt
<1>1. now <= Stamp(new)
  BY <1>0, OptionsAssumption
     DEF Write, PInv, RequestOK, IInv, StampInv, Stamp, Local, TypeOK
<1>2. Gains /\ Kept
  BY <1>0, <1>1 DEF Gains, Kept
<1>3. \A k \in K : Known(k)'
  BY <1>0, <1>2, KnownLocals DEF Known
<1>4. CacheDuration > 0 => Sees(K, s)
  BY DEF Write, PInv, RequestOK, Sees
<1>5. /\ l \in Locals /\ l.keys = K /\ l.signing = loc[r].signing
      /\ l.doomed = loc[r].doomed
  BY <1>0 DEF Locals
<1>6. \/ CreateKey(r, l) /\ UNCHANGED cache
      \/ Goto(r, "delay", l, SyncDelay) /\ UNCHANGED cache
      \/ ~AllKeysNew(K, s) /\ Finish(r, K)
  BY DEF Write
<1> HIDE DEF l, K
<1>7. /\ \A k \in l.keys \union l.signing : Known(k)'
      /\ \A k \in l.doomed : IsRetired(k, s)'
  BY <1>0, <1>2, <1>3, <1>5, KnownLocals
<1>8. CASE CreateKey(r, l) /\ UNCHANGED cache
  <2>1. RequestOK(r)' /\ Untouched(r)
    BY <1>0, <1>2, <1>4, <1>5, <1>7, <1>8, Creating, CreateTouches
  <2> QED
    BY <1>0, <1>2, <1>8, <2>1, Assembled
<1>9. CASE Goto(r, "delay", l, SyncDelay) /\ UNCHANGED cache
  <2>1. MayLand(r, "delay", l, SyncDelay)
    BY <1>7 DEF MayLand
  <2>2. RequestOK(r)' /\ Untouched(r)
    BY <1>0, <1>2, <1>9, <2>1, Landing, GotoTouches
  <2> QED
    BY <1>0, <1>2, <1>9, <2>2, Assembled
<1>10. CASE ~AllKeysNew(K, s) /\ Finish(r, K)
  <2>1. K \in SUBSET Key
    BY <1>0 DEF K
  <2>2. CacheDuration > 0 \/ CacheDuration = 0
    BY CacheDurationType
  <2> QED
    BY <1>0, <1>2, <1>3, <1>4, <1>10, <2>1, <2>2, Finishing
<1> QED
  BY <1>6, <1>8, <1>9, <1>10

LEMMA FinishesSynced ==
  ASSUME Lag = 0, PInv, IInv', NEW r \in Requests, FinishSynced(r)
  PROVE  PInv'
<1>1. /\ UNCHANGED <<now, store, signed>> /\ Gains /\ Kept
      /\ loc[r].keys \in SUBSET Key /\ Finish(r, loc[r].keys)
  BY SameStore DEF PInv, IInv, FinishSynced, TypeOK, Locals
<1>2. Sees(loc[r].keys, Host[r])
  BY DEF FinishSynced, PInv, RequestOK
<1>3. \A k \in loc[r].keys : Known(k)'
  BY <1>1, KnownLocals
<1> QED
  BY <1>1, <1>2, <1>3, Finishing

LEMMA Deletes ==
  ASSUME Lag = 0, PInv, IInv', NEW r \in Requests, DeleteRetired(r)
  PROVE  PInv'
<1> DEFINE l(k) == [loc[r] EXCEPT !.doomed = @ \ {k}]
<1>1. PICK k \in loc[r].doomed :
         /\ store' = store \ {k}
         /\ Goto(r, pc[r], l(k), Lag)
         /\ UNCHANGED <<now, cache, lock, signed, early>>
  BY DEF DeleteRetired
<1>2. /\ TypeOK /\ TypeOK' /\ Host[r] \in Servers /\ loc[r] \in Locals
      /\ RequestOK(r)
  BY OptionsAssumption DEF PInv, IInv, TypeOK
<1>3. Gains /\ Kept
  BY <1>1, <1>2 DEF Gains, Kept, RequestOK
<1>4. /\ l(k).keys = loc[r].keys /\ l(k).signing = loc[r].signing
      /\ l(k).doomed \subseteq loc[r].doomed /\ l(k).new = loc[r].new
  BY <1>2 DEF Locals
<1> HIDE DEF l
<1>5. /\ \A j \in l(k).keys \union l(k).signing : Known(j)'
      /\ \A j \in l(k).doomed : IsRetired(j, Host[r])'
  BY <1>1, <1>3, <1>4, KnownLocals
<1>6. MayLand(r, pc[r], l(k), Lag)
  <2>1. Cached(Host[r])' = Cached(Host[r])
    BY <1>1 DEF Cached, Local
  <2> QED
    BY <1>2, <1>4, <1>5, <2>1 DEF MayLand, RequestOK, StartsFresh
<1>7. RequestOK(r)' /\ Untouched(r)
  BY <1>1, <1>2, <1>3, <1>6, Landing, GotoTouches
<1> QED
  BY <1>1, <1>3, <1>7, Assembled

\* A key older than the propagation time has been past it on this clock.
LEMMA AgedMeansPast ==
  ASSUME TypeOK, NEW s \in Servers, NEW k \in Key, ~(Age(k, s) < Propagation)
  PROVE  k.created + Propagation <= Local(s)
BY LocalType, StampType, OptionsAssumption DEF Age

LEMMA Replies ==
  ASSUME PInv, IInv', NEW r \in Requests, Reply(r)
  PROVE  PInv'
<1> DEFINE s == Host[r]
           old == {k \in loc[r].signing : ~(Age(k, s) < Propagation)}
<1>1. /\ TypeOK /\ TypeOK' /\ s \in Servers
      /\ UNCHANGED <<now, store, cache>> /\ Gains /\ Kept /\ End(r)
      /\ loc[r].signing \in SUBSET Key /\ now <= now'
  BY SameStore, OptionsAssumption DEF PInv, IInv, Reply, TypeOK, Locals
<1>2. signed' = signed \union old
  BY DEF Reply
<1>3. \A k \in old : Known(k)' /\ k.created + Propagation <= Local(s)'
  BY <1>1, KnownLocals, AgedMeansPast DEF Local
<1>4. \A k \in signed : Known(k)' /\ \E t \in Servers : k.created + Propagation <= Local(t)'
  BY <1>1, KnownStays DEF PInv, SignedOK, TypeOK, Local
<1> HIDE DEF old
<1>5. SignedOK'
  BY <1>1, <1>2, <1>3, <1>4 DEF SignedOK
<1>6. RequestOK(r)' /\ Untouched(r)
  BY <1>1, Ending, EndTouches
<1> QED
  BY <1>1, <1>5, <1>6, Assembled

\* A request ends without an answer.
LEMMA Breaks ==
  ASSUME PInv, IInv', NEW r \in Requests, End(r),
         UNCHANGED <<now, store, cache, signed>>
  PROVE  PInv'
<1>1. TypeOK /\ TypeOK' /\ Gains /\ Kept
  BY SameStore DEF PInv, IInv
<1>2. RequestOK(r)' /\ Untouched(r)
  BY <1>1, Ending, EndTouches
<1> QED
  BY <1>1, <1>2, Assembled

LEMMA Restarts ==
  ASSUME PInv, IInv', NEW s \in Servers, Restart(s)
  PROVE  PInv'
<1>1. /\ TypeOK /\ TypeOK' /\ now <= now'
      /\ UNCHANGED <<now, store, signed>> /\ Gains /\ Kept
  BY SameStore DEF PInv, IInv, Restart, TypeOK
<1>2. ASSUME NEW r \in Requests
      PROVE  RequestOK(r)'
  <2>1. CASE Host[r] = s
    <3>1. pc'[r] = "idle" /\ loc'[r] = NoLocals
      BY <2>1 DEF Restart
    <3> QED
      BY <3>1 DEF RequestOK, StartsFresh, NoLocals
  <2>2. CASE Host[r] # s
    <3>1. pc'[r] = pc[r] /\ loc'[r] = loc[r] /\ due'[r] = due[r]
      BY <2>2 DEF Restart
    <3>2. Refreshed(Host[r])
      BY <1>1, <2>2, OptionsAssumption DEF Restart, Refreshed, TypeOK
    <3> QED
      BY <1>1, <3>1, <3>2, RequestStays DEF PInv
  <2> QED
    BY <2>1, <2>2
<1>3. ASSUME NEW t \in Servers
      PROVE  CacheOK(t)'
  <2>1. CASE t = s
    <3>1. cache'[t] = NoEntry
      BY <1>1, <2>1 DEF Restart, TypeOK
    <3>2. Local(t)' \in Nat
      BY <1>1, OptionsAssumption DEF Local, TypeOK
    <3> QED
      BY <3>1, <3>2, LongestType DEF CacheOK, NoEntry
  <2>2. CASE t # s
    <3>1. cache'[t] = cache[t]
      BY <1>1, <2>2 DEF Restart, TypeOK
    <3> QED
      BY <1>1, <3>1, CacheStays DEF PInv
  <2> QED
    BY <2>1, <2>2
<1>4. SignedOK'
  BY <1>1, SignedStays DEF PInv
<1> QED
  BY <1>2, <1>3, <1>4 DEF PInv

\* Time passes only while every request waits for the lock or the delay.
LEMMA Ticks ==
  ASSUME PInv, IInv', Tick
  PROVE  PInv'
<1>1. /\ TypeOK /\ TypeOK' /\ now' = now + 1 /\ now \in Nat /\ now <= now'
      /\ UNCHANGED <<store, pc, loc, due, signed>> /\ Kept
  BY SameStore DEF PInv, IInv, Tick, TypeOK
<1>2. ASSUME NEW r \in Requests
      PROVE  RequestOK(r)'
  <2>1. /\ loc[r].keys \in SUBSET Key /\ loc[r].signing \in SUBSET Key
        /\ loc[r].doomed \in SUBSET Key /\ Host[r] \in Servers /\ due[r] \in Nat
    BY <1>1, OptionsAssumption DEF TypeOK, Locals
  <2>2. pc[r] \in {"idle", "wait", "delay"}
    BY <1>1, <2>1 DEF Tick, PInv, RequestOK
  <2>3. \A k \in loc[r].keys \union loc[r].signing : Known(k)'
    BY <1>1, <2>1, KnownStays DEF PInv, RequestOK
  <2>4. \A k \in loc[r].doomed : IsRetired(k, Host[r])'
    BY <1>1, <2>1, RetiredStays DEF PInv, RequestOK
  <2> QED
    BY <1>1, <2>2, <2>3, <2>4 DEF RequestOK, StartsFresh
<1>3. ASSUME NEW s \in Servers
      PROVE  CacheOK(s)'
  <2>1. /\ Local(s) \in Nat /\ Local(s)' = Local(s) + 1 /\ LongestCached \in Nat
        /\ cache[s].keys \in SUBSET Key /\ cache[s].expires \in Nat
    BY <1>1, LocalType, LongestType, OptionsAssumption DEF Local, TypeOK
  <2>2. CASE cache'[s] = NoEntry
    BY <2>1, <2>2 DEF CacheOK, NoEntry
  <2>3. CASE cache'[s] = cache[s]
    <3>1. \A k \in cache[s].keys : Known(k)'
      BY <1>1, <2>1, KnownStays DEF PInv, CacheOK
    <3>2. \A k \in store :
            \/ k \in cache[s].keys \/ cache[s].keys = {} \/ IsRetired(k, s)'
            \/ cache[s].expires <= Stamp(k) + Skew[s] + LongestCached
      BY <1>1, RetiredStays DEF PInv, CacheOK, TypeOK
    <3>3. cache[s].expires <= Local(s)' + LongestCached
      BY <2>1 DEF PInv, CacheOK
    <3> QED
      BY <1>1, <2>3, <3>1, <3>2, <3>3 DEF CacheOK
  <2>4. cache'[s] = NoEntry \/ cache'[s] = cache[s]
    BY DEF Tick
  <2> QED
    BY <2>2, <2>3, <2>4
<1>4. SignedOK'
  BY <1>1, SignedStays DEF PInv
<1> QED
  BY <1>2, <1>3, <1>4 DEF PInv

LEMMA PublicationKept ==
  ASSUME Prompt, PInv, [Next]_vars
  PROVE  PInv'
<1>0. IInv' /\ Lag = 0
  BY NextKeeps DEF PInv, Prompt
<1>1. ASSUME NEW r \in Requests, Step(r)
      PROVE  PInv'
  <2>1. CASE Load(r) \/ Reload(r) \/ Resync(r)
    BY <1>0, <2>1, Reading DEF Load, Reload, Resync
  <2>2. CASE LockTimesOut(r)
    BY <1>0, <2>2, Breaks DEF LockTimesOut
  <2> QED
    BY <1>0, <1>1, <2>1, <2>2, ChecksLoaded, Acquires, ChecksReloaded, Creates,
       Writes, FinishesSynced, Deletes, Replies DEF Step
<1>2. ASSUME NEW r \in Requests, StoreFails(r)
      PROVE  PInv'
  BY <1>0, <1>2, Breaks DEF StoreFails
<1>3. CASE UNCHANGED vars
  BY <1>0, <1>3 DEF vars, PInv, RequestOK, StartsFresh, CacheOK, SignedOK,
                    Known, Sees, Cached, IsRetired, Age, Local
<1> QED
  BY <1>0, <1>1, <1>2, <1>3, Starts, Restarts, Ticks DEF Next

LEMMA PublicationInit ==
  ASSUME Init
  PROVE  PInv
<1>1. IInv
  BY InitInv
<1>2. \A r \in Requests : pc[r] = "idle" /\ loc[r] = NoLocals
  BY DEF Init
<1>3. \A r \in Requests : RequestOK(r)
  BY <1>2 DEF RequestOK, StartsFresh, NoLocals
<1>4. ASSUME NEW s \in Servers
      PROVE  CacheOK(s)
  <2>1. cache[s] = NoEntry /\ Local(s) \in Nat
    BY <1>1, LocalType DEF Init, IInv
  <2> QED
    BY <2>1, LongestType DEF CacheOK, NoEntry
<1> QED
  BY <1>1, <1>3, <1>4 DEF Init, PInv, SignedOK

\* Known, and in a cache: by the time a key may sign on any clock, every
\* cache that was filled without it is out of date.
LEMMA SignedMeansPublished ==
  ASSUME Timely, PInv
  PROVE  SignedKeysPublished
<1> SUFFICES ASSUME NEW k \in signed, \A s \in Servers : ~IsRetired(k, s)
             PROVE  /\ k \in store
                    /\ \A s \in Servers : Cached(s) # {} => k \in Cached(s)
  BY DEF SignedKeysPublished, PublishedEverywhere
<1>1. k \in Key /\ k \in store
  BY DEF PInv, IInv, TypeOK, SignedOK, Known
<1>2. PICK h \in Servers : k.created + Propagation <= Local(h)
  BY DEF PInv, SignedOK
<1>3. ASSUME NEW s \in Servers, Cached(s) # {}
      PROVE  k \in Cached(s)
  <2>1. /\ cache[s].expires >= Local(s) /\ Cached(s) = cache[s].keys
        /\ cache[s].expires \in Nat /\ now \in Nat
    BY <1>3 DEF Cached, PInv, IInv, TypeOK
  <2>2. /\ Skew[s] \in Nat /\ Skew[h] \in Nat /\ Skew[k.by] \in Nat
        /\ k.created \in Nat /\ LongestCached \in Nat /\ Propagation \in Nat
        /\ Skew[h] - Skew[k.by] + LongestCached < Propagation
    BY <1>1, LongestType, StampType, OptionsAssumption DEF Timely
  <2>3. ~(cache[s].expires <= Stamp(k) + Skew[s] + LongestCached)
    BY <1>2, <2>1, <2>2 DEF Stamp, Local
  <2> QED
    BY <1>1, <1>3, <2>1, <2>3 DEF PInv, CacheOK
<1> QED
  BY <1>1, <1>3

\* Under Timely, a key that signed after its propagation time is in the store
\* and in every cache that is read, until a clock retires it: whatever
\* servers, requests, failures, restarts and creations at one time.
THEOREM SignedKeysKnown == Timely => (Spec => []SignedKeysPublished)
<1> SUFFICES ASSUME Timely
             PROVE  Spec => []SignedKeysPublished
  OBVIOUS
<1>1. Init => PInv
  BY PublicationInit
<1>2. PInv /\ [Next]_vars => PInv'
  BY PublicationKept DEF Timely
<1>3. PInv => SignedKeysPublished
  BY SignedMeansPublished
<1> QED
  BY <1>1, <1>2, <1>3, PTL DEF Spec

-----------------------------------------------------------------------------
(***************************************************************************)
(* The choice of a signing key.  A request keeps the keys it chose while   *)
(* it waits for the lock; by the time it answers they are as old as a      *)
(* cache and that wait together.                                           *)
(***************************************************************************)

\* What the choice rests on: as for publication, with the wait for the lock
\* on top, and with caches in use.  (Without a cache a creation starts from
\* nothing and signs with its new key, whatever else is in the store.)
TimelyChoice ==
  /\ Lag = 0
  /\ CacheDuration > 0 /\ InitCacheDuration > 0
  /\ \A s, t \in Servers :
       Skew[s] - Skew[t] + LongestCached + LockTimeout < Propagation

\* Why a request of server s that chose k need not have chosen j: k is the
\* older, or past its propagation time, or j has expired, or j was stamped
\* too late for the request to know it.
Settled(k, j, s, t) ==
  \/ k.created <= j.created
  \/ k.created + Propagation <= Local(s)
  \/ j.created + Rotation < Local(s)
  \/ t <= Stamp(j) + LongestCached + LockTimeout

Chosen(S, s, t) == \A k \in S : \A j \in OfAlg(store, k.alg) : Settled(k, j, s, t)

\* The choices that will be kept.
ChoiceOK(r) ==
  /\ pc[r] = "wait" => now <= due[r] /\ due[r] <= now + LockTimeout
  /\ pc[r] \in {"wait", "reload", "reloaded", "done"} =>
       Chosen(loc[r].signing, Host[r], IF pc[r] = "wait" THEN due[r] ELSE now)

CInv == PInv /\ \A r \in Requests : ChoiceOK(r)

LEMMA TimelyChoiceIsTimely == TimelyChoice => Timely
BY LongestType, OptionsAssumption DEF TimelyChoice, Timely, Prompt

\* Within one unit of time the store gains only keys stamped too late.
LEMMA ChosenStays ==
  ASSUME TypeOK, TypeOK', UNCHANGED now, Gains, NEW S, NEW s \in Servers,
         NEW t \in Nat, t <= now + LockTimeout, Chosen(S, s, t)
  PROVE  \A k \in S : \A j \in OfAlg(store', k.alg) : Settled(k, j, s, t)
<1> SUFFICES ASSUME NEW k \in S, NEW j \in OfAlg(store', k.alg)
             PROVE  Settled(k, j, s, t)
  OBVIOUS
<1>1. j \in Key /\ Stamp(j) \in Int /\ now \in Nat
  BY StampType DEF TypeOK, OfAlg
<1>2. CASE j \in store
  BY <1>2 DEF Chosen, OfAlg
<1>3. CASE now <= Stamp(j)
  BY <1>1, <1>3, LongestType, OptionsAssumption DEF Settled
<1> QED
  BY <1>2, <1>3 DEF Gains, OfAlg

\* A key set at most as old as a cache.
Recent(K, s) ==
  \A j \in store : j \in K \/ IsRetired(j, s) \/ now <= Stamp(j) + LongestCached

LEMMA SeenIsRecent ==
  ASSUME TypeOK, NEW K, NEW s \in Servers, Sees(K, s)
  PROVE  Recent(K, s)
<1> SUFFICES ASSUME NEW j \in store, now <= Stamp(j)
             PROVE  now <= Stamp(j) + LongestCached
  BY DEF Sees, Recent
<1> QED
  BY StampType, LongestType DEF TypeOK

LEMMA CachedIsRecent ==
  ASSUME PInv, NEW s \in Servers
  PROVE  Cached(s) = {} \/ Recent(Cached(s), s)
<1> SUFFICES ASSUME Cached(s) # {}, NEW j \in store,
                    j \notin Cached(s), ~IsRetired(j, s)
             PROVE  now <= Stamp(j) + LongestCached
  BY DEF Recent
<1>1. /\ cache[s].expires >= Local(s) /\ Cached(s) = cache[s].keys
      /\ cache[s].expires \in Nat /\ now \in Nat /\ j \in Key
  BY DEF Cached, PInv, IInv, TypeOK
<1>2. cache[s].expires <= Stamp(j) + Skew[s] + LongestCached
  BY <1>1 DEF PInv, CacheOK
<1> QED
  BY <1>1, <1>2, StampType, LongestType, OptionsAssumption DEF Local

\* A choice made on a recent set.
LEMMA Choosing ==
  ASSUME TypeOK, NEW s \in Servers, NEW K \in SUBSET Key, Recent(K, s)
  PROVE  /\ Chosen(SigningKeys(K, s), s, now + LockTimeout)
         /\ Chosen(SigningKeys(K, s), s, now)
<1> SUFFICES ASSUME NEW k \in SigningKeys(K, s), NEW j \in OfAlg(store, k.alg)
             PROVE  /\ Settled(k, j, s, now + LockTimeout)
                    /\ Settled(k, j, s, now)
  BY DEF Chosen
<1>1. /\ k \in Key /\ j \in Key /\ k \in K /\ j \in store /\ j.alg = k.alg
      /\ Local(s) \in Nat /\ now \in Nat /\ Stamp(j) \in Int
  BY SigningKeysSubset, LocalType, StampType DEF OfAlg, TypeOK
<1>2. PICK a \in Algs : k \in CurrentSigningKey(OfAlg(K, a), s)
  BY DEF SigningKeys
<1>3. a = k.alg /\ k \in Candidates(OfAlg(K, a), s)
  BY <1>2 DEF CurrentSigningKey, Candidates, OfAlg
<1>4. CASE now <= Stamp(j) + LongestCached
  BY <1>1, <1>4, LongestType, OptionsAssumption DEF Settled
<1>5. CASE IsRetired(j, s)
  BY <1>1, <1>5, OptionsAssumption DEF Settled, IsRetired, Age, RetirementAge, Key
<1>6. CASE /\ j \in K /\ ~(k.created + Propagation <= Local(s))
           /\ ~(j.created + Rotation < Local(s))
  <2>1. k.created \in Nat /\ j.created \in Nat /\ Rotation \in Nat /\ Propagation \in Nat
        /\ Propagation > 0
    BY <1>1, OptionsAssumption DEF Key
  <2>2. ~CanSign(k, s, FALSE)
    BY <1>1, <1>6, <2>1 DEF CanSign
  <2>3. CanSign(j, s, TRUE)
    BY <1>1, <1>6, <2>1 DEF CanSign
  <2>4. j \in Candidates(OfAlg(K, a), s)
    BY <1>1, <1>3, <1>6, <2>2, <2>3 DEF Candidates, OfAlg
  <2>5. ~Older(j, k)
    BY <1>2, <2>4 DEF CurrentSigningKey
  <2> QED
    BY <2>1, <2>5 DEF Older, Settled
<1> QED
  BY <1>1, <1>4, <1>5, <1>6 DEF Recent, Settled

\* What a step leaves of a choice, or makes anew.
LEMMA ChoiceKept ==
  ASSUME TypeOK, TypeOK', UNCHANGED now, Gains, NEW r \in Requests,
         NEW S, NEW t \in Nat, t <= now + LockTimeout,
         pc'[r] = "wait" => t = due'[r] /\ now <= t,
         pc'[r] \in {"reload", "reloaded", "done"} => t = now,
         pc'[r] \in {"wait", "reload", "reloaded", "done"} =>
           /\ loc'[r].signing \subseteq S
           /\ Chosen(S, Host[r], t)
  PROVE  ChoiceOK(r)'
<1>1. Host[r] \in Servers /\ now' = now
  BY OptionsAssumption
<1>2. Chosen(S, Host[r], t) =>
        \A k \in S : \A j \in OfAlg(store', k.alg) : Settled(k, j, Host[r], t)
  BY <1>1, ChosenStays
<1>3. \A k, j : Settled(k, j, Host[r], t)' <=> Settled(k, j, Host[r], t)
  BY <1>1 DEF Settled, Local
<1>4. pc'[r] \in {"wait", "reload", "reloaded", "done"} =>
        t = (IF pc'[r] = "wait" THEN due'[r] ELSE now')
  BY <1>1
<1>5. pc'[r] = "wait" => now' <= due'[r] /\ due'[r] <= now' + LockTimeout
  BY <1>1
<1>6. ASSUME pc'[r] \in {"wait", "reload", "reloaded", "done"}
      PROVE  \A k \in loc'[r].signing : \A j \in OfAlg(store', k.alg) :
               Settled(k, j, Host[r], IF pc[r] = "wait" THEN due[r] ELSE now)'
  <2> SUFFICES ASSUME NEW k \in loc'[r].signing, NEW j \in OfAlg(store', k.alg)
               PROVE  Settled(k, j, Host[r], IF pc[r] = "wait" THEN due[r] ELSE now)'
    OBVIOUS
  <2>1. Settled(k, j, Host[r], t)'
    BY <1>2, <1>3, <1>6
  <2> QED
    BY <1>4, <1>6, <2>1 DEF Settled
<1> QED
  BY <1>5, <1>6 DEF ChoiceOK, Chosen, OfAlg

LEMMA ChoiceUntouched ==
  ASSUME TypeOK, TypeOK', UNCHANGED now, Gains, NEW r \in Requests, ChoiceOK(r),
         pc'[r] = pc[r], loc'[r] = loc[r], due'[r] = due[r]
  PROVE  ChoiceOK(r)'
<1>1. PICK t \in Nat : t = IF pc[r] = "wait" THEN due[r] ELSE now
  BY DEF TypeOK
<1>2. t <= now + LockTimeout
  BY <1>1, OptionsAssumption DEF ChoiceOK, TypeOK
<1>3. pc[r] \in {"wait", "reload", "reloaded", "done"} =>
        Chosen(loc[r].signing, Host[r], t)
  BY <1>1 DEF ChoiceOK
<1>4. pc[r] = "wait" => t = due[r] /\ now <= t
  BY <1>1 DEF ChoiceOK
<1>5. PICK S : S = loc[r].signing
  OBVIOUS
<1> QED
  BY <1>1, <1>2, <1>3, <1>4, <1>5, ChoiceKept

LEMMA ChoiceAssembled ==
  ASSUME CInv, PInv', UNCHANGED now, Gains, NEW r \in Requests, Untouched(r),
         ChoiceOK(r)'
  PROVE  CInv'
<1>1. TypeOK /\ TypeOK'
  BY DEF CInv, PInv, IInv
<1>2. \A q \in Requests \ {r} : ChoiceOK(q)'
  BY <1>1, ChoiceUntouched DEF CInv, Untouched
<1> QED
  BY <1>2 DEF CInv

\* A request that leaves the places where a choice is kept.
LEMMA ChoiceDropped ==
  ASSUME CInv, PInv', UNCHANGED now, Gains, NEW r \in Requests, Untouched(r),
         pc'[r] \notin {"wait", "reload", "reloaded", "done"}
  PROVE  CInv'
<1>1. ChoiceOK(r)'
  BY DEF ChoiceOK
<1> QED
  BY <1>1, ChoiceAssembled

\* An answer carries the choice of the locals it is made from.
LEMMA ChoiceAnswered ==
  ASSUME CInv, PInv', UNCHANGED now, Gains, NEW r \in Requests, NEW l,
         Answer(r, l), Chosen(l.signing, Host[r], now)
  PROVE  CInv'
<1>1. TypeOK /\ TypeOK' /\ now \in Nat
  BY DEF CInv, PInv, IInv, TypeOK
<1>2. Untouched(r)
  BY <1>1, AnswerTouches
<1>3. CASE l.signing = {}
  <2>1. pc'[r] = "idle"
    BY <1>1, <1>3 DEF Answer, End, TypeOK
  <2> QED
    BY <1>2, <2>1, ChoiceDropped
<1>4. CASE l.signing # {}
  <2>1. pc'[r] = "done" /\ loc'[r].signing = l.signing
    <3> DEFINE m == [NoLocals EXCEPT !.keys = l.keys, !.signing = l.signing]
    <3>1. Goto(r, "done", m, Lag)
      BY <1>4 DEF Answer
    <3>2. m.signing = l.signing
      BY DEF NoLocals
    <3> HIDE DEF m
    <3> QED
      BY <1>1, <3>1, <3>2 DEF Goto, TypeOK
  <2>2. PICK t \in Nat : t = now
    BY <1>1
  <2>3. t <= now + LockTimeout
    BY <2>2, OptionsAssumption
  <2>4. PICK S : S = l.signing
    OBVIOUS
  <2>5. ChoiceOK(r)'
    BY <1>1, <2>1, <2>2, <2>3, <2>4, ChoiceKept
  <2> QED
    BY <1>2, <2>5, ChoiceAssembled
<1> QED
  BY <1>3, <1>4

\* A request goes to the lock with a choice made now, and may keep it for as
\* long as it may wait.
LEMMA ChoiceAnsweredOrWaiting ==
  ASSUME CInv, PInv', UNCHANGED now, Gains, NEW r \in Requests, NEW l,
         AnswerOrWait(r, l), Chosen(l.signing, Host[r], now),
         Chosen(l.signing, Host[r], now + LockTimeout)
  PROVE  CInv'
<1>1. TypeOK /\ TypeOK' /\ now \in Nat
  BY DEF CInv, PInv, IInv, TypeOK
<1>2. CASE Answer(r, l)
  BY <1>2, ChoiceAnswered
<1>3. CASE Goto(r, "wait", l, LockTimeout)
  <2>1. pc'[r] = "wait" /\ loc'[r] = l /\ due'[r] = now + LockTimeout
    BY <1>1, <1>3 DEF Goto, TypeOK
  <2>2. PICK t \in Nat : t = now + LockTimeout
    BY <1>1, OptionsAssumption
  <2>3. t <= now + LockTimeout /\ now <= t
    BY <1>1, <2>2, OptionsAssumption
  <2>4. PICK S : S = l.signing
    OBVIOUS
  <2>5. ChoiceOK(r)'
    BY <1>1, <2>1, <2>2, <2>3, <2>4, ChoiceKept
  <2> QED
    BY <1>1, <1>3, <2>5, ChoiceAssembled, GotoTouches
<1> QED
  BY <1>2, <1>3 DEF AnswerOrWait

\* A choice that is kept is good now too.
LEMMA ChoiceGoodNow ==
  ASSUME CInv, NEW r \in Requests, pc[r] \in {"wait", "reload", "reloaded", "done"}
  PROVE  Chosen(loc[r].signing, Host[r], now)
<1> SUFFICES ASSUME NEW k \in loc[r].signing, NEW j \in OfAlg(store, k.alg)
             PROVE  Settled(k, j, Host[r], now)
  BY DEF Chosen
<1>1. j \in Key /\ Stamp(j) \in Int /\ now \in Nat /\ due[r] \in Nat
  BY StampType DEF CInv, PInv, IInv, TypeOK, OfAlg
<1>2. Settled(k, j, Host[r], IF pc[r] = "wait" THEN due[r] ELSE now)
  BY DEF CInv, ChoiceOK, Chosen
<1>3. pc[r] = "wait" => now <= due[r]
  BY DEF CInv, ChoiceOK
<1> QED
  BY <1>1, <1>2, <1>3, LongestType, OptionsAssumption DEF Settled

\* The choice under the lock: the one that was kept, or one made on a set
\* that is recent.
LEMMA ChoiceChecked ==
  ASSUME CInv, NEW r \in Requests, pc[r] \in {"wait", "reload", "reloaded", "done"},
         NEW K \in SUBSET Key, K = {} \/ Recent(K, Host[r])
  PROVE  Chosen(Checked(loc[r], K, Host[r]).signing, Host[r], now)
<1>1. TypeOK /\ Host[r] \in Servers /\ loc[r] \in Locals
  BY OptionsAssumption DEF CInv, PInv, IInv, TypeOK
<1>2. \/ Checked(loc[r], K, Host[r]).signing = loc[r].signing
      \/ Checked(loc[r], K, Host[r]).signing = SigningKeys(K, Host[r])
  BY <1>1 DEF Checked, Locals
<1>3. CASE K = {}
  <2>1. SigningKeys(K, Host[r]) = {}
    BY <1>3, SigningKeysSubset
  <2> QED
    BY <1>2, <2>1, ChoiceGoodNow DEF Chosen
<1>4. CASE Recent(K, Host[r])
  BY <1>1, <1>2, <1>4, ChoiceGoodNow, Choosing
<1> QED
  BY <1>3, <1>4

-----------------------------------------------------------------------------
(* Every step keeps the choices. *)

LEMMA ChoiceFinished ==
  ASSUME CInv, PInv', UNCHANGED now, Gains, NEW r \in Requests,
         NEW K \in SUBSET Key, Finish(r, K), Sees(K, Host[r])
  PROVE  CInv'
<1> DEFINE l == [loc[r] EXCEPT !.keys = K, !.signing = SigningKeys(K, Host[r])]
<1>1. TypeOK /\ Host[r] \in Servers
  BY OptionsAssumption DEF CInv, PInv, IInv
<1>2. Answer(r, l)
  BY DEF Finish
<1>3. l.signing = SigningKeys(K, Host[r])
  BY <1>1 DEF TypeOK, Locals
<1>4. Chosen(SigningKeys(K, Host[r]), Host[r], now)
  BY <1>1, SeenIsRecent, Choosing
<1> HIDE DEF l
<1> QED
  BY <1>2, <1>3, <1>4, ChoiceAnswered

\* The key about to be stored was stamped in this unit of time.
LEMMA WriteGains ==
  ASSUME PInv, NEW r \in Requests, Write(r)
  PROVE  Gains
<1>1. loc[r].new \in Key /\ loc[r].new.by = Host[r] /\ now \in Nat
  BY DEF PInv, IInv, WritersHaveKeys, StampInv, TypeOK, Write
<1>2. loc[r].new.created = now + Skew[Host[r]]
  BY DEF PInv, RequestOK, Write, Local
<1>3. now <= Stamp(loc[r].new)
  BY <1>1, <1>2, OptionsAssumption DEF Stamp
<1> QED
  BY <1>3 DEF Gains, Write

LEMMA ChoiceStep ==
  ASSUME TimelyChoice, CInv, PInv', NEW r \in Requests, Step(r)
  PROVE  CInv'
<1> DEFINE s == Host[r]
<1>0. /\ TypeOK /\ TypeOK' /\ s \in Servers /\ loc[r] \in Locals
      /\ loc[r].keys \in SUBSET Key
      /\ pc \in [Requests -> PCs] /\ loc \in [Requests -> Locals]
  BY OptionsAssumption DEF CInv, PInv, IInv, TypeOK, Locals
<1>1. ASSUME NEW from, NEW to, ReadStore(r, from, to),
             to \notin {"wait", "reload", "reloaded", "done"}
      PROVE  CInv'
  <2>1. pc'[r] = to /\ Untouched(r) /\ UNCHANGED <<now, store>>
    BY <1>0, <1>1, GotoTouches DEF ReadStore, Goto
  <2> QED
    BY <1>1, <2>1, SameStore, ChoiceDropped
<1>2. CASE Load(r) \/ Resync(r)
  BY <1>1, <1>2 DEF Load, Resync
<1>3. CASE CheckLoaded(r)
  <2>1. Recent(loc[r].keys, s)
    BY <1>0, <1>3, SeenIsRecent DEF CheckLoaded, CInv, PInv, RequestOK
  <2>2. FirstChecked(loc[r].keys, s).signing = SigningKeys(loc[r].keys, s)
    BY DEF FirstChecked, NoLocals
  <2> QED
    BY <1>0, <1>3, <2>1, <2>2, SameStore, Choosing, ChoiceAnsweredOrWaiting
       DEF CheckLoaded
<1>4. CASE Acquire(r)
  <2> DEFINE l == Checked(loc[r], Cached(s), s)
  <2>1. Cached(s) \in SUBSET Key /\ (Cached(s) = {} \/ Recent(Cached(s), s))
    BY <1>0, CachedType, CachedIsRecent DEF CInv
  <2>2. pc[r] = "wait" /\ UNCHANGED <<now, store>> /\ Gains
    BY <1>4, SameStore DEF Acquire
  <2>3. Chosen(l.signing, s, now)
    BY <2>1, <2>2, ChoiceChecked
  <2>4. Goto(r, "reload", l, Lag) \/ Answer(r, l)
    BY <1>4 DEF Acquire
  <2> HIDE DEF l
  <2>5. CASE Answer(r, l)
    BY <2>2, <2>3, <2>5, ChoiceAnswered
  <2>6. CASE Goto(r, "reload", l, Lag)
    <3>1. pc'[r] = "reload" /\ loc'[r] = l /\ Untouched(r)
      BY <1>0, <2>6, GotoTouches DEF Goto
    <3>2. PICK t \in Nat : t = now
      BY <1>0 DEF TypeOK
    <3>3. t <= now + LockTimeout
      BY <3>2, OptionsAssumption
    <3>4. PICK S : S = l.signing
      OBVIOUS
    <3>5. ChoiceOK(r)'
      BY <1>0, <2>2, <2>3, <3>1, <3>2, <3>3, <3>4, ChoiceKept
    <3> QED
      BY <2>2, <3>1, <3>5, ChoiceAssembled
  <2> QED
    BY <2>4, <2>5, <2>6
<1>5. CASE LockTimesOut(r) \/ Reply(r)
  <2>1. End(r) /\ UNCHANGED <<now, store>>
    BY <1>5 DEF LockTimesOut, Reply
  <2>2. pc'[r] = "idle" /\ Untouched(r)
    BY <1>0, <2>1, EndTouches DEF End
  <2> QED
    BY <2>1, <2>2, SameStore, ChoiceDropped
<1>6. CASE Reload(r)
  <2> DEFINE l == [loc[r] EXCEPT !.keys = {k \in store : ~IsRetired(k, s)},
                                 !.doomed = {k \in store : IsRetired(k, s)}]
  <2>1. pc[r] = "reload" /\ Goto(r, "reloaded", l, Lag) /\ UNCHANGED <<now, store>>
    BY <1>6 DEF Reload, ReadStore
  <2>2. l.signing = loc[r].signing
    BY <1>0 DEF Locals
  <2> HIDE DEF l
  <2>3. pc'[r] = "reloaded" /\ loc'[r] = l /\ Untouched(r)
    BY <1>0, <2>1, GotoTouches DEF Goto
  <2>4. Chosen(loc[r].signing, s, now)
    BY <2>1, ChoiceGoodNow
  <2>5. PICK t \in Nat : t = now
    BY <1>0 DEF TypeOK
  <2>6. t <= now + LockTimeout
    BY <2>5, OptionsAssumption
  <2>7. PICK S : S = loc[r].signing
    OBVIOUS
  <2>8. ChoiceOK(r)'
    BY <1>0, <2>1, <2>2, <2>3, <2>4, <2>5, <2>6, <2>7, SameStore, ChoiceKept
  <2> QED
    BY <2>1, <2>3, <2>8, SameStore, ChoiceAssembled
<1>7. CASE CheckReloaded(r)
  <2> DEFINE l == Checked(loc[r], loc[r].keys, s)
  <2>1. Recent(loc[r].keys, s) /\ pc[r] = "reloaded"
    BY <1>0, <1>7, SeenIsRecent DEF CheckReloaded, CInv, PInv, RequestOK
  <2>2. Chosen(l.signing, s, now)
    BY <1>0, <2>1, ChoiceChecked
  <2>3. /\ Goto(r, "create", l, Lag) \/ Answer(r, l)
        /\ UNCHANGED <<now, store>> /\ Gains
    BY <1>7, SameStore DEF CheckReloaded
  <2> HIDE DEF l
  <2>4. CASE Answer(r, l)
    BY <2>2, <2>3, <2>4, ChoiceAnswered
  <2>5. CASE Goto(r, "create", l, Lag)
    <3>1. pc'[r] = "create" /\ Untouched(r)
      BY <1>0, <2>5, GotoTouches DEF Goto
    <3> QED
      BY <2>3, <3>1, ChoiceDropped
  <2> QED
    BY <2>3, <2>4, <2>5
<1>8. CASE Create(r)
  <2> DEFINE m == [loc[r] EXCEPT !.keys = Cached(s), !.todo = Algs]
  <2>1. CreateKey(r, m) /\ UNCHANGED <<now, store>>
    BY <1>8 DEF Create
  <2> HIDE DEF m
  <2>2. pc'[r] = "write" /\ Untouched(r)
    BY <1>0, <2>1, CreateTouches DEF CreateKey, Goto
  <2> QED
    BY <2>1, <2>2, SameStore, ChoiceDropped
<1>9. CASE Write(r)
  <2> DEFINE K == loc[r].keys \union {loc[r].new}
             l == [loc[r] EXCEPT !.keys = K, !.new = None]
  <2>1. UNCHANGED now /\ Gains
    BY <1>9, WriteGains DEF Write, CInv
  <2>2. CreateKey(r, l) \/ Goto(r, "delay", l, SyncDelay) \/ Finish(r, K)
    BY <1>9 DEF Write
  <2>3. K \in SUBSET Key /\ Sees(K, s)
    BY <1>0, <1>9
       DEF Write, CInv, PInv, IInv, WritersHaveKeys, RequestOK, Sees, TimelyChoice
  <2> HIDE DEF K, l
  <2>4. CASE CreateKey(r, l) \/ Goto(r, "delay", l, SyncDelay)
    <3>1. pc'[r] \in {"write", "delay"} /\ Untouched(r)
      BY <1>0, <2>4, CreateTouches, GotoTouches DEF CreateKey, Goto
    <3> QED
      BY <2>1, <3>1, ChoiceDropped
  <2>5. CASE Finish(r, K)
    BY <2>1, <2>3, <2>5, ChoiceFinished
  <2> QED
    BY <2>2, <2>4, <2>5
<1>10. CASE FinishSynced(r)
  <2>1. Sees(loc[r].keys, s)
    BY <1>10 DEF FinishSynced, CInv, PInv, RequestOK
  <2> QED
    BY <1>0, <1>10, <2>1, SameStore, ChoiceFinished DEF FinishSynced
<1>11. CASE DeleteRetired(r)
  <2> DEFINE l(k) == [loc[r] EXCEPT !.doomed = @ \ {k}]
  <2>1. PICK k \in loc[r].doomed :
           /\ store' = store \ {k}
           /\ Goto(r, pc[r], l(k), Lag)
           /\ UNCHANGED <<now, cache, lock, signed, early>>
    BY <1>11 DEF DeleteRetired
  <2>2. l(k).signing = loc[r].signing
    BY <1>0 DEF Locals
  <2> HIDE DEF l
  <2>3. /\ Untouched(r) /\ Gains /\ pc'[r] = pc[r] /\ loc'[r] = l(k)
        /\ due'[r] = now + Lag
    BY <1>0, <2>1, GotoTouches DEF Goto, Gains, TypeOK
  <2>4. PICK t \in Nat : t = now
    BY <1>0 DEF TypeOK
  <2>5. t <= now + LockTimeout /\ due'[r] = t
    BY <2>3, <2>4, OptionsAssumption DEF TimelyChoice
  <2>6. PICK S : S = loc[r].signing
    OBVIOUS
  <2>7. pc[r] \in {"wait", "reload", "reloaded", "done"} => Chosen(S, s, t)
    BY <2>4, <2>6, ChoiceGoodNow
  <2>8. ChoiceOK(r)'
    BY <1>0, <2>1, <2>2, <2>3, <2>4, <2>5, <2>6, <2>7, ChoiceKept
  <2> QED
    BY <2>1, <2>3, <2>8, ChoiceAssembled
<1> QED
  BY <1>2, <1>3, <1>4, <1>5, <1>6, <1>7, <1>8, <1>9, <1>10, <1>11 DEF Step

LEMMA ChoiceOthers ==
  ASSUME TimelyChoice, CInv, PInv',
         \/ \E r \in Requests : Start(r) \/ StoreFails(r)
         \/ \E s \in Servers : Restart(s)
         \/ Tick
  PROVE  CInv'
<1>0. TypeOK /\ TypeOK' /\ \A r \in Requests : Host[r] \in Servers
  BY OptionsAssumption DEF CInv, PInv, IInv
<1>1. ASSUME NEW r \in Requests, Start(r)
      PROVE  CInv'
  <2> DEFINE K == Cached(Host[r])
             l == FirstChecked(K, Host[r])
  <2>1. Goto(r, "load", NoLocals, Lag) \/ (K # {} /\ AnswerOrWait(r, l))
    BY <1>1 DEF Start
  <2>2. UNCHANGED <<now, store>> /\ Gains
    BY <1>1, SameStore DEF Start
  <2>3. l.signing = SigningKeys(K, Host[r])
    BY DEF FirstChecked, NoLocals
  <2>4. K \in SUBSET Key /\ (K = {} \/ Recent(K, Host[r]))
    BY <1>0, CachedType, CachedIsRecent DEF CInv
  <2> HIDE DEF K, l
  <2>5. CASE Goto(r, "load", NoLocals, Lag)
    <3>1. pc'[r] = "load" /\ Untouched(r)
      BY <1>0, <2>5, GotoTouches DEF Goto, TypeOK
    <3> QED
      BY <2>2, <3>1, ChoiceDropped
  <2>6. CASE K # {} /\ AnswerOrWait(r, l)
    BY <1>0, <2>2, <2>3, <2>4, <2>6, Choosing, ChoiceAnsweredOrWaiting
  <2> QED
    BY <2>1, <2>5, <2>6
<1>2. ASSUME NEW r \in Requests, StoreFails(r)
      PROVE  CInv'
  <2>1. pc'[r] = "idle" /\ Untouched(r) /\ UNCHANGED <<now, store>>
    BY <1>0, <1>2, EndTouches DEF StoreFails, End, TypeOK
  <2> QED
    BY <2>1, SameStore, ChoiceDropped
<1>3. ASSUME NEW s \in Servers, Restart(s)
      PROVE  CInv'
  <2>1. UNCHANGED <<now, store>> /\ Gains
    BY <1>3, SameStore DEF Restart
  <2>2. ASSUME NEW r \in Requests
        PROVE  ChoiceOK(r)'
    <3>1. CASE Host[r] = s
      <4>1. pc'[r] = "idle"
        BY <1>3, <3>1 DEF Restart
      <4> QED
        BY <4>1 DEF ChoiceOK
    <3>2. CASE Host[r] # s
      <4>1. pc'[r] = pc[r] /\ loc'[r] = loc[r] /\ due'[r] = due[r]
        BY <1>3, <3>2 DEF Restart
      <4> QED
        BY <1>0, <2>1, <4>1, ChoiceUntouched DEF CInv
    <3> QED
      BY <3>1, <3>2
  <2> QED
    BY <2>2 DEF CInv
<1>4. CASE Tick
  <2>1. /\ now' = now + 1 /\ now \in Nat /\ UNCHANGED <<store, pc, loc, due>>
    BY <1>0, <1>4 DEF Tick, TypeOK
  <2>2. ASSUME NEW r \in Requests
        PROVE  ChoiceOK(r)'
    <3>1. pc[r] \in {"idle", "wait", "delay"} /\ due[r] \in Nat
      BY <1>0, <1>4 DEF Tick, CInv, PInv, RequestOK, TypeOK
    <3>2. CASE pc[r] = "wait"
      <4>1. now' <= due[r] /\ due[r] <= now' + LockTimeout
        BY <1>4, <2>1, <3>1, <3>2, OptionsAssumption DEF Tick, CInv, ChoiceOK
      <4>2. ASSUME NEW k \in loc[r].signing, NEW j \in OfAlg(store, k.alg)
            PROVE  Settled(k, j, Host[r], due[r])'
        <5>1. Settled(k, j, Host[r], due[r])
          BY <3>2, <4>2 DEF CInv, ChoiceOK, Chosen
        <5>2. k \in Key /\ j \in Key
          BY <1>0, <4>2 DEF TypeOK, Locals, OfAlg
        <5>3. /\ k.created \in Nat /\ j.created \in Nat
              /\ Local(Host[r])' = Local(Host[r]) + 1 /\ Local(Host[r]) \in Nat
          BY <1>0, <2>1, <5>2, StampType, LocalType, OptionsAssumption DEF Local
        <5> QED
          BY <2>1, <5>1, <5>3, OptionsAssumption DEF Settled
      <4> QED
        BY <2>1, <3>2, <4>1, <4>2 DEF ChoiceOK, Chosen, OfAlg
    <3>3. CASE pc[r] # "wait"
      BY <2>1, <3>1, <3>3 DEF ChoiceOK
    <3> QED
      BY <3>2, <3>3
  <2> QED
    BY <2>2 DEF CInv
<1> QED
  BY <1>1, <1>2, <1>3, <1>4

LEMMA ChoicesKept ==
  ASSUME TimelyChoice, CInv, [Next]_vars
  PROVE  CInv'
<1>1. PInv'
  BY TimelyChoiceIsTimely, PublicationKept DEF CInv, Timely
<1>2. CASE UNCHANGED vars
  BY <1>1, <1>2 DEF vars, CInv, ChoiceOK, Chosen, Settled, Local, OfAlg
<1> QED
  BY <1>1, <1>2, ChoiceStep, ChoiceOthers DEF Next

\* An answer with a key that is not past its propagation time: no key of its
\* algorithm in the store is.
LEMMA EarlyOnlyIfNone ==
  ASSUME TimelyChoice, CInv, NEW r \in Requests, NEW k \in loc[r].signing,
         Reply(r), Age(k, Host[r]) < Propagation, NEW j \in OfAlg(store, k.alg)
  PROVE  ~CanSign(j, Host[r], FALSE)
<1> DEFINE s == Host[r]
<1> SUFFICES ASSUME CanSign(j, s, FALSE)
             PROVE  FALSE
  OBVIOUS
<1>1. /\ TypeOK /\ s \in Servers /\ k \in Key /\ j \in Key
      /\ k.created \in Nat /\ j.created \in Nat /\ Local(s) \in Nat /\ now \in Nat
      /\ j.by \in Servers /\ Skew[j.by] \in Nat /\ Skew[s] \in Nat
      /\ Propagation \in Nat \ {0} /\ Rotation \in Nat /\ LockTimeout \in Nat
      /\ LongestCached \in Nat
  BY StampType, LocalType, LongestType, OptionsAssumption
     DEF CInv, PInv, IInv, TypeOK, Locals, OfAlg
<1>2. j.created + Propagation <= Local(s) /\ Local(s) <= j.created + Rotation
  BY <1>1 DEF CanSign
<1>3. Local(s) < k.created + Propagation
  BY <1>1 DEF Age
<1>4. Settled(k, j, s, now)
  BY ChoiceGoodNow DEF Reply, Chosen
<1>5. now <= Stamp(j) + LongestCached + LockTimeout
  BY <1>1, <1>2, <1>3, <1>4 DEF Settled
<1>6. Skew[s] - Skew[j.by] + LongestCached + LockTimeout < Propagation
  BY <1>1 DEF TimelyChoice
<1> QED
  BY <1>1, <1>2, <1>5, <1>6 DEF Stamp, Local

\* Under TimelyChoice, no rotation skips the propagation time: a server signs
\* with a key before that time is over only if no key of the algorithm, by
\* whichever server it was created, is past its own.
THEOREM NoEarlyTakeover == TimelyChoice => (Spec => NoEarlySigning)
<1> SUFFICES ASSUME TimelyChoice
             PROVE  Spec => NoEarlySigning
  OBVIOUS
<1>1. Init => CInv
  BY PublicationInit DEF Init, CInv, ChoiceOK
<1>2. CInv /\ [Next]_vars => CInv'
  BY ChoicesKept
<1>3. CInv /\ [Next]_vars =>
        [\A r \in Requests : \A k \in loc[r].signing :
           (Reply(r) /\ Age(k, Host[r]) < Propagation) =>
             \A j \in OfAlg(store, k.alg) : ~CanSign(j, Host[r], FALSE)]_vars
  BY EarlyOnlyIfNone
<1> QED
  BY <1>1, <1>2, <1>3, PTL DEF Spec, NoEarlySigning

-----------------------------------------------------------------------------
(***************************************************************************)
(* What a request answers, on a deployment of one server.  Its requests    *)
(* make their checks on key sets read at different times, and a later one  *)
(* may be found enough because another request created keys meanwhile.     *)
(* With several servers a request may have chosen the key of another that  *)
(* the cache, filled by a creation of its own server, does not yet hold.   *)
(***************************************************************************)

\* The conditions: one server, with its cache in use; a retired key is kept
\* for longer than a request waits for the lock; and the keys of a first
\* start do not expire within the delay.
Alone ==
  /\ (\A s, t \in Servers : s = t) /\ SingleAlg
  /\ Lag = 0 /\ CacheDuration > 0 /\ InitCacheDuration > 0
  /\ LockTimeout < Retention /\ SyncDelay <= Rotation

\* But for retired keys, X is part of Y.
Within(X, Y, s) == \A k \in X : k \in Y \/ IsRetired(k, s)

\* Key sets that were read one after the other.
InOrder(X, Y, s) == Within(X, Y, s) \/ Within(Y, X, s)

\* A key set that calls for a rotation.
Outdated(K, s) ==
  \E a \in Algs :
    \/ Candidates(OfAlg(K, a), s) = {}
    \/ \A k \in OfAlg(K, a) : Rotation - Age(k, s) <= Propagation

\* A key set that does not send a request away without its choice S.
Supports(K, S, s) == Outdated(K, s) \/ S \subseteq K

OneEach(S) == \A a \in Algs : \E k \in S : OfAlg(S, a) = {k}

\* Under the lock a request knows the whole store, since nobody else writes.
KnowsStore(r) ==
  pc[r] \in {"reloaded", "write", "synced"} => Within(store, loc[r].keys, Host[r])

\* A request about to create keys starts from the cache.  What others cache
\* meanwhile, having loaded it before, has the whole store as well: a key
\* they missed would be new enough to need no other.
MayCreate(r) ==
  pc[r] = "create" =>
    /\ Within(store, Cached(Host[r]), Host[r])
    /\ \A q \in Requests : pc[q] = "loaded" => Within(store, loc[q].keys, Host[r])

\* A set that was read is older or newer than what the cache holds and what
\* others have read.
ReadInOrder(r) ==
  pc[r] = "loaded" =>
    /\ InOrder(loc[r].keys, cache[Host[r]].keys, Host[r])
    /\ \A q \in Requests : pc[q] = "loaded" =>
         InOrder(loc[r].keys, loc[q].keys, Host[r])

\* While a request waits with a choice of keys, every set that could reach
\* its check has the keys chosen, or asks for a rotation.
WaitsWithChoice(r) ==
  pc[r] = "wait" /\ loc[r].ok =>
    /\ loc[r].rot
    /\ \A k \in loc[r].signing :
         due[r] + Skew[Host[r]] <= k.created + Rotation + LockTimeout
    /\ Supports(cache[Host[r]].keys, loc[r].signing, Host[r])
    /\ \A q \in Requests : pc[q] = "loaded" =>
         Supports(loc[q].keys, loc[r].signing, Host[r])

\* The choice outlives the lock and the second look at the store.
ChoiceLasts(r) ==
  /\ pc[r] \in {"wait", "reload", "reloaded"} /\ loc[r].ok => OneEach(loc[r].signing)
  /\ pc[r] = "reload" /\ loc[r].ok => \A k \in loc[r].signing :
       Local(Host[r]) <= k.created + Rotation + LockTimeout
  /\ pc[r] = "reloaded" /\ loc[r].ok => loc[r].signing \subseteq loc[r].keys

\* A creation ends with a fresh key for each algorithm.
HasFresh(K, A, t) ==
  \A a \in A : \E k \in OfAlg(K, a) : t <= k.created + SyncDelay

CreatesAll(r) ==
  /\ pc[r] = "write" => \A a \in Algs \ loc[r].todo :
       \E k \in OfAlg(loc[r].keys \union {loc[r].new}, a) :
         k.created = Local(Host[r])
  /\ pc[r] = "delay" =>
       HasFresh(loc[r].keys, Algs, due[r] + Skew[Host[r]])
  /\ pc[r] = "synced" => HasFresh(loc[r].keys, Algs, Local(Host[r]))

\* A request stays no longer than it may.
InTime(r) == pc[r] \in {"wait", "delay"} => now <= due[r]

Answered(r) ==
  pc[r] = "done" => loc[r].signing \subseteq loc[r].keys /\ OneEach(loc[r].signing)

\* The bound of the model on keys with one time stamp.
Tied(K) == \A k \in K : k.seq <= MaxTies

AllTied ==
  /\ Tied(store) /\ \A s \in Servers : Tied(cache[s].keys)
  /\ \A r \in Requests : /\ Tied(loc[r].keys)
                         /\ pc[r] = "write" => loc[r].new.seq <= MaxTies

AInv ==
  /\ PInv /\ AllTied
  /\ \A r \in Requests :
       /\ KnowsStore(r) /\ MayCreate(r) /\ ReadInOrder(r) /\ WaitsWithChoice(r)
       /\ ChoiceLasts(r) /\ CreatesAll(r) /\ InTime(r) /\ Answered(r)

-----------------------------------------------------------------------------
(* The oldest and the youngest of a set of keys. *)

LEMMA LeastNatural ==
  ASSUME NEW S \in SUBSET Nat, S # {}
  PROVE  \E m \in S : \A n \in S : m <= n
<1> DEFINE R == OpToRel(<, Nat)
<1>1. IsWellFoundedOn(R, Nat)
  BY NatLessThanWellFounded
<1>2. \A x, y \in Nat : y < x => <<y, x>> \in R
  BY DEF OpToRel
<1> HIDE DEF R
<1>3. PICK m \in S : \A n \in S : ~ (<<n, m>> \in R)
  BY <1>1, WFMin
<1>4. ASSUME NEW n \in S
      PROVE  m <= n
  <2>1. m \in Nat /\ n \in Nat
    OBVIOUS
  <2>2. ~(n < m)
    BY <1>2, <1>3, <2>1, Zenon
  <2> QED
    BY <2>1, <2>2
<1> QED
  BY <1>4

LEMMA OldestExists ==
  ASSUME NEW K \in SUBSET Key, K # {}
  PROVE  \E k \in K : \A j \in K : ~Older(j, k)
<1>0. \A k \in K : k.created \in Nat /\ k.seq \in Nat
  BY DEF Key
<1>1. PICK c \in {k.created : k \in K} : \A d \in {k.created : k \in K} : c <= d
  <2>1. {k.created : k \in K} \in SUBSET Nat /\ {k.created : k \in K} # {}
    BY <1>0
  <2> QED
    BY <2>1, LeastNatural
<1> DEFINE T == {k \in K : k.created = c}
<1>2. PICK n \in {k.seq : k \in T} : \A m \in {k.seq : k \in T} : n <= m
  <2>1. {k.seq : k \in T} \in SUBSET Nat /\ {k.seq : k \in T} # {}
    BY <1>0, <1>1
  <2> QED
    BY <2>1, LeastNatural
<1>3. PICK k \in T : k.seq = n
  BY <1>2
<1>4. \A j \in K : ~Older(j, k)
  BY <1>0, <1>1, <1>2, <1>3 DEF Older
<1> QED
  BY <1>3, <1>4

LEMMA YoungestExists ==
  ASSUME NEW K \in SUBSET Key, K # {}, NEW b \in Nat, \A k \in K : k.created <= b, Tied(K)
  PROVE  \E k \in K : \A j \in K : ~Older(k, j)
<1>0. \A k \in K : /\ k.created \in Nat /\ k.seq \in Nat
                   /\ b - k.created \in Nat /\ MaxTies - k.seq \in Nat
  BY OptionsAssumption DEF Key, Tied
<1>1. PICK c \in {b - k.created : k \in K} : \A d \in {b - k.created : k \in K} : c <= d
  <2>1. {b - k.created : k \in K} \in SUBSET Nat /\ {b - k.created : k \in K} # {}
    BY <1>0
  <2> QED
    BY <2>1, LeastNatural
<1> DEFINE T == {k \in K : b - k.created = c}
<1>2. PICK n \in {MaxTies - k.seq : k \in T} : \A m \in {MaxTies - k.seq : k \in T} : n <= m
  <2>1. {MaxTies - k.seq : k \in T} \in SUBSET Nat /\ {MaxTies - k.seq : k \in T} # {}
    BY <1>0, <1>1
  <2> QED
    BY <2>1, LeastNatural
<1>3. PICK k \in T : MaxTies - k.seq = n
  BY <1>2
<1>4. ASSUME NEW j \in K, Older(k, j)
      PROVE  FALSE
  <2>1. c <= b - j.created
    BY <1>1
  <2>2. j \in T => n <= MaxTies - j.seq
    BY <1>2
  <2> QED
    BY <1>0, <1>3, <1>4, <2>1, <2>2, OptionsAssumption DEF Older
<1> QED
  BY <1>3, <1>4

\* The key to sign with is one for each algorithm that has a candidate.
LEMMA OneSigningKey ==
  ASSUME Alone, NEW s \in Servers, NEW K \in SUBSET Key, HasAllSigningKeys(K, s)
  PROVE  OneEach(SigningKeys(K, s))
<1> SUFFICES ASSUME NEW a \in Algs
             PROVE  \E k \in SigningKeys(K, s) : OfAlg(SigningKeys(K, s), a) = {k}
  BY DEF OneEach
<1> DEFINE C == Candidates(OfAlg(K, a), s)
           D == CurrentSigningKey(OfAlg(K, a), s)
<1>1. C # {} /\ C \in SUBSET Key /\ \A k \in C : k.alg = a
  BY DEF HasAllSigningKeys, Candidates, OfAlg
<1>2. PICK k \in C : \A j \in C : ~Older(j, k)
  BY <1>1, OldestExists
<1>3. k \in D
  BY <1>2 DEF CurrentSigningKey
<1>4. ASSUME NEW j \in D
      PROVE  j = k
  <2>1. j \in C /\ ~Older(k, j) /\ ~Older(j, k)
    BY <1>2, <1>4 DEF CurrentSigningKey
  <2>2. /\ j.alg = k.alg /\ j.by = k.by
        /\ j.created \in Nat /\ k.created \in Nat /\ j.seq \in Nat /\ k.seq \in Nat
    BY <1>1, <2>1 DEF Key, Alone
  <2>3. j.created = k.created /\ j.seq = k.seq
    BY <2>1, <2>2 DEF Older
  <2> QED
    BY <1>1, <2>1, <2>2, <2>3 DEF Key
<1>5. \A b \in Algs : \A j \in CurrentSigningKey(OfAlg(K, b), s) : j.alg = b
  BY DEF CurrentSigningKey, Candidates, OfAlg
<1>6. OfAlg(SigningKeys(K, s), a) = D
  <2>1. \A j \in OfAlg(SigningKeys(K, s), a) : j \in D
    BY <1>5 DEF SigningKeys, OfAlg
  <2>2. \A j \in D : j \in OfAlg(SigningKeys(K, s), a)
    BY <1>5 DEF SigningKeys, OfAlg
  <2> QED
    BY <2>1, <2>2
<1>7. k \in SigningKeys(K, s) /\ D = {k}
  BY <1>3, <1>4 DEF SigningKeys
<1> QED
  BY <1>6, <1>7

-----------------------------------------------------------------------------
(* Rotation, of a set and of the sets read before it. *)

StampedPast(K, s) == \A k \in K : k.created <= Local(s)

LEMMA OutdatedNeedsRotation ==
  ASSUME TypeOK, NEW s \in Servers, NEW K \in SUBSET Key, StampedPast(K, s), Tied(K),
         Outdated(K, s)
  PROVE  RotationRequired(K, s)
<1>1. PICK a \in Algs :
        \/ Candidates(OfAlg(K, a), s) = {}
        \/ \A k \in OfAlg(K, a) : Rotation - Age(k, s) <= Propagation
  BY DEF Outdated
<1>2. CASE Candidates(OfAlg(K, a), s) = {}
  BY <1>2 DEF RotationRequired
<1>3. CASE /\ Candidates(OfAlg(K, a), s) # {}
           /\ \A k \in OfAlg(K, a) : Rotation - Age(k, s) <= Propagation
  <2>1. /\ OfAlg(K, a) \in SUBSET Key /\ OfAlg(K, a) # {} /\ Tied(OfAlg(K, a))
        /\ Local(s) \in Nat /\ \A k \in OfAlg(K, a) : k.created <= Local(s)
    BY <1>3, LocalType DEF Candidates, OfAlg, Tied, StampedPast
  <2>2. PICK k \in OfAlg(K, a) : \A j \in OfAlg(K, a) : ~Older(k, j)
    BY <2>1, YoungestExists
  <2> QED
    BY <1>3, <2>2 DEF RotationRequired
<1> QED
  BY <1>1, <1>2, <1>3

LEMMA RotationMeansOutdated ==
  ASSUME TypeOK, NEW s \in Servers, NEW K \in SUBSET Key, StampedPast(K, s),
         RotationRequired(K, s)
  PROVE  Outdated(K, s)
<1>1. PICK a \in Algs :
        \/ Candidates(OfAlg(K, a), s) = {}
        \/ \E k \in OfAlg(K, a) : /\ \A j \in OfAlg(K, a) : ~Older(k, j)
                                  /\ Rotation - Age(k, s) <= Propagation
  BY DEF RotationRequired
<1>2. ASSUME NEW k \in OfAlg(K, a), \A j \in OfAlg(K, a) : ~Older(k, j),
             Rotation - Age(k, s) <= Propagation,
             NEW j \in OfAlg(K, a)
      PROVE  Rotation - Age(j, s) <= Propagation
  <2>1. /\ k \in Key /\ j \in Key /\ k.created <= Local(s) /\ j.created <= Local(s)
        /\ k.created \in Nat /\ j.created \in Nat /\ Local(s) \in Nat
    BY LocalType DEF OfAlg, Key, StampedPast
  <2>2. j.created <= k.created
    BY <1>2, <2>1 DEF Older
  <2> QED
    BY <1>2, <2>1, <2>2, OptionsAssumption DEF Age
<1> QED
  BY <1>1, <1>2 DEF Outdated

\* Time does not bring a set up to date.
LEMMA OutdatedStays ==
  ASSUME TypeOK, TypeOK', now <= now', NEW s \in Servers, NEW K \in SUBSET Key,
         StampedPast(K, s), Outdated(K, s)
  PROVE  Outdated(K, s)'
<1>1. PICK a \in Algs :
        \/ Candidates(OfAlg(K, a), s) = {}
        \/ \A k \in OfAlg(K, a) : Rotation - Age(k, s) <= Propagation
  BY DEF Outdated
<1>2. /\ Local(s) \in Nat /\ Local(s)' \in Nat /\ Local(s) <= Local(s)'
      /\ Rotation \in Nat /\ Propagation \in Nat
  BY LocalType, OptionsAssumption DEF Local, TypeOK
<1>3. \A k \in K : k.created \in Nat /\ k.created <= Local(s)
  BY DEF Key, StampedPast
<1>4. CASE Candidates(OfAlg(K, a), s) = {}
  <2>1. \A k \in OfAlg(K, a) : ~CanSign(k, s, TRUE) /\ ~CanSign(k, s, FALSE)
    BY <1>4 DEF Candidates
  <2>2. \A k \in OfAlg(K, a) : ~CanSign(k, s, TRUE)'
    BY <1>2, <1>3, <2>1 DEF CanSign, OfAlg
  <2>3. Candidates(OfAlg(K, a), s)' = {}
    BY <2>2 DEF Candidates, CanSign, OfAlg
  <2> QED
    BY <2>3 DEF Outdated, OfAlg
<1>5. CASE \A k \in OfAlg(K, a) : Rotation - Age(k, s) <= Propagation
  <2>1. \A k \in OfAlg(K, a) : Rotation - Age(k, s)' <= Propagation
    BY <1>2, <1>3, <1>5 DEF Age, OfAlg
  <2> QED
    BY <2>1 DEF Outdated, OfAlg
<1> QED
  BY <1>1, <1>4, <1>5

\* A key that could sign a moment ago is not retired.
LEMMA UsableNotRetired ==
  ASSUME TypeOK, NEW s \in Servers, NEW k \in Key, NEW d \in Nat, d < Retention,
         Local(s) <= k.created + Rotation + d
  PROVE  ~IsRetired(k, s)
BY LocalType, OptionsAssumption DEF IsRetired, Age, RetirementAge, Key

\* A set read earlier is outdated with the later one.
LEMMA EarlierOutdated ==
  ASSUME TypeOK, NEW s \in Servers, NEW K \in SUBSET Key, NEW D \in SUBSET Key,
         StampedPast(D, s), StampedPast(K, s), Within(D, K, s), Outdated(K, s)
  PROVE  Outdated(D, s)
<1>1. PICK a \in Algs :
        \/ Candidates(OfAlg(K, a), s) = {}
        \/ \A k \in OfAlg(K, a) : Rotation - Age(k, s) <= Propagation
  BY DEF Outdated
<1>2. /\ Local(s) \in Nat /\ Rotation \in Nat /\ Propagation \in Nat /\ Retention \in Nat
      /\ Rotation > Propagation /\ Retention > 0
      /\ \A k \in D : k \in Key /\ k.created \in Nat /\ k.created <= Local(s)
  BY LocalType, OptionsAssumption DEF Key, StampedPast
<1>3. CASE Candidates(OfAlg(K, a), s) = {}
  <2>1. \A k \in OfAlg(K, a) : ~CanSign(k, s, TRUE)
    BY <1>3 DEF Candidates
  <2>2. ASSUME NEW k \in OfAlg(D, a), CanSign(k, s, TRUE) \/ CanSign(k, s, FALSE)
        PROVE  FALSE
    <3>1. k \in D /\ Local(s) <= k.created + Rotation /\ CanSign(k, s, TRUE)
      BY <1>2, <2>2 DEF CanSign, OfAlg
    <3>2. ~IsRetired(k, s)
      BY <1>2, <3>1 DEF IsRetired, Age, RetirementAge
    <3> QED
      BY <2>1, <2>2, <3>1, <3>2 DEF Within, OfAlg
  <2>3. Candidates(OfAlg(D, a), s) = {}
    BY <2>2 DEF Candidates
  <2> QED
    BY <2>3 DEF Outdated
<1>4. CASE \A k \in OfAlg(K, a) : Rotation - Age(k, s) <= Propagation
  <2>1. ASSUME NEW k \in OfAlg(D, a)
        PROVE  Rotation - Age(k, s) <= Propagation
    <3>1. CASE IsRetired(k, s)
      BY <1>2, <2>1, <3>1 DEF IsRetired, RetirementAge, Age, OfAlg
    <3> QED
      BY <1>4, <2>1, <3>1 DEF Within, OfAlg
  <2> QED
    BY <2>1 DEF Outdated
<1> QED
  BY <1>1, <1>3, <1>4

-----------------------------------------------------------------------------
(* What a step of one request may do to the others. *)

LEMMA AlonePrompt == Alone => Prompt
BY DEF Alone, Prompt

\* No key that is known was stamped in the future.
LEMMA KnownPast ==
  ASSUME Alone, PInv, NEW s \in Servers, NEW k \in Key, Known(k)
  PROVE  k.created <= Local(s)
<1>1. CASE k \in store
  <2>1. k.by = s
    BY DEF Alone, Key
  <2> QED
    BY <1>1, <2>1 DEF PInv, IInv, StampInv
<1>2. ASSUME NEW t \in Servers, IsRetired(k, t)
      PROVE  k.created <= Local(s)
  <2>1. t = s
    BY DEF Alone
  <2> QED
    BY <1>2, <2>1, LocalType, OptionsAssumption
       DEF IsRetired, Age, RetirementAge, Key, PInv, IInv
<1> QED
  BY <1>1, <1>2 DEF Known

\* The key sets of a state: well typed, stamped in the past, and but for
\* retired keys part of the store.
LEMMA SetsKnown ==
  ASSUME Alone, PInv, NEW r \in Requests, NEW s \in Servers, s = Host[r]
  PROVE  /\ cache[s].keys \in SUBSET Key /\ loc[r].keys \in SUBSET Key
         /\ loc[r].signing \in SUBSET Key
         /\ StampedPast(cache[s].keys, s) /\ StampedPast(loc[r].keys, s)
         /\ Within(cache[s].keys, store, s) /\ Within(loc[r].keys, store, s)
         /\ Within(loc[r].signing, store, s)
<1>1. /\ cache[s].keys \in SUBSET Key /\ loc[r].keys \in SUBSET Key
      /\ loc[r].signing \in SUBSET Key
  BY DEF PInv, IInv, TypeOK, Locals
<1>2. \A k \in cache[s].keys \union loc[r].keys \union loc[r].signing : Known(k)
  BY DEF PInv, CacheOK, RequestOK
<1>3. \A k \in Key : Known(k) => k \in store \/ IsRetired(k, s)
  BY DEF Known, Alone
<1> QED
  BY <1>1, <1>2, <1>3, KnownPast DEF StampedPast, Within

\* The requests of one server that are under the lock are one.
LEMMA OneInLock ==
  ASSUME Alone, IInv, NEW q \in Requests, NEW r \in Requests,
         pc[q] \in InLock, pc[r] \in InLock
  PROVE  q = r
<1>1. Host[q] = Host[r]
  BY OptionsAssumption DEF Alone
<1>2. lock[Host[q]] = q /\ lock[Host[r]] = r
  BY DEF IInv, LockInv
<1> QED
  BY <1>1, <1>2

\* The cache takes what a request read, or the whole store.
CacheEffect(r) ==
  LET s == Host[r] IN
  \/ cache'[s] = cache[s]
  \/ pc[r] = "loaded" /\ cache'[s].keys = loc[r].keys /\ Cached(s)' = loc[r].keys
  \/ Within(store', cache'[s].keys, s) /\ Within(store', Cached(s)', s)

\* What a request holds as read is what it held, or the whole store.
ReadEffect(r) ==
  pc'[r] = "loaded" =>
    \/ pc[r] = "loaded" /\ loc'[r].keys = loc[r].keys
    \/ Within(store', loc'[r].keys, Host[r])

Effect(r) ==
  /\ UNCHANGED now /\ Untouched(r) /\ Kept
  /\ store' \subseteq store \/ pc[r] = "write"
  /\ CacheEffect(r) /\ ReadEffect(r)

\* In one unit of time the same keys are retired and the same sets outdated.
LEMMA SameTime ==
  ASSUME UNCHANGED now
  PROVE  /\ \A k, s : IsRetired(k, s)' <=> IsRetired(k, s)
         /\ \A X, Y, s : Within(X, Y, s)' <=> Within(X, Y, s)
         /\ \A X, Y, s : InOrder(X, Y, s)' <=> InOrder(X, Y, s)
         /\ \A K, s : Outdated(K, s)' <=> Outdated(K, s)
         /\ \A K, S, s : Supports(K, S, s)' <=> Supports(K, S, s)
         /\ \A s : Local(s)' = Local(s)
<1>1. \A s : Local(s)' = Local(s)
  BY DEF Local
<1>2. \A k, s : Age(k, s)' = Age(k, s)
  BY <1>1 DEF Age
<1>3. \A k, s : IsRetired(k, s)' <=> IsRetired(k, s)
  BY <1>2 DEF IsRetired
<1>4. \A X, Y, s : Within(X, Y, s)' <=> Within(X, Y, s)
  BY <1>3 DEF Within
<1>5. \A X, Y, s : InOrder(X, Y, s)' <=> InOrder(X, Y, s)
  BY <1>4 DEF InOrder
<1>6. \A k, s, b : CanSign(k, s, b)' <=> CanSign(k, s, b)
  BY <1>1 DEF CanSign
<1>7. \A K, s : Candidates(K, s)' = Candidates(K, s)
  BY <1>6 DEF Candidates
<1>8. \A K, s : Outdated(K, s)' <=> Outdated(K, s)
  BY <1>2, <1>7 DEF Outdated
<1>9. \A K, S, s : Supports(K, S, s)' <=> Supports(K, S, s)
  BY <1>8 DEF Supports
<1> QED
  BY <1>1, <1>3, <1>4, <1>5, <1>8, <1>9

\* Whatever is known is within a set that has the whole store.
LEMMA WithinWhole ==
  ASSUME TypeOK, TypeOK', Kept, Alone, NEW s \in Servers,
         NEW X \in SUBSET Key, NEW W, Within(X, store, s), Within(store', W, s)
  PROVE  Within(X, W, s)
<1> SUFFICES ASSUME NEW k \in X, ~IsRetired(k, s)
             PROVE  k \in W
  BY DEF Within
<1>1. k \in store
  BY DEF Within
<1>2. k \in store'
  BY <1>1 DEF Kept, Alone
<1> QED
  BY <1>2 DEF Within

\* An empty set calls for a rotation.
LEMMA EmptyOutdated ==
  ASSUME NEW s
  PROVE  Outdated({}, s)
BY OptionsAssumption DEF Outdated, Candidates, OfAlg

\* The whole store supports the choice of a request that waits: it was made
\* so recently that none of its keys is retired.
LEMMA ChoiceNotRetired ==
  ASSUME Alone, AInv, NEW r \in Requests, pc[r] = "wait", loc[r].ok
  PROVE  \A k \in loc[r].signing : ~IsRetired(k, Host[r])
<1> SUFFICES ASSUME NEW k \in loc[r].signing
             PROVE  ~IsRetired(k, Host[r])
  OBVIOUS
<1>1. /\ TypeOK /\ Host[r] \in Servers /\ k \in Key /\ now <= due[r]
      /\ due[r] + Skew[Host[r]] <= k.created + Rotation + LockTimeout
      /\ due[r] \in Nat /\ now \in Nat
  BY OptionsAssumption
     DEF AInv, PInv, IInv, TypeOK, Locals, InTime, WaitsWithChoice
<1>2. Local(Host[r]) <= k.created + Rotation + LockTimeout
  BY <1>1, OptionsAssumption DEF Local, Key
<1>3. LockTimeout \in Nat /\ LockTimeout < Retention
  BY OptionsAssumption DEF Alone
<1> QED
  BY <1>1, <1>2, <1>3, UsableNotRetired

LEMMA WholeSupports ==
  ASSUME Alone, AInv, TypeOK', Kept, NEW r \in Requests, pc[r] = "wait", loc[r].ok,
         NEW W, Within(store', W, Host[r])
  PROVE  Supports(W, loc[r].signing, Host[r])
<1>1. /\ TypeOK /\ Host[r] \in Servers /\ loc[r].signing \in SUBSET Key
      /\ Within(loc[r].signing, store, Host[r])
  BY SetsKnown, OptionsAssumption DEF AInv, PInv, IInv
<1>2. Within(loc[r].signing, W, Host[r])
  BY <1>1, WithinWhole
<1>3. loc[r].signing \subseteq W
  BY <1>2, ChoiceNotRetired DEF Within
<1> QED
  BY <1>3 DEF Supports

\* The key sets after a step that takes no time.
LEMMA SetsKnownNext ==
  ASSUME Alone, PInv', UNCHANGED now, NEW r \in Requests, NEW s \in Servers, s = Host[r]
  PROVE  /\ cache'[s].keys \in SUBSET Key /\ loc'[r].keys \in SUBSET Key
         /\ Within(cache'[s].keys, store', s) /\ Within(loc'[r].keys, store', s)
<1>1. cache'[s].keys \in SUBSET Key /\ loc'[r].keys \in SUBSET Key
  BY DEF PInv, IInv, TypeOK, Locals
<1>2. \A k \in cache'[s].keys \union loc'[r].keys : Known(k)'
  BY DEF PInv, CacheOK, RequestOK
<1>3. \A k \in Key : Known(k)' => k \in store' \/ IsRetired(k, s)
  BY SameTime DEF Known, Alone
<1> QED
  BY <1>1, <1>2, <1>3 DEF Within

LEMMA SupportsNext ==
  ASSUME UNCHANGED now, NEW s, NEW q, NEW p
  PROVE  /\ Supports(cache'[s].keys, loc'[q].signing, s)
              => Supports(cache[s].keys, loc[q].signing, s)'
         /\ Supports(loc'[p].keys, loc'[q].signing, s)
              => Supports(loc[p].keys, loc[q].signing, s)'
<1>1. \A S : Supports(cache'[s].keys, S, s) =>
        Outdated(cache[s].keys, s)' \/ S \subseteq cache'[s].keys
  <2>1. PICK K : K = cache'[s].keys
    OBVIOUS
  <2>2. Outdated(K, s)' <=> Outdated(K, s)
    BY SameTime
  <2>3. Outdated(K, s)' <=> Outdated(cache[s].keys, s)'
    BY <2>1 DEF Outdated, OfAlg, Candidates
  <2> QED
    BY <2>1, <2>2, <2>3 DEF Supports
<1>2. \A S : Supports(loc'[p].keys, S, s) =>
        Outdated(loc[p].keys, s)' \/ S \subseteq loc'[p].keys
  <2>1. PICK K : K = loc'[p].keys
    OBVIOUS
  <2>2. Outdated(K, s)' <=> Outdated(K, s)
    BY SameTime
  <2>3. Outdated(K, s)' <=> Outdated(loc[p].keys, s)'
    BY <2>1 DEF Outdated, OfAlg, Candidates
  <2> QED
    BY <2>1, <2>2, <2>3 DEF Supports
<1> QED
  BY <1>1, <1>2 DEF Supports

\* The other requests keep what they have.
LEMMA OthersUndisturbed ==
  ASSUME Alone, AInv, PInv', NEW r \in Requests, Effect(r),
         NEW q \in Requests, q # r
  PROVE  /\ KnowsStore(q)' /\ MayCreate(q)' /\ WaitsWithChoice(q)' /\ ChoiceLasts(q)'
         /\ CreatesAll(q)' /\ InTime(q)' /\ Answered(q)'
<1>s. PICK s : s = Host[r]
  OBVIOUS
<1>0. /\ s = Host[r] /\ TypeOK /\ TypeOK' /\ IInv /\ s \in Servers /\ Host[q] = s /\ UNCHANGED now
      /\ pc'[q] = pc[q] /\ loc'[q] = loc[q] /\ due'[q] = due[q]
      /\ loc[r].keys \in SUBSET Key
      /\ Untouched(r) /\ Kept /\ (store' \subseteq store \/ pc[r] = "write")
      /\ CacheEffect(r) /\ ReadEffect(r)
  BY <1>s, OptionsAssumption
     DEF AInv, PInv, IInv, Effect, Untouched, Alone, TypeOK, Locals
<1>1. KnowsStore(q)'
  <2> SUFFICES ASSUME pc[q] \in {"reloaded", "write", "synced"}
               PROVE  Within(store', loc[q].keys, s)
    BY <1>0, SameTime DEF KnowsStore, Within
  <2>1. pc[r] # "write"
    BY <1>0, OneInLock DEF InLock
  <2>2. Within(store, loc[q].keys, s)
    BY <1>0 DEF AInv, KnowsStore
  <2> QED
    BY <1>0, <2>1, <2>2 DEF Within
<1>2. WaitsWithChoice(q)'
  <2> SUFFICES ASSUME pc[q] = "wait", loc[q].ok
               PROVE  WaitsWithChoice(q)'
    BY <1>0 DEF WaitsWithChoice
  <2>1. /\ loc[q].rot
        /\ \A k \in loc[q].signing : due[q] + Skew[s] <= k.created + Rotation + LockTimeout
        /\ Supports(cache[s].keys, loc[q].signing, s)
        /\ \A p \in Requests : pc[p] = "loaded" => Supports(loc[p].keys, loc[q].signing, s)
    BY <1>0 DEF AInv, WaitsWithChoice
  <2>2. Supports(cache'[s].keys, loc[q].signing, s)
    <3>1. CASE Within(store', cache'[s].keys, s)
      BY <1>0, <3>1, WholeSupports
    <3> QED
      BY <1>0, <2>1, <3>1 DEF CacheEffect
  <2>3. ASSUME NEW p \in Requests, pc'[p] = "loaded"
        PROVE  Supports(loc'[p].keys, loc[q].signing, s)
    <3>1. CASE p = r
      <4>1. CASE Within(store', loc'[r].keys, s)
        BY <1>0, <3>1, <4>1, WholeSupports
      <4> QED
        BY <1>0, <2>1, <2>3, <3>1, <4>1 DEF ReadEffect
    <3>2. CASE p # r
      BY <1>0, <2>1, <2>3, <3>2 DEF Untouched
    <3> QED
      BY <3>1, <3>2
  <2>4. /\ Supports(cache[s].keys, loc[q].signing, s)'
        /\ \A p \in Requests : pc'[p] = "loaded" => Supports(loc[p].keys, loc[q].signing, s)'
    BY <1>0, <2>2, <2>3, SupportsNext
  <2>5. WaitsWithChoice(q)' <=>
          (pc'[q] = "wait" /\ loc'[q].ok =>
             /\ loc'[q].rot
             /\ \A k \in loc'[q].signing :
                  due'[q] + Skew[s] <= k.created + Rotation + LockTimeout
             /\ Supports(cache[s].keys, loc[q].signing, s)'
             /\ \A p \in Requests : pc'[p] = "loaded" =>
                  Supports(loc[p].keys, loc[q].signing, s)')
    BY <1>0 DEF WaitsWithChoice
  <2> QED
    BY <1>0, <2>1, <2>4, <2>5
<1>3. ChoiceLasts(q)' /\ CreatesAll(q)' /\ InTime(q)' /\ Answered(q)'
  <2>1. ChoiceLasts(q) /\ CreatesAll(q) /\ InTime(q) /\ Answered(q) /\ Local(s)' = Local(s)
    BY <1>0 DEF AInv, Local
  <2>2. ChoiceLasts(q)' /\ InTime(q)' /\ Answered(q)'
    BY <1>0, <2>1 DEF ChoiceLasts, InTime, Answered
  <2>3. CreatesAll(q)'
    BY <1>0, <2>1 DEF CreatesAll, HasFresh
  <2> QED
    BY <2>2, <2>3
<1>4. MayCreate(q)'
  <2> SUFFICES ASSUME pc[q] = "create"
               PROVE  /\ Within(store', Cached(s)', s)
                      /\ \A p \in Requests : pc'[p] = "loaded" =>
                           Within(store', loc'[p].keys, s)
    BY <1>0, SameTime DEF MayCreate, Within
  <2>1. store' \subseteq store
    BY <1>0, OneInLock DEF InLock
  <2>2. /\ Within(store, Cached(s), s)
        /\ \A p \in Requests : pc[p] = "loaded" => Within(store, loc[p].keys, s)
    BY <1>0 DEF AInv, MayCreate
  <2>3. cache'[s] = cache[s] => Cached(s)' = Cached(s)
    BY <1>0 DEF Cached, Local
  <2>4. Within(store', Cached(s)', s)
    BY <1>0, <2>1, <2>2, <2>3 DEF CacheEffect, Within
  <2>5. ASSUME NEW p \in Requests, pc'[p] = "loaded"
        PROVE  Within(store', loc'[p].keys, s)
    BY <1>0, <2>1, <2>2, <2>5 DEF ReadEffect, Untouched, Within
  <2> QED
    BY <2>4, <2>5
<1> QED
  BY <1>1, <1>2, <1>3, <1>4

\* The sets that were read stay in order.
LEMMA ReadsStayInOrder ==
  ASSUME Alone, AInv, PInv', NEW r \in Requests, Effect(r)
  PROVE  \A q \in Requests : ReadInOrder(q)'
<1>s. PICK s : s = Host[r]
  OBVIOUS
<1>0. /\ s = Host[r] /\ TypeOK /\ TypeOK' /\ s \in Servers /\ UNCHANGED now /\ now <= now'
      /\ \A q \in Requests : Host[q] = s
      /\ Untouched(r) /\ Kept /\ CacheEffect(r) /\ ReadEffect(r)
  BY <1>s, OptionsAssumption DEF AInv, PInv, IInv, Effect, Alone, TypeOK
<1>1. ASSUME NEW q \in Requests, pc'[q] = "loaded"
      PROVE  \/ pc[q] = "loaded" /\ loc'[q].keys = loc[q].keys
             \/ Within(store', loc'[q].keys, s)
  BY <1>0, <1>1 DEF Untouched, ReadEffect
<1>2. \A q \in Requests : /\ loc[q].keys \in SUBSET Key /\ Within(loc[q].keys, store, s)
                          /\ cache[s].keys \in SUBSET Key /\ Within(cache[s].keys, store, s)
  BY <1>0, SetsKnown DEF AInv
<1>3. \A q \in Requests : /\ Within(loc'[q].keys, store', s)
                          /\ Within(cache'[s].keys, store', s)
  BY <1>0, SetsKnownNext
<1>4. ASSUME NEW q \in Requests, pc'[q] = "loaded"
      PROVE  InOrder(loc'[q].keys, cache'[s].keys, s)
  <2>1. Within(loc'[q].keys, store', s) /\ Within(cache'[s].keys, store', s)
    BY <1>0, <1>3
  <2>2. CASE Within(store', loc'[q].keys, s) \/ Within(store', cache'[s].keys, s)
    BY <2>1, <2>2 DEF InOrder, Within
  <2>3. CASE pc[q] = "loaded" /\ loc'[q].keys = loc[q].keys
    BY <1>0, <2>2, <2>3 DEF CacheEffect, AInv, ReadInOrder, InOrder, Within
  <2> QED
    BY <1>1, <1>4, <2>2, <2>3
<1>5. ASSUME NEW q \in Requests, pc'[q] = "loaded", NEW p \in Requests, pc'[p] = "loaded"
      PROVE  InOrder(loc'[q].keys, loc'[p].keys, s)
  <2>1. Within(loc'[q].keys, store', s) /\ Within(loc'[p].keys, store', s)
    BY <1>0, <1>3
  <2>2. CASE Within(store', loc'[q].keys, s) \/ Within(store', loc'[p].keys, s)
    BY <2>1, <2>2 DEF InOrder, Within
  <2>3. CASE /\ pc[q] = "loaded" /\ loc'[q].keys = loc[q].keys
             /\ pc[p] = "loaded" /\ loc'[p].keys = loc[p].keys
    BY <1>0, <2>3 DEF AInv, ReadInOrder
  <2> QED
    BY <1>1, <1>5, <2>2, <2>3
<1> QED
  BY <1>0, <1>4, <1>5, SameTime DEF ReadInOrder, InOrder, Within

-----------------------------------------------------------------------------
(* What a request itself comes to. *)

OwnGood(r) ==
  /\ KnowsStore(r) /\ MayCreate(r) /\ WaitsWithChoice(r) /\ ChoiceLasts(r)
  /\ CreatesAll(r) /\ InTime(r) /\ Answered(r)

\* What a request may hold where it goes.
MayHold(r, label, l, wait) ==
  LET s == Host[r] IN
  /\ label \in {"wait", "delay"} => wait \in Nat
  /\ label \in {"reloaded", "write", "synced"} => Within(store', l.keys, s)
  /\ label = "create" =>
       /\ Within(store', Cached(s)', s)
       /\ \A q \in Requests \ {r} : pc[q] = "loaded" => Within(store', loc[q].keys, s)
  /\ label = "wait" /\ l.ok =>
       /\ l.rot /\ wait = LockTimeout
       /\ \A k \in l.signing : Local(s) <= k.created + Rotation
       /\ Supports(cache'[s].keys, l.signing, s)
       /\ \A q \in Requests \ {r} : pc[q] = "loaded" =>
            Supports(loc[q].keys, l.signing, s)
  /\ label \in {"wait", "reload", "reloaded"} /\ l.ok => OneEach(l.signing)
  /\ label = "reload" /\ l.ok =>
       \A k \in l.signing : Local(s) <= k.created + Rotation + LockTimeout
  /\ label = "reloaded" /\ l.ok => l.signing \subseteq l.keys
  /\ label = "write" => \A a \in Algs \ l.todo :
       \E k \in OfAlg(l.keys \union {l.new}, a) : k.created = Local(s)
  /\ label = "delay" => /\ wait = SyncDelay
                        /\ \A a \in Algs : \E k \in OfAlg(l.keys, a) : k.created = Local(s)
  /\ label = "synced" => HasFresh(l.keys, Algs, Local(s))
  /\ label = "done" => l.signing \subseteq l.keys /\ OneEach(l.signing)

LEMMA Holding ==
  ASSUME TypeOK, TypeOK', UNCHANGED now, NEW r \in Requests, NEW label, NEW l \in Locals,
         NEW wait, Goto(r, label, l, wait), MayHold(r, label, l, wait)
  PROVE  OwnGood(r)'
<1>s. PICK s : s = Host[r]
  OBVIOUS
<1>0. /\ s \in Servers /\ s = Host[r] /\ Untouched(r)
      /\ pc'[r] = label /\ loc'[r] = l /\ due'[r] = now + wait
      /\ now \in Nat /\ Skew[s] \in Nat /\ Local(s) = now + Skew[s]
      /\ l.keys \in SUBSET Key /\ l.signing \in SUBSET Key
  BY <1>s, GotoTouches, OptionsAssumption DEF Goto, TypeOK, Locals, Local
<1>1. KnowsStore(r)'
  BY <1>0, SameTime DEF KnowsStore, MayHold, Within
<1>2. WaitsWithChoice(r)'
  <2> SUFFICES ASSUME label = "wait", l.ok
               PROVE  WaitsWithChoice(r)'
    BY <1>0 DEF WaitsWithChoice
  <2>1. /\ l.rot /\ wait = LockTimeout
        /\ \A k \in l.signing : Local(s) <= k.created + Rotation
        /\ Supports(cache'[s].keys, l.signing, s)
        /\ \A q \in Requests \ {r} : pc[q] = "loaded" => Supports(loc[q].keys, l.signing, s)
    BY <1>0 DEF MayHold
  <2>2. \A k \in l.signing : due'[r] + Skew[s] <= k.created + Rotation + LockTimeout
    BY <1>0, <2>1, OptionsAssumption DEF Key
  <2>3. Supports(cache[s].keys, loc[r].signing, s)'
    BY <1>0, <2>1, SupportsNext
  <2>4. \A q \in Requests : pc'[q] = "loaded" => Supports(loc[q].keys, loc[r].signing, s)'
    <3> SUFFICES ASSUME NEW q \in Requests, pc'[q] = "loaded"
                 PROVE  Supports(loc[q].keys, loc[r].signing, s)'
      OBVIOUS
    <3>1. Supports(loc'[q].keys, loc'[r].signing, s)
      BY <1>0, <2>1 DEF Untouched
    <3> QED
      BY <3>1, SupportsNext
  <2>5. WaitsWithChoice(r)' <=>
          (pc'[r] = "wait" /\ loc'[r].ok =>
             /\ loc'[r].rot
             /\ \A k \in loc'[r].signing :
                  due'[r] + Skew[s] <= k.created + Rotation + LockTimeout
             /\ Supports(cache[s].keys, loc[r].signing, s)'
             /\ \A q \in Requests : pc'[q] = "loaded" =>
                  Supports(loc[q].keys, loc[r].signing, s)')
    BY <1>0 DEF WaitsWithChoice
  <2> QED
    BY <1>0, <2>1, <2>2, <2>3, <2>4, <2>5
<1>3. ChoiceLasts(r)'
  BY <1>0, SameTime DEF ChoiceLasts, MayHold
<1>4. CreatesAll(r)'
  <2>1. label = "write" => \A a \in Algs \ l.todo :
          \E k \in OfAlg(l.keys \union {l.new}, a) : k.created = Local(s)
    BY <1>0 DEF MayHold
  <2>2. label = "delay" => HasFresh(l.keys, Algs, due'[r] + Skew[s])
    BY <1>0, OptionsAssumption DEF MayHold, HasFresh, OfAlg, Key
  <2>3. label = "synced" => HasFresh(l.keys, Algs, Local(s))
    BY <1>0 DEF MayHold
  <2>4. CreatesAll(r)' <=>
          /\ label = "write" => \A a \in Algs \ l.todo :
               \E k \in OfAlg(l.keys \union {l.new}, a) : k.created = Local(s)'
          /\ label = "delay" => HasFresh(l.keys, Algs, due'[r] + Skew[s])
          /\ label = "synced" => HasFresh(l.keys, Algs, Local(s)')
    BY <1>0 DEF CreatesAll, HasFresh, OfAlg
  <2> QED
    BY <2>1, <2>2, <2>3, <2>4, SameTime
<1>5. InTime(r)'
  BY <1>0 DEF InTime, MayHold
<1>6. Answered(r)'
  BY <1>0 DEF Answered, MayHold
<1>7. MayCreate(r)'
  <2> SUFFICES ASSUME label = "create"
               PROVE  /\ Within(store', Cached(s)', s)
                      /\ \A q \in Requests : pc'[q] = "loaded" =>
                           Within(store', loc'[q].keys, s)
    BY <1>0, SameTime DEF MayCreate, Within
  <2> QED
    BY <1>0 DEF MayHold, Untouched
<1> QED
  BY <1>1, <1>2, <1>3, <1>4, <1>5, <1>6, <1>7 DEF OwnGood

LEMMA HoldingNothing ==
  ASSUME TypeOK, NEW r \in Requests, End(r)
  PROVE  /\ OwnGood(r)' /\ pc'[r] = "idle" /\ loc'[r] = NoLocals /\ Untouched(r)
<1>1. pc'[r] = "idle" /\ loc'[r] = NoLocals
  BY DEF End, TypeOK
<1> QED
  BY <1>1, EndTouches DEF OwnGood, KnowsStore, MayCreate, WaitsWithChoice, ChoiceLasts, CreatesAll,
     InTime, Answered

\* An answer with one key to sign with for each algorithm, all published.
LEMMA HoldingAnswer ==
  ASSUME Alone, TypeOK, TypeOK', UNCHANGED now, NEW r \in Requests, NEW l \in Locals,
         Answer(r, l), l.signing \subseteq l.keys, OneEach(l.signing)
  PROVE  OwnGood(r)' /\ pc'[r] \in {"idle", "done"} /\ loc'[r].keys \subseteq l.keys
<1> DEFINE m == [NoLocals EXCEPT !.keys = l.keys, !.signing = l.signing]
<1>1. CASE End(r)
  BY <1>1, HoldingNothing DEF NoLocals
<1>2. CASE Goto(r, "done", m, Lag)
  <2>1. m \in Locals /\ m.keys = l.keys /\ m.signing = l.signing
    BY DEF Locals, NoLocals
  <2> HIDE DEF m
  <2>2. MayHold(r, "done", m, Lag)
    BY <2>1 DEF MayHold
  <2>3. OwnGood(r)'
    BY <1>2, <2>1, <2>2, Holding
  <2> QED
    BY <1>2, <2>1, <2>3 DEF Goto, TypeOK
<1> QED
  BY <1>1, <1>2 DEF Answer

-----------------------------------------------------------------------------
(* The bound on ties, and what a cache takes. *)

LEMMA TiesKept ==
  ASSUME AllTied, NEW r \in Requests, Untouched(r), Tied(store'),
         \A s \in Servers : Tied(cache'[s].keys),
         Tied(loc'[r].keys), pc'[r] = "write" => loc'[r].new.seq <= MaxTies
  PROVE  AllTied'
<1>1. \A q \in Requests : /\ Tied(loc'[q].keys)
                          /\ pc'[q] = "write" => loc'[q].new.seq <= MaxTies
  BY DEF AllTied, Untouched
<1> QED
  BY <1>1 DEF AllTied, Tied

LEMMA Taken ==
  ASSUME Alone, TypeOK, UNCHANGED now, NEW s \in Servers, NEW K, CacheKeys(s, K)
  PROVE  /\ K # {} => cache'[s].keys = K /\ Cached(s)' = K
         /\ K = {} => UNCHANGED cache
         /\ \A t \in Servers : cache'[t].keys \in {cache[t].keys, K}
<1>1. InitCacheDuration \in Nat /\ CacheDuration \in Nat
      /\ InitCacheDuration > 0 /\ CacheDuration > 0 /\ Local(s) \in Nat
  BY CacheDurationType, LocalType, OptionsAssumption DEF Alone
<1> DEFINE d == IF AllKeysNew(K, s) THEN InitCacheDuration ELSE CacheDuration
<1>2. d \in Nat /\ d > 0
  BY <1>1
<1>3. cache' = IF K # {} THEN [cache EXCEPT ![s] = [keys |-> K, expires |-> Local(s) + d]]
                         ELSE cache
  BY <1>2 DEF CacheKeys
<1> HIDE DEF d
<1>4. K # {} => cache'[s].keys = K /\ cache'[s].expires = Local(s) + d
  BY <1>3 DEF TypeOK
<1>5. Local(s)' = Local(s)
  BY DEF Local
<1>6. K # {} => Cached(s)' = K
  BY <1>1, <1>2, <1>4, <1>5 DEF Cached
<1>7. \A t \in Servers : cache'[t].keys \in {cache[t].keys, K}
  BY <1>3 DEF TypeOK
<1> QED
  BY <1>3, <1>4, <1>6, <1>7

LEMMA AnswersAssembled ==
  ASSUME Alone, AInv, PInv', NEW r \in Requests, Effect(r), OwnGood(r)', AllTied'
  PROVE  AInv'
<1>1. \A q \in Requests : ReadInOrder(q)'
  BY ReadsStayInOrder
<1>2. \A q \in Requests \ {r} :
        /\ KnowsStore(q)' /\ MayCreate(q)' /\ WaitsWithChoice(q)' /\ ChoiceLasts(q)'
        /\ CreatesAll(q)' /\ InTime(q)' /\ Answered(q)'
  BY OthersUndisturbed
<1> QED
  BY <1>1, <1>2 DEF AInv, OwnGood

-----------------------------------------------------------------------------
(* The checks. *)

\* A key that can sign is not retired, and neither is it for a while after.
LEMMA SigningKeysUsable ==
  ASSUME TypeOK, NEW s \in Servers, NEW K \in SUBSET Key, NEW k \in SigningKeys(K, s)
  PROVE  k \in K /\ Local(s) <= k.created + Rotation /\ ~IsRetired(k, s)
<1>1. k \in K /\ k \in Key
  BY SigningKeysSubset
<1>2. CanSign(k, s, FALSE) \/ CanSign(k, s, TRUE)
  BY DEF SigningKeys, CurrentSigningKey, Candidates, OfAlg
<1>3. Local(s) <= k.created + Rotation
  BY <1>1, <1>2, LocalType, OptionsAssumption DEF CanSign, Key
<1>4. 0 \in Nat /\ 0 < Retention /\ Local(s) <= k.created + Rotation + 0
  BY <1>1, <1>3, LocalType, OptionsAssumption DEF Key
<1>5. ~IsRetired(k, s)
  BY <1>1, <1>4, UsableNotRetired
<1> QED
  BY <1>1, <1>3, <1>5

\* A set read before or after one that calls for a rotation does not send a
\* request away without the choice it made from the latter.
LEMMA ChoiceSupported ==
  ASSUME TypeOK, NEW s \in Servers, NEW K \in SUBSET Key, NEW D \in SUBSET Key,
         StampedPast(K, s), StampedPast(D, s), InOrder(D, K, s), RotationRequired(K, s)
  PROVE  Supports(D, SigningKeys(K, s), s)
<1>1. CASE Within(D, K, s)
  BY <1>1, RotationMeansOutdated, EarlierOutdated DEF Supports
<1>2. CASE Within(K, D, s)
  BY <1>2, SigningKeysUsable DEF Within, Supports
<1> QED
  BY <1>1, <1>2 DEF InOrder

LEMMA FirstCheckedFields ==
  ASSUME NEW K, NEW s
  PROVE  /\ FirstChecked(K, s).keys = K
         /\ FirstChecked(K, s).signing = SigningKeys(K, s)
         /\ FirstChecked(K, s).ok = HasAllSigningKeys(K, s)
         /\ FirstChecked(K, s).rot =
              (HasAllSigningKeys(K, s) /\ RotationRequired(K, s))
         /\ SigningKeys(K, s) \subseteq K
BY SigningKeysSubset DEF FirstChecked, NoLocals

\* A first check of a key set that the cache now holds.
LEMMA FirstCheckHolds ==
  ASSUME Alone, TypeOK, TypeOK', UNCHANGED now, NEW r \in Requests,
         NEW s \in Servers, s = Host[r], NEW K \in SUBSET Key,
         AnswerOrWait(r, FirstChecked(K, s)),
         StampedPast(K, s), K # {} => cache'[s].keys = K,
         \A q \in Requests \ {r} : pc[q] = "loaded" =>
           /\ loc[q].keys \in SUBSET Key /\ StampedPast(loc[q].keys, s)
           /\ InOrder(loc[q].keys, K, s)
  PROVE  /\ OwnGood(r)' /\ Untouched(r)
         /\ pc'[r] \notin {"loaded", "write"} /\ loc'[r].keys \subseteq K
<1> DEFINE l == FirstChecked(K, s)
           S == SigningKeys(K, s)
<1>1. /\ l.keys = K /\ l.signing = S /\ S \subseteq K /\ l \in Locals
      /\ l.ok = HasAllSigningKeys(K, s)
      /\ l.rot = (HasAllSigningKeys(K, s) /\ RotationRequired(K, s))
  BY FirstCheckedFields, FirstCheckedType
<1>2. HasAllSigningKeys(K, s) => OneEach(S)
  BY OneSigningKey
<1>3. \A k \in S : Local(s) <= k.created + Rotation
  BY SigningKeysUsable
<1>4. HasAllSigningKeys(K, s) => K # {}
  BY OptionsAssumption DEF HasAllSigningKeys, Candidates, OfAlg
<1>5. RotationRequired(K, s) => \A q \in Requests \ {r} : pc[q] = "loaded" =>
        Supports(loc[q].keys, S, s)
  BY ChoiceSupported
<1>6. Supports(K, S, s)
  BY <1>1 DEF Supports
<1>7. (NewKeyNeeded(l) /\ Goto(r, "wait", l, LockTimeout)) \/ (~NewKeyNeeded(l) /\ Answer(r, l))
  BY DEF AnswerOrWait
<1> HIDE DEF l, S
<1>8. CASE NewKeyNeeded(l) /\ Goto(r, "wait", l, LockTimeout)
  <2>1. l.ok => l.rot /\ RotationRequired(K, s) /\ OneEach(l.signing) /\ cache'[s].keys = K
    BY <1>1, <1>2, <1>4, <1>8 DEF NewKeyNeeded
  <2>2. MayHold(r, "wait", l, LockTimeout)
    BY <1>1, <1>3, <1>5, <1>6, <2>1, OptionsAssumption DEF MayHold
  <2>3. OwnGood(r)'
    BY <1>1, <1>8, <2>2, Holding
  <2> QED
    BY <1>1, <1>8, <2>3, GotoTouches DEF Goto, TypeOK
<1>9. CASE ~NewKeyNeeded(l) /\ Answer(r, l)
  <2>1. l.signing \subseteq l.keys /\ OneEach(l.signing)
    BY <1>1, <1>2, <1>9 DEF NewKeyNeeded
  <2> QED
    BY <1>1, <1>9, <2>1, HoldingAnswer, AnswerTouches
<1> QED
  BY <1>7, <1>8, <1>9

-----------------------------------------------------------------------------
(* The steps one by one. *)

\* Facts of every state, and of the next one.
LEMMA Basics ==
  ASSUME Alone, AInv, PInv', NEW r \in Requests
  PROVE  /\ TypeOK /\ TypeOK' /\ IInv /\ PInv /\ AllTied
         /\ Host[r] \in Servers /\ loc[r] \in Locals
         /\ loc[r].keys \in SUBSET Key /\ loc[r].signing \in SUBSET Key
         /\ \A q \in Requests : Host[q] = Host[r]
         /\ \A s \in Servers : s = Host[r]
BY OptionsAssumption DEF AInv, PInv, IInv, Alone, TypeOK, Locals

LEMMA AnswerStart ==
  ASSUME Alone, AInv, PInv', NEW r \in Requests, Start(r)
  PROVE  AInv'
<1>s. PICK s : s = Host[r]
  OBVIOUS
<1>0. /\ TypeOK /\ TypeOK' /\ PInv /\ AllTied /\ s \in Servers /\ s = Host[r]
      /\ \A t \in Servers : t = s
      /\ UNCHANGED <<now, store, cache>> /\ Kept
      /\ \A q \in Requests : Host[q] = s
  BY <1>s, Basics, SameStore DEF Start
<1>1. PICK K : K = Cached(s)
  OBVIOUS
<1>2. K \in SUBSET Key /\ (K = cache[s].keys \/ K = {})
  BY <1>0, <1>1, CachedType DEF Cached
<1>3. StampedPast(K, s) /\ Tied(K)
  BY <1>0, <1>2, SetsKnown DEF StampedPast, Tied, AllTied
<1>4. CASE Goto(r, "load", NoLocals, Lag)
  <2>1. MayHold(r, "load", NoLocals, Lag)
    BY DEF MayHold
  <2>2. OwnGood(r)' /\ Untouched(r)
    BY <1>0, <1>4, <2>1, Holding, GotoTouches, NoLocalsType
  <2>3. pc'[r] = "load" /\ loc'[r].keys = {}
    BY <1>0, <1>4 DEF Goto, TypeOK, NoLocals
  <2>4. AllTied'
    BY <1>0, <2>2, <2>3, TiesKept DEF AllTied, Tied
  <2>5. Effect(r)
    BY <1>0, <2>2, <2>3 DEF Effect, CacheEffect, ReadEffect
  <2> QED
    BY <2>2, <2>4, <2>5, AnswersAssembled
<1>5. CASE K # {} /\ AnswerOrWait(r, FirstChecked(K, s))
  <2>1. \A q \in Requests \ {r} : pc[q] = "loaded" =>
          /\ loc[q].keys \in SUBSET Key /\ StampedPast(loc[q].keys, s)
          /\ InOrder(loc[q].keys, K, s)
    BY <1>0, <1>2, <1>5, SetsKnown DEF AInv, ReadInOrder
  <2>2. cache'[s].keys = K
    BY <1>0, <1>2, <1>5
  <2>3. /\ OwnGood(r)' /\ Untouched(r)
        /\ pc'[r] \notin {"loaded", "write"} /\ loc'[r].keys \subseteq K
    BY <1>0, <1>2, <1>3, <1>5, <2>1, <2>2, FirstCheckHolds
  <2>4. AllTied'
    BY <1>0, <1>3, <2>3, TiesKept DEF AllTied, Tied
  <2>5. Effect(r)
    BY <1>0, <2>3 DEF Effect, CacheEffect, ReadEffect
  <2> QED
    BY <2>3, <2>4, <2>5, AnswersAssembled
<1> QED
  BY <1>0, <1>1, <1>4, <1>5 DEF Start

LEMMA AnswerCheckLoaded ==
  ASSUME Alone, AInv, PInv', NEW r \in Requests, CheckLoaded(r)
  PROVE  AInv'
<1>s. PICK s : s = Host[r]
  OBVIOUS
<1>1. PICK K : K = loc[r].keys
  OBVIOUS
<1>0. /\ TypeOK /\ TypeOK' /\ PInv /\ AllTied /\ s \in Servers /\ s = Host[r]
      /\ \A t \in Servers : t = s
      /\ UNCHANGED <<now, store>> /\ Kept /\ K \in SUBSET Key
      /\ \A q \in Requests : Host[q] = s
      /\ pc[r] = "loaded" /\ CacheKeys(s, K) /\ AnswerOrWait(r, FirstChecked(K, s))
  BY <1>s, <1>1, Basics, SameStore DEF CheckLoaded
<1>2. StampedPast(K, s) /\ Tied(K)
  BY <1>0, <1>1, SetsKnown DEF AllTied
<1>3. (K # {} => cache'[s].keys = K) /\ (K = {} => UNCHANGED cache)
  BY <1>0, Taken
<1>4. \A q \in Requests \ {r} : pc[q] = "loaded" =>
        /\ loc[q].keys \in SUBSET Key /\ StampedPast(loc[q].keys, s)
        /\ InOrder(loc[q].keys, K, s)
  BY <1>0, <1>1, SetsKnown DEF AInv, ReadInOrder, InOrder
<1>5. /\ OwnGood(r)' /\ Untouched(r)
      /\ pc'[r] \notin {"loaded", "write"} /\ loc'[r].keys \subseteq K
  BY <1>0, <1>2, <1>3, <1>4, FirstCheckHolds
<1>6. AllTied'
  <2>1. \A t \in Servers : Tied(cache'[t].keys)
    BY <1>0, <1>2, <1>3 DEF AllTied
  <2> QED
    BY <1>0, <1>2, <1>5, <2>1, TiesKept DEF AllTied, Tied
<1>7. Effect(r)
  BY <1>0, <1>1, <1>3, <1>5, Taken DEF Effect, CacheEffect, ReadEffect
<1> QED
  BY <1>5, <1>6, <1>7, AnswersAssembled

\* A read of the store: everything in it that is not retired.
LEMMA AnswerRead ==
  ASSUME Alone, AInv, PInv', NEW r \in Requests, NEW from, NEW to, ReadStore(r, from, to),
         \/ from = "load" /\ to = "loaded"
         \/ from = "reload" /\ to = "reloaded"
         \/ from = "delay" /\ to = "synced" /\ now >= due[r]
  PROVE  AInv'
<1>s. PICK s : s = Host[r]
  OBVIOUS
<1>1. PICK K : K = {k \in store : ~IsRetired(k, s)}
  OBVIOUS
<1>2. PICK l : l = [loc[r] EXCEPT !.keys = K, !.doomed = {k \in store : IsRetired(k, s)}]
  OBVIOUS
<1>0. /\ TypeOK /\ TypeOK' /\ PInv /\ AllTied /\ s \in Servers /\ s = Host[r]
      /\ \A t \in Servers : t = s
      /\ UNCHANGED <<now, store, cache>> /\ Kept
      /\ \A q \in Requests : Host[q] = s
      /\ pc[r] = from /\ Goto(r, to, l, Lag) /\ loc[r] \in Locals
      /\ store \in SUBSET Key /\ K \in SUBSET Key
      /\ loc[r].keys \in SUBSET Key /\ loc[r].signing \in SUBSET Key
  BY <1>s, <1>1, <1>2, Basics, SameStore DEF ReadStore, TypeOK
<1>3. /\ l \in Locals /\ l.keys = K /\ l.ok = loc[r].ok /\ l.signing = loc[r].signing
      /\ l.new = loc[r].new
  BY <1>0, <1>2 DEF Locals
<1>4. Within(store, K, s) /\ Within(store', K, s)
  BY <1>0, <1>1 DEF Within
<1>5. ASSUME to = "reloaded", l.ok
      PROVE  OneEach(l.signing) /\ l.signing \subseteq K
  <2>1. /\ pc[r] = "reload" /\ loc[r].ok /\ OneEach(loc[r].signing)
        /\ \A k \in loc[r].signing : Local(s) <= k.created + Rotation + LockTimeout
    BY <1>0, <1>3, <1>5 DEF AInv, ChoiceLasts
  <2>2. LockTimeout \in Nat /\ LockTimeout < Retention
    BY OptionsAssumption DEF Alone
  <2>3. \A k \in loc[r].signing : ~IsRetired(k, s)
    BY <1>0, <2>1, <2>2, UsableNotRetired
  <2>4. Within(loc[r].signing, store, s)
    BY <1>0, SetsKnown
  <2> QED
    BY <1>1, <1>3, <2>1, <2>3, <2>4 DEF Within
<1>6. ASSUME to = "synced"
      PROVE  HasFresh(K, Algs, Local(s))
  <2>1. pc[r] = "delay" /\ due[r] = now
    BY <1>0, <1>6 DEF AInv, InTime, TypeOK
  <2>2. HasFresh(loc[r].keys, Algs, Local(s))
    BY <1>0, <2>1 DEF AInv, CreatesAll, Local
  <2>3. ASSUME NEW k \in loc[r].keys, Local(s) <= k.created + SyncDelay
        PROVE  k \in K
    <3>1. k \in Key /\ 0 \in Nat /\ 0 < Retention /\ Local(s) <= k.created + Rotation + 0
      BY <1>0, <2>3, LocalType, OptionsAssumption DEF Key, Alone
    <3>2. ~IsRetired(k, s)
      BY <1>0, <3>1, UsableNotRetired
    <3>3. Within(loc[r].keys, store, s)
      BY <1>0, SetsKnown
    <3> QED
      BY <1>1, <2>3, <3>2, <3>3 DEF Within
  <2> QED
    BY <2>2, <2>3 DEF HasFresh, OfAlg
<1>7. MayHold(r, to, l, Lag)
  BY <1>0, <1>3, <1>4, <1>5, <1>6 DEF MayHold
<1>8. OwnGood(r)' /\ Untouched(r) /\ pc'[r] = to /\ loc'[r] = l
  BY <1>0, <1>3, <1>7, Holding, GotoTouches DEF Goto, TypeOK
<1>9. AllTied'
  BY <1>0, <1>1, <1>3, <1>8, TiesKept DEF AllTied, Tied
<1>10. Effect(r)
  BY <1>0, <1>3, <1>4, <1>8 DEF Effect, CacheEffect, ReadEffect
<1> QED
  BY <1>8, <1>9, <1>10, AnswersAssembled

\* A second check makes the checks that are still to be made.
LEMMA CheckedAgain ==
  ASSUME NEW l \in Locals, NEW K, NEW s
  PROVE  /\ Checked(l, K, s).keys = K
         /\ Checked(l, K, s).ok <=> (l.ok \/ HasAllSigningKeys(K, s))
         /\ l.ok => Checked(l, K, s).signing = l.signing
         /\ ~l.ok => Checked(l, K, s).signing = SigningKeys(K, s)
         /\ Checked(l, K, s).rot <=> (l.rot /\ RotationRequired(K, s))
<1>1. PICK a \in BOOLEAN : a <=> (l.ok \/ HasAllSigningKeys(K, s))
  OBVIOUS
<1>2. PICK b \in BOOLEAN : b <=> (l.rot /\ RotationRequired(K, s))
  OBVIOUS
<1>3. a = (l.ok \/ HasAllSigningKeys(K, s)) /\ b = (l.rot /\ RotationRequired(K, s))
  BY <1>1, <1>2, Zenon
<1>4. PICK S : S = IF l.ok THEN l.signing ELSE SigningKeys(K, s)
  OBVIOUS
<1>5. Checked(l, K, s) = [l EXCEPT !.keys = K, !.ok = a, !.signing = S, !.rot = b]
  BY <1>3, <1>4 DEF Checked
<1>6. /\ Checked(l, K, s).keys = K /\ Checked(l, K, s).ok = a
      /\ Checked(l, K, s).signing = S /\ Checked(l, K, s).rot = b
  BY <1>5 DEF Locals
<1> QED
  BY <1>1, <1>2, <1>4, <1>6

LEMMA AnswerAcquire ==
  ASSUME Alone, AInv, PInv', NEW r \in Requests, Acquire(r)
  PROVE  AInv'
<1>s. PICK s : s = Host[r]
  OBVIOUS
<1>1. PICK K : K = Cached(s)
  OBVIOUS
<1>2. PICK l : l = Checked(loc[r], K, s)
  OBVIOUS
<1>0. /\ TypeOK /\ TypeOK' /\ PInv /\ AllTied /\ s \in Servers /\ s = Host[r]
      /\ \A t \in Servers : t = s
      /\ UNCHANGED <<now, store, cache>> /\ Kept
      /\ \A q \in Requests : Host[q] = s
      /\ pc[r] = "wait" /\ loc[r] \in Locals /\ loc[r].signing \in SUBSET Key
      /\ \/ NewKeyNeeded(l) /\ Goto(r, "reload", l, Lag)
         \/ ~NewKeyNeeded(l) /\ Answer(r, l)
  BY <1>s, <1>1, <1>2, Basics, SameStore DEF Acquire
<1>3. K \in SUBSET Key /\ (K = cache[s].keys \/ K = {})
  BY <1>0, <1>1, CachedType DEF Cached
<1>4. StampedPast(K, s) /\ Tied(K)
  BY <1>0, <1>3, SetsKnown DEF StampedPast, Tied, AllTied
<1>5. /\ l \in Locals /\ l.keys = K
      /\ l.ok <=> (loc[r].ok \/ HasAllSigningKeys(K, s))
      /\ loc[r].ok => l.signing = loc[r].signing
      /\ ~loc[r].ok => l.signing = SigningKeys(K, s)
      /\ l.rot <=> (loc[r].rot /\ RotationRequired(K, s))
  BY <1>0, <1>2, <1>3, CheckedType, CheckedAgain
<1>6. ASSUME ~loc[r].ok, l.ok
      PROVE  /\ OneEach(l.signing) /\ l.signing \subseteq K
             /\ \A k \in l.signing : Local(s) <= k.created + Rotation
  BY <1>0, <1>3, <1>5, <1>6, OneSigningKey, SigningKeysUsable
<1>7. ASSUME loc[r].ok
      PROVE  /\ OneEach(l.signing) /\ loc[r].rot
             /\ \A k \in l.signing : Local(s) <= k.created + Rotation + LockTimeout
             /\ Supports(K, l.signing, s)
  <2>1. /\ OneEach(l.signing) /\ loc[r].rot
        /\ \A k \in l.signing : due[r] + Skew[s] <= k.created + Rotation + LockTimeout
        /\ Supports(cache[s].keys, l.signing, s)
        /\ now <= due[r]
    BY <1>0, <1>5, <1>7 DEF AInv, ChoiceLasts, WaitsWithChoice, InTime
  <2>2. \A k \in l.signing : Local(s) <= k.created + Rotation + LockTimeout
    BY <1>0, <1>5, <1>7, <2>1, OptionsAssumption DEF Local, TypeOK, Key
  <2>3. Supports(K, l.signing, s)
    BY <1>3, <2>1, EmptyOutdated DEF Supports
  <2> QED
    BY <2>1, <2>2, <2>3
<1>8. CASE NewKeyNeeded(l) /\ Goto(r, "reload", l, Lag)
  <2>1. l.ok => OneEach(l.signing)
    BY <1>6, <1>7
  <2>2. l.ok => \A k \in l.signing : Local(s) <= k.created + Rotation + LockTimeout
    <3>1. CASE loc[r].ok
      BY <1>7, <3>1
    <3>2. CASE ~loc[r].ok
      BY <1>0, <1>5, <1>6, <3>2, LocalType, OptionsAssumption DEF Key, Locals
    <3> QED
      BY <3>1, <3>2
  <2>3. MayHold(r, "reload", l, Lag)
    BY <1>0, <2>1, <2>2 DEF MayHold
  <2>4. OwnGood(r)' /\ Untouched(r) /\ pc'[r] = "reload" /\ loc'[r].keys = K
    BY <1>0, <1>5, <1>8, <2>3, Holding, GotoTouches DEF Goto, TypeOK
  <2>5. AllTied'
    BY <1>0, <1>4, <2>4, TiesKept DEF AllTied, Tied
  <2>6. Effect(r)
    BY <1>0, <2>4 DEF Effect, CacheEffect, ReadEffect
  <2> QED
    BY <2>4, <2>5, <2>6, AnswersAssembled
<1>9. CASE ~NewKeyNeeded(l) /\ Answer(r, l)
  <2>1. l.ok /\ ~l.rot
    BY <1>9 DEF NewKeyNeeded
  <2>2. loc[r].ok => ~Outdated(K, s)
    BY <1>0, <1>3, <1>4, <1>5, <1>7, <2>1, OutdatedNeedsRotation
  <2>3. OneEach(l.signing) /\ l.signing \subseteq l.keys
    BY <1>5, <1>6, <1>7, <2>1, <2>2 DEF Supports
  <2>4. OwnGood(r)' /\ Untouched(r) /\ pc'[r] \in {"idle", "done"} /\ loc'[r].keys \subseteq K
    BY <1>0, <1>5, <1>9, <2>3, HoldingAnswer, AnswerTouches
  <2>5. AllTied'
    BY <1>0, <1>4, <2>4, TiesKept DEF AllTied, Tied
  <2>6. Effect(r)
    BY <1>0, <2>4 DEF Effect, CacheEffect, ReadEffect
  <2> QED
    BY <2>4, <2>5, <2>6, AnswersAssembled
<1> QED
  BY <1>0, <1>8, <1>9

\* A request is over.
LEMMA AnswerEnds ==
  ASSUME Alone, AInv, PInv', NEW r \in Requests, End(r), UNCHANGED <<now, store, cache>>
  PROVE  AInv'
<1>0. TypeOK /\ TypeOK' /\ AllTied /\ Kept
  BY Basics, SameStore
<1>1. OwnGood(r)' /\ pc'[r] = "idle" /\ loc'[r] = NoLocals /\ Untouched(r)
  BY <1>0, HoldingNothing
<1>2. AllTied'
  BY <1>0, <1>1, TiesKept DEF AllTied, Tied, NoLocals
<1>3. Effect(r)
  BY <1>0, <1>1 DEF Effect, CacheEffect, ReadEffect
<1> QED
  BY <1>1, <1>2, <1>3, AnswersAssembled

\* A fresh key can sign.
LEMMA FreshMeansAll ==
  ASSUME Alone, TypeOK, NEW s \in Servers, NEW K \in SUBSET Key, StampedPast(K, s),
         HasFresh(K, Algs, Local(s))
  PROVE  HasAllSigningKeys(K, s)
<1> SUFFICES ASSUME NEW a \in Algs
             PROVE  Candidates(OfAlg(K, a), s) # {}
  BY DEF HasAllSigningKeys
<1>1. PICK k \in OfAlg(K, a) : Local(s) <= k.created + SyncDelay
  BY DEF HasFresh
<1>2. k \in Key /\ k.created <= Local(s)
  BY <1>1 DEF OfAlg, StampedPast
<1>3. CanSign(k, s, TRUE)
  BY <1>1, <1>2, LocalType, OptionsAssumption DEF CanSign, Key, Alone
<1> QED
  BY <1>1, <1>3 DEF Candidates

\* The end of a creation: the keys are cached, and one of each algorithm
\* signs.
LEMMA FinishHolds ==
  ASSUME Alone, TypeOK, TypeOK', UNCHANGED now, NEW r \in Requests,
         NEW s \in Servers, s = Host[r], loc[r] \in Locals,
         NEW K \in SUBSET Key, StampedPast(K, s), HasFresh(K, Algs, Local(s)),
         Finish(r, K)
  PROVE  /\ OwnGood(r)' /\ Untouched(r)
         /\ pc'[r] \in {"idle", "done"} /\ loc'[r].keys \subseteq K
         /\ cache'[s].keys = K /\ Cached(s)' = K
<1>1. PICK l : l = [loc[r] EXCEPT !.keys = K, !.signing = SigningKeys(K, s)]
  OBVIOUS
<1>2. HasAllSigningKeys(K, s) /\ K # {}
  BY FreshMeansAll, OptionsAssumption DEF HasFresh, OfAlg
<1>3. SigningKeys(K, s) \subseteq K /\ OneEach(SigningKeys(K, s))
  BY <1>2, SigningKeysSubset, OneSigningKey
<1>4. l \in Locals /\ l.keys = K /\ l.signing = SigningKeys(K, s)
  BY <1>1, <1>3 DEF Locals
<1>5. Answer(r, l) /\ CacheKeys(s, K)
  BY <1>1 DEF Finish
<1>6. cache'[s].keys = K /\ Cached(s)' = K
  BY <1>2, <1>5, Taken
<1> QED
  BY <1>3, <1>4, <1>5, <1>6, HoldingAnswer, AnswerTouches

\* A key is stamped and about to be written.
LEMMA CreateHolds ==
  ASSUME Alone, TypeOK, TypeOK', UNCHANGED now, NEW r \in Requests,
         NEW s \in Servers, s = Host[r], NEW l \in Locals, CreateKey(r, l),
         Within(store', l.keys, s),
         \A a \in Algs \ l.todo : \E k \in OfAlg(l.keys, a) : k.created = Local(s)
  PROVE  /\ OwnGood(r)' /\ Untouched(r)
         /\ pc'[r] = "write" /\ loc'[r].keys = l.keys /\ loc'[r].new.seq <= MaxTies
<1>1. PICK a \in l.todo, n \in 0..MaxTies :
         Goto(r, "write",
              [l EXCEPT !.todo = @ \ {a},
                   !.new = [alg |-> a, created |-> Local(s), seq |-> n, by |-> s]], Lag)
  BY DEF CreateKey
<1>2. PICK k : k = [alg |-> a, created |-> Local(s), seq |-> n, by |-> s]
  OBVIOUS
<1>3. PICK m : m = [l EXCEPT !.todo = @ \ {a}, !.new = k]
  OBVIOUS
<1>4. /\ k \in Key /\ k.alg = a /\ k.created = Local(s) /\ k.seq = n /\ n <= MaxTies
  BY <1>2, LocalType, OptionsAssumption DEF Key, Locals
<1>5. m \in Locals /\ m.keys = l.keys /\ m.todo = l.todo \ {a} /\ m.new = k
  BY <1>3, <1>4 DEF Locals
<1>6. Goto(r, "write", m, Lag)
  BY <1>1, <1>2, <1>3
<1>7. ASSUME NEW b \in Algs \ m.todo
      PROVE  \E j \in OfAlg(m.keys \union {m.new}, b) : j.created = Local(s)
  <2>1. CASE b = a
    BY <1>4, <1>5, <2>1 DEF OfAlg
  <2>2. CASE b # a
    <3>1. PICK j \in OfAlg(l.keys, b) : j.created = Local(s)
      BY <1>5, <1>7, <2>2
    <3> QED
      BY <1>5, <3>1 DEF OfAlg
  <2> QED
    BY <2>1, <2>2
<1>8. MayHold(r, "write", m, Lag)
  BY <1>5, <1>7 DEF MayHold
<1>9. OwnGood(r)' /\ Untouched(r)
  BY <1>5, <1>6, <1>8, Holding, GotoTouches
<1>10. pc'[r] = "write" /\ loc'[r] = m
  BY <1>6 DEF Goto, TypeOK
<1> QED
  BY <1>4, <1>5, <1>9, <1>10

\* When the whole store calls for new keys, nobody has missed one: it would
\* have been stamped just now.
LEMMA NothingNewer ==
  ASSUME Alone, AInv, NEW s \in Servers, NEW K \in SUBSET Key, StampedPast(K, s),
         Within(store, K, s),
         ~HasAllSigningKeys(K, s) \/ RotationRequired(K, s),
         NEW q \in Requests, Host[q] = s, pc[q] = "loaded"
  PROVE  Within(store, loc[q].keys, s)
<1> SUFFICES ASSUME NEW j \in store, j \notin loc[q].keys, ~IsRetired(j, s)
             PROVE  FALSE
  BY DEF Within
<1>1. /\ TypeOK /\ PInv /\ j \in Key /\ Local(s) \in Nat /\ Local(s) = now + Skew[s]
      /\ now \in Nat /\ Skew[s] \in Nat /\ j.created \in Nat
      /\ Rotation \in Nat /\ Propagation \in Nat /\ Rotation > Propagation
  BY LocalType, OptionsAssumption DEF AInv, PInv, IInv, TypeOK, Local, Key
<1>2. now <= Stamp(j)
  BY <1>1 DEF PInv, RequestOK, Sees
<1>3. j.by = s /\ j.created <= Local(s)
  BY <1>1, KnownPast DEF Alone, Known, Key
<1>4. j.created = Local(s)
  BY <1>1, <1>2, <1>3 DEF Stamp
<1>5. j \in K /\ \A a \in Algs : j \in OfAlg(K, a)
  BY <1>1 DEF Within, OfAlg, Alone, SingleAlg, Key
<1>6. CanSign(j, s, TRUE)
  BY <1>1, <1>4 DEF CanSign
<1>7. \A a \in Algs : Candidates(OfAlg(K, a), s) # {}
  BY <1>5, <1>6 DEF Candidates
<1>9. ~Outdated(K, s)
  <2>1. \A a \in Algs : \E k \in OfAlg(K, a) : ~(Rotation - Age(k, s) <= Propagation)
    <3>1. Age(j, s) = 0
      BY <1>1, <1>4 DEF Age
    <3>2. ~(Rotation - Age(j, s) <= Propagation)
      BY <1>1, <3>1
    <3> QED
      BY <1>5, <3>2
  <2> QED
    BY <1>7, <2>1 DEF Outdated
<1>10. HasAllSigningKeys(K, s)
  BY <1>7 DEF HasAllSigningKeys
<1>11. ~RotationRequired(K, s)
  BY <1>1, <1>9, RotationMeansOutdated
<1> QED
  BY <1>10, <1>11

LEMMA AnswerCheckReloaded ==
  ASSUME Alone, AInv, PInv', NEW r \in Requests, CheckReloaded(r)
  PROVE  AInv'
<1>s. PICK s : s = Host[r]
  OBVIOUS
<1>1. PICK K : K = loc[r].keys
  OBVIOUS
<1>2. PICK l : l = Checked(loc[r], K, s)
  OBVIOUS
<1>0. /\ TypeOK /\ TypeOK' /\ PInv /\ AllTied /\ s \in Servers /\ s = Host[r]
      /\ \A t \in Servers : t = s
      /\ UNCHANGED <<now, store>> /\ Kept
      /\ pc[r] = "reloaded" /\ loc[r] \in Locals /\ K \in SUBSET Key
      /\ CacheKeys(s, K)
      /\ \/ NewKeyNeeded(l) /\ Goto(r, "create", l, Lag)
         \/ ~NewKeyNeeded(l) /\ Answer(r, l)
      /\ \A q \in Requests : Host[q] = s
  BY <1>s, <1>1, <1>2, Basics, SameStore DEF CheckReloaded
<1>5. Within(store', K, s)
  BY <1>0, <1>1 DEF AInv, KnowsStore
<1>6. /\ K # {} => Cached(s)' = K /\ cache'[s].keys = K
      /\ K = {} => UNCHANGED cache
      /\ \A t \in Servers : cache'[t].keys \in {cache[t].keys, K}
  BY <1>0, Taken
<1>7. StampedPast(K, s)
  BY <1>0, <1>1, SetsKnown
<1>8. Tied(K) /\ Tied(store') /\ \A t \in Servers : Tied(cache'[t].keys)
  BY <1>0, <1>1, <1>6 DEF AllTied, Tied
<1>9. Within(store', Cached(s)', s)
  BY <1>5, <1>6 DEF Within
<1>10. cache'[s] = cache[s] \/ Within(store', cache'[s].keys, s)
  BY <1>0, <1>5, <1>6
<1>11. /\ l \in Locals /\ l.keys = K
       /\ l.ok <=> (loc[r].ok \/ HasAllSigningKeys(K, s))
       /\ loc[r].ok => l.signing = loc[r].signing
       /\ ~loc[r].ok => l.signing = SigningKeys(K, s)
       /\ l.rot <=> (loc[r].rot /\ RotationRequired(K, s))
  BY <1>0, <1>2, CheckedType, CheckedAgain
<1>12. CASE NewKeyNeeded(l) /\ Goto(r, "create", l, Lag)
  <2>1. \A q \in Requests \ {r} : pc[q] = "loaded" => Within(store', loc[q].keys, s)
    <3>1. ~HasAllSigningKeys(K, s) \/ RotationRequired(K, s)
      BY <1>11, <1>12 DEF NewKeyNeeded
    <3>2. Within(store, K, s) /\ store' = store
      BY <1>0, <1>5
    <3> QED
      BY <1>0, <1>7, <3>1, <3>2, NothingNewer
  <2>2. MayHold(r, "create", l, Lag)
    BY <1>0, <1>9, <2>1 DEF MayHold
  <2>3. OwnGood(r)' /\ Untouched(r) /\ pc'[r] = "create" /\ loc'[r].keys = K
    BY <1>0, <1>11, <1>12, <2>2, Holding, GotoTouches DEF Goto, TypeOK
  <2>4. AllTied'
    BY <1>0, <1>8, <2>3, TiesKept
  <2>5. Effect(r)
    BY <1>0, <1>9, <1>10, <2>3 DEF Effect, CacheEffect, ReadEffect
  <2> QED
    BY <2>3, <2>4, <2>5, AnswersAssembled
<1>13. CASE ~NewKeyNeeded(l) /\ Answer(r, l)
  <2>1. l.ok
    BY <1>13 DEF NewKeyNeeded
  <2>2. OneEach(l.signing) /\ l.signing \subseteq l.keys
    <3>1. loc[r].ok => OneEach(l.signing) /\ l.signing \subseteq l.keys
      BY <1>0, <1>1, <1>11 DEF AInv, ChoiceLasts
    <3>2. ~loc[r].ok => OneEach(l.signing) /\ l.signing \subseteq l.keys
      BY <1>0, <1>11, <2>1, OneSigningKey, SigningKeysSubset
    <3> QED
      BY <3>1, <3>2
  <2>3. OwnGood(r)' /\ Untouched(r) /\ pc'[r] \in {"idle", "done"} /\ loc'[r].keys \subseteq K
    BY <1>0, <1>11, <1>13, <2>2, HoldingAnswer, AnswerTouches
  <2>4. AllTied'
    BY <1>0, <1>8, <2>3, TiesKept DEF Tied
  <2>5. Effect(r)
    BY <1>0, <1>9, <1>10, <2>3 DEF Effect, CacheEffect, ReadEffect
  <2> QED
    BY <2>3, <2>4, <2>5, AnswersAssembled
<1> QED
  BY <1>0, <1>12, <1>13

LEMMA AnswerCreate ==
  ASSUME Alone, AInv, PInv', NEW r \in Requests, Create(r)
  PROVE  AInv'
<1>s. PICK s : s = Host[r]
  OBVIOUS
<1>1. PICK K : K = Cached(s)
  OBVIOUS
<1>2. PICK l : l = [loc[r] EXCEPT !.keys = K, !.todo = Algs]
  OBVIOUS
<1>0. /\ TypeOK /\ TypeOK' /\ AllTied /\ s \in Servers /\ s = Host[r]
      /\ UNCHANGED <<now, store, cache>> /\ Kept
      /\ pc[r] = "create" /\ loc[r] \in Locals /\ CreateKey(r, l)
  BY <1>s, <1>1, <1>2, Basics, SameStore DEF Create
<1>3. K \in SUBSET Key /\ Tied(K)
  BY <1>0, <1>1, CachedType DEF Cached, AllTied, Tied
<1>4. l \in Locals /\ l.keys = K /\ l.todo = Algs
  BY <1>0, <1>2, <1>3 DEF Locals
<1>5. Within(store', K, s)
  BY <1>0, <1>1 DEF AInv, MayCreate
<1>6. /\ OwnGood(r)' /\ Untouched(r)
      /\ pc'[r] = "write" /\ loc'[r].keys = K /\ loc'[r].new.seq <= MaxTies
  BY <1>0, <1>4, <1>5, CreateHolds
<1>7. AllTied'
  BY <1>0, <1>3, <1>6, TiesKept DEF AllTied
<1>8. Effect(r)
  BY <1>0, <1>6 DEF Effect, CacheEffect, ReadEffect
<1> QED
  BY <1>6, <1>7, <1>8, AnswersAssembled

LEMMA AnswerWrite ==
  ASSUME Alone, AInv, PInv', NEW r \in Requests, Write(r)
  PROVE  AInv'
<1>s. PICK s : s = Host[r]
  OBVIOUS
<1>1. PICK K : K = loc[r].keys \union {loc[r].new}
  OBVIOUS
<1>2. PICK l : l = [loc[r] EXCEPT !.keys = K, !.new = None]
  OBVIOUS
<1>0. /\ TypeOK /\ TypeOK' /\ PInv /\ AllTied /\ s \in Servers /\ s = Host[r]
      /\ \A t \in Servers : t = s
      /\ UNCHANGED now /\ store' = store \union {loc[r].new} /\ Kept
      /\ pc[r] = "write" /\ loc[r] \in Locals /\ loc[r].new \in Key /\ K \in SUBSET Key
      /\ \/ CreateKey(r, l) /\ UNCHANGED cache
         \/ loc[r].todo = {} /\ Goto(r, "delay", l, SyncDelay) /\ UNCHANGED cache
         \/ loc[r].todo = {} /\ Finish(r, K)
  <2>1. /\ l.todo = loc[r].todo /\ loc[r].new \in Key
    BY <1>2, Basics DEF Write, Locals, AInv, PInv, IInv, WritersHaveKeys
  <2> QED
    BY <1>s, <1>1, <1>2, <2>1, Basics DEF Write, Kept
<1>3. /\ l \in Locals /\ l.keys = K /\ l.todo = loc[r].todo
  BY <1>0, <1>2 DEF Locals
<1>4. loc[r].new.created = Local(s)
  BY <1>0 DEF PInv, RequestOK
<1>5. StampedPast(K, s)
  BY <1>0, <1>1, <1>4, SetsKnown, LocalType DEF StampedPast
<1>6. Tied(K) /\ Tied(store') /\ loc[r].new.seq <= MaxTies
  BY <1>0, <1>1 DEF AllTied, Tied
<1>7. Within(store', K, s)
  BY <1>0, <1>1 DEF AInv, KnowsStore, Within
<1>8. \A a \in Algs \ loc[r].todo : \E k \in OfAlg(K, a) : k.created = Local(s)
  BY <1>0, <1>1 DEF AInv, CreatesAll
<1>9. CASE CreateKey(r, l) /\ UNCHANGED cache
  <2>1. /\ OwnGood(r)' /\ Untouched(r)
        /\ pc'[r] = "write" /\ loc'[r].keys = K /\ loc'[r].new.seq <= MaxTies
    BY <1>0, <1>3, <1>7, <1>8, <1>9, CreateHolds
  <2>2. AllTied'
    BY <1>0, <1>6, <1>9, <2>1, TiesKept DEF AllTied
  <2>3. Effect(r)
    BY <1>0, <1>9, <2>1 DEF Effect, CacheEffect, ReadEffect
  <2> QED
    BY <2>1, <2>2, <2>3, AnswersAssembled
<1>10. CASE loc[r].todo = {} /\ Goto(r, "delay", l, SyncDelay) /\ UNCHANGED cache
  <2>1. MayHold(r, "delay", l, SyncDelay)
    BY <1>0, <1>3, <1>8, <1>10, OptionsAssumption DEF MayHold
  <2>2. OwnGood(r)' /\ Untouched(r) /\ pc'[r] = "delay" /\ loc'[r].keys = K
    BY <1>0, <1>3, <1>10, <2>1, Holding, GotoTouches DEF Goto, TypeOK
  <2>3. AllTied'
    BY <1>0, <1>6, <1>10, <2>2, TiesKept DEF AllTied
  <2>4. Effect(r)
    BY <1>0, <1>10, <2>2 DEF Effect, CacheEffect, ReadEffect
  <2> QED
    BY <2>2, <2>3, <2>4, AnswersAssembled
<1>11. CASE loc[r].todo = {} /\ Finish(r, K)
  <2>1. HasFresh(K, Algs, Local(s))
    BY <1>0, <1>8, <1>11, LocalType, OptionsAssumption DEF HasFresh, OfAlg, Key
  <2>2. /\ OwnGood(r)' /\ Untouched(r)
        /\ pc'[r] \in {"idle", "done"} /\ loc'[r].keys \subseteq K
        /\ cache'[s].keys = K /\ Cached(s)' = K
    BY <1>0, <1>5, <1>11, <2>1, FinishHolds
  <2>3. AllTied'
    BY <1>0, <1>6, <2>2, TiesKept DEF Tied
  <2>4. Effect(r)
    BY <1>0, <1>7, <2>2 DEF Effect, CacheEffect, ReadEffect
  <2> QED
    BY <2>2, <2>3, <2>4, AnswersAssembled
<1> QED
  BY <1>0, <1>9, <1>10, <1>11

LEMMA AnswerFinishSynced ==
  ASSUME Alone, AInv, PInv', NEW r \in Requests, FinishSynced(r)
  PROVE  AInv'
<1>s. PICK s : s = Host[r]
  OBVIOUS
<1>1. PICK K : K = loc[r].keys
  OBVIOUS
<1>0. /\ TypeOK /\ TypeOK' /\ PInv /\ AllTied /\ s \in Servers /\ s = Host[r]
      /\ \A t \in Servers : t = s
      /\ UNCHANGED <<now, store>> /\ Kept
      /\ pc[r] = "synced" /\ loc[r] \in Locals /\ K \in SUBSET Key /\ Finish(r, K)
  BY <1>s, <1>1, Basics, SameStore DEF FinishSynced
<1>2. /\ StampedPast(K, s) /\ Tied(K) /\ Within(store', K, s)
      /\ HasFresh(K, Algs, Local(s))
  BY <1>0, <1>1, SetsKnown DEF AllTied, AInv, KnowsStore, CreatesAll
<1>3. /\ OwnGood(r)' /\ Untouched(r)
      /\ pc'[r] \in {"idle", "done"} /\ loc'[r].keys \subseteq K
      /\ cache'[s].keys = K /\ Cached(s)' = K
  BY <1>0, <1>2, FinishHolds
<1>4. AllTied'
  BY <1>0, <1>2, <1>3, TiesKept DEF AllTied, Tied
<1>5. Effect(r)
  BY <1>0, <1>2, <1>3 DEF Effect, CacheEffect, ReadEffect
<1> QED
  BY <1>3, <1>4, <1>5, AnswersAssembled

\* A retired key is deleted: the request stays where it is.
LEMMA AnswerDelete ==
  ASSUME Alone, AInv, PInv', NEW r \in Requests, DeleteRetired(r)
  PROVE  AInv'
<1>s. PICK s : s = Host[r]
  OBVIOUS
<1>1. PICK k \in loc[r].doomed :
         /\ store' = store \ {k}
         /\ Goto(r, pc[r], [loc[r] EXCEPT !.doomed = @ \ {k}], Lag)
         /\ UNCHANGED <<now, cache, lock, signed, early>>
  BY DEF DeleteRetired
<1>2. PICK l : l = [loc[r] EXCEPT !.doomed = @ \ {k}]
  OBVIOUS
<1>0. /\ TypeOK /\ TypeOK' /\ PInv /\ AllTied /\ s \in Servers /\ s = Host[r]
      /\ \A t \in Servers : t = s
      /\ loc[r] \in Locals /\ l \in Locals
      /\ l.keys = loc[r].keys /\ l.signing = loc[r].signing /\ l.ok = loc[r].ok
      /\ l.rot = loc[r].rot /\ l.todo = loc[r].todo /\ l.new = loc[r].new
  BY <1>s, <1>2, Basics DEF Locals
<1>3. Kept
  BY <1>0, <1>1 DEF Kept, PInv, RequestOK
<1>4. Untouched(r) /\ pc'[r] = pc[r] /\ loc'[r] = l /\ due'[r] = now
  <2>1. Goto(r, pc[r], l, 0) /\ now \in Nat
    BY <1>0, <1>1, <1>2 DEF Alone, TypeOK
  <2>2. Untouched(r)
    BY <1>0, <2>1, GotoTouches
  <2> QED
    BY <1>0, <2>1, <2>2 DEF Goto, TypeOK
<1>5. Effect(r)
  BY <1>0, <1>1, <1>3, <1>4 DEF Effect, CacheEffect, ReadEffect
<1>6. AllTied'
  BY <1>0, <1>1, <1>4, TiesKept DEF AllTied, Tied
<1>7. OwnGood(r)'
  <2>0. /\ KnowsStore(r) /\ MayCreate(r) /\ WaitsWithChoice(r) /\ ChoiceLasts(r)
        /\ CreatesAll(r) /\ InTime(r) /\ Answered(r)
        /\ now \in Nat /\ due[r] \in Nat /\ Local(s)' = Local(s) /\ Skew[s] \in Nat
    BY <1>0, <1>1, OptionsAssumption DEF AInv, TypeOK, Local
  <2>1. KnowsStore(r)'
    BY <1>0, <1>1, <1>4, <2>0, SameTime DEF KnowsStore, Within
  <2>2. InTime(r)' /\ Answered(r)' /\ ChoiceLasts(r)'
    BY <1>0, <1>1, <1>4, <2>0 DEF InTime, Answered, ChoiceLasts
  <2>3. CreatesAll(r)'
    <3>1. pc[r] = "delay" => HasFresh(l.keys, Algs, now + Skew[s])
      <4> SUFFICES ASSUME pc[r] = "delay"
                   PROVE  HasFresh(loc[r].keys, Algs, now + Skew[s])
        BY <1>0
      <4>1. now <= due[r] /\ HasFresh(loc[r].keys, Algs, due[r] + Skew[s])
        BY <1>0, <2>0 DEF InTime, CreatesAll
      <4>2. \A j \in loc[r].keys : j.created \in Nat
        BY <1>0 DEF Locals, Key
      <4> QED
        BY <2>0, <4>1, <4>2, OptionsAssumption DEF HasFresh, OfAlg
    <3> QED
      BY <1>0, <1>4, <2>0, <3>1 DEF CreatesAll, HasFresh
  <2>4. WaitsWithChoice(r)'
    <3> SUFFICES ASSUME pc[r] = "wait", loc[r].ok
                 PROVE  WaitsWithChoice(r)'
      BY <1>0, <1>4 DEF WaitsWithChoice
    <3>1. /\ loc[r].rot /\ now <= due[r]
          /\ \A j \in loc[r].signing :
               due[r] + Skew[s] <= j.created + Rotation + LockTimeout
          /\ Supports(cache[s].keys, loc[r].signing, s)
          /\ \A q \in Requests : pc[q] = "loaded" => Supports(loc[q].keys, loc[r].signing, s)
      BY <1>0, <2>0 DEF WaitsWithChoice, InTime
    <3>2. \A j \in loc[r].signing : now + Skew[s] <= j.created + Rotation + LockTimeout
      <4>1. \A j \in loc[r].signing : j.created \in Nat
        BY <1>0 DEF Locals, Key
      <4> QED
        BY <2>0, <3>1, <4>1, OptionsAssumption
    <3>3. Supports(cache[s].keys, loc[r].signing, s)'
      BY <1>0, <1>1, <1>4, <3>1, SupportsNext
    <3>4. \A q \in Requests : pc'[q] = "loaded" => Supports(loc[q].keys, loc[r].signing, s)'
      <4> SUFFICES ASSUME NEW q \in Requests, pc'[q] = "loaded"
                   PROVE  Supports(loc[q].keys, loc[r].signing, s)'
        OBVIOUS
      <4>1. Supports(loc'[q].keys, loc'[r].signing, s)
        BY <1>0, <1>4, <3>1 DEF Untouched
      <4> QED
        BY <1>1, <4>1, SupportsNext
    <3>5. WaitsWithChoice(r)' <=>
            (pc'[r] = "wait" /\ loc'[r].ok =>
               /\ loc'[r].rot
               /\ \A j \in loc'[r].signing :
                    due'[r] + Skew[s] <= j.created + Rotation + LockTimeout
               /\ Supports(cache[s].keys, loc[r].signing, s)'
               /\ \A q \in Requests : pc'[q] = "loaded" =>
                    Supports(loc[q].keys, loc[r].signing, s)')
      BY <1>0 DEF WaitsWithChoice
    <3> QED
      BY <1>0, <1>4, <3>1, <3>2, <3>3, <3>4, <3>5
  <2>5. MayCreate(r)'
    <3> SUFFICES ASSUME pc[r] = "create"
                 PROVE  /\ Within(store', Cached(s)', s)
                        /\ \A q \in Requests : pc'[q] = "loaded" =>
                             Within(store', loc'[q].keys, s)
      BY <1>0, <1>1, <1>4, SameTime DEF MayCreate, Within
    <3>1. Cached(s)' = Cached(s) /\ store' \subseteq store
      BY <1>1, <2>0 DEF Cached
    <3>2. \A q \in Requests : pc'[q] = "loaded" =>
            pc[q] = "loaded" /\ loc'[q].keys = loc[q].keys
      BY <1>0, <1>4 DEF Untouched
    <3> QED
      BY <1>0, <2>0, <3>1, <3>2 DEF MayCreate, Within
  <2> QED
    BY <2>1, <2>2, <2>3, <2>4, <2>5 DEF OwnGood
<1> QED
  BY <1>5, <1>6, <1>7, AnswersAssembled

\* The only server restarts: nothing is left of its requests.
LEMMA AnswerRestart ==
  ASSUME Alone, AInv, PInv', NEW s \in Servers, Restart(s)
  PROVE  AInv'
<1>0. /\ TypeOK /\ AllTied /\ UNCHANGED store
      /\ cache' = [cache EXCEPT ![s] = NoEntry]
      /\ \A t \in Servers : t = s
  BY DEF AInv, PInv, IInv, Restart, Alone
<1>1. \A r \in Requests : Host[r] = s
  BY OptionsAssumption DEF Alone
<1>2. \A r \in Requests : pc'[r] = "idle" /\ loc'[r] = NoLocals
  BY <1>1 DEF Restart
<1>3. AllTied'
  BY <1>0, <1>2 DEF AllTied, Tied, NoLocals, NoEntry, TypeOK
<1>4. \A r \in Requests :
        /\ KnowsStore(r)' /\ MayCreate(r)' /\ ReadInOrder(r)' /\ WaitsWithChoice(r)'
        /\ ChoiceLasts(r)' /\ CreatesAll(r)' /\ InTime(r)' /\ Answered(r)'
  BY <1>2 DEF KnowsStore, MayCreate, ReadInOrder, WaitsWithChoice, ChoiceLasts, CreatesAll,
     InTime, Answered
<1> QED
  BY <1>3, <1>4 DEF AInv

\* Time passes: every request waits for the lock or the delay, and a set that
\* called for a rotation still does.
LEMMA AnswerTick ==
  ASSUME Alone, AInv, PInv', Tick
  PROVE  AInv'
<1>0. /\ TypeOK /\ TypeOK' /\ PInv /\ AllTied /\ now' = now + 1 /\ now \in Nat /\ now <= now'
      /\ UNCHANGED <<store, pc, loc, due>>
  BY DEF AInv, PInv, IInv, Tick, TypeOK
<1>1. \A s \in Servers : cache'[s] = cache[s] \/ cache'[s] = NoEntry
  BY DEF Tick
<1>2. \A r \in Requests :
        /\ pc[r] \in {"idle", "wait", "delay"}
        /\ pc[r] \in {"wait", "delay"} => now < due[r]
        /\ due[r] \in Nat
  BY <1>0 DEF Tick, PInv, RequestOK, TypeOK
<1>3. AllTied'
  BY <1>0, <1>1 DEF AllTied, Tied, NoEntry
<1>4. ASSUME NEW r \in Requests
      PROVE  /\ KnowsStore(r)' /\ MayCreate(r)' /\ ReadInOrder(r)'
             /\ ChoiceLasts(r)' /\ CreatesAll(r)' /\ InTime(r)' /\ Answered(r)'
  <2>1. ChoiceLasts(r) /\ CreatesAll(r) /\ pc[r] \in {"idle", "wait", "delay"}
    BY <1>2, <1>4 DEF AInv
  <2>2. KnowsStore(r)' /\ MayCreate(r)' /\ ReadInOrder(r)' /\ Answered(r)'
    BY <1>0, <2>1 DEF KnowsStore, MayCreate, ReadInOrder, Answered
  <2>3. ChoiceLasts(r)'
    BY <1>0, <2>1 DEF ChoiceLasts
  <2>4. CreatesAll(r)'
    BY <1>0, <2>1 DEF CreatesAll, HasFresh
  <2>5. InTime(r)'
    BY <1>0, <1>2 DEF InTime
  <2> QED
    BY <2>2, <2>3, <2>4, <2>5
<1>5. ASSUME NEW r \in Requests
      PROVE  WaitsWithChoice(r)'
  <2> SUFFICES ASSUME pc[r] = "wait", loc[r].ok
               PROVE  WaitsWithChoice(r)'
    BY <1>0 DEF WaitsWithChoice
  <2>1. PICK s : s = Host[r]
    OBVIOUS
  <2>2. /\ s \in Servers /\ s = Host[r]
        /\ cache[s].keys \in SUBSET Key /\ StampedPast(cache[s].keys, s)
    BY <1>0, <2>1, SetsKnown, OptionsAssumption
  <2>3. /\ loc[r].rot
        /\ \A k \in loc[r].signing : due[r] + Skew[s] <= k.created + Rotation + LockTimeout
        /\ Supports(cache[s].keys, loc[r].signing, s)
    BY <2>2 DEF AInv, WaitsWithChoice
  <2>4. Supports(cache[s].keys, loc[r].signing, s)'
    <3>1. CASE cache'[s] = NoEntry
      <4>1. Outdated(cache[s].keys, s)'
        BY <3>1, OptionsAssumption DEF NoEntry, Outdated, Candidates, OfAlg
      <4> QED
        BY <4>1 DEF Supports
    <3>2. CASE cache'[s] = cache[s]
      <4>1. PICK K : K = cache[s].keys
        OBVIOUS
      <4>2. Outdated(K, s) => Outdated(K, s)'
        BY <1>0, <2>2, <4>1, OutdatedStays
      <4>3. Outdated(K, s)' <=> Outdated(cache[s].keys, s)'
        BY <3>2, <4>1 DEF Outdated, OfAlg, Candidates
      <4> QED
        BY <1>0, <2>3, <3>2, <4>1, <4>2, <4>3 DEF Supports
    <3> QED
      BY <1>1, <2>2, <3>1, <3>2
  <2>5. \A q \in Requests : pc'[q] # "loaded"
    BY <1>0, <1>2
  <2>6. WaitsWithChoice(r)' <=>
          (pc'[r] = "wait" /\ loc'[r].ok =>
             /\ loc'[r].rot
             /\ \A k \in loc'[r].signing :
                  due'[r] + Skew[s] <= k.created + Rotation + LockTimeout
             /\ Supports(cache[s].keys, loc[r].signing, s)'
             /\ \A q \in Requests : pc'[q] = "loaded" =>
                  Supports(loc[q].keys, loc[r].signing, s)')
    BY <2>2 DEF WaitsWithChoice
  <2> QED
    BY <1>0, <2>3, <2>4, <2>5, <2>6
<1> QED
  BY <1>3, <1>4, <1>5 DEF AInv

LEMMA AnswerStutter ==
  ASSUME Alone, AInv, PInv', UNCHANGED vars
  PROVE  AInv'
<1>0. UNCHANGED <<now, store, cache, pc, loc, due>>
  BY DEF vars
<1>1. AllTied'
  BY <1>0 DEF AInv, AllTied, Tied
<1>2. ASSUME NEW r \in Requests
      PROVE  /\ KnowsStore(r)' /\ MayCreate(r)' /\ ReadInOrder(r)'
             /\ ChoiceLasts(r)' /\ CreatesAll(r)' /\ InTime(r)' /\ Answered(r)'
  <2>1. /\ KnowsStore(r) /\ MayCreate(r) /\ ReadInOrder(r)
        /\ ChoiceLasts(r) /\ CreatesAll(r) /\ InTime(r) /\ Answered(r)
    BY <1>2 DEF AInv
  <2>2. KnowsStore(r)' /\ MayCreate(r)' /\ ReadInOrder(r)'
    <3>1. \A s : Cached(s)' = Cached(s)
      BY <1>0 DEF Cached, Local
    <3>2. KnowsStore(r)' /\ ReadInOrder(r)'
      BY <1>0, <2>1, SameTime DEF KnowsStore, ReadInOrder, InOrder, Within
    <3>3. MayCreate(r)'
      BY <1>0, <2>1, <3>1, SameTime DEF MayCreate, Within
    <3> QED
      BY <3>2, <3>3
  <2>3. ChoiceLasts(r)' /\ CreatesAll(r)'
    BY <1>0, <2>1 DEF ChoiceLasts, CreatesAll, HasFresh, Local
  <2>4. InTime(r)' /\ Answered(r)'
    BY <1>0, <2>1 DEF InTime, Answered
  <2> QED
    BY <2>2, <2>3, <2>4
<1>3. ASSUME NEW r \in Requests
      PROVE  WaitsWithChoice(r)'
  <2>1. PICK s : s = Host[r]
    OBVIOUS
  <2>2. pc[r] = "wait" /\ loc[r].ok =>
          /\ Supports(cache[s].keys, loc[r].signing, s)'
          /\ \A q \in Requests : pc'[q] = "loaded" =>
               Supports(loc[q].keys, loc[r].signing, s)'
    BY <1>0, <2>1, SupportsNext DEF AInv, WaitsWithChoice
  <2>3. WaitsWithChoice(r)' <=>
          (pc'[r] = "wait" /\ loc'[r].ok =>
             /\ loc'[r].rot
             /\ \A k \in loc'[r].signing :
                  due'[r] + Skew[s] <= k.created + Rotation + LockTimeout
             /\ Supports(cache[s].keys, loc[r].signing, s)'
             /\ \A q \in Requests : pc'[q] = "loaded" =>
                  Supports(loc[q].keys, loc[r].signing, s)')
    BY <2>1 DEF WaitsWithChoice
  <2> QED
    BY <1>0, <2>1, <2>2, <2>3 DEF AInv, WaitsWithChoice
<1> QED
  BY <1>1, <1>2, <1>3 DEF AInv

LEMMA AnswersKept ==
  ASSUME Alone, AInv, [Next]_vars
  PROVE  AInv'
<1>1. PInv'
  BY AlonePrompt, PublicationKept DEF AInv
<1>2. ASSUME NEW r \in Requests, Step(r)
      PROVE  AInv'
  <2>1. CASE Load(r) \/ Reload(r) \/ Resync(r)
    BY <1>1, <2>1, AnswerRead DEF Load, Reload, Resync
  <2>2. CASE LockTimesOut(r) \/ Reply(r)
    BY <1>1, <2>2, AnswerEnds DEF LockTimesOut, Reply
  <2> QED
    BY <1>1, <1>2, <2>1, <2>2, AnswerCheckLoaded, AnswerAcquire, AnswerCheckReloaded,
       AnswerCreate, AnswerWrite, AnswerFinishSynced, AnswerDelete DEF Step
<1>3. ASSUME NEW r \in Requests, StoreFails(r)
      PROVE  AInv'
  BY <1>1, <1>3, AnswerEnds DEF StoreFails
<1> QED
  BY <1>1, <1>2, <1>3, AnswerStart, AnswerRestart, AnswerTick, AnswerStutter DEF Next

LEMMA AnswersInit ==
  ASSUME Init
  PROVE  AInv
<1>1. PInv
  BY PublicationInit
<1>2. /\ \A r \in Requests : pc[r] = "idle" /\ loc[r] = NoLocals
      /\ store = {} /\ \A s \in Servers : cache[s] = NoEntry
  BY DEF Init
<1>3. AllTied
  BY <1>2 DEF AllTied, Tied, NoLocals, NoEntry
<1>4. \A r \in Requests :
        /\ KnowsStore(r) /\ MayCreate(r) /\ ReadInOrder(r) /\ WaitsWithChoice(r)
        /\ ChoiceLasts(r) /\ CreatesAll(r) /\ InTime(r) /\ Answered(r)
  BY <1>2 DEF KnowsStore, MayCreate, ReadInOrder, WaitsWithChoice, ChoiceLasts, CreatesAll,
     InTime, Answered
<1> QED
  BY <1>1, <1>3, <1>4 DEF AInv

\* What a request of a server on its own answers: one key to sign with for
\* each algorithm, all of them among the keys it publishes, whichever of its
\* checks were made before it waited for the lock and whichever after.
THEOREM AnswersConsistent == Alone => (Spec => []AnswerIsConsistent)
<1> SUFFICES ASSUME Alone
             PROVE  Spec => []AnswerIsConsistent
  OBVIOUS
<1>1. Init => AInv
  BY AnswersInit
<1>2. AInv /\ [Next]_vars => AInv'
  BY AnswersKept
<1>3. AInv => AnswerIsConsistent
  <2> SUFFICES ASSUME AInv, NEW r \in Requests, pc[r] = "done"
               PROVE  /\ \A k \in loc[r].signing :
                           k \in loc[r].keys \/ (~SingleAlg /\ Age(k, Host[r]) = 0)
                      /\ \A a \in Algs : Cardinality(OfAlg(loc[r].signing, a)) = 1
    BY DEF AnswerIsConsistent
  <2>1. loc[r].signing \subseteq loc[r].keys /\ OneEach(loc[r].signing)
    BY DEF AInv, Answered
  <2>2. ASSUME NEW a \in Algs
        PROVE  Cardinality(OfAlg(loc[r].signing, a)) = 1
    <3>1. PICK k : OfAlg(loc[r].signing, a) = {k}
      BY <2>1 DEF OneEach
    <3> QED
      BY <3>1, FS_Singleton
  <2> QED
    BY <2>1, <2>2
<1> QED
  BY <1>1, <1>2, <1>3, PTL DEF Spec
=============================================================================
