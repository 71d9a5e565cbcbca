------------------------ MODULE KeyManagement_proofs ------------------------
(***************************************************************************)
(* Proofs about KeyManagement, for every number of servers and requests,   *)
(* every clock skew and every setting Validate() accepts.                  *)
(***************************************************************************)
EXTENDS KeyManagement, TLAPS

-----------------------------------------------------------------------------
(* The inductive invariant. *)

\* A request past LockAsync holds the lock of its server.
LockInv == \A r \in Requests : pc[r] \in InLock => lock[Host[r]] = r

\* A request that writes has a key to write.
WritersHaveKeys == \A r \in Requests : pc[r] = "write" => loc[r].new \in Key

\* No server has stamped a key with a time its clock has not reached.
StampInv ==
  /\ \A k \in store : k.created <= Local(k.by)
  /\ \A r \in Requests : pc[r] = "write" =>
       /\ loc[r].new.by = Host[r]
       /\ loc[r].new.created <= Local(Host[r])

Gap == Rotation - Propagation

\* What a request under the lock knows of the keys its server has created:
\* it has read all of them but those too old to matter, and when it goes on
\* to create a key all of them are a Gap older.
KnownInv ==
  SingleAlg =>
    \A r \in Requests : \A k \in store : k.by = Host[r] =>
      /\ pc[r] = "reloaded" =>
           k \in loc[r].keys \/ k.created + Gap <= Local(Host[r])
      /\ pc[r] = "create" => k.created + Gap <= Local(Host[r])
      /\ pc[r] = "write" => k.created + Gap <= loc[r].new.created

\* With one algorithm the first key is the last.
LastInv == SingleAlg => \A r \in Requests : pc[r] = "write" => loc[r].todo = {}

IInv ==
  /\ TypeOK /\ LockInv /\ WritersHaveKeys
  /\ StampInv /\ KnownInv /\ LastInv /\ OneRotationPerServer

-----------------------------------------------------------------------------
(* Types of the operators. *)

LEMMA LocalType ==
  ASSUME TypeOK, NEW s \in Servers
  PROVE  Local(s) \in Nat
BY OptionsAssumption DEF TypeOK, Local

\* The clock of a server and the age of a key are natural numbers.
LEMMA AgeType ==
  ASSUME TypeOK, NEW s \in Servers, NEW k \in Key
  PROVE  /\ Age(k, s) \in Nat
         /\ k.created <= Local(s) => k.created + Age(k, s) = Local(s)
BY LocalType DEF Age, Key

\* The keys chosen for signing are keys of the set given.
LEMMA SigningKeysSubset ==
  ASSUME NEW K, NEW s
  PROVE  SigningKeys(K, s) \subseteq K
BY DEF SigningKeys, CurrentSigningKey, Candidates, OfAlg

LEMMA CacheDurationType == CacheDuration \in Nat
BY OptionsAssumption DEF CacheDuration

LEMMA NoLocalsType == NoLocals \in Locals
BY DEF NoLocals, Locals

LEMMA CachedType ==
  ASSUME TypeOK, NEW s \in Servers
  PROVE  Cached(s) \in SUBSET Key
BY DEF TypeOK, Cached

LEMMA FirstCheckedType ==
  ASSUME NEW s \in Servers, NEW K \in SUBSET Key
  PROVE  FirstChecked(K, s) \in Locals
<1>1. SigningKeys(K, s) \in SUBSET Key
  BY SigningKeysSubset
<1>2. HasAllSigningKeys(K, s) \in BOOLEAN /\ RotationRequired(K, s) \in BOOLEAN
  BY DEF HasAllSigningKeys, RotationRequired
<1> QED
  BY <1>1, <1>2 DEF FirstChecked, NoLocals, Locals

LEMMA CheckedType ==
  ASSUME NEW s \in Servers, NEW K \in SUBSET Key, NEW l \in Locals
  PROVE  Checked(l, K, s) \in Locals
<1>1. SigningKeys(K, s) \in SUBSET Key
  BY SigningKeysSubset
<1>2. HasAllSigningKeys(K, s) \in BOOLEAN /\ RotationRequired(K, s) \in BOOLEAN
  BY DEF HasAllSigningKeys, RotationRequired
<1> QED
  BY <1>1, <1>2 DEF Checked, Locals

\* The three program variables of a request that goes on or ends.
ControlOK ==
  /\ pc \in [Requests -> PCs]
  /\ loc \in [Requests -> Locals]
  /\ due \in [Requests -> Nat]

LEMMA GotoType ==
  ASSUME TypeOK, NEW r \in Requests, NEW label \in PCs, NEW l \in Locals,
         NEW wait \in Nat, Goto(r, label, l, wait)
  PROVE  ControlOK'
BY DEF TypeOK, Goto, ControlOK

LEMMA EndType ==
  ASSUME TypeOK, NEW r \in Requests, End(r)
  PROVE  ControlOK'
BY NoLocalsType DEF TypeOK, End, ControlOK, PCs

LEMMA AnswerType ==
  ASSUME TypeOK, NEW r \in Requests, NEW l \in Locals, Answer(r, l)
  PROVE  ControlOK'
<1> DEFINE m == [NoLocals EXCEPT !.keys = l.keys, !.signing = l.signing]
<1>1. m \in Locals
  BY DEF NoLocals, Locals
<1>2. CASE l.signing = {}
  BY <1>2, EndType DEF Answer
<1>3. CASE l.signing # {}
  <2>1. Goto(r, "done", m, Lag)
    BY <1>3 DEF Answer
  <2>2. "done" \in PCs
    BY DEF PCs
  <2> HIDE DEF m
  <2> QED
    BY <1>1, <2>1, <2>2, GotoType, OptionsAssumption
<1> QED
  BY <1>2, <1>3

LEMMA AnswerOrWaitType ==
  ASSUME TypeOK, NEW r \in Requests, NEW l \in Locals, AnswerOrWait(r, l)
  PROVE  ControlOK'
<1>1. "wait" \in PCs
  BY DEF PCs
<1> QED
  BY <1>1, GotoType, AnswerType, OptionsAssumption DEF AnswerOrWait

LEMMA CacheKeysType ==
  ASSUME TypeOK, NEW s \in Servers, NEW K \in SUBSET Key, CacheKeys(s, K)
  PROVE  cache' \in [Servers -> [keys : SUBSET Key, expires : Nat]]
<1> DEFINE d == IF AllKeysNew(K, s) THEN InitCacheDuration ELSE CacheDuration
<1>1. d \in Nat
  BY CacheDurationType, OptionsAssumption
<1>2. Local(s) + d \in Nat
  BY <1>1, LocalType
<1> QED
  BY <1>2 DEF CacheKeys, TypeOK

LEMMA CreateKeyType ==
  ASSUME TypeOK, NEW r \in Requests, NEW l \in Locals, CreateKey(r, l)
  PROVE  ControlOK'
<1> DEFINE s == Host[r]
           K(a, n) == [alg |-> a, created |-> Local(s), seq |-> n, by |-> s]
           m(a, n) == [l EXCEPT !.todo = @ \ {a}, !.new = K(a, n)]
<1>1. PICK a \in l.todo, n \in 0..MaxTies : Goto(r, "write", m(a, n), Lag)
  BY DEF CreateKey
<1>2. s \in Servers /\ a \in Algs /\ n \in Nat
  BY OptionsAssumption DEF Locals
<1>3. K(a, n) \in Key
  BY <1>2, LocalType DEF Key
<1>4. m(a, n) \in Locals
  BY <1>3 DEF Locals
<1>5. "write" \in PCs
  BY DEF PCs
<1> HIDE DEF m
<1> QED
  BY <1>1, <1>4, <1>5, GotoType, OptionsAssumption

LEMMA UnlockType ==
  ASSUME TypeOK, NEW r \in Requests, Unlock(r)
  PROVE  lock' \in [Servers -> Requests \union {None}]
BY DEF TypeOK, Unlock

-----------------------------------------------------------------------------
(* Type correctness. *)

LEMMA ReadStoreType ==
  ASSUME TypeOK, NEW r \in Requests, NEW from, NEW to \in PCs,
         ReadStore(r, from, to)
  PROVE  TypeOK'
<1> DEFINE l == [loc[r] EXCEPT !.keys = {k \in store : ~IsRetired(k, Host[r])},
                               !.doomed = {k \in store : IsRetired(k, Host[r])}]
<1>1. l \in Locals
  BY DEF TypeOK, Locals
<1>2. Goto(r, to, l, Lag)
  BY DEF ReadStore
<1> HIDE DEF l
<1>3. ControlOK'
  BY <1>1, <1>2, GotoType, OptionsAssumption
<1> QED
  BY <1>3 DEF ReadStore, TypeOK, ControlOK

LEMMA FinishType ==
  ASSUME TypeOK, NEW r \in Requests, NEW K \in SUBSET Key, Finish(r, K)
  PROVE  /\ ControlOK'
         /\ cache' \in [Servers -> [keys : SUBSET Key, expires : Nat]]
         /\ lock' \in [Servers -> Requests \union {None}]
<1> DEFINE l == [loc[r] EXCEPT !.keys = K, !.signing = SigningKeys(K, Host[r])]
<1>1. l \in Locals
  BY SigningKeysSubset DEF TypeOK, Locals
<1>2. Answer(r, l) /\ CacheKeys(Host[r], K) /\ Unlock(r)
  BY DEF Finish
<1> HIDE DEF l
<1> QED
  BY <1>1, <1>2, AnswerType, CacheKeysType, UnlockType, OptionsAssumption

\* A step of a request keeps the types.
LEMMA StepType ==
  ASSUME TypeOK, WritersHaveKeys, NEW r \in Requests, Step(r)
  PROVE  TypeOK'
<1> DEFINE s == Host[r]
<1>0. /\ s \in Servers /\ loc[r] \in Locals
      /\ loc[r].keys \in SUBSET Key
  BY OptionsAssumption DEF TypeOK, Locals
<1>1. CASE Load(r)
  BY <1>1, ReadStoreType DEF Load, PCs
<1>2. CASE CheckLoaded(r)
  <2>1. FirstChecked(loc[r].keys, s) \in Locals
    BY <1>0, FirstCheckedType
  <2>2. ControlOK'
    BY <1>2, <2>1, AnswerOrWaitType DEF CheckLoaded
  <2>3. cache' \in [Servers -> [keys : SUBSET Key, expires : Nat]]
    BY <1>0, <1>2, CacheKeysType DEF CheckLoaded
  <2> QED
    BY <1>2, <2>2, <2>3 DEF CheckLoaded, TypeOK, ControlOK
<1>3. CASE Acquire(r)
  <2> DEFINE l == Checked(loc[r], Cached(s), s)
  <2>1. l \in Locals
    BY <1>0, CachedType, CheckedType
  <2>2. "reload" \in PCs
    BY DEF PCs
  <2>3. \/ Goto(r, "reload", l, Lag) /\ lock' = [lock EXCEPT ![s] = r]
        \/ Answer(r, l) /\ UNCHANGED lock
    BY <1>3 DEF Acquire
  <2> HIDE DEF l
  <2>4. ControlOK'
    BY <2>1, <2>2, <2>3, GotoType, AnswerType, OptionsAssumption
  <2> QED
    BY <1>3, <2>3, <2>4 DEF Acquire, TypeOK, ControlOK
<1>4. CASE LockTimesOut(r)
  BY <1>4, EndType DEF LockTimesOut, TypeOK, ControlOK
<1>5. CASE Reload(r)
  BY <1>5, ReadStoreType DEF Reload, PCs
<1>6. CASE CheckReloaded(r)
  <2> DEFINE l == Checked(loc[r], loc[r].keys, s)
  <2>1. l \in Locals /\ "create" \in PCs
    BY <1>0, CheckedType DEF PCs
  <2>2. cache' \in [Servers -> [keys : SUBSET Key, expires : Nat]]
    BY <1>0, <1>6, CacheKeysType DEF CheckReloaded
  <2>3. \/ Goto(r, "create", l, Lag) /\ UNCHANGED lock
        \/ Answer(r, l) /\ Unlock(r)
    BY <1>6 DEF CheckReloaded
  <2> HIDE DEF l
  <2>4. ControlOK'
    BY <2>1, <2>3, GotoType, AnswerType, OptionsAssumption
  <2>5. lock' \in [Servers -> Requests \union {None}]
    BY <2>3, UnlockType DEF TypeOK
  <2> QED
    BY <1>6, <2>2, <2>4, <2>5 DEF CheckReloaded, TypeOK, ControlOK
<1>7. CASE Create(r)
  <2> DEFINE m == [loc[r] EXCEPT !.keys = Cached(s), !.todo = Algs]
  <2>1. m \in Locals
    BY <1>0, CachedType DEF Locals
  <2> HIDE DEF m
  <2>2. ControlOK'
    BY <1>7, <2>1, CreateKeyType DEF Create, m
  <2> QED
    BY <1>7, <2>2 DEF Create, TypeOK, ControlOK
<1>8. CASE Write(r)
  <2> DEFINE K == loc[r].keys \union {loc[r].new}
             l == [loc[r] EXCEPT !.keys = K, !.new = None]
  <2>1. loc[r].new \in Key
    BY <1>8 DEF Write, WritersHaveKeys
  <2>2. K \in SUBSET Key /\ l \in Locals
    BY <1>0, <2>1 DEF Locals
  <2>3. store' \in SUBSET Key
    BY <1>8, <2>1 DEF Write, TypeOK
  <2>4. \/ CreateKey(r, l) /\ UNCHANGED <<cache, lock>>
        \/ Goto(r, "delay", l, SyncDelay) /\ UNCHANGED <<cache, lock>>
        \/ Finish(r, K)
    BY <1>8 DEF Write
  <2>5. "delay" \in PCs
    BY DEF PCs
  <2> HIDE DEF l, K
  <2>6. /\ ControlOK'
        /\ cache' \in [Servers -> [keys : SUBSET Key, expires : Nat]]
        /\ lock' \in [Servers -> Requests \union {None}]
    <3>1. CASE CreateKey(r, l) /\ UNCHANGED <<cache, lock>>
      BY <3>1, <2>2, CreateKeyType DEF TypeOK
    <3>2. CASE Goto(r, "delay", l, SyncDelay) /\ UNCHANGED <<cache, lock>>
      BY <3>2, <2>2, <2>5, GotoType, OptionsAssumption DEF TypeOK
    <3>3. CASE Finish(r, K)
      BY <3>3, <2>2, FinishType
    <3> QED
      BY <2>4, <3>1, <3>2, <3>3
  <2> QED
    BY <1>8, <2>3, <2>6 DEF Write, TypeOK, ControlOK
<1>9. CASE Resync(r)
  BY <1>9, ReadStoreType DEF Resync, PCs
<1>10. CASE FinishSynced(r)
  BY <1>0, <1>10, FinishType DEF FinishSynced, TypeOK, ControlOK
<1>11. CASE DeleteRetired(r)
  <2> DEFINE l(k) == [loc[r] EXCEPT !.doomed = @ \ {k}]
  <2>1. PICK k \in loc[r].doomed :
           /\ store' = store \ {k}
           /\ Goto(r, pc[r], l(k), Lag)
           /\ UNCHANGED <<now, cache, lock, signed, early>>
    BY <1>11 DEF DeleteRetired
  <2>2. l(k) \in Locals /\ pc[r] \in PCs
    BY <1>0 DEF Locals, TypeOK
  <2> HIDE DEF l
  <2>3. ControlOK'
    BY <2>1, <2>2, GotoType, OptionsAssumption
  <2> QED
    BY <2>1, <2>3 DEF TypeOK, ControlOK
<1>12. CASE Reply(r)
  <2>1. loc[r].signing \in SUBSET Key
    BY <1>0 DEF Locals
  <2>2. ControlOK'
    BY <1>12, EndType DEF Reply
  <2> QED
    BY <1>12, <2>1, <2>2 DEF Reply, TypeOK, ControlOK
<1> QED
  BY <1>1, <1>2, <1>3, <1>4, <1>5, <1>6, <1>7, <1>8, <1>9, <1>10, <1>11, <1>12 DEF Step

-----------------------------------------------------------------------------
(* What a decision to create a key says about the keys it was made on. *)

\* No candidate to sign with: every key whose time stamp is not in the future
\* is past the rotation interval.
LEMMA NoSigningKey ==
  ASSUME TypeOK, NEW s \in Servers, NEW K \in SUBSET Key, NEW a \in Algs,
         Candidates(OfAlg(K, a), s) = {},
         NEW k \in OfAlg(K, a), k.created <= Local(s)
  PROVE  k.created + Rotation < Local(s)
<1>1. ~CanSign(k, s, TRUE)
  BY DEF Candidates
<1>2. k.created \in Nat /\ Local(s) \in Nat /\ Rotation \in Nat
  BY LocalType, OptionsAssumption DEF Key, OfAlg
<1> QED
  BY <1>1, <1>2 DEF CanSign

\* New keys are needed only if the keys this server stamped are all a Gap old.
LEMMA NeededMeansOld ==
  ASSUME TypeOK, SingleAlg, NEW s \in Servers, NEW K \in SUBSET Key,
         ~HasAllSigningKeys(K, s) \/ RotationRequired(K, s),
         NEW k \in K, k.created <= Local(s)
  PROVE  k.created + Gap <= Local(s)
<1>0. /\ k \in Key /\ k.alg \in Algs /\ k.created \in Nat /\ Local(s) \in Nat
      /\ Rotation \in Nat /\ Propagation \in Nat /\ Rotation > Propagation
  BY LocalType, OptionsAssumption DEF Key
<1>1. \A a \in Algs : k \in OfAlg(K, a)
  BY <1>0 DEF SingleAlg, OfAlg
<1>2. ASSUME NEW a \in Algs, Candidates(OfAlg(K, a), s) = {}
      PROVE  k.created + Gap <= Local(s)
  <2>1. k.created + Rotation < Local(s)
    BY <1>1, <1>2, NoSigningKey
  <2> QED
    BY <1>0, <2>1 DEF Gap
<1>3. CASE ~HasAllSigningKeys(K, s)
  BY <1>2, <1>3 DEF HasAllSigningKeys
<1>4. CASE RotationRequired(K, s)
  <2>1. PICK a \in Algs :
           \/ Candidates(OfAlg(K, a), s) = {}
           \/ \E j \in OfAlg(K, a) :
                /\ \A i \in OfAlg(K, a) : ~Older(j, i)
                /\ Rotation - Age(j, s) <= Propagation
    BY <1>4 DEF RotationRequired
  <2>2. ASSUME NEW j \in OfAlg(K, a),
               \A i \in OfAlg(K, a) : ~Older(j, i),
               Rotation - Age(j, s) <= Propagation
        PROVE  k.created + Gap <= Local(s)
    <3>1. j \in Key /\ j.created \in Nat /\ Age(j, s) \in Nat
      BY AgeType DEF OfAlg, Key
    <3>2. k.created <= j.created
      BY <1>0, <1>1, <2>2, <3>1 DEF Older
    <3>3. Age(j, s) = Local(s) - j.created
      BY <1>0, <2>2, <3>1 DEF Age
    <3> QED
      BY <1>0, <2>2, <3>1, <3>2, <3>3 DEF Gap
  <2> QED
    BY <1>2, <2>1, <2>2
<1> QED
  BY <1>3, <1>4

-----------------------------------------------------------------------------
(* The other steps keep the types. *)

LEMMA StartType ==
  ASSUME TypeOK, NEW r \in Requests, Start(r)
  PROVE  TypeOK'
<1> DEFINE s == Host[r]
           l == FirstChecked(Cached(s), s)
<1>1. l \in Locals
  BY CachedType, FirstCheckedType, OptionsAssumption
<1>2. "load" \in PCs
  BY DEF PCs
<1>3. Goto(r, "load", NoLocals, Lag) \/ AnswerOrWait(r, l)
  BY DEF Start
<1> HIDE DEF l
<1>4. ControlOK'
  BY <1>1, <1>2, <1>3, GotoType, AnswerOrWaitType, NoLocalsType, OptionsAssumption
<1> QED
  BY <1>4 DEF Start, TypeOK, ControlOK

LEMMA FailureType ==
  ASSUME TypeOK, NEW r \in Requests, StoreFails(r)
  PROVE  TypeOK'
<1>1. ControlOK'
  BY EndType DEF StoreFails
<1>2. lock' \in [Servers -> Requests \union {None}]
  BY UnlockType DEF StoreFails, TypeOK
<1> QED
  BY <1>1, <1>2 DEF StoreFails, TypeOK, ControlOK

LEMMA RestartType ==
  ASSUME TypeOK, NEW s \in Servers, Restart(s)
  PROVE  TypeOK'
<1>1. NoEntry \in [keys : SUBSET Key, expires : Nat]
  BY DEF NoEntry
<1>2. "idle" \in PCs
  BY DEF PCs
<1> QED
  BY <1>1, <1>2, NoLocalsType DEF Restart, TypeOK

LEMMA TickType ==
  ASSUME TypeOK, Tick
  PROVE  TypeOK'
<1>1. NoEntry \in [keys : SUBSET Key, expires : Nat]
  BY DEF NoEntry
<1>2. cache' \in [Servers -> [keys : SUBSET Key, expires : Nat]]
  BY <1>1 DEF Tick, TypeOK
<1>3. now' \in Nat
  BY DEF Tick, TypeOK
<1> QED
  BY <1>2, <1>3 DEF Tick, TypeOK

-----------------------------------------------------------------------------
(* How a request moves. *)

Moves(r, label, l) ==
  /\ pc' = [pc EXCEPT ![r] = label]
  /\ loc' = [loc EXCEPT ![r] = l]

LEMMA EndMoves ==
  ASSUME NEW r \in Requests, End(r)
  PROVE  Moves(r, "idle", NoLocals)
BY DEF End, Moves

LEMMA AnswerMoves ==
  ASSUME NEW r \in Requests, NEW l, Answer(r, l)
  PROVE  \E label \in {"idle", "done"} : \E m : Moves(r, label, m)
BY DEF Answer, Goto, End, Moves

LEMMA AnswerOrWaitMoves ==
  ASSUME NEW r \in Requests, NEW l, AnswerOrWait(r, l)
  PROVE  \E label \in {"idle", "done", "wait"} : \E m : Moves(r, label, m)
<1>1. CASE NewKeyNeeded(l)
  BY <1>1 DEF AnswerOrWait, Goto, Moves
<1>2. CASE ~NewKeyNeeded(l)
  BY <1>2, AnswerMoves DEF AnswerOrWait
<1> QED
  BY <1>1, <1>2

\* The lock is taken when free, released by its holder, or left alone.
LEMMA LockMoves ==
  ASSUME TypeOK, LockInv, NEW r \in Requests, NEW label, NEW l,
         Moves(r, label, l),
         \/ UNCHANGED lock /\ (label \in InLock => pc[r] \in InLock)
         \/ lock[Host[r]] = None /\ lock' = [lock EXCEPT ![Host[r]] = r]
         \/ Unlock(r) /\ pc[r] \in InLock /\ label \notin InLock
  PROVE  LockInv'
<1> SUFFICES ASSUME NEW q \in Requests, pc'[q] \in InLock
             PROVE  lock'[Host[q]] = q
  BY DEF LockInv
<1>0. /\ Host[q] \in Servers /\ Host[r] \in Servers /\ None \notin Requests
      /\ pc'[q] = IF q = r THEN label ELSE pc[q]
  BY OptionsAssumption DEF TypeOK, Moves
<1>1. CASE UNCHANGED lock /\ (label \in InLock => pc[r] \in InLock)
  BY <1>0, <1>1 DEF LockInv
<1>2. CASE lock[Host[r]] = None /\ lock' = [lock EXCEPT ![Host[r]] = r]
  BY <1>0, <1>2 DEF LockInv, TypeOK
<1>3. CASE Unlock(r) /\ pc[r] \in InLock /\ label \notin InLock
  BY <1>0, <1>3 DEF LockInv, TypeOK, Unlock
<1> QED
  BY <1>1, <1>2, <1>3

LEMMA LocalGrows ==
  ASSUME TypeOK, TypeOK', now <= now', NEW s \in Servers
  PROVE  /\ Local(s) \in Nat /\ Local(s)' \in Nat
         /\ Local(s) <= Local(s)'
BY OptionsAssumption DEF TypeOK, Local

\* What a request has seen stays true while no key is added and the request
\* does not reach one of the three places.
LEMMA QuietStep ==
  ASSUME IInv, TypeOK', store' \subseteq store, now <= now',
         \A q \in Requests : pc'[q] \in {"reloaded", "create", "write"} =>
             /\ pc'[q] = pc[q]
             /\ loc'[q].keys = loc[q].keys
             /\ loc'[q].new = loc[q].new
             /\ loc'[q].todo = loc[q].todo
  PROVE  WritersHaveKeys' /\ StampInv' /\ KnownInv' /\ LastInv' /\ OneRotationPerServer'
<1>1. \A r \in Requests : Host[r] \in Servers
  BY OptionsAssumption
<1>2. \A k \in store : k \in Key /\ k.by \in Servers /\ k.created \in Nat
  BY DEF IInv, TypeOK, Key
<1>3. \A s \in Servers : Local(s) \in Nat /\ Local(s)' \in Nat /\ Local(s) <= Local(s)'
  BY LocalGrows DEF IInv
<1>4. WritersHaveKeys' /\ LastInv'
  BY DEF IInv, WritersHaveKeys, LastInv, SingleAlg
<1>5. StampInv'
  <2>1. \A k \in store' : k.created <= Local(k.by)'
    BY <1>2, <1>3 DEF IInv, StampInv
  <2>2. ASSUME NEW q \in Requests, pc'[q] = "write"
        PROVE  loc'[q].new.by = Host[q] /\ loc'[q].new.created <= Local(Host[q])'
    <3>1. loc'[q].new = loc[q].new /\ pc[q] = "write"
      BY <2>2
    <3>2. loc[q].new.created \in Nat
      BY <3>1 DEF IInv, WritersHaveKeys, Key
    <3> QED
      BY <1>1, <1>3, <3>1, <3>2 DEF IInv, StampInv
  <2> QED
    BY <2>1, <2>2 DEF StampInv
<1>6. KnownInv'
  <2> SUFFICES ASSUME SingleAlg, NEW q \in Requests, NEW k \in store', k.by = Host[q]
               PROVE  /\ pc'[q] = "reloaded" =>
                           k \in loc'[q].keys \/ k.created + Gap <= Local(Host[q])'
                      /\ pc'[q] = "create" => k.created + Gap <= Local(Host[q])'
                      /\ pc'[q] = "write" => k.created + Gap <= loc'[q].new.created
    BY DEF KnownInv, SingleAlg, Gap
  <2>1. Gap \in Int
    BY OptionsAssumption DEF Gap
  <2>2. k \in store /\ k.created \in Nat
    BY <1>2
  <2> QED
    BY <1>1, <1>3, <2>1, <2>2 DEF IInv, KnownInv
<1>7. OneRotationPerServer'
  BY DEF IInv, OneRotationPerServer, SingleAlg
<1> QED
  BY <1>4, <1>5, <1>6, <1>7

\* A request that moves to any other place.
LEMMA QuietMove ==
  ASSUME IInv, TypeOK', LockInv', NEW r \in Requests, NEW label, NEW l,
         Moves(r, label, l), label \notin {"reloaded", "create", "write"},
         store' \subseteq store, UNCHANGED now
  PROVE  IInv'
<1>1. \A q \in Requests : pc'[q] \in {"reloaded", "create", "write"} =>
         pc'[q] = pc[q] /\ loc'[q] = loc[q]
  BY DEF IInv, TypeOK, Moves
<1>2. now <= now'
  BY DEF IInv, TypeOK
<1> QED
  BY <1>1, <1>2, QuietStep DEF IInv

-----------------------------------------------------------------------------
(* The steps that read, create or add keys. *)

LEMMA ReloadKeeps ==
  ASSUME IInv, TypeOK', NEW r \in Requests, Reload(r)
  PROVE  IInv'
<1> DEFINE s == Host[r]
           l == [loc[r] EXCEPT !.keys = {k \in store : ~IsRetired(k, s)},
                               !.doomed = {k \in store : IsRetired(k, s)}]
<1>0. /\ s \in Servers /\ pc[r] = "reload" /\ Moves(r, "reloaded", l)
      /\ UNCHANGED <<now, store, lock>>
  BY OptionsAssumption DEF Reload, ReadStore, Goto, Moves
<1>1. LockInv'
  BY <1>0, LockMoves DEF IInv, InLock
<1>2. \A q \in Requests : q # r => pc'[q] = pc[q] /\ loc'[q] = loc[q]
  BY <1>0 DEF Moves, IInv, TypeOK
<1>3. pc'[r] = "reloaded" /\ loc'[r].keys = {k \in store : ~IsRetired(k, s)}
  BY <1>0 DEF Moves, IInv, TypeOK, Locals
<1>4. WritersHaveKeys' /\ LastInv' /\ OneRotationPerServer'
  BY <1>0, <1>2, <1>3
     DEF IInv, WritersHaveKeys, LastInv, OneRotationPerServer, SingleAlg
<1>5. StampInv'
  BY <1>0, <1>2, <1>3 DEF IInv, StampInv, Local
<1>6. KnownInv'
  <2> SUFFICES ASSUME SingleAlg, NEW q \in Requests, NEW k \in store, k.by = Host[q]
               PROVE  /\ pc'[q] = "reloaded" =>
                           k \in loc'[q].keys \/ k.created + Gap <= Local(Host[q])
                      /\ pc'[q] = "create" => k.created + Gap <= Local(Host[q])
                      /\ pc'[q] = "write" => k.created + Gap <= loc'[q].new.created
    BY <1>0 DEF KnownInv, SingleAlg, Gap, Local
  <2>1. CASE q # r
    BY <1>2, <2>1 DEF IInv, KnownInv
  <2>2. CASE q = r
    <3>1. k \in Key /\ k.created \in Nat /\ k.created <= Local(s)
      BY <2>2 DEF IInv, StampInv, TypeOK, Key
    <3>2. IsRetired(k, s) => k.created + Gap <= Local(s)
      BY <1>0, <3>1, AgeType, LocalType, OptionsAssumption
         DEF IsRetired, RetirementAge, Gap, IInv
    <3> QED
      BY <1>3, <2>2, <3>1, <3>2
  <2> QED
    BY <2>1, <2>2
<1> QED
  BY <1>1, <1>4, <1>5, <1>6 DEF IInv

\* A request under the lock that finds new keys needed has seen all keys its
\* server created, and they are a Gap old.
LEMMA NeededUnderLock ==
  ASSUME IInv, SingleAlg, NEW r \in Requests, pc[r] = "reloaded",
         NewKeyNeeded(Checked(loc[r], loc[r].keys, Host[r])),
         NEW k \in store, k.by = Host[r]
  PROVE  k.created + Gap <= Local(Host[r])
<1> DEFINE s == Host[r]
           K == loc[r].keys
           l == Checked(loc[r], K, s)
<1>1. /\ s \in Servers /\ K \in SUBSET Key /\ loc[r] \in Locals /\ TypeOK
  BY OptionsAssumption DEF IInv, TypeOK, Locals
<1>2. /\ l.ok = (loc[r].ok \/ HasAllSigningKeys(K, s))
      /\ l.rot = (loc[r].rot /\ RotationRequired(K, s))
  BY <1>1 DEF Checked, Locals
<1>3. ~HasAllSigningKeys(K, s) \/ RotationRequired(K, s)
  BY <1>2 DEF NewKeyNeeded
<1>4. CASE k \in K
  <2>1. k.created <= Local(s)
    BY DEF IInv, StampInv
  <2> HIDE DEF K, s
  <2>2. k.created + Gap <= Local(s)
    BY <1>1, <1>3, <1>4, <2>1, NeededMeansOld
  <2> QED
    BY <2>2 DEF s
<1>5. CASE k \notin K
  BY <1>5 DEF IInv, KnownInv
<1> QED
  BY <1>4, <1>5

LEMMA CheckReloadedKeeps ==
  ASSUME IInv, TypeOK', NEW r \in Requests, CheckReloaded(r)
  PROVE  IInv'
<1> DEFINE s == Host[r]
           l == Checked(loc[r], loc[r].keys, s)
<1>0. /\ s \in Servers /\ pc[r] = "reloaded" /\ UNCHANGED <<now, store>>
  BY OptionsAssumption DEF CheckReloaded
<1>1. CASE ~NewKeyNeeded(l)
  <2>1. Answer(r, l) /\ Unlock(r)
    BY <1>1 DEF CheckReloaded
  <2> HIDE DEF l
  <2>2. PICK label, x : label \in {"idle", "done"} /\ Moves(r, label, x)
    BY <2>1, AnswerMoves
  <2>3. LockInv'
    BY <1>0, <2>1, <2>2, LockMoves DEF IInv, InLock
  <2>4. store' \subseteq store
    BY <1>0
  <2> QED
    BY <1>0, <2>2, <2>3, <2>4, QuietMove
<1>2. CASE NewKeyNeeded(l)
  <2>1. UNCHANGED lock /\ Moves(r, "create", l)
    BY <1>2 DEF CheckReloaded, Goto, Moves
  <2>2. LockInv'
    <3> HIDE DEF l
    <3> QED  BY <1>0, <2>1, LockMoves DEF IInv, InLock
  <2>3. /\ pc'[r] = "create"
        /\ \A q \in Requests : q # r => pc'[q] = pc[q] /\ loc'[q] = loc[q]
    <3> HIDE DEF l
    <3> QED  BY <2>1 DEF Moves, IInv, TypeOK
  <2>4. WritersHaveKeys' /\ LastInv' /\ OneRotationPerServer'
    BY <1>0, <2>3
       DEF IInv, WritersHaveKeys, LastInv, OneRotationPerServer, SingleAlg
  <2>5. StampInv'
    BY <1>0, <2>3 DEF IInv, StampInv, Local
  <2>6. KnownInv'
    <3> SUFFICES ASSUME SingleAlg, NEW q \in Requests, NEW k \in store, k.by = Host[q]
                 PROVE  /\ pc'[q] = "reloaded" =>
                             k \in loc'[q].keys \/ k.created + Gap <= Local(Host[q])
                        /\ pc'[q] = "create" => k.created + Gap <= Local(Host[q])
                        /\ pc'[q] = "write" => k.created + Gap <= loc'[q].new.created
      BY <1>0 DEF KnownInv, SingleAlg, Gap, Local
    <3>1. CASE q # r
      BY <2>3, <3>1 DEF IInv, KnownInv
    <3>2. CASE q = r
      <4>1. k.created + Gap <= Local(s)
        BY <1>0, <1>2, <3>2, NeededUnderLock
      <4> QED
        BY <2>3, <3>2, <4>1
    <3> QED
      BY <3>1, <3>2
  <2> QED
    BY <2>2, <2>4, <2>5, <2>6 DEF IInv
<1> QED
  BY <1>1, <1>2

LEMMA CreateKeeps ==
  ASSUME IInv, TypeOK', NEW r \in Requests, Create(r)
  PROVE  IInv'
<1> DEFINE s == Host[r]
           m == [loc[r] EXCEPT !.keys = Cached(s), !.todo = Algs]
<1>0. /\ s \in Servers /\ pc[r] = "create" /\ UNCHANGED <<now, store, lock>>
      /\ loc[r] \in Locals
  BY OptionsAssumption DEF Create, IInv, TypeOK
<1>1. PICK a \in Algs, n \in 0..MaxTies :
         Goto(r, "write",
              [m EXCEPT !.todo = @ \ {a},
                   !.new = [alg |-> a, created |-> Local(s), seq |-> n, by |-> s]],
              Lag)
  <2>1. CreateKey(r, m) /\ m.todo = Algs
    BY <1>0 DEF Create, Locals
  <2> HIDE DEF m
  <2> QED
    BY <2>1 DEF CreateKey
<1> DEFINE key == [alg |-> a, created |-> Local(s), seq |-> n, by |-> s]
           y == [m EXCEPT !.todo = @ \ {a}, !.new = key]
<1>2. y.new = key /\ y.todo = Algs \ {a}
  <2> HIDE DEF key
  <2> QED  BY <1>0 DEF Locals
<1>3. Moves(r, "write", y)
  BY <1>1 DEF Goto, Moves
<1>4. LockInv'
  <2> HIDE DEF y
  <2> QED  BY <1>0, <1>3, LockMoves DEF IInv, InLock
<1>5. \A q \in Requests : q # r => pc'[q] = pc[q] /\ loc'[q] = loc[q]
  <2> HIDE DEF y
  <2> QED  BY <1>3 DEF Moves, IInv, TypeOK
<1>6. pc'[r] = "write" /\ loc'[r].new = key /\ loc'[r].todo = Algs \ {a}
  <2> HIDE DEF y
  <2> QED  BY <1>2, <1>3 DEF Moves, IInv, TypeOK
<1>7. /\ key \in Key /\ key.by = s /\ key.created = Local(s)
      /\ Local(s) \in Nat
  BY <1>0, LocalType DEF Key, IInv
<1> HIDE DEF key, y, m
<1>8. WritersHaveKeys' /\ LastInv' /\ OneRotationPerServer'
  BY <1>0, <1>5, <1>6, <1>7
     DEF IInv, WritersHaveKeys, LastInv, OneRotationPerServer, SingleAlg
<1>9. StampInv'
  <2>1. \A t : Local(t)' = Local(t)
    BY <1>0 DEF Local
  <2> QED
    BY <1>0, <1>5, <1>6, <1>7, <2>1 DEF IInv, StampInv
<1>10. KnownInv'
  <2> SUFFICES ASSUME SingleAlg, NEW q \in Requests, NEW k \in store, k.by = Host[q]
               PROVE  /\ pc'[q] = "reloaded" =>
                           k \in loc'[q].keys \/ k.created + Gap <= Local(Host[q])
                      /\ pc'[q] = "create" => k.created + Gap <= Local(Host[q])
                      /\ pc'[q] = "write" => k.created + Gap <= loc'[q].new.created
    BY <1>0 DEF KnownInv, SingleAlg, Gap, Local
  <2>1. CASE q # r
    BY <1>5, <2>1 DEF IInv, KnownInv
  <2>2. CASE q = r
    BY <1>0, <1>6, <1>7, <2>2 DEF IInv, KnownInv
  <2> QED
    BY <2>1, <2>2
<1> QED
  BY <1>4, <1>8, <1>9, <1>10 DEF IInv

\* What the first half of a write gives, wherever the request goes on.
LEMMA WriteAdds ==
  ASSUME IInv, NEW r \in Requests, pc[r] = "write",
         store' = store \union {loc[r].new}, UNCHANGED now,
         NEW label, NEW m, Moves(r, label, m),
         label \notin {"reloaded", "create"}, label = "write" => ~SingleAlg
  PROVE  /\ \A k \in store' : k.created <= Local(k.by)'
         /\ KnownInv' /\ OneRotationPerServer'
<1> DEFINE s == Host[r]
           new == loc[r].new
<1>1. /\ s \in Servers /\ new \in Key /\ new.by = s /\ new.created \in Nat
      /\ new.created <= Local(s)
  BY OptionsAssumption DEF IInv, WritersHaveKeys, StampInv, Key
<1>2. \A t : Local(t)' = Local(t)
  BY DEF Local
<1>3. \A q \in Requests : pc'[q] = (IF q = r THEN label ELSE pc[q])
                          /\ (q # r => loc'[q] = loc[q])
  BY DEF Moves, IInv, TypeOK
<1>4. \A k \in store : k \in Key /\ k.created \in Nat
  BY DEF IInv, TypeOK, Key
<1>5. \A k \in store' : k.created <= Local(k.by)'
  BY <1>1, <1>2 DEF IInv, StampInv
<1>6. KnownInv'
  <2> SUFFICES ASSUME SingleAlg, NEW q \in Requests, q # r,
                      NEW k \in store', k.by = Host[q],
                      pc[q] \in {"reloaded", "create", "write"}
               PROVE  /\ pc[q] = "reloaded" =>
                           k \in loc[q].keys \/ k.created + Gap <= Local(Host[q])
                      /\ pc[q] = "create" => k.created + Gap <= Local(Host[q])
                      /\ pc[q] = "write" => k.created + Gap <= loc[q].new.created
    BY <1>2, <1>3 DEF KnownInv, SingleAlg, Gap
  <2>1. Host[q] # s
    BY DEF IInv, LockInv, InLock
  <2>2. k \in store
    BY <1>1, <2>1
  <2> QED
    BY <2>2 DEF IInv, KnownInv
<1>7. OneRotationPerServer'
  <2> SUFFICES ASSUME SingleAlg, NEW j \in store', NEW k \in store', j.by = k.by, j # k
               PROVE  \/ j.created >= k.created + Gap
                      \/ k.created >= j.created + Gap
    BY DEF OneRotationPerServer, SingleAlg, Gap
  <2>1. Gap \in Int
    BY OptionsAssumption DEF Gap
  <2>2. CASE j \in store /\ k \in store
    BY <2>2 DEF IInv, OneRotationPerServer, Gap
  <2>3. CASE j = new /\ k \in store
    <3>1. k.created + Gap <= new.created
      BY <1>1, <2>3 DEF IInv, KnownInv
    <3> QED
      BY <1>1, <1>4, <2>1, <2>3, <3>1
  <2>4. CASE k = new /\ j \in store
    <3>1. j.created + Gap <= new.created
      BY <1>1, <2>4 DEF IInv, KnownInv
    <3> QED
      BY <1>1, <1>4, <2>1, <2>4, <3>1
  <2> QED
    BY <2>2, <2>3, <2>4
<1> QED
  BY <1>5, <1>6, <1>7

LEMMA WriteKeeps ==
  ASSUME IInv, TypeOK', NEW r \in Requests, Write(r)
  PROVE  IInv'
<1> DEFINE s == Host[r]
           K == loc[r].keys \union {loc[r].new}
           l == [loc[r] EXCEPT !.keys = K, !.new = None]
<1>0. /\ s \in Servers /\ loc[r] \in Locals /\ pc[r] = "write" /\ UNCHANGED now
      /\ store' = store \union {loc[r].new}
  BY OptionsAssumption DEF Write, IInv, TypeOK
<1>1. \/ l.todo # {} /\ CreateKey(r, l) /\ UNCHANGED lock
      \/ Goto(r, "delay", l, SyncDelay) /\ UNCHANGED lock
      \/ Finish(r, K)
  BY DEF Write
<1>2. CASE l.todo # {} /\ CreateKey(r, l) /\ UNCHANGED lock
  <2>0. l.todo = loc[r].todo
    BY <1>0 DEF Locals
  <2> HIDE DEF l
  <2>1. PICK a \in l.todo, n \in 0..MaxTies :
          Goto(r, "write",
               [l EXCEPT !.todo = @ \ {a},
                    !.new = [alg |-> a, created |-> Local(s), seq |-> n, by |-> s]], Lag)
    BY <1>2 DEF CreateKey
  <2> DEFINE key == [alg |-> a, created |-> Local(s), seq |-> n, by |-> s]
             y == [l EXCEPT !.todo = @ \ {a}, !.new = key]
  <2>2. Moves(r, "write", y)
    BY <2>1 DEF Goto, Moves
  <2>3. ~SingleAlg
    BY <1>0, <1>2, <2>0 DEF IInv, LastInv
  <2>4. y.new = key
    <3>1. DOMAIN l = {"keys", "doomed", "signing", "ok", "rot", "todo", "new"}
      BY <1>0 DEF l, Locals
    <3> HIDE DEF key
    <3> QED  BY <3>1
  <2>5. /\ key \in Key /\ key.by = s /\ key.created = Local(s) /\ Local(s) \in Nat
    <3>1. a \in Algs
      BY <1>0, <2>0 DEF Locals
    <3> QED
      BY <1>0, <3>1, LocalType DEF Key, IInv
  <2> HIDE DEF key, y
  <2>6. LockInv'
    BY <1>0, <1>2, <2>2, LockMoves DEF IInv, InLock
  <2>7. \A k \in store' : k.created <= Local(k.by)'
    BY <1>0, <2>2, <2>3, WriteAdds
  <2>8. KnownInv' /\ OneRotationPerServer'
    BY <1>0, <2>2, <2>3, WriteAdds
  <2>9. \A q \in Requests : /\ q # r => pc'[q] = pc[q] /\ loc'[q] = loc[q]
                            /\ q = r => loc'[q].new = key
    BY <2>2, <2>4 DEF Moves, IInv, TypeOK
  <2>10. WritersHaveKeys' /\ LastInv'
    BY <2>3, <2>5, <2>9 DEF IInv, WritersHaveKeys, LastInv, SingleAlg
  <2>11. StampInv'
    <3>1. \A t : Local(t)' = Local(t)
      BY <1>0 DEF Local
    <3> QED
      BY <2>5, <2>7, <2>9, <3>1 DEF IInv, StampInv
  <2> QED
    BY <2>6, <2>8, <2>10, <2>11 DEF IInv
<1>3. CASE \/ Goto(r, "delay", l, SyncDelay) /\ UNCHANGED lock
           \/ Finish(r, K)
  <2>1. PICK label, m :
          /\ label \in {"delay", "idle", "done"}
          /\ Moves(r, label, m)
          /\ UNCHANGED lock \/ (Unlock(r) /\ label \notin InLock)
    <3>1. CASE Goto(r, "delay", l, SyncDelay) /\ UNCHANGED lock
      <4>1. Moves(r, "delay", l)
        BY <3>1 DEF Goto, Moves
      <4> QED
        BY <3>1, <4>1
    <3>2. CASE Finish(r, K)
      <4>1. PICK label, m : label \in {"idle", "done"} /\ Moves(r, label, m)
        BY <3>2, AnswerMoves DEF Finish
      <4> QED
        BY <3>2, <4>1 DEF Finish, InLock
    <3> QED
      BY <1>3, <3>1, <3>2
  <2>2. LockInv'
    BY <1>0, <2>1, LockMoves DEF IInv, InLock
  <2>3. \A k \in store' : k.created <= Local(k.by)'
    BY <1>0, <2>1, WriteAdds
  <2>4. KnownInv' /\ OneRotationPerServer'
    BY <1>0, <2>1, WriteAdds
  <2>5. \A q \in Requests : pc'[q] = "write" => pc[q] = "write" /\ loc'[q] = loc[q]
    BY <2>1 DEF Moves, IInv, TypeOK
  <2>6. WritersHaveKeys' /\ LastInv'
    BY <2>5 DEF IInv, WritersHaveKeys, LastInv, SingleAlg
  <2>7. StampInv'
    <3>1. \A t : Local(t)' = Local(t)
      BY <1>0 DEF Local
    <3> QED
      BY <2>3, <2>5, <3>1 DEF IInv, StampInv
  <2> QED
    BY <2>2, <2>4, <2>6, <2>7 DEF IInv
<1> QED
  BY <1>1, <1>2, <1>3

-----------------------------------------------------------------------------
(* Every step keeps the invariant. *)

LEMMA StepKeeps ==
  ASSUME IInv, NEW r \in Requests, Step(r)
  PROVE  IInv'
<1>0. TypeOK /\ TypeOK' /\ LockInv
  BY StepType DEF IInv
<1>1. CASE Load(r)
  <2>1. PICK l : Moves(r, "loaded", l)
    BY <1>1 DEF Load, ReadStore, Goto, Moves
  <2>2. UNCHANGED <<now, store, lock>>
    BY <1>1 DEF Load, ReadStore
  <2>3. LockInv'
    BY <1>0, <2>1, <2>2, LockMoves DEF InLock
  <2> QED
    BY <1>0, <2>1, <2>2, <2>3, QuietMove
<1>2. CASE CheckLoaded(r)
  <2>1. PICK label, l : label \in {"idle", "done", "wait"} /\ Moves(r, label, l)
    BY <1>2, AnswerOrWaitMoves DEF CheckLoaded
  <2>2. UNCHANGED <<now, store, lock>>
    BY <1>2 DEF CheckLoaded
  <2>3. LockInv'
    BY <1>0, <2>1, <2>2, LockMoves DEF InLock
  <2> QED
    BY <1>0, <2>1, <2>2, <2>3, QuietMove
<1>3. CASE Acquire(r)
  <2>1. PICK label, l :
          /\ label \in {"reload", "idle", "done"}
          /\ Moves(r, label, l)
          /\ \/ UNCHANGED lock /\ label # "reload"
             \/ lock[Host[r]] = None /\ lock' = [lock EXCEPT ![Host[r]] = r]
    <3> DEFINE m == Checked(loc[r], Cached(Host[r]), Host[r])
    <3>1. \/ /\ lock[Host[r]] = None /\ lock' = [lock EXCEPT ![Host[r]] = r]
             /\ Goto(r, "reload", m, Lag)
          \/ UNCHANGED lock /\ Answer(r, m)
      BY <1>3 DEF Acquire
    <3> HIDE DEF m
    <3>2. CASE UNCHANGED lock /\ Answer(r, m)
      BY <3>2, AnswerMoves
    <3>3. CASE /\ lock[Host[r]] = None /\ lock' = [lock EXCEPT ![Host[r]] = r]
               /\ Goto(r, "reload", m, Lag)
      <4>1. Moves(r, "reload", m)
        BY <3>3 DEF Goto, Moves
      <4> QED
        BY <3>3, <4>1
    <3> QED
      BY <3>1, <3>2, <3>3
  <2>2. UNCHANGED <<now, store>>
    BY <1>3 DEF Acquire
  <2>3. LockInv'
    BY <1>0, <2>1, LockMoves DEF InLock
  <2> QED
    BY <1>0, <2>1, <2>2, <2>3, QuietMove
<1>4. CASE LockTimesOut(r)
  <2>1. Moves(r, "idle", NoLocals) /\ UNCHANGED <<now, store, lock>>
    BY <1>4, EndMoves DEF LockTimesOut
  <2>2. LockInv'
    BY <1>0, <2>1, LockMoves DEF InLock
  <2> QED
    BY <1>0, <2>1, <2>2, QuietMove
<1>5. CASE Reload(r)
  BY <1>0, <1>5, ReloadKeeps
<1>6. CASE CheckReloaded(r)
  BY <1>0, <1>6, CheckReloadedKeeps
<1>7. CASE Create(r)
  BY <1>0, <1>7, CreateKeeps
<1>8. CASE Write(r)
  BY <1>0, <1>8, WriteKeeps
<1>9. CASE Resync(r)
  <2>1. PICK l : Moves(r, "synced", l)
    BY <1>9 DEF Resync, ReadStore, Goto, Moves
  <2>2. UNCHANGED <<now, store, lock>> /\ pc[r] = "delay"
    BY <1>9 DEF Resync, ReadStore
  <2>3. LockInv'
    BY <1>0, <2>1, <2>2, LockMoves DEF InLock
  <2> QED
    BY <1>0, <2>1, <2>2, <2>3, QuietMove
<1>10. CASE FinishSynced(r)
  <2>1. PICK label, l : label \in {"idle", "done"} /\ Moves(r, label, l)
    BY <1>10, AnswerMoves DEF FinishSynced, Finish
  <2>2. UNCHANGED <<now, store>> /\ Unlock(r) /\ pc[r] = "synced"
    BY <1>10 DEF FinishSynced, Finish
  <2>3. LockInv'
    BY <1>0, <2>1, <2>2, LockMoves DEF InLock
  <2> QED
    BY <1>0, <2>1, <2>2, <2>3, QuietMove
<1>11. CASE DeleteRetired(r)
  <2>1. PICK k \in loc[r].doomed :
          /\ store' = store \ {k}
          /\ Moves(r, pc[r], [loc[r] EXCEPT !.doomed = @ \ {k}])
          /\ UNCHANGED <<now, lock>>
    BY <1>11 DEF DeleteRetired, Goto, Moves
  <2>2. LockInv'
    BY <1>0, <2>1, LockMoves
  <2>3. \A q \in Requests : /\ pc'[q] = pc[q] /\ loc'[q].keys = loc[q].keys
                            /\ loc'[q].new = loc[q].new /\ loc'[q].todo = loc[q].todo
    BY <1>0, <2>1 DEF Moves, TypeOK, Locals
  <2>4. now <= now' /\ store' \subseteq store
    BY <1>0, <2>1 DEF TypeOK
  <2> QED
    BY <1>0, <2>2, <2>3, <2>4, QuietStep DEF IInv
<1>12. CASE Reply(r)
  <2>1. Moves(r, "idle", NoLocals) /\ UNCHANGED <<now, store, lock>>
    BY <1>12, EndMoves DEF Reply
  <2>2. LockInv'
    BY <1>0, <2>1, LockMoves DEF InLock
  <2> QED
    BY <1>0, <2>1, <2>2, QuietMove
<1> QED
  BY <1>1, <1>2, <1>3, <1>4, <1>5, <1>6, <1>7, <1>8, <1>9, <1>10, <1>11, <1>12 DEF Step

LEMMA OthersKeep ==
  ASSUME IInv,
         \/ \E r \in Requests : Start(r) \/ StoreFails(r)
         \/ \E s \in Servers : Restart(s)
         \/ Tick
  PROVE  IInv'
<1>1. ASSUME NEW r \in Requests, Start(r)
      PROVE  IInv'
  <2>1. TypeOK /\ TypeOK' /\ LockInv
    BY <1>1, StartType DEF IInv
  <2>2. PICK label, l : label \in {"idle", "load", "done", "wait"} /\ Moves(r, label, l)
    <3>1. CASE Goto(r, "load", NoLocals, Lag)
      <4>1. Moves(r, "load", NoLocals)
        BY <3>1 DEF Goto, Moves
      <4> QED
        BY <4>1
    <3>2. CASE AnswerOrWait(r, FirstChecked(Cached(Host[r]), Host[r]))
      BY <3>2, AnswerOrWaitMoves
    <3> QED
      BY <1>1, <3>1, <3>2 DEF Start
  <2>3. UNCHANGED <<now, store, lock>>
    BY <1>1 DEF Start
  <2>4. LockInv'
    BY <2>1, <2>2, <2>3, LockMoves DEF InLock
  <2> QED
    BY <2>1, <2>2, <2>3, <2>4, QuietMove
<1>2. ASSUME NEW r \in Requests, StoreFails(r)
      PROVE  IInv'
  <2>1. TypeOK /\ TypeOK' /\ LockInv
    BY <1>2, FailureType DEF IInv
  <2>2. Moves(r, "idle", NoLocals) /\ UNCHANGED <<now, store>>
    BY <1>2, EndMoves DEF StoreFails
  <2>3. LockInv'
    BY <1>2, <2>1, <2>2, LockMoves DEF StoreFails, InLock
  <2> QED
    BY <2>1, <2>2, <2>3, QuietMove
<1>3. ASSUME NEW s \in Servers, Restart(s)
      PROVE  IInv'
  <2>1. TypeOK /\ TypeOK' /\ LockInv
    BY <1>3, RestartType DEF IInv
  <2>2. \A q \in Requests :
          /\ Host[q] = s => pc'[q] = "idle"
          /\ Host[q] # s => pc'[q] = pc[q] /\ loc'[q] = loc[q]
    BY <1>3 DEF Restart
  <2>3. LockInv'
    BY <1>3, <2>1, <2>2, OptionsAssumption DEF Restart, LockInv, TypeOK, InLock
  <2>4. store' \subseteq store /\ now <= now'
    BY <1>3, <2>1 DEF Restart, TypeOK
  <2> QED
    BY <2>1, <2>2, <2>3, <2>4, QuietStep DEF IInv
<1>4. CASE Tick
  <2>1. TypeOK /\ TypeOK' /\ LockInv
    BY <1>4, TickType DEF IInv
  <2>2. /\ UNCHANGED <<store, lock, pc, loc>>
        /\ now <= now'
    BY <1>4, <2>1 DEF Tick, TypeOK
  <2>3. LockInv'
    BY <2>1, <2>2 DEF LockInv
  <2>4. store' \subseteq store
    BY <2>2
  <2> QED
    BY <2>1, <2>2, <2>3, <2>4, QuietStep DEF IInv
<1> QED
  BY <1>1, <1>2, <1>3, <1>4

LEMMA InitInv ==
  ASSUME Init
  PROVE  IInv
<1>1. NoEntry \in [keys : SUBSET Key, expires : Nat] /\ "idle" \in PCs
  BY DEF NoEntry, PCs
<1>2. TypeOK
  BY <1>1, NoLocalsType DEF Init, TypeOK
<1>3. \A r \in Requests : pc[r] = "idle"
  BY DEF Init
<1> QED
  BY <1>2, <1>3 DEF Init, IInv, LockInv, InLock, WritersHaveKeys, StampInv,
                    KnownInv, LastInv, OneRotationPerServer

LEMMA NextKeeps ==
  ASSUME IInv, [Next]_vars
  PROVE  IInv'
<1>1. CASE \E r \in Requests : Step(r)
  BY <1>1, StepKeeps
<1>2. CASE \/ \E r \in Requests : Start(r) \/ StoreFails(r)
           \/ \E s \in Servers : Restart(s)
           \/ Tick
  BY <1>2, OthersKeep
<1>3. CASE UNCHANGED vars
  BY <1>3 DEF vars, IInv, TypeOK, LockInv, WritersHaveKeys, StampInv, KnownInv,
              LastInv, OneRotationPerServer, Local, SingleAlg, Gap
<1> QED
  BY <1>1, <1>2, <1>3 DEF Next

\* The inductive invariant holds throughout.
THEOREM Invariance == Spec => []IInv
<1>1. Init => IInv
  BY InitInv
<1>2. IInv /\ [Next]_vars => IInv'
  BY NextKeeps
<1> QED
  BY <1>1, <1>2, PTL DEF Spec

\* The state of the key manager keeps its type: no path of a request, no
\* failure and no restart leaves a local, a cache or a lock malformed.
THEOREM TypeCorrect == Spec => []TypeOK
<1>1. IInv => TypeOK
  BY DEF IInv
<1> QED
  BY <1>1, Invariance, PTL

\* However many requests a server runs and however they interleave, time out,
\* fail or restart, it does not create two keys for its algorithm within a
\* rotation interval less the propagation time.
THEOREM RotationsSpaced == Spec => []OneRotationPerServer
<1>1. IInv => OneRotationPerServer
  BY DEF IInv
<1> QED
  BY <1>1, Invariance, PTL

=============================================================================
