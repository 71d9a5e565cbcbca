------------------------ MODULE PollingGrants_proofs ------------------------
(***************************************************************************)
(* Proofs about PollingGrants, for all grants, requests, settings and      *)
(* bounds.                                                                 *)
(*                                                                         *)
(* A poll answers with tokens when it has removed the row, or has found    *)
(* that somebody else did: GrantInv and Shape say that a grant that was    *)
(* answered for is gone, but for a CIBA request that a decision under way  *)
(* inserted again, which then has more than one row in its history.  The   *)
(* interval is kept by the cache alone: Times and Paced relate its entry   *)
(* to the answers the client had and to the copy of it each poll read.     *)
(***************************************************************************)
EXTENDS PollingGrants, TLAPS

PCs == {"idle", "look", "judge", "record", "query", "save", "answer"}

\* A grant no poll can find, unless it was stored anew.
Gone(g) == Present(g) => flow[g] = "ciba" /\ inserts[g] > 1

GrantInv ==
    \A g \in Grants :
        /\ Present(g) => row[g].id \in 1..inserts[g] /\ row[g].created = 0
        /\ ByDevice(g) => inserts[g] <= 1
        /\ g \in final => inserts[g] > 0 /\ Gone(g)

\* Before the row is looked at, a poll has the row it read.
Early == {"look", "judge", "record"}

\* What the locals l of a request at p refer to.
Shape(p, l) ==
    /\ p = "idle" => l = NoLocals
    /\ p # "idle" => l.grant \in Grants /\ inserts[l.grant] > 0
    /\ l.replay => flow[l.grant] = "ciba" /\ inserts[l.grant] > 1
    /\ l.kind = "decide" => p \in {"query", "save"}
    /\ (p \in Early \/ l.kind = "decide") => l.row \in Rows /\ l.row.created = 0
    /\ p = "save" => IF l.kind = "poll" THEN l.found \in 1..inserts[l.grant]
                                        ELSE ByDevice(l.grant) => l.found # 0
    /\ p = "answer" => Gone(l.grant)

IInv == TypeOK /\ GrantInv /\ \A r \in Requests : Shape(pc[r], loc[r])

\* A request at p with the locals l polls for g.
Polls(p, l, g) == p # "idle" /\ l.kind = "poll" /\ l.grant = g

Idle(g) == \A r \in Requests : ~Polls(pc[r], loc[r], g)

\* The cache entry of a grant, the last lone poll and the last answer.
Times(g) ==
    /\ seen[g] # None => seen[g].at <= now /\ seen[g].expires >= Lifetime
    /\ passed[g] # None =>
          /\ passed[g] <= now
          /\ IF seen[g] # None THEN passed[g] <= seen[g].at ELSE Lifetime <= now
    /\ (Idle(g) /\ seen[g] # None) =>
          IF answered[g] # None THEN seen[g].at <= answered[g]
                                ELSE seen[g].at + Told(g) <= now

\* What a poll for g at p with the locals l has read of it.
Paced(p, l, g) ==
    /\ l.polite => l.alone
    /\ l.alone => p \in Early
    /\ (l.polite /\ seen[g] # None) => seen[g].at + Told(g) <= now
    /\ p \in {"judge", "record"} => l.expires >= Lifetime
    /\ p = "judge" =>
          /\ (l.polite /\ l.last # None) => l.last + Told(g) <= now
          /\ passed[g] # None => IF l.last # None THEN passed[g] <= l.last
                                                  ELSE Lifetime <= now
    /\ p = "record" =>
          /\ l.stamp <= now
          /\ (l.polite /\ Told(g) = Enforced(g)) => ~l.slow
          /\ passed[g] # None =>
                /\ passed[g] <= l.stamp
                /\ ~l.slow => passed[g] + Enforced(g) <= l.stamp \/ Lifetime <= l.stamp

\* A poll that counts as alone is.
Alone(r) ==
    loc[r].alone => \A q \in Requests : Polls(pc[q], loc[q], loc[r].grant) => q = r

TInv ==
    /\ IInv
    /\ \A g \in Grants : Times(g)
    /\ \A r \in Requests : /\ Alone(r)
                           /\ pc[r] # "idle" => Paced(pc[r], loc[r], loc[r].grant)

-----------------------------------------------------------------------------
(* Types of the operators. *)

LEMMA IntervalTypes ==
    ASSUME TypeOK, NEW g \in Grants
    PROVE  Enforced(g) \in Nat /\ Told(g) \in Nat
<1>1. flow[g] \in Flows /\ interval[g] \in Nat \union {None}
    BY PollingAssumption DEF TypeOK
<1>2. DefaultInterval[flow[g]] \in Nat /\ DefaultInterval["device"] \in Nat
    BY <1>1, PollingAssumption DEF Flows
<1> QED
    BY <1>1, <1>2 DEF Enforced, Told

LEMMA NoLocalsType ==
    /\ NoLocals \in Locals
    /\ NoLocals.kind = "poll" /\ NoLocals.grant = None
    /\ ~NoLocals.replay /\ ~NoLocals.alone /\ ~NoLocals.polite
BY DEF NoLocals, Locals

LEMMA GotoType ==
    ASSUME TypeOK, NEW r \in Requests, NEW p \in PCs, NEW l \in Locals, Goto(r, p, l)
    PROVE  /\ pc' \in [Requests -> PCs] /\ loc' \in [Requests -> Locals]
           /\ pc'[r] = p /\ loc'[r] = l
           /\ \A q \in Requests : q # r => pc'[q] = pc[q] /\ loc'[q] = loc[q]
BY DEF TypeOK, Goto, PCs

\* The end of a request.
LEMMA EndType ==
    ASSUME IInv, NEW r \in Requests, pc[r] # "idle", End(r)
    PROVE  /\ Goto(r, "idle", NoLocals) /\ "idle" \in PCs /\ NoLocals \in Locals
           /\ answered' \in [Grants -> Nat \union {None}]
<1>1. loc[r].grant \in Grants /\ now \in Nat
    BY DEF IInv, Shape, TypeOK
<1> QED
    BY <1>1, NoLocalsType DEF End, PCs, IInv, TypeOK

\* Where a request goes on that leaves the table alone.
LEMMA ControlType ==
    ASSUME IInv, UNCHANGED <<settings, now, table>>, seen' \in [Grants -> Entries \union {None}],
           final' \in SUBSET Grants, passed' \in [Grants -> Nat \union {None}],
           answered' \in [Grants -> Nat \union {None}],
           NEW r \in Requests, NEW p \in PCs, NEW l \in Locals, Goto(r, p, l)
    PROVE  TypeOK'
BY GotoType DEF IInv, TypeOK, PCs, settings, table

-----------------------------------------------------------------------------
(* Each step preserves IInv. *)

\* What the steps of others leave of a request.
LEMMA ShapeKept ==
    ASSUME flow' = flow, NEW p, NEW l, Shape(p, l), p # "idle" \/ l = NoLocals,
           inserts \in [Grants -> Nat], inserts' \in [Grants -> Nat],
           \A g \in Grants : inserts[g] > 0 => inserts[g] <= inserts'[g] /\ (Gone(g) => Gone(g)')
    PROVE  Shape(p, l)'
<1>1. CASE p = "idle"
    BY <1>1, NoLocalsType DEF Shape, Early
<1>2. CASE p # "idle"
    <2>1. PICK g \in Grants : g = l.grant /\ inserts[g] > 0
        BY <1>2 DEF Shape
    <2>2. /\ inserts[g] \in Nat /\ inserts'[g] \in Nat /\ inserts[g] <= inserts'[g]
          /\ Gone(g) => Gone(g)'
        BY <2>1
    <2>3. l.found \in 1..inserts[g] => l.found \in 1..inserts'[g]
        BY <2>2
    <2> QED
        BY <1>2, <2>1, <2>2, <2>3 DEF Shape, ByDevice
<1> QED
    BY <1>1, <1>2

LEMMA StepOK ==
    ASSUME IInv, TypeOK', GrantInv', flow' = flow,
           \A g \in Grants : inserts[g] > 0 => inserts[g] <= inserts'[g] /\ (Gone(g) => Gone(g)'),
           \A q \in Requests : \/ pc'[q] = pc[q] /\ loc'[q] = loc[q]
                               \/ Shape(pc[q], loc[q])'
    PROVE  IInv'
<1>1. ASSUME NEW q \in Requests
      PROVE  Shape(pc[q], loc[q])'
    <2>1. PICK p, l : p = pc[q] /\ l = loc[q]
        OBVIOUS
    <2>2. Shape(p, l) /\ (p # "idle" \/ l = NoLocals)
        BY <2>1 DEF IInv, Shape
    <2>3. inserts \in [Grants -> Nat] /\ inserts' \in [Grants -> Nat]
        BY DEF IInv, TypeOK
    <2>4. Shape(p, l)'
        BY <2>2, <2>3, ShapeKept
    <2> QED
        BY <2>1, <2>4
<1> QED
    BY <1>1 DEF IInv

\* A request goes on; the table stays.
LEMMA ControlOK ==
    ASSUME IInv, UNCHANGED <<settings, now, table, final>>,
           seen' \in [Grants -> Entries \union {None}],
           passed' \in [Grants -> Nat \union {None}],
           answered' \in [Grants -> Nat \union {None}],
           NEW r \in Requests, NEW p \in PCs, NEW l \in Locals, Goto(r, p, l), Shape(p, l)
    PROVE  IInv'
<1>1. TypeOK'
    BY ControlType DEF IInv, TypeOK
<1>2. GrantInv' /\ Shape(p, l)' /\ flow' = flow
    BY DEF IInv, GrantInv, Gone, Present, ByDevice, Shape, settings, table
<1>3. \A g \in Grants : inserts[g] > 0 => inserts[g] <= inserts'[g] /\ (Gone(g) => Gone(g)')
    BY DEF Gone, Present, IInv, TypeOK, settings, table
<1>4. \A q \in Requests : (pc'[q] = pc[q] /\ loc'[q] = loc[q]) \/ Shape(pc[q], loc[q])'
    BY <1>2, GotoType DEF IInv
<1> QED
    BY <1>1, <1>2, <1>3, <1>4, StepOK

LEMMA IdleShape == Shape("idle", NoLocals)
BY NoLocalsType DEF Shape, Early

LEMMA EndOK ==
    ASSUME IInv, UNCHANGED <<settings, now, table, final>>,
           seen' \in [Grants -> Entries \union {None}],
           passed' \in [Grants -> Nat \union {None}],
           NEW r \in Requests, pc[r] # "idle", End(r)
    PROVE  IInv'
BY EndType, IdleShape, ControlOK

LEMMA AuthorizeOK ==
    ASSUME IInv, NEW g \in Grants, Authorize(g)
    PROVE  IInv'
<1> DEFINE new == [id |-> 1, created |-> now, decision |-> "none"]
<1>1. /\ inserts[g] = 0 /\ now = 0 /\ row' = [row EXCEPT ![g] = new]
      /\ inserts' = [inserts EXCEPT ![g] = 1]
      /\ UNCHANGED <<settings, now, seen, pc, loc, history>>
    BY DEF Authorize
<1>2. new \in Rows /\ new.id = 1 /\ new.created = 0 /\ new # None
    BY <1>1, PollingAssumption DEF Rows
<1> HIDE DEF new
<1>3. row'[g] = new /\ inserts'[g] = 1
    BY <1>1 DEF IInv, TypeOK
<1>4. \A h \in Grants : h # g => row'[h] = row[h] /\ inserts'[h] = inserts[h]
    BY <1>1 DEF IInv, TypeOK
<1>5. TypeOK'
    BY <1>1, <1>2 DEF IInv, TypeOK, settings, history
<1>6. GrantInv'
    <2> SUFFICES ASSUME NEW h \in Grants
                 PROVE  /\ Present(h)' => row'[h].id \in 1..inserts'[h] /\ row'[h].created = 0
                        /\ ByDevice(h)' => inserts'[h] <= 1
                        /\ h \in final' => inserts'[h] > 0 /\ Gone(h)'
        BY DEF GrantInv
    <2>1. final' = final /\ flow' = flow
        BY <1>1 DEF history, settings
    <2>2. CASE h = g
        BY <1>1, <1>2, <1>3, <2>1, <2>2 DEF IInv, GrantInv, Gone, Present
    <2>3. CASE h # g
        BY <1>4, <2>1, <2>3 DEF IInv, GrantInv, Gone, Present, ByDevice
    <2> QED
        BY <2>2, <2>3
<1>7. \A h \in Grants : inserts[h] > 0 => inserts[h] <= inserts'[h] /\ (Gone(h) => Gone(h)')
    BY <1>1, <1>4 DEF Gone, Present, IInv, TypeOK, settings
<1> QED
    BY <1>1, <1>5, <1>6, <1>7, StepOK DEF settings

\* A poll begins: others are not alone any more.
LEMMA PollStep ==
    ASSUME IInv, NEW r \in Requests, NEW g \in Grants, Poll(r, g)
    PROVE  /\ pc[r] = "idle" /\ Present(g)
           /\ pc' = [pc EXCEPT ![r] = "look"]
           /\ \E l \in Locals :
                /\ loc'[r] = l /\ l.kind = "poll" /\ l.grant = g /\ l.row = row[g]
                /\ l.replay = (g \in final)
                /\ l.alone = (Polling(g) = {})
                /\ l.polite = (l.alone /\ (answered[g] # None => now >= answered[g] + Told(g)))
           /\ \A q \in Requests : q # r =>
                \E l \in Locals :
                   /\ loc'[q] = l /\ l.kind = loc[q].kind /\ l.grant = loc[q].grant
                   /\ l.row = loc[q].row /\ l.found = loc[q].found /\ l.last = loc[q].last
                   /\ l.stamp = loc[q].stamp /\ l.expires = loc[q].expires
                   /\ l.slow = loc[q].slow /\ l.replay = loc[q].replay
                   /\ q \in Polling(g) => ~l.alone /\ ~l.polite
                   /\ q \notin Polling(g) => l = loc[q]
           /\ loc' \in [Requests -> Locals]
           /\ UNCHANGED <<settings, now, table, seen, history>>
<1> DEFINE alone == Polling(g) = {}
           polite == alone /\ (answered[g] # None => now >= answered[g] + Told(g))
           mine == [NoLocals EXCEPT !.grant = g, !.row = row[g], !.replay = g \in final,
                                    !.alone = alone, !.polite = polite]
           other(q) == [loc[q] EXCEPT !.alone = FALSE, !.polite = FALSE]
<1>1. loc' = [q \in Requests |-> IF q = r THEN mine
                                 ELSE IF q \in Polling(g) THEN other(q) ELSE loc[q]]
    BY DEF Poll
<1>2. row[g] \in Rows
    BY DEF Poll, Present, IInv, TypeOK
<1>3. PICK a \in BOOLEAN, b \in BOOLEAN, c \in BOOLEAN :
        a = alone /\ b = polite /\ c = (g \in final)
    <2>1. alone \in BOOLEAN /\ polite \in BOOLEAN /\ (g \in final) \in BOOLEAN
        OBVIOUS
    <2> HIDE DEF alone, polite
    <2> QED
        BY <2>1, Zenon
<1> HIDE DEF alone, polite
<1>4. /\ mine \in Locals /\ mine.kind = "poll" /\ mine.grant = g /\ mine.row = row[g]
      /\ mine.replay = (g \in final) /\ mine.alone = alone /\ mine.polite = polite
    <2>1. mine = [NoLocals EXCEPT !.grant = g, !.row = row[g], !.replay = c,
                                  !.alone = a, !.polite = b]
        BY <1>3
    <2> HIDE DEF mine
    <2> QED
        BY <1>2, <1>3, <2>1 DEF NoLocals, Locals
<1>5. \A q \in Requests : loc[q] \in Locals
    BY DEF IInv, TypeOK
<1>6. ASSUME NEW q \in Requests
      PROVE  /\ other(q) \in Locals /\ other(q).kind = loc[q].kind
             /\ other(q).grant = loc[q].grant /\ other(q).row = loc[q].row
             /\ other(q).found = loc[q].found /\ other(q).last = loc[q].last
             /\ other(q).stamp = loc[q].stamp /\ other(q).expires = loc[q].expires
             /\ other(q).slow = loc[q].slow /\ other(q).replay = loc[q].replay
             /\ ~other(q).alone /\ ~other(q).polite
    BY <1>5 DEF Locals
<1> HIDE DEF mine, other
<1>7. loc' \in [Requests -> Locals] /\ loc'[r] = mine
    BY <1>1, <1>4, <1>5, <1>6
<1>8. \A q \in Requests : q # r =>
         loc'[q] = IF q \in Polling(g) THEN other(q) ELSE loc[q]
    BY <1>1
<1>9. /\ pc[r] = "idle" /\ Present(g) /\ pc' = [pc EXCEPT ![r] = "look"]
      /\ UNCHANGED <<settings, now, table, seen, history>>
    BY DEF Poll
<1>10. \E l \in Locals :
                /\ loc'[r] = l /\ l.kind = "poll" /\ l.grant = g /\ l.row = row[g]
                /\ l.replay = (g \in final)
                /\ l.alone = (Polling(g) = {})
                /\ l.polite = (l.alone /\ (answered[g] # None => now >= answered[g] + Told(g)))
    BY <1>4, <1>7 DEF alone, polite
<1> QED
    BY <1>5, <1>6, <1>7, <1>8, <1>9, <1>10

LEMMA PollOK ==
    ASSUME IInv, NEW r \in Requests, NEW g \in Grants, Poll(r, g)
    PROVE  IInv'
<1>1. /\ pc[r] = "idle" /\ Present(g) /\ pc' = [pc EXCEPT ![r] = "look"]
      /\ loc' \in [Requests -> Locals]
      /\ UNCHANGED <<settings, now, table, seen, history>>
    BY PollStep
<1>2. TypeOK'
    BY <1>1 DEF IInv, TypeOK, settings, table, history
<1>3. /\ GrantInv' /\ flow' = flow
      /\ \A h \in Grants : inserts[h] > 0 => inserts[h] <= inserts'[h] /\ (Gone(h) => Gone(h)')
    BY <1>1 DEF IInv, TypeOK, GrantInv, Gone, Present, ByDevice, settings, table, history
<1>4. Shape(pc[r], loc[r])'
    <2>1. PICK l \in Locals : /\ loc'[r] = l /\ l.kind = "poll" /\ l.grant = g
                              /\ l.row = row[g] /\ l.replay = (g \in final)
        BY PollStep
    <2>2. row[g] \in Rows /\ row[g].created = 0 /\ inserts[g] > 0
        BY <1>1 DEF IInv, TypeOK, GrantInv, Present
    <2>3. g \in final => flow[g] = "ciba" /\ inserts[g] > 1
        BY <1>1 DEF IInv, GrantInv, Gone
    <2>4. Shape("look", l)
        BY <2>1, <2>2, <2>3 DEF Shape
    <2>5. Shape("look", l)'
        BY <1>1, <2>4 DEF Shape, settings, table
    <2>6. pc'[r] = "look"
        BY <1>1 DEF IInv, TypeOK
    <2> QED
        BY <2>1, <2>5, <2>6
<1>5. ASSUME NEW q \in Requests, q # r
      PROVE  Shape(pc[q], loc[q])'
    <2>1. PICK l \in Locals :
            /\ loc'[q] = l /\ l.kind = loc[q].kind /\ l.grant = loc[q].grant
            /\ l.row = loc[q].row /\ l.found = loc[q].found /\ l.replay = loc[q].replay
            /\ q \notin Polling(g) => l = loc[q]
        BY <1>5, PollStep
    <2>2. PICK p : p = pc[q] /\ pc'[q] = p
        BY <1>1, <1>5 DEF IInv, TypeOK
    <2>3. Shape(p, loc[q])
        BY <2>2 DEF IInv
    <2>4. p = "idle" => l = NoLocals
        BY <2>1, <2>2, <2>3 DEF Polling, Shape
    <2>5. Shape(p, l)
        BY <2>1, <2>3, <2>4 DEF Shape
    <2>6. Shape(p, l)'
        BY <1>1, <2>5 DEF Shape, Gone, Present, ByDevice, settings, table
    <2> QED
        BY <2>1, <2>2, <2>6
<1> QED
    BY <1>2, <1>3, <1>4, <1>5, StepOK

\* A poll reads the cache or judges what it read.
LEMMA LookOK ==
    ASSUME IInv, NEW r \in Requests, Look(r) \/ Judge(r)
    PROVE  /\ IInv'
           /\ \E l \in Locals :
                /\ Goto(r, IF pc[r] = "look" THEN "judge" ELSE "record", l)
                /\ l.kind = loc[r].kind /\ l.grant = loc[r].grant /\ l.row = loc[r].row
                /\ l.alone = loc[r].alone /\ l.polite = loc[r].polite
                /\ IF pc[r] = "look"
                   THEN /\ l.expires = ExpiresAt
                        /\ l.last = IF seen[l.grant] # None /\ now < seen[l.grant].expires
                                    THEN seen[l.grant].at ELSE None
                   ELSE /\ l.expires = loc[r].expires /\ l.stamp = now
                        /\ l.slow <=> TooSoon(loc[r])
<1>1. PICK o \in Locals : o = loc[r]
    BY DEF IInv, TypeOK
<1> DEFINE g == o.grant
           last == IF seen[g] # None /\ now < seen[g].expires THEN seen[g].at ELSE None
           looked == [o EXCEPT !.expires = ExpiresAt, !.last = last]
           judged(b) == [o EXCEPT !.slow = b, !.stamp = now, !.last = None]
           p == IF pc[r] = "look" THEN "judge" ELSE "record"
<1>2. /\ Shape(pc[r], o) /\ pc[r] \in {"look", "judge"} /\ now \in Nat /\ now + Lifetime \in Nat
    BY <1>1, PollingAssumption DEF Look, Judge, IInv, TypeOK
<1>3. g \in Grants /\ last \in Nat \union {None}
    BY <1>2 DEF Shape, IInv, TypeOK, Entries
<1>4. PICK b \in BOOLEAN : b = TooSoon(o)
    BY Zenon DEF TooSoon
<1>5. PICK l \in Locals :
        /\ l = IF pc[r] = "look" THEN looked ELSE judged(b)
        /\ l.kind = o.kind /\ l.grant = g /\ l.row = o.row /\ l.replay = o.replay
        /\ l.alone = o.alone /\ l.polite = o.polite
        /\ pc[r] = "look" => l.expires = ExpiresAt /\ l.last = last
        /\ pc[r] # "look" => l.expires = o.expires /\ l.stamp = now /\ l.slow = b
    <2> HIDE DEF last
    <2>1. CASE pc[r] = "look"
        <3>1. /\ looked \in Locals
              /\ looked.kind = o.kind /\ looked.grant = g /\ looked.row = o.row
              /\ looked.replay = o.replay /\ looked.alone = o.alone /\ looked.polite = o.polite
              /\ looked.expires = ExpiresAt /\ looked.last = last
            BY <1>2, <1>3 DEF Locals, ExpiresAt
        <3> HIDE DEF looked
        <3> QED
            BY <2>1, <3>1
    <2>2. CASE pc[r] # "look"
        <3>1. /\ judged(b) \in Locals
              /\ judged(b).kind = o.kind /\ judged(b).grant = g /\ judged(b).row = o.row
              /\ judged(b).replay = o.replay /\ judged(b).alone = o.alone
              /\ judged(b).polite = o.polite
              /\ judged(b).expires = o.expires /\ judged(b).stamp = now /\ judged(b).slow = b
            BY <1>2, <1>4 DEF Locals
        <3> HIDE DEF judged
        <3> QED
            BY <2>2, <3>1
    <2> QED
        BY <2>1, <2>2
<1>6. /\ Goto(r, p, l) /\ p \in PCs /\ p \in Early
      /\ UNCHANGED <<settings, now, table, seen, history>>
    BY <1>1, <1>2, <1>4, <1>5 DEF Look, Judge, PCs, Early
<1>7. Shape(p, l)
    BY <1>2, <1>3, <1>5, <1>6 DEF Shape, Early
<1>8. IInv'
    BY <1>6, <1>7, ControlOK DEF history, IInv, TypeOK
<1>9. /\ pc[r] = "look" => l.last = (IF seen[l.grant] # None /\ now < seen[l.grant].expires
                                      THEN seen[l.grant].at ELSE None)
      /\ pc[r] # "look" => (l.slow <=> TooSoon(o))
    BY <1>4, <1>5
<1> HIDE DEF last, looked, judged
<1> QED
    BY <1>1, <1>5, <1>6, <1>8, <1>9

\* A poll is answered early or goes on to remove the row.
LEMMA RespondStep ==
    ASSUME IInv, NEW r \in Requests, NEW l \in Locals, pc[r] # "idle", Shape(pc[r], l),
           l.kind = "poll", Respond(r, l)
    PROVE  \/ End(r)
           \/ /\ Goto(r, "query", Kept(l)) /\ UNCHANGED answered
              /\ Kept(l) \in Locals /\ Shape("query", Kept(l))
              /\ Kept(l).kind = "poll" /\ Kept(l).grant = l.grant
              /\ ~Kept(l).alone /\ ~Kept(l).polite
<1>1. End(r) \/ (Goto(r, "query", Kept(l)) /\ UNCHANGED answered)
    BY DEF Respond
<1>2. l.grant \in Grants /\ inserts[l.grant] > 0
    BY DEF Shape
<1>3. /\ Kept(l) \in Locals /\ Kept(l).kind = "poll" /\ Kept(l).grant = l.grant
      /\ Kept(l).replay = l.replay /\ ~Kept(l).alone /\ ~Kept(l).polite
    BY <1>2 DEF Kept, NoLocals, Locals
<1>4. Shape("query", Kept(l))
    BY <1>2, <1>3 DEF Shape, Early
<1> QED
    BY <1>1, <1>3, <1>4

LEMMA RecordOK ==
    ASSUME IInv, NEW r \in Requests, Record(r)
    PROVE  IInv'
<1>1. PICK l \in Locals : l = loc[r]
    BY DEF IInv, TypeOK
<1>2. /\ pc[r] = "record" /\ Shape("record", l) /\ l.kind = "poll"
      /\ seen' = Recorded(l) /\ UNCHANGED <<settings, now, table, final>>
      /\ passed' = IF l.alone /\ ~l.slow THEN [passed EXCEPT ![l.grant] = l.stamp] ELSE passed
      /\ IF l.slow THEN End(r) ELSE Respond(r, l)
    BY <1>1 DEF Record, IInv, Shape, Locals
<1>3. /\ seen' \in [Grants -> Entries \union {None}]
      /\ passed' \in [Grants -> Nat \union {None}]
    BY <1>2 DEF Recorded, Locals, Entries, IInv, TypeOK
<1>4. CASE End(r)
    BY <1>2, <1>3, <1>4, EndOK
<1>5. CASE ~End(r)
    <2>1. /\ Goto(r, "query", Kept(l)) /\ UNCHANGED answered
          /\ Kept(l) \in Locals /\ Shape("query", Kept(l)) /\ "query" \in PCs
        BY <1>2, <1>5, RespondStep DEF PCs
    <2>2. answered' \in [Grants -> Nat \union {None}]
        BY <2>1 DEF IInv, TypeOK
    <2> QED
        BY <1>2, <1>3, <2>1, <2>2, ControlOK
<1> QED
    BY <1>4, <1>5

LEMMA DecideStep ==
    ASSUME IInv, NEW r \in Requests, NEW g \in Grants, Decide(r, g)
    PROVE  /\ UNCHANGED <<settings, now, table, seen, history>>
           /\ \E l \in Locals : /\ Goto(r, "query", l) /\ l.kind = "decide" /\ l.grant = g
                                /\ Shape("query", l) /\ "query" \in PCs
                                /\ ~l.alone /\ ~l.polite
<1>1. PICK d \in {"approve", "deny"} :
        Goto(r, "query", [NoLocals EXCEPT !.kind = "decide", !.grant = g,
                                          !.row = [row[g] EXCEPT !.decision = d]])
    BY DEF Decide
<1> DEFINE new == [row[g] EXCEPT !.decision = d]
           l == [NoLocals EXCEPT !.kind = "decide", !.grant = g, !.row = new]
<1>2. Present(g) /\ row[g] \in Rows /\ row[g].created = 0 /\ inserts[g] > 0
    BY DEF Decide, Present, IInv, TypeOK, GrantInv
<1>3. new \in Rows /\ new.created = 0
    BY <1>2 DEF Rows
<1> HIDE DEF new
<1>4. /\ l \in Locals /\ l.kind = "decide" /\ l.grant = g /\ l.row = new /\ ~l.replay
      /\ ~l.alone /\ ~l.polite
    BY <1>3 DEF Locals, NoLocals
<1>5. Goto(r, "query", l)
    BY <1>1 DEF new
<1> HIDE DEF l
<1>6. Shape("query", l)
    BY <1>2, <1>3, <1>4 DEF Shape, Early
<1> QED
    BY <1>4, <1>5, <1>6 DEF Decide, PCs

LEMMA DecideOK ==
    ASSUME IInv, NEW r \in Requests, NEW g \in Grants, Decide(r, g)
    PROVE  IInv'
<1>1. UNCHANGED <<settings, now, table, seen, history>>
    BY DecideStep
<1>2. /\ final' = final /\ passed' \in [Grants -> Nat \union {None}]
      /\ answered' \in [Grants -> Nat \union {None}]
      /\ seen' \in [Grants -> Entries \union {None}]
    BY <1>1 DEF IInv, TypeOK, history
<1>3. PICK l \in Locals : Goto(r, "query", l) /\ Shape("query", l) /\ "query" \in PCs
    BY DecideStep
<1> QED
    BY <1>1, <1>2, <1>3, ControlOK

LEMMA QueryStep ==
    ASSUME IInv, NEW r \in Requests, Query(r)
    PROVE  /\ UNCHANGED <<settings, now, table, seen, final, passed>>
           /\ \/ End(r)
              \/ \E p \in {"save", "answer"}, l \in Locals :
                   /\ Goto(r, p, l) /\ UNCHANGED answered /\ Shape(p, l)
                   /\ l.kind = loc[r].kind /\ l.grant = loc[r].grant
                   /\ l.alone = loc[r].alone /\ l.polite = loc[r].polite
<1>1. PICK o \in Locals : o = loc[r]
    BY DEF IInv, TypeOK
<1>2. pc[r] = "query" /\ Shape("query", o)
    BY <1>1 DEF Query, IInv
<1>3. PICK g \in Grants : g = o.grant
    BY <1>2 DEF Shape
<1> DEFINE i == IF Present(g) THEN row[g].id ELSE 0
           next == [o EXCEPT !.found = i]
<1>4. CASE Present(g) \/ (o.kind = "decide" /\ flow[g] = "ciba")
    <2>1. i \in Nat /\ (Present(g) => i \in 1..inserts[g])
        BY <1>3 DEF IInv, TypeOK, GrantInv, Present, Rows
    <2>2. PICK l \in Locals : /\ l = next /\ l.kind = o.kind /\ l.grant = g /\ l.row = o.row
                              /\ l.replay = o.replay /\ l.found = i
                              /\ l.alone = o.alone /\ l.polite = o.polite
        <3> HIDE DEF i
        <3>1. /\ next \in Locals /\ next.kind = o.kind /\ next.grant = g /\ next.row = o.row
              /\ next.replay = o.replay /\ next.found = i
              /\ next.alone = o.alone /\ next.polite = o.polite
            BY <1>3, <2>1 DEF Locals
        <3> HIDE DEF next
        <3> QED
            BY <3>1
    <2>3. Shape("save", l)
        <3>1. l.kind = "poll" => l.found \in 1..inserts[g]
            BY <1>4, <2>1, <2>2
        <3>2. l.kind # "poll" => (ByDevice(g) => l.found # 0)
            BY <1>4, <2>1, <2>2 DEF ByDevice, IInv, TypeOK
        <3> HIDE DEF i
        <3> QED
            BY <1>2, <1>3, <2>2, <3>1, <3>2 DEF Shape, Early
    <2>4. \/ Goto(r, "save", l) /\ UNCHANGED answered
          \/ Goto(r, "answer", o) /\ UNCHANGED answered /\ ~Present(g) /\ o.kind = "poll"
          \/ End(r)
        BY <1>1, <1>3, <2>2 DEF Query
    <2>5. (~Present(g) /\ o.kind = "poll") => FALSE
        BY <1>4
    <2> QED
        BY <1>1, <1>3, <2>2, <2>3, <2>4, <2>5 DEF Query
<1>5. CASE ~Present(g) /\ ~(o.kind = "decide" /\ flow[g] = "ciba")
    <2>1. \/ End(r)
          \/ Goto(r, "answer", o) /\ UNCHANGED answered /\ o.kind = "poll"
        BY <1>1, <1>3, <1>5 DEF Query
    <2>2. o.kind = "poll" => Shape("answer", o)
        BY <1>2, <1>3, <1>5 DEF Shape, Gone, Early
    <2> QED
        BY <1>1, <2>1, <2>2 DEF Query
<1> QED
    BY <1>4, <1>5

LEMMA QueryOK ==
    ASSUME IInv, NEW r \in Requests, Query(r)
    PROVE  IInv'
<1>1. /\ UNCHANGED <<settings, now, table, seen, final, passed>> /\ pc[r] # "idle"
      /\ seen' \in [Grants -> Entries \union {None}]
      /\ passed' \in [Grants -> Nat \union {None}]
    BY QueryStep DEF Query, IInv, TypeOK
<1>2. CASE End(r)
    BY <1>1, <1>2, EndOK
<1>3. CASE ~End(r)
    <2>1. PICK p \in {"save", "answer"}, l \in Locals :
            Goto(r, p, l) /\ UNCHANGED answered /\ Shape(p, l)
        BY <1>3, QueryStep
    <2>2. p \in PCs /\ answered' \in [Grants -> Nat \union {None}]
        BY <2>1 DEF PCs, IInv, TypeOK
    <2> QED
        BY <1>1, <2>1, <2>2, ControlOK
<1> QED
    BY <1>2, <1>3

\* Steps that change the table for one grant.
LEMMA TableStep ==
    ASSUME IInv, UNCHANGED <<settings, now, seen, final, passed>>,
           NEW g \in Grants, inserts[g] > 0,
           row' \in [Grants -> Rows \union {None}], inserts' \in [Grants -> Nat],
           \A h \in Grants : h # g => row'[h] = row[h] /\ inserts'[h] = inserts[h],
           inserts[g] <= inserts'[g],
           Present(g)' => row'[g].id \in 1..inserts'[g] /\ row'[g].created = 0,
           ByDevice(g) => inserts'[g] <= 1,
           Gone(g) => Gone(g)',
           answered' \in [Grants -> Nat \union {None}],
           pc' \in [Requests -> PCs], loc' \in [Requests -> Locals],
           \A q \in Requests : \/ pc'[q] = pc[q] /\ loc'[q] = loc[q]
                               \/ Shape(pc[q], loc[q])'
    PROVE  IInv'
<1>1. TypeOK'
    BY DEF IInv, TypeOK, PCs, settings
<1>2. inserts[g] \in Nat /\ inserts'[g] \in Nat /\ flow' = flow
    BY DEF IInv, TypeOK, settings
<1>3. GrantInv'
    <2> SUFFICES ASSUME NEW h \in Grants
                 PROVE  /\ Present(h)' => row'[h].id \in 1..inserts'[h] /\ row'[h].created = 0
                        /\ ByDevice(h)' => inserts'[h] <= 1
                        /\ h \in final' => inserts'[h] > 0 /\ Gone(h)'
        BY DEF GrantInv
    <2>1. CASE h = g
        BY <1>2, <2>1 DEF IInv, GrantInv, ByDevice
    <2>2. CASE h # g
        BY <1>2, <2>2 DEF IInv, GrantInv, Gone, Present, ByDevice
    <2> QED
        BY <2>1, <2>2
<1>4. \A h \in Grants : inserts[h] > 0 => inserts[h] <= inserts'[h] /\ (Gone(h) => Gone(h)')
    BY <1>2 DEF Gone, Present, IInv, TypeOK
<1> QED
    BY <1>1, <1>2, <1>3, <1>4, StepOK

LEMMA SaveRemovalOK ==
    ASSUME IInv, NEW r \in Requests, SaveRemoval(r)
    PROVE  IInv'
<1>1. PICK l \in Locals : l = loc[r]
    BY DEF IInv, TypeOK
<1>2. /\ pc[r] = "save" /\ l.kind = "poll" /\ Shape("save", l)
      /\ row' = IF StillThere(l) THEN [row EXCEPT ![l.grant] = None] ELSE row
      /\ Goto(r, "answer", l) /\ "answer" \in PCs
      /\ UNCHANGED <<settings, now, inserts, seen, history>>
    BY <1>1 DEF SaveRemoval, IInv, PCs
<1>3. PICK g \in Grants : g = l.grant /\ inserts[g] > 0
    BY <1>2 DEF Shape
<1>4. /\ row' \in [Grants -> Rows \union {None}]
      /\ \A h \in Grants : h # g => row'[h] = row[h]
      /\ row'[g] = row[g] \/ row'[g] = None
    BY <1>2, <1>3 DEF IInv, TypeOK
<1>5. Gone(g)'
    <2>1. CASE StillThere(l)
        <3>1. row' = [row EXCEPT ![g] = None]
            BY <1>2, <1>3, <2>1
        <3>2. row'[g] = None
            BY <3>1 DEF IInv, TypeOK
        <3> QED
            BY <3>2 DEF Gone, Present
    <2>2. CASE ~StillThere(l)
        <3>1. row' = row /\ l.found \in 1..inserts[g] /\ (Present(g) => row[g].id # l.found)
            BY <1>2, <1>3, <2>2 DEF StillThere, Shape
        <3>2. Present(g) => row[g].id \in 1..inserts[g]
            BY DEF IInv, GrantInv
        <3>3. inserts[g] \in Nat
            BY DEF IInv, TypeOK
        <3>4. Present(g) => inserts[g] > 1
            BY <3>1, <3>2, <3>3
        <3>5. Present(g) => flow[g] = "ciba"
            BY <3>3, <3>4 DEF IInv, TypeOK, GrantInv, ByDevice, Flows
        <3> QED
            BY <1>2, <3>1, <3>4, <3>5 DEF Gone, Present, settings
    <2> QED
        BY <2>1, <2>2
<1>6. Shape("answer", l)'
    <2>1. inserts' = inserts /\ flow' = flow
        BY <1>2 DEF settings
    <2> QED
        BY <1>2, <1>3, <1>5, <2>1 DEF Shape, Early
<1>7. /\ pc' \in [Requests -> PCs] /\ loc' \in [Requests -> Locals]
      /\ \A q \in Requests : (pc'[q] = pc[q] /\ loc'[q] = loc[q]) \/ Shape(pc[q], loc[q])'
    BY <1>2, <1>6, GotoType DEF IInv
<1>8. /\ inserts[g] <= inserts'[g]
      /\ Present(g)' => row'[g].id \in 1..inserts'[g] /\ row'[g].created = 0
      /\ ByDevice(g) => inserts'[g] <= 1
      /\ inserts' \in [Grants -> Nat] /\ answered' \in [Grants -> Nat \union {None}]
      /\ final' = final /\ passed' = passed
      /\ \A h \in Grants : inserts'[h] = inserts[h]
    BY <1>2, <1>4 DEF IInv, TypeOK, GrantInv, Present, history
<1> QED
    BY <1>2, <1>3, <1>4, <1>5, <1>7, <1>8, TableStep

LEMMA SaveDecisionOK ==
    ASSUME IInv, NEW r \in Requests, SaveDecision(r)
    PROVE  IInv'
<1>1. PICK l \in Locals : l = loc[r]
    BY DEF IInv, TypeOK
<1>2. /\ pc[r] = "save" /\ l.kind = "decide" /\ Shape("save", l) /\ End(r)
      /\ UNCHANGED <<settings, now, seen, final, passed>>
    BY <1>1 DEF SaveDecision, IInv
<1>3. PICK g \in Grants : g = l.grant /\ inserts[g] > 0
    BY <1>2 DEF Shape
<1>4. l.row \in Rows /\ l.row.created = 0 /\ l.found \in Nat
    BY <1>2 DEF Shape, Locals
<1>5. /\ inserts[g] \in Nat /\ row \in [Grants -> Rows \union {None}]
      /\ inserts \in [Grants -> Nat]
    BY DEF IInv, TypeOK
<1> DEFINE new(i) == [l.row EXCEPT !.id = i]
<1>6. \A i \in Nat : new(i) \in Rows /\ new(i).id = i /\ new(i).created = 0
    BY <1>4 DEF Rows
<1> HIDE DEF new
<1>7. /\ row' \in [Grants -> Rows \union {None}] /\ inserts' \in [Grants -> Nat]
      /\ \A h \in Grants : h # g => row'[h] = row[h] /\ inserts'[h] = inserts[h]
      /\ inserts[g] <= inserts'[g]
      /\ Present(g)' => row'[g].id \in 1..inserts'[g] /\ row'[g].created = 0
      /\ ByDevice(g) => inserts'[g] <= 1
      /\ Gone(g) => Gone(g)'
    <2>1. CASE l.found # 0 /\ StillThere(l)
        <3>1. row' = [row EXCEPT ![g] = new(l.found)] /\ inserts' = inserts
            BY <1>1, <1>3, <2>1 DEF SaveDecision, StillThere, new
        <3>2. Present(g) /\ row[g].id = l.found
            BY <1>3, <2>1 DEF StillThere
        <3>3. row'[g] = new(l.found) /\ l.found \in 1..inserts[g]
            BY <1>5, <3>1, <3>2 DEF IInv, GrantInv
        <3> QED
            BY <1>2, <1>4, <1>5, <1>6, <3>1, <3>2, <3>3
            DEF Gone, Present, IInv, GrantInv, settings
    <2>2. CASE l.found = 0 /\ ~Present(g) /\ inserts' # inserts
        <3>1. /\ row' = [row EXCEPT ![g] = new(inserts[g] + 1)]
              /\ inserts' = [inserts EXCEPT ![g] = @ + 1]
            BY <1>1, <1>3, <2>2 DEF SaveDecision, table, new
        <3>2. inserts[g] + 1 \in Nat /\ inserts'[g] = inserts[g] + 1
            BY <1>5, <3>1
        <3>3. row'[g] = new(inserts[g] + 1)
            BY <1>5, <3>1
        <3>4. ~ByDevice(g) /\ flow[g] = "ciba"
            BY <1>2, <1>3, <2>2 DEF Shape, ByDevice, IInv, TypeOK, Flows
        <3>5. Gone(g)'
            BY <1>2, <1>3, <1>5, <3>2, <3>4 DEF Gone, settings
        <3>6. inserts[g] + 1 \in 1..inserts'[g]
            BY <1>5, <3>2
        <3> QED
            BY <1>5, <1>6, <3>1, <3>2, <3>3, <3>4, <3>5, <3>6
    <2>3. CASE UNCHANGED table
        BY <1>2, <1>5, <2>3 DEF table, settings, Gone, Present, IInv, GrantInv
    <2> QED
        BY <1>1, <1>3, <1>5, <2>1, <2>2, <2>3 DEF SaveDecision, table
<1>8. /\ Goto(r, "idle", NoLocals) /\ "idle" \in PCs /\ NoLocals \in Locals
      /\ answered' \in [Grants -> Nat \union {None}]
    BY <1>2, EndType
<1>9. Shape("idle", NoLocals)'
    BY NoLocalsType DEF Shape, Early
<1>10. /\ pc' \in [Requests -> PCs] /\ loc' \in [Requests -> Locals]
       /\ \A q \in Requests : (pc'[q] = pc[q] /\ loc'[q] = loc[q]) \/ Shape(pc[q], loc[q])'
    BY <1>8, <1>9, GotoType DEF IInv
<1> QED
    BY <1>2, <1>3, <1>7, <1>8, <1>10, TableStep

LEMMA AnswerOK ==
    ASSUME IInv, NEW r \in Requests, Answer(r)
    PROVE  IInv'
<1>1. PICK l \in Locals : l = loc[r]
    BY DEF IInv, TypeOK
<1>2. /\ pc[r] = "answer" /\ Shape("answer", l) /\ final' = final \union {l.grant}
      /\ End(r) /\ UNCHANGED <<settings, now, table, seen, passed>>
    BY <1>1 DEF Answer, IInv
<1>3. l.grant \in Grants /\ inserts[l.grant] > 0 /\ Gone(l.grant)
    BY <1>2 DEF Shape
<1>4. /\ Goto(r, "idle", NoLocals) /\ "idle" \in PCs /\ NoLocals \in Locals
      /\ answered' \in [Grants -> Nat \union {None}]
    BY <1>2, EndType
<1>5. TypeOK'
    BY <1>2, <1>3, <1>4, ControlType DEF IInv, TypeOK
<1>6. GrantInv' /\ flow' = flow
    BY <1>2, <1>3 DEF IInv, GrantInv, Gone, Present, ByDevice, settings, table
<1>7. \A g \in Grants : inserts[g] > 0 => inserts[g] <= inserts'[g] /\ (Gone(g) => Gone(g)')
    BY <1>2 DEF Gone, Present, IInv, TypeOK, settings, table
<1>8. Shape("idle", NoLocals)'
    BY NoLocalsType DEF Shape, Early
<1>9. \A q \in Requests : (pc'[q] = pc[q] /\ loc'[q] = loc[q]) \/ Shape(pc[q], loc[q])'
    BY <1>4, <1>8, GotoType DEF IInv
<1> QED
    BY <1>5, <1>6, <1>7, <1>9, StepOK

LEMMA AbortOK ==
    ASSUME IInv, NEW r \in Requests, Abort(r)
    PROVE  IInv'
BY EndOK DEF Abort, IInv, TypeOK

LEMMA CleanUpOK ==
    ASSUME IInv, NEW g \in Grants, CleanUp(g)
    PROVE  IInv'
<1>1. /\ row' = [row EXCEPT ![g] = None] /\ Present(g)
      /\ UNCHANGED <<settings, now, inserts, seen, pc, loc, history>>
    BY DEF CleanUp
<1>2. /\ row' \in [Grants -> Rows \union {None}] /\ inserts \in [Grants -> Nat]
      /\ inserts' \in [Grants -> Nat] /\ inserts[g] > 0
      /\ pc' \in [Requests -> PCs] /\ loc' \in [Requests -> Locals]
      /\ answered' \in [Grants -> Nat \union {None}]
    BY <1>1 DEF IInv, TypeOK, GrantInv, PCs, history
<1>3. \A h \in Grants : h # g => row'[h] = row[h] /\ inserts'[h] = inserts[h]
    BY <1>1
<1>4. row'[g] = None /\ inserts[g] <= inserts'[g] /\ (ByDevice(g) => inserts'[g] <= 1)
    BY <1>1 DEF IInv, TypeOK, GrantInv
<1>5. ~Present(g)' /\ Gone(g)'
    BY <1>4 DEF Present, Gone
<1>6. \A q \in Requests : pc'[q] = pc[q] /\ loc'[q] = loc[q]
    BY <1>1
<1> QED
    BY <1>1, <1>2, <1>3, <1>4, <1>5, <1>6, TableStep DEF history

LEMMA TickOK ==
    ASSUME IInv, Tick
    PROVE  IInv'
<1>1. /\ now' = now + 1
      /\ seen' = [g \in Grants |-> IF seen[g] # None /\ seen[g].expires <= now'
                                  THEN None ELSE seen[g]]
      /\ answered' = [g \in Grants |-> IF answered[g] # None /\ answered[g] + Told(g) <= now'
                                      THEN None ELSE answered[g]]
      /\ UNCHANGED <<settings, table, pc, loc, final, passed>>
    BY DEF Tick
<1>2. TypeOK'
    BY <1>1 DEF IInv, TypeOK, settings, table
<1>3. GrantInv' /\ flow' = flow
    BY <1>1 DEF IInv, GrantInv, Gone, Present, ByDevice, settings, table
<1>4. \A g \in Grants : inserts[g] > 0 => inserts[g] <= inserts'[g] /\ (Gone(g) => Gone(g)')
    BY <1>1 DEF Gone, Present, IInv, TypeOK, settings, table
<1> QED
    BY <1>1, <1>2, <1>3, <1>4, StepOK

LEMMA InitOK == Init => IInv
<1> SUFFICES ASSUME Init PROVE IInv
    OBVIOUS
<1>1. TypeOK
    BY NoLocalsType DEF Init, TypeOK
<1>2. GrantInv
    BY DEF Init, GrantInv, Present
<1> QED
    BY <1>1, <1>2, IdleShape DEF Init, IInv

LEMMA NextOK == IInv /\ [Next]_vars => IInv'
<1> SUFFICES ASSUME IInv, [Next]_vars PROVE IInv'
    OBVIOUS
<1>1. ASSUME NEW g \in Grants, Authorize(g) \/ CleanUp(g) PROVE IInv'
    BY <1>1, AuthorizeOK, CleanUpOK
<1>2. ASSUME NEW r \in Requests, NEW g \in Grants, Poll(r, g) \/ Decide(r, g) PROVE IInv'
    BY <1>2, PollOK, DecideOK
<1>3. ASSUME NEW r \in Requests, Look(r) \/ Judge(r) \/ Record(r) \/ Query(r) PROVE IInv'
    BY <1>3, LookOK, RecordOK, QueryOK
<1>4. ASSUME NEW r \in Requests, SaveRemoval(r) \/ SaveDecision(r) \/ Answer(r) \/ Abort(r)
      PROVE  IInv'
    BY <1>4, SaveRemovalOK, SaveDecisionOK, AnswerOK, AbortOK
<1>5. CASE Tick
    BY <1>5, TickOK
<1>6. CASE UNCHANGED vars
    BY <1>6 DEF vars, settings, table, history, IInv, TypeOK, GrantInv, Gone, Present,
                ByDevice, Shape
<1> QED
    BY <1>1, <1>2, <1>3, <1>4, <1>5, <1>6 DEF Next

\* The strengthening of the next two theorems is an invariant of every run.
THEOREM Invariance == Spec => []IInv
BY InitOK, NextOK, PTL DEF Spec

\* The state of grants, cache and requests is always of its type.
THEOREM TypeCorrect == Spec => []TypeOK
<1>1. IInv => TypeOK
    BY DEF IInv
<1> QED
    BY Invariance, <1>1, PTL

\* A poll that arrives after another was answered with tokens comes to no
\* answer of its own, whatever polls, decisions, failures and cleanups did
\* meanwhile, but for a CIBA request that was inserted again.
THEOREM PollAnsweredOnce == Spec => []AnsweredOnce
<1>1. IInv => AnsweredOnce
    BY DEF IInv, Shape, AnsweredOnce
<1> QED
    BY Invariance, <1>1, PTL

-----------------------------------------------------------------------------
(* The refinement of OneTimeGrants by the device codes. *)

Issued == {g \in Grants : inserts[g] > 0 /\ ByDevice(g)}
LiveGrants == {g \in Grants : Present(g) /\ ByDevice(g)}
Spent == {g \in final : ByDevice(g)}
Holder == [r \in Requests |-> Held(r)]

\* What a request with the locals l holds.
HeldAt(l) == IF l.kind = "poll" /\ l.grant # None /\ ByDevice(l.grant)
             THEN l.grant ELSE None

LEMMA HolderStep ==
    ASSUME TypeOK, flow' = flow, NEW r \in Requests, NEW p \in PCs, NEW l \in Locals,
           Goto(r, p, l)
    PROVE  /\ Holder' = [Holder EXCEPT ![r] = HeldAt(l)]
           /\ Holder[r] = HeldAt(loc[r])
           /\ HeldAt(l) = HeldAt(loc[r]) => Holder' = Holder
<1>1. loc'[r] = l /\ \A q \in Requests : q # r => loc'[q] = loc[q]
    BY GotoType
<1>2. HeldAt(l)' = HeldAt(l)
    BY DEF HeldAt, ByDevice
<1>3. \A q \in Requests : Held(q) = HeldAt(loc[q]) /\ Held(q)' = HeldAt(loc'[q])
    BY DEF Held, HeldAt, ByDevice
<1> QED
    BY <1>1, <1>2, <1>3 DEF Holder

LEMMA NothingHeld == HeldAt(NoLocals) = None
BY NoLocalsType DEF HeldAt

\* A step that retires device codes, lets a poll go or does neither.
LEMMA RetireRefines ==
    ASSUME TypeOK, UNCHANGED settings, Issued' = Issued, Spent' = Spent,
           LiveGrants' \subseteq LiveGrants,
           NEW r \in Requests, NEW p \in PCs, NEW l \in Locals, Goto(r, p, l),
           HeldAt(l) \in {None, HeldAt(loc[r])}
    PROVE  Abstract!Next
<1>1. Holder' = Holder \/ Holder' = [Holder EXCEPT ![r] = None]
    BY HolderStep DEF settings
<1> QED
    BY <1>1 DEF Issued, LiveGrants, Spent, Holder, Abstract!Next, Abstract!Retire

LEMMA StoreSame ==
    ASSUME UNCHANGED <<settings, table, final>>
    PROVE  Issued' = Issued /\ LiveGrants' = LiveGrants /\ Spent' = Spent
BY DEF Issued, LiveGrants, Spent, Present, ByDevice, settings, table

\* A request goes on with its grant or is over; the table stays.
LEMMA ControlRefines ==
    ASSUME IInv, UNCHANGED <<settings, table, final>>, NEW r \in Requests,
           \/ pc[r] # "idle" /\ End(r)
           \/ \E p \in PCs, l \in Locals :
                 Goto(r, p, l) /\ HeldAt(l) \in {None, HeldAt(loc[r])}
    PROVE  Abstract!Next
<1>1. PICK p \in PCs, l \in Locals :
        Goto(r, p, l) /\ HeldAt(l) \in {None, HeldAt(loc[r])}
    BY EndType, NothingHeld
<1> QED
    BY <1>1, StoreSame, RetireRefines DEF IInv

\* A poll claims the device code it found.
LEMMA PollRefines ==
    ASSUME IInv, NEW r \in Requests, NEW g \in Grants, Poll(r, g)
    PROVE  Abstract!Next
<1>1. /\ pc[r] = "idle" /\ Present(g) /\ loc' \in [Requests -> Locals]
      /\ UNCHANGED <<settings, now, table, seen, history>>
    BY PollStep
<1>2. /\ loc'[r].kind = "poll" /\ loc'[r].grant = g
      /\ \A q \in Requests : q # r => loc'[q].kind = loc[q].kind /\ loc'[q].grant = loc[q].grant
    BY PollStep
<1>3. g # None /\ flow' = flow
    BY <1>1, PollingAssumption DEF settings
<1>4. loc[r] = NoLocals
    BY <1>1 DEF IInv, Shape
<1>5. /\ Holder[r] = None
      /\ Holder' = [Holder EXCEPT ![r] = IF ByDevice(g) THEN g ELSE None]
    <2>1. Held(r) = None
        BY <1>4, NoLocalsType DEF Held
    <2>2. Held(r)' = IF ByDevice(g) THEN g ELSE None
        BY <1>2, <1>3 DEF Held, ByDevice
    <2>3. \A q \in Requests : q # r => Held(q)' = Held(q)
        BY <1>2, <1>3 DEF Held, ByDevice
    <2> QED
        BY <2>1, <2>2, <2>3 DEF Holder
<1>6. Issued' = Issued /\ LiveGrants' = LiveGrants /\ Spent' = Spent
    BY <1>1, StoreSame DEF history
<1>7. CASE ByDevice(g)
    <2>1. g \in LiveGrants
        BY <1>1, <1>7 DEF LiveGrants
    <2> QED
        BY <1>5, <1>6, <1>7, <2>1
        DEF Issued, LiveGrants, Spent, Holder, Abstract!Next, Abstract!Claim
<1>8. CASE ~ByDevice(g)
    BY <1>5, <1>6, <1>8
    DEF Issued, LiveGrants, Spent, Holder, Abstract!Next, Abstract!Retire
<1> QED
    BY <1>7, <1>8

LEMMA EarlyRefines ==
    ASSUME IInv, NEW r \in Requests, Look(r) \/ Judge(r) \/ Query(r) \/ Record(r)
    PROVE  Abstract!Next
<1>1. UNCHANGED <<settings, table, final>> /\ pc[r] # "idle" /\ loc[r] \in Locals
    BY DEF Look, Judge, Query, Record, history, IInv, TypeOK
<1>2. CASE Look(r) \/ Judge(r)
    <2>1. PICK l \in Locals :
            /\ Goto(r, IF pc[r] = "look" THEN "judge" ELSE "record", l)
            /\ l.kind = loc[r].kind /\ l.grant = loc[r].grant
        BY <1>2, LookOK
    <2>2. HeldAt(l) = HeldAt(loc[r])
        BY <2>1 DEF HeldAt
    <2>3. (IF pc[r] = "look" THEN "judge" ELSE "record") \in PCs
        BY DEF PCs
    <2> QED
        BY <1>1, <2>1, <2>2, <2>3, ControlRefines
<1>3. CASE Query(r)
    <2>1. CASE End(r)
        BY <1>1, <2>1, ControlRefines
    <2>2. CASE ~End(r)
        <3>1. PICK p \in {"save", "answer"}, l \in Locals :
                Goto(r, p, l) /\ l.kind = loc[r].kind /\ l.grant = loc[r].grant
            BY <1>3, <2>2, QueryStep
        <3>2. HeldAt(l) = HeldAt(loc[r]) /\ p \in PCs
            BY <3>1 DEF HeldAt, PCs
        <3> QED
            BY <1>1, <3>1, <3>2, ControlRefines
    <2> QED
        BY <2>1, <2>2
<1>4. CASE Record(r)
    <2>1. PICK l \in Locals : l = loc[r]
        BY <1>1
    <2>2. /\ Shape(pc[r], l) /\ l.kind = "poll"
          /\ End(r) \/ Respond(r, l)
        BY <1>4, <2>1 DEF Record, IInv, Shape, Locals
    <2>3. CASE End(r)
        BY <1>1, <2>3, ControlRefines
    <2>4. CASE ~End(r)
        <3>1. /\ Goto(r, "query", Kept(l)) /\ Kept(l) \in Locals
              /\ Kept(l).kind = "poll" /\ Kept(l).grant = l.grant
            BY <1>1, <2>2, <2>4, RespondStep
        <3>2. HeldAt(Kept(l)) = HeldAt(loc[r]) /\ "query" \in PCs
            BY <2>1, <2>2, <3>1 DEF HeldAt, PCs
        <3> QED
            BY <1>1, <3>1, <3>2, ControlRefines
    <2> QED
        BY <2>3, <2>4
<1> QED
    BY <1>2, <1>3, <1>4

LEMMA DecideRefines ==
    ASSUME IInv, NEW r \in Requests, NEW g \in Grants, Decide(r, g)
    PROVE  Abstract!Next
<1>1. PICK l \in Locals : Goto(r, "query", l) /\ l.kind = "decide" /\ "query" \in PCs
    BY DecideStep
<1>2. HeldAt(l) = None
    BY <1>1 DEF HeldAt
<1>3. UNCHANGED <<settings, table, final>>
    BY DecideStep DEF history
<1> QED
    BY <1>1, <1>2, <1>3, ControlRefines

LEMMA AuthorizeRefines ==
    ASSUME IInv, NEW g \in Grants, Authorize(g)
    PROVE  Abstract!Next
<1>1. /\ inserts[g] = 0 /\ inserts' = [inserts EXCEPT ![g] = 1]
      /\ \A h \in Grants : h # g => row'[h] = row[h]
      /\ UNCHANGED <<settings, loc, final>>
    BY DEF Authorize, IInv, TypeOK, history
<1>2. Spent' = Spent /\ Holder' = Holder
    BY <1>1 DEF Spent, Holder, Held, ByDevice, settings
<1>3. \A h \in Grants : h # g => (h \in Issued' <=> h \in Issued)
                              /\ (h \in LiveGrants' <=> h \in LiveGrants)
    BY <1>1 DEF Issued, LiveGrants, ByDevice, Present, settings, IInv, TypeOK
<1>4. CASE ByDevice(g)
    <2>1. g \notin Issued /\ g \in Issued'
        BY <1>1, <1>4 DEF Issued, ByDevice, settings, IInv, TypeOK
    <2>2. Issued' = Issued \union {g}
        BY <1>3, <2>1 DEF Issued
    <2>3. g \notin LiveGrants
        BY <1>1 DEF LiveGrants, IInv, TypeOK, GrantInv
    <2>4. LiveGrants' \in {LiveGrants, LiveGrants \union {g}}
        BY <1>3, <2>3 DEF LiveGrants
    <2> QED
        BY <1>2, <2>1, <2>2, <2>4
        DEF Issued, LiveGrants, Spent, Holder, Abstract!Next, Abstract!Issue
<1>5. CASE ~ByDevice(g)
    <2>1. g \notin Issued /\ g \notin Issued' /\ g \notin LiveGrants /\ g \notin LiveGrants'
        BY <1>1, <1>5 DEF Issued, LiveGrants, ByDevice, settings
    <2>2. Issued' = Issued /\ LiveGrants' = LiveGrants
        BY <1>3, <2>1 DEF Issued, LiveGrants
    <2> QED
        BY <1>2, <2>2 DEF Issued, LiveGrants, Spent, Holder, Abstract!Next, Abstract!Retire
<1> QED
    BY <1>4, <1>5

\* Rows of device codes are removed and updated, and never inserted again.
LEMMA SaveRefines ==
    ASSUME IInv, NEW r \in Requests, SaveRemoval(r) \/ SaveDecision(r)
    PROVE  Abstract!Next
<1>1. PICK l \in Locals : l = loc[r]
    BY DEF IInv, TypeOK
<1>2. PICK g \in Grants : g = l.grant /\ Shape("save", l) /\ pc[r] = "save" /\ inserts[g] > 0
    BY <1>1 DEF SaveRemoval, SaveDecision, IInv, Shape
<1>3. /\ row \in [Grants -> Rows \union {None}] /\ inserts \in [Grants -> Nat] /\ TypeOK
      /\ UNCHANGED <<settings, final>>
    BY DEF SaveRemoval, SaveDecision, history, IInv, TypeOK
<1>4. /\ \A h \in Grants : h # g => row'[h] = row[h] /\ inserts'[h] = inserts[h]
      /\ ByDevice(g) => inserts'[g] = inserts[g] /\ (Present(g)' => Present(g))
    <2>1. CASE SaveRemoval(r)
        BY <1>1, <1>2, <1>3, <2>1 DEF SaveRemoval, Present
    <2>2. CASE SaveDecision(r)
        <3>1. l.kind = "decide" /\ (ByDevice(g) => l.found # 0)
            BY <1>1, <1>2, <2>2 DEF SaveDecision, Shape
        <3> QED
            BY <1>1, <1>2, <1>3, <2>2, <3>1 DEF SaveDecision, StillThere, Present, table
    <2> QED
        BY <2>1, <2>2
<1>5. Issued' = Issued /\ LiveGrants' \subseteq LiveGrants /\ Spent' = Spent
    <2>1. \A h \in Grants : ByDevice(h)' = ByDevice(h)
        BY <1>3 DEF ByDevice, settings
    <2>2. \A h \in Grants : ByDevice(h) =>
             inserts'[h] = inserts[h] /\ (Present(h)' => Present(h))
        BY <1>4 DEF Present
    <2>3. Spent' = Spent
        BY <1>3 DEF Spent, ByDevice, settings
    <2> QED
        BY <2>1, <2>2, <2>3 DEF Issued, LiveGrants
<1>6. \E p \in PCs, m \in Locals : Goto(r, p, m) /\ HeldAt(m) \in {None, HeldAt(loc[r])}
    <2>1. CASE SaveRemoval(r)
        BY <1>1, <2>1 DEF SaveRemoval, PCs
    <2>2. CASE SaveDecision(r)
        BY <1>2, <2>2, EndType, NothingHeld DEF SaveDecision
    <2> QED
        BY <2>1, <2>2
<1> QED
    BY <1>3, <1>5, <1>6, RetireRefines

\* A poll is answered for a code that is gone.
LEMMA AnswerRefines ==
    ASSUME IInv, NEW r \in Requests, Answer(r)
    PROVE  Abstract!Next
<1>1. PICK l \in Locals : l = loc[r]
    BY DEF IInv, TypeOK
<1>2. /\ pc[r] = "answer" /\ Shape("answer", l) /\ final' = final \union {l.grant}
      /\ End(r) /\ UNCHANGED <<settings, now, table, seen, passed>> /\ TypeOK
    BY <1>1 DEF Answer, IInv
<1>3. PICK g \in Grants : g = l.grant /\ Gone(g) /\ g # None /\ l.kind = "poll"
    BY <1>2, PollingAssumption DEF Shape, Locals
<1>4. Goto(r, "idle", NoLocals) /\ "idle" \in PCs /\ NoLocals \in Locals
    BY <1>2, EndType
<1>5. /\ Issued' = Issued /\ LiveGrants' = LiveGrants
      /\ Spent' = IF ByDevice(g) THEN Spent \union {g} ELSE Spent
    BY <1>2, <1>3 DEF Issued, LiveGrants, Spent, Present, ByDevice, settings, table
<1>6. CASE ByDevice(g)
    <2>1. HeldAt(l) = g
        BY <1>3, <1>6 DEF HeldAt
    <2>2. Holder' = [Holder EXCEPT ![r] = None] /\ Holder[r] = g
        BY <1>1, <1>2, <1>4, <2>1, NothingHeld, HolderStep DEF settings
    <2>3. g \notin LiveGrants
        BY <1>3, <1>6 DEF LiveGrants, Gone, ByDevice
    <2> QED
        BY <1>3, <1>5, <1>6, <2>2, <2>3
        DEF Issued, LiveGrants, Spent, Holder, Abstract!Next, Abstract!Answer
<1>7. CASE ~ByDevice(g)
    BY <1>2, <1>4, <1>5, <1>7, NothingHeld, RetireRefines
<1> QED
    BY <1>6, <1>7

LEMMA CleanUpRefines ==
    ASSUME IInv, NEW g \in Grants, CleanUp(g)
    PROVE  Abstract!Next
<1>1. /\ \A h \in Grants : row'[h] = row[h] \/ row'[h] = None
      /\ UNCHANGED <<settings, inserts, loc, final>>
    BY DEF CleanUp, IInv, TypeOK, history
<1>2. /\ Issued' = Issued /\ Spent' = Spent /\ LiveGrants' \subseteq LiveGrants
      /\ Holder' = Holder
    BY <1>1 DEF Issued, LiveGrants, Spent, Holder, Held, Present, ByDevice, settings
<1> QED
    BY <1>2 DEF Issued, LiveGrants, Spent, Holder, Abstract!Next, Abstract!Retire

LEMMA IdleRefines ==
    ASSUME UNCHANGED <<settings, table, loc, final>>
    PROVE  Abstract!Next
<1>1. Holder' = Holder
    BY DEF Holder, Held, ByDevice, settings
<1> QED
    BY <1>1, StoreSame DEF Issued, LiveGrants, Spent, Holder, Abstract!Next, Abstract!Retire

LEMMA InitRefines == Init => Abstract!Init
<1> SUFFICES ASSUME Init PROVE Abstract!Init
    OBVIOUS
<1>1. \A r \in Requests : Held(r) = None
    BY NoLocalsType DEF Init, Held
<1> QED
    BY <1>1 DEF Init, Present, Abstract!Init

LEMMA NextRefines == IInv /\ [Next]_vars => Abstract!Next
<1> SUFFICES ASSUME IInv, [Next]_vars PROVE Abstract!Next
    OBVIOUS
<1>1. ASSUME NEW g \in Grants, Authorize(g) \/ CleanUp(g) PROVE Abstract!Next
    BY <1>1, AuthorizeRefines, CleanUpRefines
<1>2. ASSUME NEW r \in Requests, NEW g \in Grants, Poll(r, g) \/ Decide(r, g)
      PROVE  Abstract!Next
    BY <1>2, PollRefines, DecideRefines
<1>3. ASSUME NEW r \in Requests, Look(r) \/ Judge(r) \/ Record(r) \/ Query(r)
      PROVE  Abstract!Next
    BY <1>3, EarlyRefines
<1>4. ASSUME NEW r \in Requests, SaveRemoval(r) \/ SaveDecision(r) \/ Answer(r)
      PROVE  Abstract!Next
    BY <1>4, SaveRefines, AnswerRefines
<1>5. ASSUME NEW r \in Requests, Abort(r) PROVE Abstract!Next
    BY <1>5, ControlRefines DEF Abort
<1>6. CASE Tick \/ UNCHANGED vars
    BY <1>6, IdleRefines DEF Tick, vars, settings, table
<1> QED
    BY <1>1, <1>2, <1>3, <1>4, <1>5, <1>6 DEF Next

\* Device codes are one-time grants: a poll claims one only while its row is
\* stored and is answered with tokens only when the row is gone for good.
THEOREM Implementation == Spec => ImplementsOneTimeGrants
<1>1. IInv /\ [Next]_vars => [Abstract!Next]_(Abstract!vars)
    BY NextRefines
<1> QED
    BY Invariance, InitRefines, <1>1, PTL DEF Spec, ImplementsOneTimeGrants, Abstract!Spec

-----------------------------------------------------------------------------
(* The interval.  Each step preserves TInv. *)

LEMMA Numbers ==
    ASSUME TypeOK, NEW g \in Grants
    PROVE  /\ now \in Nat /\ Lifetime \in Nat /\ Enforced(g) \in Nat /\ Told(g) \in Nat
           /\ seen[g] # None => seen[g].at \in Nat /\ seen[g].expires \in Nat
           /\ passed[g] # None => passed[g] \in Nat
           /\ answered[g] # None => answered[g] \in Nat
           /\ None \notin Nat
BY IntervalTypes, PollingAssumption DEF TypeOK, Entries

LEMMA PacedSame ==
    ASSUME UNCHANGED <<settings, now, seen, passed>>, NEW p, NEW l, NEW g, Paced(p, l, g)
    PROVE  Paced(p, l, g)'
BY DEF Paced, Told, Enforced, settings

\* A decision is never alone: only polls are.
LEMMA DecisionPaced ==
    ASSUME NEW p, NEW l, NEW g, Shape(p, l), l.kind = "decide", Paced(p, l, g)
    PROVE  p \notin Early /\ ~l.alone /\ ~l.polite
BY DEF Shape, Paced, Early

\* A request goes on with what it polls for, and nothing is recorded.
LEMMA PaceStep ==
    ASSUME TInv, IInv', UNCHANGED <<settings, now, seen, passed, answered>>,
           NEW r \in Requests, NEW p \in PCs, NEW l \in Locals, Goto(r, p, l),
           \A g \in Grants : Polls(p, l, g) <=> Polls(pc[r], loc[r], g),
           l.alone => loc[r].alone /\ l.grant = loc[r].grant,
           l.grant \in Grants, Paced(p, l, l.grant)
    PROVE  TInv'
<1>1. /\ pc'[r] = p /\ loc'[r] = l
      /\ \A q \in Requests : q # r => pc'[q] = pc[q] /\ loc'[q] = loc[q]
    BY GotoType DEF TInv, IInv
<1>2. \A q \in Requests, g \in Grants : Polls(pc'[q], loc'[q], g) <=> Polls(pc[q], loc[q], g)
    BY <1>1
<1>3. ASSUME NEW g \in Grants
      PROVE  Times(g)'
    <2>1. Idle(g)' <=> Idle(g)
        BY <1>2 DEF Idle, Polls
    <2>2. Times(g) /\ Told(g)' = Told(g)
        BY DEF TInv, Told, Enforced, settings
    <2> QED
        BY <2>1, <2>2 DEF Times
<1>4. ASSUME NEW q \in Requests
      PROVE  Alone(q)'
    <2>1. CASE q = r
        <3>1. l.alone => \A u \in Requests : Polls(pc[u], loc[u], l.grant) => u = r
            BY DEF TInv, Alone
        <3> QED
            BY <1>1, <1>2, <2>1, <3>1 DEF Alone, Polls
    <2>2. CASE q # r
        <3>1. loc[q].alone => \A u \in Requests : Polls(pc[u], loc[u], loc[q].grant) => u = q
            BY DEF TInv, Alone
        <3>2. loc[q].alone => loc[q].grant \in Grants
            BY NoLocalsType DEF TInv, IInv, Shape
        <3> QED
            BY <1>1, <1>2, <2>2, <3>1, <3>2 DEF Alone, Polls
    <2> QED
        BY <2>1, <2>2
<1>5. ASSUME NEW q \in Requests, pc'[q] # "idle"
      PROVE  Paced(pc[q], loc[q], loc[q].grant)'
    <2>1. CASE q = r
        <3>1. Paced(p, l, l.grant)'
            BY PacedSame
        <3> QED
            BY <1>1, <2>1, <3>1
    <2>2. CASE q # r
        <3>1. PICK pq, lq : pq = pc[q] /\ lq = loc[q]
            OBVIOUS
        <3>2. Paced(pq, lq, lq.grant)
            BY <1>1, <1>5, <2>2, <3>1 DEF TInv
        <3>3. Paced(pq, lq, lq.grant)'
            BY <3>2, PacedSame
        <3> QED
            BY <1>1, <2>2, <3>1, <3>3
    <2> QED
        BY <2>1, <2>2
<1> QED
    BY <1>3, <1>4, <1>5 DEF TInv

\* A request is over: for the client of a poll this is an answer.
LEMMA PaceEnd ==
    ASSUME TInv, IInv', UNCHANGED <<settings, now, seen, passed>>,
           NEW r \in Requests, pc[r] # "idle", End(r)
    PROVE  TInv'
<1>1. Goto(r, "idle", NoLocals) /\ "idle" \in PCs /\ NoLocals \in Locals
    BY EndType DEF TInv
<1>2. /\ pc'[r] = "idle" /\ loc'[r] = NoLocals
      /\ \A q \in Requests : q # r => pc'[q] = pc[q] /\ loc'[q] = loc[q]
    BY <1>1, GotoType DEF TInv, IInv
<1>3. ASSUME NEW g \in Grants
      PROVE  Times(g)'
    <2>1. Times(g) /\ Told(g)' = Told(g) /\ TypeOK
        BY DEF TInv, IInv, Told, Enforced, settings
    <2>2. CASE Polls(pc[r], loc[r], g)
        <3>1. answered'[g] = now
            BY <2>2 DEF End, Polls, TInv, IInv, TypeOK
        <3> QED
            BY <2>1, <3>1, Numbers DEF Times
    <2>3. CASE ~Polls(pc[r], loc[r], g)
        <3>1. answered'[g] = answered[g]
            BY <2>1, <2>3 DEF End, Polls, TypeOK
        <3>2. Idle(g)' => Idle(g)
            BY <1>2, <2>3 DEF Idle, Polls
        <3> QED
            BY <2>1, <3>1, <3>2 DEF Times
    <2> QED
        BY <2>2, <2>3
<1>4. ASSUME NEW q \in Requests
      PROVE  Alone(q)'
    BY <1>2, NoLocalsType DEF TInv, Alone, Polls
<1>5. ASSUME NEW q \in Requests, pc'[q] # "idle"
      PROVE  Paced(pc[q], loc[q], loc[q].grant)'
    <2>1. PICK pq, lq : pq = pc[q] /\ lq = loc[q] /\ q # r
        BY <1>2, <1>5
    <2>2. Paced(pq, lq, lq.grant)
        BY <1>2, <1>5, <2>1 DEF TInv
    <2>3. Paced(pq, lq, lq.grant)'
        BY <2>2, PacedSame
    <2> QED
        BY <1>2, <2>1, <2>3
<1> QED
    BY <1>3, <1>4, <1>5 DEF TInv

\* Nothing a poll looks at changes.
LEMMA PaceFrame ==
    ASSUME TInv, IInv', UNCHANGED <<settings, now, seen, passed, answered, pc, loc>>
    PROVE  TInv'
<1>1. \A g \in Grants : Times(g)'
    BY DEF TInv, Times, Idle, Polls, Told, Enforced, settings
<1>2. \A q \in Requests : Alone(q)'
    BY DEF TInv, Alone, Polls
<1>3. \A q \in Requests : pc'[q] # "idle" => Paced(pc[q], loc[q], loc[q].grant)'
    BY DEF TInv, Paced, Told, Enforced, settings
<1> QED
    BY <1>1, <1>2, <1>3 DEF TInv

LEMMA PollPaced ==
    ASSUME TInv, IInv', NEW r \in Requests, NEW g \in Grants, Poll(r, g)
    PROVE  TInv'
<1>1. /\ pc[r] = "idle" /\ pc' = [pc EXCEPT ![r] = "look"]
      /\ UNCHANGED <<settings, now, seen, passed, answered>> /\ TypeOK
    BY PollStep DEF TInv, IInv, history
<1>2. PICK l \in Locals : /\ loc'[r] = l /\ l.kind = "poll" /\ l.grant = g
                          /\ l.alone = (Polling(g) = {})
                          /\ l.polite = (l.alone /\ (answered[g] # None =>
                                                       now >= answered[g] + Told(g)))
    BY PollStep DEF TInv
<1>3. /\ pc'[r] = "look"
      /\ \A q \in Requests : q # r =>
            /\ pc'[q] = pc[q]
            /\ loc'[q].kind = loc[q].kind /\ loc'[q].grant = loc[q].grant
    BY <1>1, PollStep DEF TInv, IInv, TypeOK
<1>4. \A q \in Requests, h \in Grants :
        q # r => (Polls(pc'[q], loc'[q], h) <=> Polls(pc[q], loc[q], h))
    BY <1>3 DEF Polls
<1>5. ~l.alone \/ Idle(g)
    BY <1>2 DEF Polling, Idle, Polls
<1>6. ASSUME NEW h \in Grants
      PROVE  Times(h)'
    <2>1. Idle(h)' => Idle(h)
        BY <1>1, <1>4 DEF Idle, Polls
    <2>2. Times(h) /\ Told(h)' = Told(h)
        BY <1>1 DEF TInv, Told, Enforced, settings
    <2> QED
        BY <1>1, <2>1, <2>2 DEF Times
<1>7. ASSUME NEW q \in Requests
      PROVE  Alone(q)'
    <2>1. CASE q = r
        <3>1. l.alone => \A u \in Requests : u # r => ~Polls(pc[u], loc[u], g)
            BY <1>5 DEF Idle
        <3> QED
            BY <1>2, <1>4, <2>1, <3>1 DEF Alone, Polls
    <2>2. CASE q # r
        <3> SUFFICES ASSUME loc'[q].alone
                     PROVE  \A u \in Requests : Polls(pc'[u], loc'[u], loc'[q].grant) => u = q
            BY DEF Alone, Polls
        <3>1. q \notin Polling(g) /\ loc'[q] = loc[q]
            BY <2>2, PollStep DEF TInv
        <3>2. pc[q] # "idle" /\ Shape(pc[q], loc[q]) /\ Paced(pc[q], loc[q], loc[q].grant)
            BY <3>1, NoLocalsType DEF TInv, IInv, Shape
        <3>3. loc[q].kind = "poll" /\ loc[q].grant \in Grants
            BY <3>1, <3>2, DecisionPaced DEF TInv, IInv, TypeOK, Locals, Shape
        <3>4. loc[q].grant # g
            BY <3>1, <3>2, <3>3 DEF Polling
        <3>5. ~Polls(pc'[r], loc'[r], loc[q].grant)
            BY <1>2, <3>4 DEF Polls
        <3>6. \A u \in Requests : Polls(pc[u], loc[u], loc[q].grant) => u = q
            BY <3>1 DEF TInv, Alone
        <3> QED
            BY <1>4, <3>1, <3>3, <3>5, <3>6
    <2> QED
        BY <2>1, <2>2
<1>8. Paced("look", l, g)
    <2>1. (l.polite /\ seen[g] # None) => seen[g].at + Told(g) <= now
        <3> SUFFICES ASSUME l.polite, seen[g] # None
                     PROVE  seen[g].at + Told(g) <= now
            OBVIOUS
        <3>1. Idle(g) /\ (answered[g] # None => now >= answered[g] + Told(g))
            BY <1>2, <1>5
        <3>2. IF answered[g] # None THEN seen[g].at <= answered[g]
                                    ELSE seen[g].at + Told(g) <= now
            BY <3>1 DEF TInv, Times
        <3> QED
            BY <1>1, <3>1, <3>2, Numbers
    <2> QED
        BY <1>2, <2>1 DEF Paced, Early
<1>9. ASSUME NEW q \in Requests, pc'[q] # "idle"
      PROVE  Paced(pc[q], loc[q], loc[q].grant)'
    <2>1. CASE q = r
        <3>1. Paced("look", l, g)'
            BY <1>1, <1>8, PacedSame
        <3> QED
            BY <1>2, <1>3, <2>1, <3>1
    <2>2. CASE q # r
        <3>0. PICK p, k : p = pc[q] /\ k = loc[q]
            OBVIOUS
        <3>1. PICK m \in Locals :
                /\ loc'[q] = m
                /\ m.grant = k.grant /\ m.last = k.last /\ m.stamp = k.stamp
                /\ m.expires = k.expires /\ m.slow = k.slow
                /\ m = k \/ (~m.alone /\ ~m.polite)
            BY <2>2, <3>0, PollStep DEF TInv
        <3>2. Paced(p, k, k.grant)
            BY <1>3, <1>9, <2>2, <3>0 DEF TInv
        <3>3. Paced(p, m, m.grant)
            BY <3>1, <3>2 DEF Paced
        <3>4. Paced(p, m, m.grant)'
            BY <1>1, <3>3, PacedSame
        <3> QED
            BY <1>3, <2>2, <3>0, <3>1, <3>4
    <2> QED
        BY <2>1, <2>2
<1> QED
    BY <1>6, <1>7, <1>9 DEF TInv

\* What a poll reads of the cache is from its last lone predecessor or later,
\* and long enough ago if its client waited.
LEMMA LookPaced ==
    ASSUME TInv, IInv', NEW r \in Requests, Look(r) \/ Judge(r)
    PROVE  TInv'
<1>1. PICK o \in Locals : o = loc[r]
    BY DEF TInv, IInv, TypeOK
<1>2. /\ pc[r] \in {"look", "judge"} /\ Shape(pc[r], o) /\ Paced(pc[r], o, o.grant)
      /\ UNCHANGED <<settings, now, seen, passed, answered>> /\ TypeOK
    BY <1>1 DEF Look, Judge, TInv, IInv, history
<1>3. PICK g \in Grants : g = o.grant /\ Times(g)
    BY <1>2 DEF Shape, TInv
<1>4. PICK p \in {"judge", "record"} : p = IF pc[r] = "look" THEN "judge" ELSE "record"
    OBVIOUS
<1>5. PICK l \in Locals :
        /\ Goto(r, p, l) /\ l.kind = o.kind /\ l.grant = g /\ l.row = o.row
        /\ l.alone = o.alone /\ l.polite = o.polite
        /\ IF pc[r] = "look"
           THEN /\ l.expires = ExpiresAt
                /\ l.last = IF seen[g] # None /\ now < seen[g].expires THEN seen[g].at ELSE None
           ELSE l.expires = o.expires /\ l.stamp = now /\ (l.slow <=> TooSoon(o))
    BY <1>1, <1>3, <1>4, LookOK DEF TInv
<1>6. /\ now \in Nat /\ Lifetime \in Nat /\ Enforced(g) \in Nat /\ Told(g) \in Nat
      /\ seen[g] # None => seen[g].at \in Nat /\ seen[g].expires \in Nat
      /\ passed[g] # None => passed[g] \in Nat
      /\ None \notin Nat
    BY <1>2, Numbers
<1>7. Paced(p, l, g)
    <2>1. CASE pc[r] = "look"
        <3>1. p = "judge" /\ l.expires >= Lifetime
            BY <1>4, <1>5, <1>6, <2>1 DEF ExpiresAt
        <3>2. (l.polite /\ l.last # None) => l.last + Told(g) <= now
            BY <1>2, <1>3, <1>5, <2>1 DEF Paced
        <3>3. passed[g] # None => IF l.last # None THEN passed[g] <= l.last ELSE Lifetime <= now
            BY <1>3, <1>5, <1>6, <2>1 DEF Times
        <3> QED
            BY <1>2, <1>3, <1>5, <3>1, <3>2, <3>3 DEF Paced, Early
    <2>2. CASE pc[r] = "judge"
        <3>1. p = "record" /\ l.stamp = now /\ l.expires >= Lifetime
            BY <1>2, <1>4, <1>5, <2>2 DEF Paced
        <3>2. l.slow <=> (o.last # None /\ now < o.last + Enforced(g))
            BY <1>3, <1>5, <2>2 DEF TooSoon
        <3>3. o.last \in Nat \union {None}
            BY DEF Locals
        <3>4. (l.polite /\ Told(g) = Enforced(g)) => ~l.slow
            BY <1>2, <1>3, <1>5, <1>6, <2>2, <3>2, <3>3 DEF Paced
        <3>5. passed[g] # None => passed[g] <= now
            BY <1>3 DEF Times
        <3>6. (passed[g] # None /\ ~l.slow) => passed[g] + Enforced(g) <= now \/ Lifetime <= now
            BY <1>2, <1>3, <1>6, <2>2, <3>2, <3>3 DEF Paced
        <3> QED
            BY <1>2, <1>3, <1>5, <1>6, <3>1, <3>4, <3>5, <3>6 DEF Paced, Early
    <2> QED
        BY <1>2, <2>1, <2>2
<1>8. \A h \in Grants : Polls(p, l, h) <=> Polls(pc[r], loc[r], h)
    BY <1>1, <1>2, <1>3, <1>5 DEF Polls
<1>9. p \in PCs
    BY DEF PCs
<1> QED
    BY <1>1, <1>2, <1>3, <1>5, <1>7, <1>8, <1>9, PaceStep

LEMMA QueryPaced ==
    ASSUME TInv, IInv', NEW r \in Requests, Query(r) \/ SaveRemoval(r)
    PROVE  TInv'
<1>1. /\ UNCHANGED <<settings, now, seen, passed>> /\ pc[r] \in {"query", "save"}
      /\ Shape(pc[r], loc[r]) /\ Paced(pc[r], loc[r], loc[r].grant) /\ loc[r] \in Locals
    BY QueryStep DEF Query, SaveRemoval, TInv, IInv, TypeOK, history
<1>2. ~loc[r].alone /\ ~loc[r].polite /\ loc[r].grant \in Grants
    BY <1>1 DEF Paced, Early, Shape
<1>3. CASE End(r)
    BY <1>1, <1>3, PaceEnd
<1>4. CASE ~End(r)
    <2>1. PICK p \in {"save", "answer"}, l \in Locals :
            /\ Goto(r, p, l) /\ UNCHANGED answered
            /\ l.kind = loc[r].kind /\ l.grant = loc[r].grant
            /\ l.alone = loc[r].alone /\ l.polite = loc[r].polite
        BY <1>1, <1>4, QueryStep DEF SaveRemoval, history, TInv
    <2>2. p \in PCs /\ Paced(p, l, l.grant)
        BY <1>2, <2>1 DEF PCs, Paced
    <2>3. \A g \in Grants : Polls(p, l, g) <=> Polls(pc[r], loc[r], g)
        BY <1>1, <2>1 DEF Polls
    <2> QED
        BY <1>1, <1>2, <2>1, <2>2, <2>3, PaceStep
<1> QED
    BY <1>3, <1>4

LEMMA DecidePaced ==
    ASSUME TInv, IInv', NEW r \in Requests, NEW g \in Grants, Decide(r, g)
    PROVE  TInv'
<1>1. UNCHANGED <<settings, now, seen, passed, answered>> /\ pc[r] = "idle"
    BY DecideStep DEF TInv, Decide, history
<1>2. PICK l \in Locals : /\ Goto(r, "query", l) /\ l.kind = "decide" /\ l.grant = g
                          /\ "query" \in PCs /\ ~l.alone /\ ~l.polite
    BY DecideStep DEF TInv
<1>3. Paced("query", l, l.grant)
    BY <1>2 DEF Paced
<1>4. \A h \in Grants : Polls("query", l, h) <=> Polls(pc[r], loc[r], h)
    BY <1>1, <1>2 DEF Polls
<1> QED
    BY <1>1, <1>2, <1>3, <1>4, PaceStep

LEMMA EndPaced ==
    ASSUME TInv, IInv', NEW r \in Requests, SaveDecision(r) \/ Answer(r) \/ Abort(r)
    PROVE  TInv'
BY PaceEnd DEF SaveDecision, Answer, Abort

\* The cache has a new entry, and a lone poll that was not slowed down is the
\* last of its kind.
LEMMA RecordPaced ==
    ASSUME TInv, IInv', NEW r \in Requests, Record(r)
    PROVE  TInv'
<1>1. PICK l \in Locals : l = loc[r]
    BY DEF TInv, IInv, TypeOK
<1>2. /\ pc[r] = "record" /\ Shape("record", l) /\ l.kind = "poll"
      /\ seen' = Recorded(l) /\ UNCHANGED <<settings, now, table, final>>
      /\ passed' = IF l.alone /\ ~l.slow THEN [passed EXCEPT ![l.grant] = l.stamp] ELSE passed
      /\ IF l.slow THEN End(r) ELSE Respond(r, l)
    BY <1>1 DEF Record, TInv, IInv, Shape, Locals
<1>3. PICK g \in Grants : g = l.grant /\ Times(g) /\ Paced("record", l, g)
    BY <1>1, <1>2 DEF Shape, TInv
<1>4. /\ TypeOK /\ l.stamp \in Nat /\ l.expires \in Nat /\ l.stamp <= now
      /\ l.expires >= Lifetime
      /\ passed[g] # None => passed[g] <= l.stamp
    BY <1>3 DEF TInv, IInv, Locals, Paced
<1>5. /\ seen'[g] # None /\ seen'[g].at = l.stamp /\ seen'[g].expires = l.expires
      /\ passed'[g] = passed[g] \/ passed'[g] = l.stamp
      /\ \A h \in Grants : h # g => seen'[h] = seen[h] /\ passed'[h] = passed[h]
    <2>1. [at |-> l.stamp, expires |-> l.expires] # None
        BY <1>4, PollingAssumption DEF Entries
    <2> QED
        BY <1>2, <1>3, <1>4, <2>1 DEF Recorded, TypeOK
<1>6. \/ /\ End(r) /\ Goto(r, "idle", NoLocals) /\ "idle" \in PCs /\ NoLocals \in Locals
         /\ answered' = [answered EXCEPT ![g] = now]
      \/ /\ Goto(r, "query", Kept(l)) /\ "query" \in PCs /\ UNCHANGED answered
         /\ Kept(l) \in Locals /\ Kept(l).kind = "poll" /\ Kept(l).grant = g
         /\ ~Kept(l).alone /\ ~Kept(l).polite
    <2>1. CASE End(r)
        BY <1>1, <1>2, <1>3, <2>1, EndType DEF End, TInv
    <2>2. CASE ~End(r)
        BY <1>2, <1>3, <2>2, RespondStep DEF TInv, PCs
    <2> QED
        BY <2>1, <2>2
<1>7. \A q \in Requests : q # r => pc'[q] = pc[q] /\ loc'[q] = loc[q]
    BY <1>4, <1>6, GotoType
<1>8. \/ /\ pc'[r] = "idle" /\ loc'[r] = NoLocals
         /\ answered'[g] = now
      \/ /\ pc'[r] = "query" /\ loc'[r].kind = "poll" /\ loc'[r].grant = g
         /\ ~loc'[r].alone /\ ~loc'[r].polite /\ UNCHANGED answered
    <2>1. CASE End(r) /\ Goto(r, "idle", NoLocals) /\ "idle" \in PCs /\ NoLocals \in Locals
               /\ answered' = [answered EXCEPT ![g] = now]
        BY <1>4, <2>1, GotoType DEF TypeOK
    <2>2. CASE /\ Goto(r, "query", Kept(l)) /\ "query" \in PCs /\ UNCHANGED answered
               /\ Kept(l) \in Locals /\ Kept(l).kind = "poll" /\ Kept(l).grant = g
               /\ ~Kept(l).alone /\ ~Kept(l).polite
        BY <1>4, <2>2, GotoType
    <2> QED
        BY <1>6, <2>1, <2>2
<1>9. \A h \in Grants : h # g => answered'[h] = answered[h]
    BY <1>4, <1>6 DEF TypeOK
<1>10. ASSUME NEW h \in Grants
       PROVE  Times(h)'
    <2>1. Told(h)' = Told(h) /\ now' = now
        BY <1>2 DEF Told, Enforced, settings
    <2>2. CASE h = g
        <3>1. Idle(g)' => answered'[g] = now
            BY <1>8 DEF Idle, Polls
        <3> QED
            BY <1>3, <1>4, <1>5, <2>1, <2>2, <3>1, Numbers DEF Times
    <2>3. CASE h # g
        <3>1. Idle(h)' => Idle(h)
            BY <1>1, <1>3, <1>7, <2>3 DEF Idle, Polls
        <3>2. Times(h)
            BY DEF TInv
        <3> QED
            BY <1>5, <1>9, <2>1, <2>3, <3>1, <3>2 DEF Times
    <2> QED
        BY <2>2, <2>3
<1>11. Polls(pc[r], loc[r], g)
    BY <1>1, <1>2, <1>3 DEF Polls
<1>12. ASSUME NEW q \in Requests
       PROVE  Alone(q)'
    <2>1. CASE q = r
        BY <1>8, <2>1, NoLocalsType DEF Alone
    <2>2. CASE q # r
        <3>1. loc[q].alone => \A u \in Requests : Polls(pc[u], loc[u], loc[q].grant) => u = q
            BY DEF TInv, Alone
        <3>2. loc[q].alone => loc[q].grant # g
            BY <1>11, <2>2, <3>1
        <3>3. \A h : h # g => ~Polls(pc'[r], loc'[r], h)
            BY <1>8 DEF Polls
        <3> QED
            BY <1>7, <2>2, <3>1, <3>2, <3>3 DEF Alone, Polls
    <2> QED
        BY <2>1, <2>2
<1>13. ASSUME NEW q \in Requests, pc'[q] # "idle"
       PROVE  Paced(pc[q], loc[q], loc[q].grant)'
    <2>1. CASE q = r
        BY <1>8, <1>13, <2>1 DEF Paced
    <2>2. CASE q # r
        <3>1. PICK p, m : p = pc[q] /\ m = loc[q] /\ p # "idle"
            BY <1>7, <1>13, <2>2
        <3>2. Paced(p, m, m.grant) /\ Shape(p, m) /\ m.grant \in Grants /\ m \in Locals
            BY <3>1 DEF TInv, IInv, Shape, TypeOK
        <3>3. CASE m.grant # g
            <4>1. /\ seen'[m.grant] = seen[m.grant] /\ passed'[m.grant] = passed[m.grant]
                  /\ now' = now /\ Told(m.grant)' = Told(m.grant)
                  /\ Enforced(m.grant)' = Enforced(m.grant)
                BY <1>2, <1>5, <3>2, <3>3 DEF Told, Enforced, settings
            <4>2. Paced(p, m, m.grant)'
                BY <3>2, <4>1 DEF Paced
            <4> QED
                BY <1>7, <2>2, <3>1, <4>2
        <3>4. CASE m.grant = g
            <4>1. ~m.alone /\ ~m.polite
                BY <1>11, <2>2, <3>1, <3>2, <3>4 DEF TInv, Alone, Paced
            <4>2. CASE m.kind = "decide"
                <5>1. p \notin {"judge", "record"}
                    BY <3>2, <4>2 DEF Shape
                <5> QED
                    BY <1>7, <2>2, <3>1, <4>1, <5>1 DEF Paced
            <4>3. CASE m.kind = "poll"
                <5>1. Polls(p, m, g)
                    BY <3>1, <3>4, <4>3 DEF Polls
                <5>2. ~l.alone
                    BY <1>1, <1>3, <2>2, <3>1, <5>1 DEF TInv, Alone
                <5>3. passed' = passed /\ now' = now /\ Enforced(g)' = Enforced(g)
                    BY <1>2, <5>2 DEF Enforced, settings
                <5>4. Paced(p, m, g)'
                    BY <3>2, <3>4, <4>1, <5>3 DEF Paced
                <5> QED
                    BY <1>7, <2>2, <3>1, <3>4, <5>4
            <4> QED
                BY <3>2, <4>2, <4>3 DEF Locals
        <3> QED
            BY <3>3, <3>4
    <2> QED
        BY <2>1, <2>2
<1> QED
    BY <1>10, <1>12, <1>13 DEF TInv

LEMMA TickPaced ==
    ASSUME TInv, IInv', Tick
    PROVE  TInv'
<1>1. /\ now' = now + 1
      /\ seen' = [g \in Grants |-> IF seen[g] # None /\ seen[g].expires <= now'
                                  THEN None ELSE seen[g]]
      /\ answered' = [g \in Grants |-> IF answered[g] # None /\ answered[g] + Told(g) <= now'
                                      THEN None ELSE answered[g]]
      /\ UNCHANGED <<settings, table, pc, loc, final, passed>>
    BY DEF Tick
<1>2. \A g \in Grants : Told(g)' = Told(g) /\ Enforced(g)' = Enforced(g)
    BY <1>1 DEF Told, Enforced, settings
<1>3. TypeOK
    BY DEF TInv, IInv
<1>4. ASSUME NEW g \in Grants
      PROVE  Times(g)'
    <2>1. /\ Times(g) /\ Told(g)' = Told(g) /\ passed'[g] = passed[g]
          /\ Idle(g)' <=> Idle(g)
        BY <1>1, <1>2 DEF TInv, Idle, Polls
    <2>2. /\ seen'[g] = IF seen[g] # None /\ seen[g].expires <= now' THEN None ELSE seen[g]
          /\ answered'[g] = IF answered[g] # None /\ answered[g] + Told(g) <= now'
                            THEN None ELSE answered[g]
        BY <1>1
    <2> QED
        BY <1>1, <1>3, <2>1, <2>2, Numbers DEF Times
<1>5. \A q \in Requests : Alone(q)'
    BY <1>1 DEF TInv, Alone, Polls
<1>6. ASSUME NEW q \in Requests, pc'[q] # "idle"
      PROVE  Paced(pc[q], loc[q], loc[q].grant)'
    <2>1. PICK p \in PCs, l \in Locals : p = pc[q] /\ l = loc[q] /\ p # "idle"
        BY <1>1, <1>3, <1>6 DEF TypeOK, PCs
    <2>2. PICK g \in Grants : g = l.grant /\ Paced(p, l, g)
        BY <2>1 DEF TInv, IInv, Shape
    <2>3. /\ now \in Nat /\ Lifetime \in Nat /\ Enforced(g) \in Nat /\ Told(g) \in Nat
          /\ seen[g] # None => seen[g].at \in Nat
          /\ passed[g] # None => passed[g] \in Nat
          /\ None \notin Nat
        BY <1>3, Numbers
    <2>4. /\ seen'[g] # None => seen[g] # None /\ seen'[g].at = seen[g].at
          /\ passed'[g] = passed[g]
        BY <1>1
    <2>5. l.last \in Nat \union {None} /\ l.stamp \in Nat
        BY DEF Locals
    <2>6. Paced(p, l, g)'
        BY <1>1, <1>2, <2>2, <2>3, <2>4, <2>5 DEF Paced
    <2> QED
        BY <1>1, <2>1, <2>2, <2>6
<1> QED
    BY <1>4, <1>5, <1>6 DEF TInv

LEMMA InitPaced == Init => TInv
<1> SUFFICES ASSUME Init PROVE TInv
    OBVIOUS
<1> QED
    BY InitOK, NoLocalsType DEF Init, TInv, Times, Alone

LEMMA NextPaced == TInv /\ [Next]_vars => TInv'
<1> SUFFICES ASSUME TInv, [Next]_vars PROVE TInv'
    OBVIOUS
<1>0. IInv'
    BY NextOK DEF TInv
<1>1. ASSUME NEW g \in Grants, Authorize(g) \/ CleanUp(g) PROVE TInv'
    BY <1>0, <1>1, PaceFrame DEF Authorize, CleanUp, history
<1>2. ASSUME NEW r \in Requests, NEW g \in Grants, Poll(r, g) \/ Decide(r, g) PROVE TInv'
    BY <1>0, <1>2, PollPaced, DecidePaced
<1>3. ASSUME NEW r \in Requests, Look(r) \/ Judge(r) \/ Record(r) \/ Query(r) PROVE TInv'
    BY <1>0, <1>3, LookPaced, RecordPaced, QueryPaced
<1>4. ASSUME NEW r \in Requests, SaveRemoval(r) \/ SaveDecision(r) \/ Answer(r) \/ Abort(r)
      PROVE  TInv'
    BY <1>0, <1>4, QueryPaced, EndPaced
<1>5. CASE Tick
    BY <1>0, <1>5, TickPaced
<1>6. CASE UNCHANGED vars
    BY <1>0, <1>6, PaceFrame DEF vars, settings
<1> QED
    BY <1>1, <1>2, <1>3, <1>4, <1>5, <1>6 DEF Next

\* The cache keeps the times of the polls as the theorems below need it.
THEOREM Pacing == Spec => []TInv
BY InitPaced, NextPaced, PTL DEF Spec

\* Polls that do not overlap are the enforced interval apart, or the later
\* one is slowed down, as long as the grant lives: whatever polls at the same
\* time as the later one do to the cache.
THEOREM PollsKeptApart == Spec => []PollsSpaced
<1>1. ASSUME TInv, NEW r \in Requests, pc[r] = "record", ~loc[r].slow
      PROVE  LET g == loc[r].grant
             IN \/ passed[g] = None
                \/ loc[r].stamp >= passed[g] + Enforced(g)
                \/ loc[r].stamp >= loc[r].row.created + Lifetime
    <2>1. PICK l \in Locals : l = loc[r]
        BY <1>1 DEF TInv, IInv, TypeOK
    <2>2. PICK g \in Grants : g = l.grant /\ Paced("record", l, g) /\ l.row.created = 0
        BY <1>1, <2>1 DEF TInv, IInv, Shape, Early
    <2>3. l.stamp \in Nat /\ Lifetime \in Nat /\ Enforced(g) \in Nat
        BY <1>1, Numbers DEF Locals, TInv, IInv
    <2>4. passed[g] # None => passed[g] \in Nat
        BY <1>1, Numbers DEF TInv, IInv
    <2> QED
        BY <1>1, <2>1, <2>2, <2>3, <2>4 DEF Paced
<1>2. TInv => PollsSpaced
    BY <1>1 DEF PollsSpaced
<1> QED
    BY Pacing, <1>2, PTL

\* A client that waits for the interval it was told after each answer is not
\* slowed down, where the interval it was told is the enforced one.
THEOREM WaitingSuffices == Spec => []EnforcedIntervalSuffices
<1>1. TInv => EnforcedIntervalSuffices
    BY DEF TInv, Paced, EnforcedIntervalSuffices, NotSlowed
<1> QED
    BY Pacing, <1>1, PTL
=============================================================================
