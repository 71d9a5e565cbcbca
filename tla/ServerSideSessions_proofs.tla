--------------------- MODULE ServerSideSessions_proofs ---------------------
(***************************************************************************)
(* Proofs about ServerSideSessions, for all sessions, requests, hosts,     *)
(* clients and bounds.                                                     *)
(*                                                                         *)
(* A session that was ended is gone, or a renewal under way has stored it  *)
(* again and it has had more than one row: KeyInv and Shape carry that     *)
(* from the table to the requests.  Shape also ties what a process is      *)
(* about to delete to the sessions it will process, and Fresh says that    *)
(* the copy a request writes back is no older than the row, unless         *)
(* somebody wrote the row in between.                                      *)
(***************************************************************************)
EXTENDS ServerSideSessions, TLAPS

PCs == {"idle", "issue", "get", "create", "query", "save", "validate", "retrieve",
        "lookup", "find", "delete", "revoke", "logout", "remove", "expire", "notify"}

\* A session that nobody finds, unless it was stored again.
Gone(k) == Present(k) => inserts[k] > 1

KeyInv ==
    \A k \in Sessions :
        /\ Present(k) => row[k].id \in 1..inserts[k] /\ row[k].expires <= now + Lifetime
        /\ k \in ended => inserts[k] > 0 /\ Gone(k)
        /\ \A c \in Clients : <<k, c>> \in tokens => inserts[k] > 0

\* Where a request holds a ticket that it may write back.
Holding == {"issue", "get", "create", "query", "save", "retrieve"}

KeysOf(found) == {t[1] : t \in found}

\* What the locals l of a process at p refer to.
Shape(p, l) ==
    /\ p = "idle" => l = NoLocals
    /\ (p # "idle" /\ l.kind \notin {"remove", "cleanup"}) =>
          l.key \in Sessions /\ inserts[l.key] > 0
    /\ l.late => l.key \in Sessions /\ IF p = "validate" THEN Gone(l.key) ELSE inserts[l.key] > 1
    /\ p \in Holding => /\ l.kind \in Renewing
                        /\ l.ticket \in Rows /\ l.ticket.expires <= now + Lifetime
    /\ p = "issue" => l.client \in Clients
    /\ p = "save" => \E i \in 1..inserts[l.key] : l.found = {<<l.key, i>>}
    /\ p = "validate" => l.kind = "token" /\ l.ticket = NoRow
    /\ p = "revoke" => l.kind = "remove"
    /\ p = "lookup" => l.kind \in {"expired", "signout"} /\ l.todo = {}
    /\ p \in {"find", "delete"} => l.kind \in {"expired", "signout", "remove"}
    /\ p = "logout" => l.kind = "signout"
    /\ p = "remove" => l.kind = "cleanup"
    /\ p \in {"expire", "notify"} => l.kind \in {"expired", "cleanup"}

\* What a process removes, and what it processes.
Removal(p, l) ==
    /\ l.todo # {} => l.kind \in {"expired", "cleanup"}
    /\ l.kind = "expired" => \A s \in l.todo : s.key = l.key
    /\ (p \in {"find", "delete"} /\ l.kind = "expired" /\ l.todo = {}) => Gone(l.key)
    /\ (p = "delete" /\ l.kind # "remove") => KeysOf(l.found) \subseteq {l.key}
    /\ l.kind = "cleanup" => ~l.late
    /\ p = "remove" => /\ KeysOf(l.found) = {s.key : s \in l.todo}
                       /\ \A t, u \in l.found : t[1] = u[1] => t = u

IInv == /\ TypeOK /\ KeyInv
        /\ \A p \in Processes : Shape(pc[p], loc[p]) /\ Removal(pc[p], loc[p])

\* The ticket that a request at p with the locals l writes back.
Fresh(p, l) ==
    (p \in Holding /\ ~l.stale /\ Present(l.key)) =>
        /\ row[l.key].clients \subseteq l.ticket.clients
        /\ row[l.key].expires <= l.ticket.expires

FInv == IInv /\ \A p \in Processes : Fresh(pc[p], loc[p])

-----------------------------------------------------------------------------
(* Types of the operators. *)

LEMMA NoLocalsType ==
    /\ NoLocals \in Locals /\ NoLocals.kind = "page" /\ NoLocals.key = NoRow
    /\ NoLocals.client = NoRow /\ NoLocals.ticket = NoRow
    /\ NoLocals.found = {} /\ NoLocals.todo = {}
    /\ ~NoLocals.stuck /\ ~NoLocals.stale /\ ~NoLocals.late
BY DEF NoLocals, Locals

LEMMA NoLocalsShape == Shape("idle", NoLocals) /\ Removal("idle", NoLocals)
BY NoLocalsType DEF Shape, Removal, Holding

LEMMA GotoType ==
    ASSUME TypeOK, NEW p \in Processes, NEW label \in PCs, NEW l \in Locals,
           Goto(p, label, l)
    PROVE  /\ pc' \in [Processes -> PCs] /\ loc' \in [Processes -> Locals]
           /\ pc'[p] = label /\ loc'[p] = l
           /\ \A q \in Processes : q # p => pc'[q] = pc[q] /\ loc'[q] = loc[q]
BY DEF TypeOK, Goto, PCs

LEMMA RowType ==
    ASSUME TypeOK, NEW k \in Sessions, Present(k)
    PROVE  /\ row[k] \in Rows
           /\ Ticket(k) \in Rows /\ Ticket(k).clients = row[k].clients
           /\ Ticket(k).expires = row[k].expires
           /\ Extended(k) \in Rows /\ Extended(k).clients = row[k].clients
           /\ Extended(k).expires = now + Lifetime
<1>1. PICK w \in Rows : w = row[k]
    BY DEF TypeOK, Present
<1>2. now + Lifetime \in Nat
    BY SessionAssumption DEF TypeOK
<1>3. /\ [w EXCEPT !.id = 0] \in Rows
      /\ [w EXCEPT !.id = 0].clients = w.clients /\ [w EXCEPT !.id = 0].expires = w.expires
    BY DEF Rows
<1>4. PICK t \in Rows : t = Ticket(k)
    BY <1>1, <1>3 DEF Ticket
<1>5. /\ [t EXCEPT !.expires = now + Lifetime] \in Rows
      /\ [t EXCEPT !.expires = now + Lifetime].clients = t.clients
      /\ [t EXCEPT !.expires = now + Lifetime].expires = now + Lifetime
    BY <1>2 DEF Rows
<1> QED
    BY <1>1, <1>3, <1>4, <1>5 DEF Ticket, Extended

LEMMA RowsOfType ==
    ASSUME TypeOK, KeyInv, NEW K \in SUBSET Sessions
    PROVE  /\ RowsOf(K) \in SUBSET Ids
           /\ KeysOf(RowsOf(K)) = {k \in K : Present(k)}
           /\ \A t, u \in RowsOf(K) : t[1] = u[1] => t = u
           /\ \A t \in RowsOf(K) : t[2] \in 1..inserts[t[1]]
<1>1. \A k \in K : Present(k) => row[k].id \in 1..inserts[k] /\ inserts[k] \in Nat
    BY DEF KeyInv, TypeOK
<1>2. \A k \in K : Present(k) => row[k].id \in Nat
    BY <1>1
<1>3. /\ \A t \in RowsOf(K) : \E k \in K : Present(k) /\ t = <<k, row[k].id>>
      /\ \A k \in K : Present(k) => <<k, row[k].id>> \in RowsOf(K)
    BY DEF RowsOf
<1>4. \A t \in RowsOf(K) : /\ t[1] \in K /\ Present(t[1]) /\ t = <<t[1], row[t[1]].id>>
                           /\ t \in Ids
    BY <1>2, <1>3 DEF Ids
<1>5. KeysOf(RowsOf(K)) = {k \in K : Present(k)}
    BY <1>3, <1>4 DEF KeysOf
<1>6. \A t \in RowsOf(K) : t[2] \in 1..inserts[t[1]]
    BY <1>1, <1>4
<1>7. \A t, u \in RowsOf(K) : t[1] = u[1] => t = u
    BY <1>4, Zenon
<1> QED
    BY <1>4, <1>5, <1>6, <1>7

LEMMA CopiesType ==
    ASSUME TypeOK, NEW K \in SUBSET Sessions
    PROVE  /\ Copies(K) \in SUBSET [key : Sessions, clients : SUBSET Clients]
           /\ {s.key : s \in Copies(K)} = {k \in K : Present(k)}
           /\ \A s \in Copies(K) : s.key \in K /\ Present(s.key)
           /\ Copies(K) = {} => \A k \in K : ~Present(k)
<1>1. \A k \in K : Present(k) => row[k].clients \in SUBSET Clients
    BY RowType DEF Rows
<1>2. /\ \A s \in Copies(K) : \E k \in K :
            Present(k) /\ s = [key |-> k, clients |-> row[k].clients]
      /\ \A k \in K : Present(k) => [key |-> k, clients |-> row[k].clients] \in Copies(K)
    BY DEF Copies
<1>3. \A s \in Copies(K) : /\ s.key \in K /\ Present(s.key)
                           /\ s \in [key : Sessions, clients : SUBSET Clients]
    BY <1>1, <1>2
<1>4. \A k \in K : Present(k) => \E s \in Copies(K) : s.key = k
    <2> SUFFICES ASSUME NEW k \in K, Present(k)
                 PROVE  \E s \in Copies(K) : s.key = k
        OBVIOUS
    <2>1. PICK s \in Copies(K) : s = [key |-> k, clients |-> row[k].clients]
        BY <1>2
    <2> QED
        BY <2>1
<1>5. {s.key : s \in Copies(K)} = {k \in K : Present(k)}
    BY <1>3, <1>4
<1> QED
    BY <1>3, <1>4, <1>5

\* The types when a process goes on.
LEMMA TypeStep ==
    ASSUME TypeOK, NEW p \in Processes, NEW label \in PCs, NEW l \in Locals,
           Goto(p, label, l), now' \in Nat,
           row' \in [Sessions -> Rows \union {NoRow}], inserts' \in [Sessions -> Nat],
           tokens' \in SUBSET (Sessions \X Clients),
           due' \in SUBSET Sessions, ended' \in SUBSET Sessions
    PROVE  TypeOK'
BY GotoType DEF TypeOK, PCs

-----------------------------------------------------------------------------
(* Each step preserves IInv. *)

\* Sessions are stored anew under a higher Id, and otherwise go.
TableGrows ==
    /\ now' \in Nat /\ now <= now'
    /\ \A k \in Sessions : /\ inserts[k] <= inserts'[k] /\ inserts'[k] \in Nat
                           /\ inserts[k] > 0 => (Gone(k) => Gone(k)')

LEMMA TableSame ==
    ASSUME TypeOK, UNCHANGED <<now, table>>
    PROVE  TableGrows
BY DEF TableGrows, TypeOK, table, Gone, Present

\* What the steps of others leave of a process.
LEMMA ShapeKept ==
    ASSUME TypeOK, TableGrows, NEW p, NEW l, Shape(p, l), Removal(p, l)
    PROVE  Shape(p, l)' /\ Removal(p, l)'
<1>1. CASE p = "idle"
    BY <1>1, NoLocalsShape, NoLocalsType DEF Shape, Removal, Holding
<1>2. CASE p # "idle" /\ l.kind \in {"remove", "cleanup"}
    <2>1. ~(p \in Holding)
        BY <1>2 DEF Shape, Renewing
    <2>2. p \notin {"issue", "save", "validate"}
        BY <1>2 DEF Shape, Holding, Renewing
    <2>3. l.late => l.key \in Sessions /\ inserts'[l.key] > 1
        <3> SUFFICES ASSUME l.late PROVE l.key \in Sessions /\ inserts'[l.key] > 1
            OBVIOUS
        <3>1. PICK k \in Sessions : k = l.key /\ inserts[k] > 1
            BY <2>2 DEF Shape
        <3>2. inserts[k] \in Nat /\ inserts'[k] \in Nat /\ inserts[k] <= inserts'[k]
            BY DEF TypeOK, TableGrows
        <3> QED
            BY <3>1, <3>2
    <2>4. Shape(p, l)'
        BY <1>2, <2>1, <2>2, <2>3 DEF Shape
    <2>5. Removal(p, l)'
        BY <1>2 DEF Removal
    <2> QED
        BY <2>4, <2>5
<1>3. CASE p # "idle" /\ l.kind \notin {"remove", "cleanup"}
    <2>1. PICK k \in Sessions : k = l.key /\ inserts[k] > 0
        BY <1>3 DEF Shape
    <2>2. /\ inserts[k] \in Nat /\ inserts'[k] \in Nat /\ inserts[k] <= inserts'[k]
          /\ Gone(k) => Gone(k)'
        BY <2>1 DEF TypeOK, TableGrows
    <2>3. p \in Holding => /\ l.kind \in Renewing /\ l.ticket \in Rows
                           /\ l.ticket.expires <= now' + Lifetime
        <3> SUFFICES ASSUME p \in Holding PROVE l.ticket.expires <= now' + Lifetime
            BY DEF Shape
        <3>1. l.ticket.expires \in Nat /\ l.ticket.expires <= now + Lifetime
            BY DEF Shape, Rows
        <3>2. now \in Nat /\ now' \in Nat /\ now <= now' /\ Lifetime \in Nat
            BY SessionAssumption DEF TypeOK, TableGrows
        <3> QED
            BY <3>1, <3>2
    <2>4. p = "save" => \E i \in 1..inserts'[k] : l.found = {<<k, i>>}
        BY <2>1, <2>2 DEF Shape
    <2>5. Shape(p, l)'
        BY <1>3, <2>1, <2>2, <2>3, <2>4 DEF Shape
    <2>6. Removal(p, l)'
        BY <1>3, <2>1, <2>2 DEF Removal
    <2> QED
        BY <2>5, <2>6
<1> QED
    BY <1>1, <1>2, <1>3

\* IInv after a step of p: only what the step changes is left to show.
LEMMA StepOK ==
    ASSUME IInv, TypeOK', KeyInv', TableGrows,
           \A q \in Processes : \/ pc'[q] = pc[q] /\ loc'[q] = loc[q]
                                \/ Shape(pc[q], loc[q])' /\ Removal(pc[q], loc[q])'
    PROVE  IInv'
<1>1. ASSUME NEW q \in Processes
      PROVE  Shape(pc[q], loc[q])' /\ Removal(pc[q], loc[q])'
    <2>1. PICK p, l : p = pc[q] /\ l = loc[q]
        OBVIOUS
    <2>2. Shape(p, l)' /\ Removal(p, l)'
        BY <2>1, ShapeKept DEF IInv
    <2> QED
        BY <2>1, <2>2
<1> QED
    BY <1>1 DEF IInv

\* A process goes on; the table of sessions stays.
LEMMA ControlOK ==
    ASSUME IInv, UNCHANGED <<now, table>>,
           tokens' \in SUBSET (Sessions \X Clients),
           \A k \in Sessions : \A c \in Clients :
               <<k, c>> \in tokens' => <<k, c>> \in tokens \/ inserts[k] > 0,
           due' \in SUBSET Sessions, ended' \in SUBSET Sessions,
           \A k \in ended' : k \in ended \/ (inserts[k] > 0 /\ Gone(k)),
           NEW p \in Processes, NEW label \in PCs, NEW l \in Locals,
           Goto(p, label, l), Shape(label, l), Removal(label, l)
    PROVE  IInv'
<1>1. TypeOK'
    BY TypeStep DEF IInv, TypeOK, table
<1>2. TableGrows
    BY TableSame DEF IInv
<1>3. KeyInv'
    BY DEF IInv, KeyInv, Gone, Present, table
<1>4. Shape(label, l)' /\ Removal(label, l)'
    BY <1>2, ShapeKept DEF IInv
<1>5. \A q \in Processes : \/ pc'[q] = pc[q] /\ loc'[q] = loc[q]
                           \/ Shape(pc[q], loc[q])' /\ Removal(pc[q], loc[q])'
    BY <1>4, GotoType DEF IInv
<1> QED
    BY <1>1, <1>2, <1>3, <1>5, StepOK

LEMMA GoOnOK ==
    ASSUME IInv, UNCHANGED <<now, table, tokens, history>>,
           NEW p \in Processes, NEW label \in PCs, NEW l \in Locals,
           Goto(p, label, l), Shape(label, l), Removal(label, l)
    PROVE  IInv'
BY ControlOK DEF IInv, TypeOK, history

LEMMA EndOK ==
    ASSUME IInv, UNCHANGED <<now, table, tokens, ended>>, due' \in SUBSET Sessions,
           NEW p \in Processes, End(p)
    PROVE  IInv'
BY ControlOK, NoLocalsType, NoLocalsShape DEF End, PCs, IInv, TypeOK


Kinds == {"page", "authorize", "token", "expired", "signout", "remove", "cleanup"}

\* What a request that begins knows.
LEMMA BeginLocals ==
    ASSUME TypeOK, NEW r \in Processes, NEW label \in PCs, NEW kind \in Kinds,
           NEW k \in Sessions \union {NoRow}, NEW c \in Clients \union {NoRow},
           NEW t \in Rows \union {NoRow}, Begin(r, label, kind, k, c, t)
    PROVE  /\ pc[r] = "idle" /\ UNCHANGED <<now, table, tokens, history>>
           /\ loc'[r] \in Locals /\ Goto(r, label, loc'[r])
           /\ loc'[r].kind = kind /\ loc'[r].key = k /\ loc'[r].client = c
           /\ loc'[r].ticket = t /\ loc'[r].found = {} /\ loc'[r].todo = {}
           /\ ~loc'[r].stuck /\ ~loc'[r].stale
           /\ loc'[r].late => k \in ended
<1> DEFINE next == [NoLocals EXCEPT !.kind = kind, !.key = k, !.client = c,
                                    !.ticket = t, !.late = k \in ended]
<1>1. PICK b \in BOOLEAN : b = (k \in ended)
    <2>1. (k \in ended) \in BOOLEAN
        OBVIOUS
    <2> QED
        BY <2>1, Zenon
<1>2. next = [NoLocals EXCEPT !.kind = kind, !.key = k, !.client = c,
                              !.ticket = t, !.late = b]
    BY <1>1
<1>3. /\ next \in Locals
      /\ next.kind = kind /\ next.key = k /\ next.client = c /\ next.ticket = t
      /\ next.found = {} /\ next.todo = {} /\ ~next.stuck /\ ~next.stale
      /\ next.late = b
    <2> HIDE DEF next
    <2> QED
        BY <1>2 DEF NoLocals, Locals, Kinds
<1>4. Goto(r, label, next) /\ pc[r] = "idle" /\ UNCHANGED <<now, table, tokens, history>>
    BY DEF Begin
<1> HIDE DEF next
<1>5. next.late => k \in ended
    BY <1>1, <1>3, Zenon
<1>6. loc'[r] = next
    BY <1>3, <1>4 DEF Goto, TypeOK
<1> QED
    BY <1>3, <1>4, <1>5, <1>6

LEMMA BeginOK ==
    ASSUME IInv, NEW r \in Processes, NEW label \in PCs, NEW kind \in Kinds \ {"cleanup"},
           NEW k \in Sessions \union {NoRow}, NEW c \in Clients \union {NoRow},
           NEW t \in Rows \union {NoRow}, Begin(r, label, kind, k, c, t),
           label = "revoke" => kind = "remove" /\ k = NoRow,
           label # "revoke" => k \in Sessions /\ inserts[k] > 0 /\ kind # "remove",
           label = "validate" => kind = "token" /\ t = NoRow,
           label \in {"issue", "get"} =>
               /\ Present(k) /\ kind \in Renewing
               /\ t \in Rows /\ t.expires <= now + Lifetime,
           label = "issue" => c \in Clients,
           label = "lookup" => Present(k) /\ kind \in {"expired", "signout"},
           label \in {"revoke", "validate", "issue", "get", "lookup"}
    PROVE  IInv'
<1>1. PICK l \in Locals :
        /\ Goto(r, label, l)
        /\ l.kind = kind /\ l.key = k /\ l.client = c /\ l.ticket = t
        /\ l.found = {} /\ l.todo = {} /\ ~l.stuck /\ ~l.stale
        /\ l.late => k \in ended
    <2>1. TypeOK /\ kind \in Kinds
        BY DEF IInv
    <2>2. PICK l : l = loc'[r]
        OBVIOUS
    <2> QED
        BY <2>1, <2>2, BeginLocals
<1>2. l.late => k \in Sessions /\ Gone(k) /\ (label = "validate" \/ inserts[k] > 1)
    <2>1. ended \in SUBSET Sessions
        BY DEF IInv, TypeOK
    <2>2. k \in ended => k \in Sessions /\ Gone(k)
        BY <2>1 DEF IInv, KeyInv
    <2> QED
        BY <1>1, <2>2, SessionAssumption DEF Gone
<1>3. Shape(label, l)
    BY <1>1, <1>2 DEF Shape, Holding
<1>4. Removal(label, l)
    BY <1>1 DEF Removal
<1>5. UNCHANGED <<now, table, tokens, history>>
    BY DEF Begin
<1> QED
    BY <1>1, <1>3, <1>4, <1>5, GoOnOK

LEMMA PresentInserts ==
    ASSUME IInv, NEW k \in Sessions, Present(k)
    PROVE  inserts[k] > 0 /\ inserts[k] \in Nat /\ row[k].expires <= now + Lifetime
BY DEF IInv, KeyInv, TypeOK

LEMMA SignInOK ==
    ASSUME IInv, NEW k \in Sessions, SignIn(k)
    PROVE  IInv'
<1>1. PICK w \in Rows : /\ w.id = 1 /\ w.expires = now + Lifetime
                        /\ row' = [row EXCEPT ![k] = w]
    <2>1. PICK b \in BOOLEAN :
            row' = [row EXCEPT ![k] = [id |-> 1, expires |-> now + Lifetime,
                                       clients |-> {}, persistent |-> b]]
        BY DEF SignIn
    <2>2. now + Lifetime \in Nat
        BY SessionAssumption DEF IInv, TypeOK
    <2> DEFINE new == [id |-> 1, expires |-> now + Lifetime, clients |-> {}, persistent |-> b]
    <2>3. new \in Rows /\ new.id = 1 /\ new.expires = now + Lifetime
        BY <2>2 DEF Rows
    <2> HIDE DEF new
    <2>4. row' = [row EXCEPT ![k] = new]
        BY <2>1 DEF new
    <2> QED
        BY <2>3, <2>4
<1>2. /\ inserts[k] = 0 /\ inserts' = [inserts EXCEPT ![k] = 1]
      /\ UNCHANGED <<now, tokens, pc, loc, due, ended>>
    BY DEF SignIn, history
<1>3. TypeOK'
    BY <1>1, <1>2 DEF IInv, TypeOK
<1>4. \A j \in Sessions : j # k => row'[j] = row[j] /\ inserts'[j] = inserts[j]
    BY <1>1, <1>2 DEF IInv, TypeOK
<1>5. row'[k] = w /\ inserts'[k] = 1
    BY <1>1, <1>2 DEF IInv, TypeOK
<1>6. TableGrows
    BY <1>2, <1>4, <1>5 DEF TableGrows, IInv, TypeOK, Gone, Present
<1>7. KeyInv'
    <2> SUFFICES ASSUME NEW j \in Sessions
                 PROVE  /\ Present(j)' => /\ row'[j].id \in 1..inserts'[j]
                                          /\ row'[j].expires <= now + Lifetime
                        /\ j \in ended => inserts'[j] > 0 /\ Gone(j)'
                        /\ \A c \in Clients : <<j, c>> \in tokens => inserts'[j] > 0
        BY <1>2 DEF KeyInv
    <2>1. CASE j = k
        BY <1>1, <1>2, <1>5, <2>1, SessionAssumption DEF IInv, KeyInv, TypeOK
    <2>2. CASE j # k
        BY <1>2, <1>4, <2>2 DEF IInv, KeyInv, Gone, Present
    <2> QED
        BY <2>1, <2>2
<1>8. \A q \in Processes : pc'[q] = pc[q] /\ loc'[q] = loc[q]
    BY <1>2
<1> QED
    BY <1>3, <1>6, <1>7, <1>8, StepOK

LEMMA AuthenticateOK ==
    ASSUME IInv, NEW r \in Requests, NEW k \in Sessions, Authenticate(r, k)
    PROVE  IInv'
<1>1. /\ Present(k) /\ inserts[k] > 0 /\ r \in Processes /\ TypeOK
      /\ row[k].expires <= now + Lifetime
    BY PresentInserts DEF Authenticate, Processes, IInv
<1>2. /\ Ticket(k) \in Rows /\ Extended(k) \in Rows
      /\ Ticket(k).expires <= now + Lifetime /\ Extended(k).expires <= now + Lifetime
    BY <1>1, RowType, SessionAssumption DEF TypeOK
<1>3. CASE Begin(r, "lookup", "expired", k, NoRow, NoRow)
    BY <1>1, <1>3, BeginOK DEF PCs, Kinds
<1>4. CASE Begin(r, "get", "page", k, NoRow, Extended(k))
    <2>1. PICK t \in Rows : t = Extended(k)
        BY <1>2
    <2> QED
        BY <1>1, <1>2, <1>4, <2>1, BeginOK DEF PCs, Kinds, Renewing
<1>5. ASSUME NEW c \in Clients, Begin(r, "issue", "authorize", k, c, Ticket(k))
      PROVE  IInv'
    <2>1. PICK t \in Rows : t = Ticket(k)
        BY <1>2
    <2> QED
        BY <1>1, <1>2, <1>5, <2>1, BeginOK DEF PCs, Kinds, Renewing
<1>6. CASE Begin(r, "lookup", "signout", k, NoRow, Ticket(k))
    BY <1>1, <1>2, <1>6, BeginOK DEF PCs, Kinds
<1> QED
    BY <1>3, <1>4, <1>5, <1>6 DEF Authenticate

LEMMA UseTokenOK ==
    ASSUME IInv, NEW r \in Requests, NEW k \in Sessions, NEW c \in Clients, UseToken(r, k, c)
    PROVE  IInv'
<1>1. inserts[k] > 0 /\ r \in Processes /\ Begin(r, "validate", "token", k, c, NoRow)
    BY DEF UseToken, IInv, KeyInv, Processes
<1> QED
    BY <1>1, BeginOK DEF PCs, Kinds

LEMMA RemoveSessionsOK ==
    ASSUME IInv, NEW r \in Requests, RemoveSessions(r)
    PROVE  IInv'
BY BeginOK DEF RemoveSessions, PCs, Kinds, Processes

\* A process whose copy has become stale.
LEMMA StaleShape ==
    ASSUME NEW p, NEW l \in Locals, Shape(p, l), Removal(p, l), l.ticket # NoRow,
           NEW n, n = [l EXCEPT !.stale = TRUE]
    PROVE  /\ n \in Locals /\ Shape(p, n) /\ Removal(p, n) /\ n.stale
           /\ n.kind = l.kind /\ n.key = l.key /\ n.client = l.client /\ n.ticket = l.ticket
           /\ n.found = l.found /\ n.todo = l.todo /\ n.stuck = l.stuck /\ n.late = l.late
<1>1. /\ n \in Locals /\ n.stale
      /\ n.kind = l.kind /\ n.key = l.key /\ n.client = l.client /\ n.ticket = l.ticket
      /\ n.found = l.found /\ n.todo = l.todo /\ n.stuck = l.stuck /\ n.late = l.late
    BY DEF Locals
<1>2. p # "idle"
    BY NoLocalsType DEF Shape
<1>3. Shape(p, n) /\ Removal(p, n)
    BY <1>1, <1>2 DEF Shape, Removal
<1> QED
    BY <1>1, <1>3

\* The answer to a request ends it, and may make the copies of others stale.
Overtaken(q, r, written) ==
    written /\ loc[q].key = loc[r].key /\ loc[q].kind \in Renewing /\ loc[q].ticket # NoRow

LEMMA AnswerStep ==
    ASSUME IInv, NEW r \in Requests, NEW written \in BOOLEAN, Answer(r, written)
    PROVE  /\ pc' \in [Processes -> PCs] /\ loc' \in [Processes -> Locals]
           /\ pc'[r] = "idle" /\ loc'[r] = NoLocals
           /\ \A q \in Processes : q # r =>
                /\ pc'[q] = pc[q]
                /\ ~Overtaken(q, r, written) => loc'[q] = loc[q]
                /\ Overtaken(q, r, written) => loc'[q] = [loc[q] EXCEPT !.stale = TRUE]
           /\ UNCHANGED <<now, tokens, due, ended>>
<1>1. /\ pc' = [pc EXCEPT ![r] = "idle"]
      /\ loc' = [q \in Processes |->
            IF q = r THEN NoLocals
            ELSE IF Overtaken(q, r, written) THEN [loc[q] EXCEPT !.stale = TRUE] ELSE loc[q]]
      /\ UNCHANGED <<now, tokens, due, ended>>
    BY DEF Answer, Overtaken, history
<1>2. \A q \in Processes : Overtaken(q, r, written) => [loc[q] EXCEPT !.stale = TRUE] \in Locals
    <2> SUFFICES ASSUME NEW q \in Processes, Overtaken(q, r, written)
                 PROVE  [loc[q] EXCEPT !.stale = TRUE] \in Locals
        OBVIOUS
    <2>1. PICK p \in PCs, l \in Locals : p = pc[q] /\ l = loc[q] /\ Shape(p, l) /\ Removal(p, l)
        BY DEF IInv, TypeOK, PCs
    <2> QED
        BY <2>1, StaleShape DEF Overtaken
<1>3. loc' \in [Processes -> Locals]
    BY <1>1, <1>2, NoLocalsType DEF IInv, TypeOK
<1>4. r \in Processes /\ pc \in [Processes -> PCs]
    BY DEF Processes, IInv, TypeOK, PCs
<1>5. pc' \in [Processes -> PCs] /\ pc'[r] = "idle" /\ \A q \in Processes : q # r => pc'[q] = pc[q]
    BY <1>1, <1>4 DEF PCs
<1>6. /\ loc'[r] = NoLocals
      /\ \A q \in Processes : q # r =>
            /\ ~Overtaken(q, r, written) => loc'[q] = loc[q]
            /\ Overtaken(q, r, written) => loc'[q] = [loc[q] EXCEPT !.stale = TRUE]
    BY <1>1, <1>4
<1> QED
    BY <1>1, <1>3, <1>5, <1>6

LEMMA AnswerOK ==
    ASSUME IInv, NEW r \in Requests, NEW written \in BOOLEAN, Answer(r, written),
           row' \in [Sessions -> Rows \union {NoRow}], inserts' \in [Sessions -> Nat],
           TableGrows, KeyInv'
    PROVE  IInv'
<1>1. TypeOK'
    BY AnswerStep DEF IInv, TypeOK, PCs
<1>2. ASSUME NEW q \in Processes, pc'[q] # pc[q] \/ loc'[q] # loc[q]
      PROVE  Shape(pc[q], loc[q])' /\ Removal(pc[q], loc[q])'
    <2>1. CASE q = r
        <3>1. Shape("idle", NoLocals)' /\ Removal("idle", NoLocals)'
            BY NoLocalsShape, ShapeKept DEF IInv
        <3>2. pc'[q] = "idle" /\ loc'[q] = NoLocals
            BY <2>1, AnswerStep
        <3> QED
            BY <3>1, <3>2
    <2>2. CASE q # r
        <3>1. Overtaken(q, r, written) /\ pc'[q] = pc[q] /\ loc'[q] = [loc[q] EXCEPT !.stale = TRUE]
            BY <1>2, <2>2, AnswerStep
        <3>2. PICK p \in PCs, l \in Locals : p = pc[q] /\ l = loc[q] /\ Shape(p, l) /\ Removal(p, l)
            BY DEF IInv, TypeOK, PCs
        <3>3. PICK n : n = [l EXCEPT !.stale = TRUE]
            OBVIOUS
        <3>4. Shape(p, n) /\ Removal(p, n)
            BY <3>1, <3>2, <3>3, StaleShape DEF Overtaken
        <3>5. Shape(p, n)' /\ Removal(p, n)'
            BY <3>4, ShapeKept DEF IInv
        <3> QED
            BY <3>1, <3>2, <3>3, <3>5
    <2> QED
        BY <2>1, <2>2
<1> QED
    BY <1>1, <1>2, StepOK

LEMMA AnswerUnwritten ==
    ASSUME IInv, NEW r \in Requests, NEW written \in BOOLEAN, Answer(r, written), UNCHANGED table
    PROVE  IInv'
<1>1. UNCHANGED <<now, tokens, ended>>
    BY AnswerStep
<1>2. TableGrows /\ KeyInv'
    BY <1>1, TableSame DEF IInv, KeyInv, Gone, Present, table
<1> QED
    BY <1>2, AnswerOK DEF IInv, TypeOK, table

\* What a request knows at the steps of a renewal.
LEMMA HoldingFacts ==
    ASSUME IInv, NEW r \in Requests, pc[r] \in Holding
    PROVE  \E l \in Locals :
             /\ l = loc[r] /\ Shape(pc[r], l) /\ Removal(pc[r], l)
             /\ l.key \in Sessions /\ inserts[l.key] > 0 /\ l.kind \in Renewing
             /\ l.ticket \in Rows /\ l.ticket.expires <= now + Lifetime /\ l.todo = {}
<1>1. PICK l \in Locals : l = loc[r] /\ Shape(pc[r], l) /\ Removal(pc[r], l)
    BY DEF IInv, TypeOK, Processes
<1> QED
    BY <1>1 DEF Shape, Removal, Holding, Renewing

\* A row is written, or inserted under the next Id.
LEMMA WriteOK ==
    ASSUME IInv, NEW k \in Sessions, NEW w \in Rows, row' = [row EXCEPT ![k] = w],
           NEW n \in Nat, inserts' = [inserts EXCEPT ![k] = n], inserts[k] <= n,
           UNCHANGED <<now, tokens, ended>>, inserts[k] > 0, Present(k) \/ n > 1,
           w.id \in 1..n, w.expires <= now + Lifetime
    PROVE  /\ row' \in [Sessions -> Rows \union {NoRow}] /\ inserts' \in [Sessions -> Nat]
           /\ TableGrows /\ KeyInv'
<1>1. row' \in [Sessions -> Rows \union {NoRow}] /\ inserts' \in [Sessions -> Nat]
    BY DEF IInv, TypeOK
<1>2. /\ row'[k] = w /\ inserts'[k] = n
      /\ \A j \in Sessions : j # k => row'[j] = row[j] /\ inserts'[j] = inserts[j]
    BY DEF IInv, TypeOK
<1>3. Gone(k) => Gone(k)'
    BY <1>2 DEF Gone, IInv, TypeOK
<1>4. TableGrows
    BY <1>1, <1>2, <1>3 DEF TableGrows, IInv, TypeOK, Gone, Present
<1>5. ASSUME NEW j \in Sessions
      PROVE  /\ Present(j)' => row'[j].id \in 1..inserts'[j] /\ row'[j].expires <= now + Lifetime
             /\ j \in ended => inserts'[j] > 0 /\ Gone(j)'
             /\ \A c \in Clients : <<j, c>> \in tokens => inserts'[j] > 0
    <2>1. CASE j = k
        BY <1>2, <1>3, <2>1 DEF IInv, KeyInv, TypeOK
    <2>2. CASE j # k
        BY <1>2, <2>2 DEF IInv, KeyInv, Gone, Present
    <2> QED
        BY <2>1, <2>2
<1>6. KeyInv'
    BY <1>5 DEF KeyInv
<1> QED
    BY <1>1, <1>4, <1>6

LEMMA IssueOK ==
    ASSUME IInv, NEW r \in Requests, Issue(r)
    PROVE  IInv'
<1>1. PICK l \in Locals :
        /\ l = loc[r] /\ Shape("issue", l) /\ Removal("issue", l)
        /\ l.key \in Sessions /\ inserts[l.key] > 0 /\ l.kind \in Renewing
        /\ l.ticket \in Rows /\ l.ticket.expires <= now + Lifetime /\ l.todo = {}
    BY HoldingFacts DEF Issue, Holding, IInv, TypeOK, Processes
<1>2. l.client \in Clients /\ r \in Processes
    BY <1>1 DEF Shape, Processes
<1>3. /\ tokens' = tokens \union {<<l.key, l.client>>} /\ UNCHANGED <<now, table, due, ended>>
      /\ IF l.client \in l.ticket.clients THEN End(r)
         ELSE Goto(r, "get", [l EXCEPT !.client = NoRow,
                                       !.ticket.clients = @ \union {l.client}])
    BY <1>1 DEF Issue, history
<1>4. tokens' \in SUBSET (Sessions \X Clients)
    BY <1>1, <1>2, <1>3 DEF IInv, TypeOK
<1>5. \A k \in Sessions : \A c \in Clients :
          <<k, c>> \in tokens' => <<k, c>> \in tokens \/ inserts[k] > 0
    BY <1>1, <1>3
<1>6. CASE l.client \in l.ticket.clients
    BY <1>2, <1>3, <1>4, <1>5, <1>6, NoLocalsType, NoLocalsShape, ControlOK
       DEF End, PCs, IInv, TypeOK
<1>7. CASE l.client \notin l.ticket.clients
    <2>1. PICK t \in Rows : t = [l.ticket EXCEPT !.clients = @ \union {l.client}]
                            /\ t.expires = l.ticket.expires
        <3>1. PICK t \in Rows : t = l.ticket
            BY <1>1
        <3>2. /\ [t EXCEPT !.clients = @ \union {l.client}] \in Rows
              /\ [t EXCEPT !.clients = @ \union {l.client}].expires = t.expires
            BY <1>2 DEF Rows
        <3> QED
            BY <3>1, <3>2
    <2> DEFINE next == [l EXCEPT !.client = NoRow, !.ticket.clients = @ \union {l.client}]
    <2>2. next = [l EXCEPT !.client = NoRow, !.ticket = t]
        BY <2>1 DEF Locals
    <2>3. Goto(r, "get", next)
        BY <1>3, <1>7
    <2> HIDE DEF next
    <2>4. /\ next \in Locals /\ next.kind = l.kind /\ next.key = l.key /\ next.ticket = t
          /\ next.found = l.found /\ next.todo = l.todo /\ next.late = l.late
        BY <2>2 DEF Locals
    <2>5. Shape("get", next) /\ Removal("get", next)
        BY <1>1, <2>1, <2>4 DEF Shape, Removal, Holding, Renewing
    <2> QED
        BY <1>2, <1>3, <1>4, <1>5, <2>3, <2>4, <2>5, ControlOK DEF PCs, IInv, TypeOK
<1> QED
    BY <1>6, <1>7

LEMMA GetOK ==
    ASSUME IInv, NEW r \in Requests, Get(r)
    PROVE  IInv'
<1>1. PICK l \in Locals :
        /\ l = loc[r] /\ Shape("get", l) /\ Removal("get", l)
        /\ l.key \in Sessions /\ inserts[l.key] > 0 /\ l.kind \in Renewing
        /\ l.ticket \in Rows /\ l.ticket.expires <= now + Lifetime /\ l.todo = {}
    BY HoldingFacts DEF Get, Holding, IInv, TypeOK, Processes
<1>2. \E label \in {"query", "create"} : Goto(r, label, l)
    BY <1>1 DEF Get
<1>3. PICK label \in {"query", "create"} : Goto(r, label, l)
    BY <1>2
<1>4. Shape(label, l) /\ Removal(label, l)
    BY <1>1 DEF Shape, Removal, Holding, Renewing
<1>5. UNCHANGED <<now, table, tokens, history>>
    BY DEF Get
<1> QED
    BY <1>1, <1>3, <1>4, <1>5, GoOnOK DEF PCs, Processes

LEMMA CreateOK ==
    ASSUME IInv, NEW r \in Requests, Create(r)
    PROVE  IInv'
<1>1. PICK l \in Locals :
        /\ l = loc[r] /\ l.key \in Sessions /\ inserts[l.key] > 0
        /\ l.ticket \in Rows /\ l.ticket.expires <= now + Lifetime
    BY HoldingFacts DEF Create, Holding, IInv, TypeOK, Processes
<1>2. CASE /\ row' = [row EXCEPT ![l.key] = [l.ticket EXCEPT !.id = inserts[l.key] + 1]]
           /\ inserts' = [inserts EXCEPT ![l.key] = @ + 1]
           /\ Answer(r, TRUE)
    <2>1. PICK n \in Nat : n = inserts[l.key] + 1 /\ n > 1 /\ inserts[l.key] <= n
        <3>1. PICK i \in Nat : i = inserts[l.key] /\ i > 0
            BY <1>1 DEF IInv, TypeOK
        <3>2. i + 1 \in Nat /\ i + 1 > 1 /\ i <= i + 1
            BY <3>1
        <3> QED
            BY <3>1, <3>2
    <2>2. PICK w \in Rows : /\ w = [l.ticket EXCEPT !.id = n]
                            /\ w.id = n /\ w.expires = l.ticket.expires
        <3>1. PICK t \in Rows : t = l.ticket
            BY <1>1
        <3>2. [t EXCEPT !.id = n] \in Rows /\ [t EXCEPT !.id = n].id = n
              /\ [t EXCEPT !.id = n].expires = t.expires
            BY DEF Rows
        <3> QED
            BY <3>1, <3>2
    <2>3. row' = [row EXCEPT ![l.key] = w] /\ inserts' = [inserts EXCEPT ![l.key] = n]
        BY <1>2, <2>1, <2>2
    <2>4. UNCHANGED <<now, tokens, ended>>
        BY <1>2, AnswerStep
    <2>5. w.id \in 1..n /\ w.expires <= now + Lifetime
        BY <1>1, <2>1, <2>2
    <2> QED
        BY <1>1, <1>2, <2>1, <2>3, <2>4, <2>5, WriteOK, AnswerOK
<1>3. CASE Answer(r, FALSE) /\ UNCHANGED table
    BY <1>3, AnswerUnwritten
<1> QED
    BY <1>1, <1>2, <1>3 DEF Create

LEMMA QueryOK ==
    ASSUME IInv, NEW r \in Requests, Query(r)
    PROVE  IInv'
<1>1. PICK l \in Locals :
        /\ l = loc[r] /\ Shape("query", l) /\ Removal("query", l)
        /\ l.key \in Sessions /\ inserts[l.key] > 0 /\ l.kind \in Renewing
        /\ l.ticket \in Rows /\ l.ticket.expires <= now + Lifetime /\ l.todo = {}
    BY HoldingFacts DEF Query, Holding, IInv, TypeOK, Processes
<1>2. CASE /\ Present(l.key)
           /\ Goto(r, "save", [l EXCEPT !.found = RowsOf({l.key})])
           /\ UNCHANGED <<now, table, tokens, history>>
    <2>1. PICK k \in Sessions : k = l.key
        BY <1>1
    <2>2. PICK i \in 1..inserts[k] : i = row[k].id
        BY <1>2, <2>1 DEF IInv, KeyInv
    <2>3. RowsOf({k}) = {<<k, i>>} /\ RowsOf({k}) \in SUBSET Ids
        BY <1>2, <2>1, <2>2, RowsOfType DEF RowsOf, IInv
    <2> DEFINE next == [l EXCEPT !.found = RowsOf({k})]
    <2>4. /\ next \in Locals /\ next.kind = l.kind /\ next.key = k /\ next.ticket = l.ticket
          /\ next.found = {<<k, i>>} /\ next.todo = l.todo /\ next.late = l.late
        BY <2>1, <2>3 DEF Locals
    <2>5. Goto(r, "save", next)
        BY <1>2, <2>1
    <2> HIDE DEF next
    <2>6. Shape("save", next) /\ Removal("save", next)
        BY <1>1, <2>1, <2>2, <2>4 DEF Shape, Removal, Holding, Renewing
    <2> QED
        BY <1>2, <2>4, <2>5, <2>6, GoOnOK DEF PCs, Processes
<1>3. CASE Answer(r, FALSE) /\ UNCHANGED table
    BY <1>3, AnswerUnwritten
<1> QED
    BY <1>1, <1>2, <1>3 DEF Query

\* What a save that goes through writes.
LEMMA SaveStep ==
    ASSUME IInv, NEW r \in Requests, Save(r)
    PROVE  \E l \in Locals, w \in Rows :
             /\ l = loc[r] /\ l.key \in Sessions /\ inserts[l.key] > 0
             /\ Present(l.key) /\ l.kind \in Renewing
             /\ w.id = row[l.key].id /\ w.expires = l.ticket.expires
             /\ w.clients = l.ticket.clients
             /\ w.expires <= now + Lifetime
             /\ row' = [row EXCEPT ![l.key] = w] /\ UNCHANGED inserts
             /\ Answer(r, TRUE)
<1>1. PICK l \in Locals :
        /\ l = loc[r] /\ Shape("save", l)
        /\ l.key \in Sessions /\ inserts[l.key] > 0 /\ l.kind \in Renewing
        /\ l.ticket \in Rows /\ l.ticket.expires <= now + Lifetime
    BY HoldingFacts DEF Save, Holding, IInv, TypeOK, Processes
<1>2. PICK i \in Nat : l.found = {<<l.key, i>>}
    BY <1>1 DEF Shape, IInv, TypeOK
<1>3. Present(l.key)
    BY <1>1, <1>2 DEF Save, Unchanged
<1>4. row[l.key] \in Rows
    BY <1>1, <1>3, RowType DEF IInv
<1>5. PICK t \in Rows : t = l.ticket
    BY <1>1
<1>6. PICK i2 \in Nat : i2 = row[l.key].id
    BY <1>4 DEF Rows
<1>7. /\ [t EXCEPT !.id = i2] \in Rows /\ [t EXCEPT !.id = i2].id = i2
      /\ [t EXCEPT !.id = i2].expires = t.expires /\ [t EXCEPT !.id = i2].clients = t.clients
    BY DEF Rows
<1>8. PICK w \in Rows : /\ w = [t EXCEPT !.id = i2] /\ w.id = i2
                        /\ w.expires = t.expires /\ w.clients = t.clients
    BY <1>7
<1>9. /\ row' = [row EXCEPT ![l.key] = w] /\ UNCHANGED inserts
      /\ Answer(r, TRUE)
    BY <1>1, <1>5, <1>6, <1>8 DEF Save
<1> QED
    BY <1>1, <1>3, <1>5, <1>6, <1>8, <1>9

LEMMA SaveOK ==
    ASSUME IInv, NEW r \in Requests, Save(r)
    PROVE  IInv'
<1>1. PICK l \in Locals, w \in Rows :
        /\ l = loc[r] /\ l.key \in Sessions /\ inserts[l.key] > 0
        /\ Present(l.key) /\ w.id = row[l.key].id /\ w.expires <= now + Lifetime
        /\ row' = [row EXCEPT ![l.key] = w] /\ UNCHANGED inserts
        /\ Answer(r, TRUE)
    BY SaveStep
<1>2. PICK k \in Sessions, n \in Nat : k = l.key /\ n = inserts[k] /\ inserts[k] <= n
    BY <1>1 DEF IInv, TypeOK
<1>3. /\ row' = [row EXCEPT ![k] = w] /\ inserts' = [inserts EXCEPT ![k] = n]
      /\ w.id \in 1..n /\ inserts[k] > 0 /\ Present(k)
    BY <1>1, <1>2 DEF IInv, TypeOK, KeyInv
<1>4. UNCHANGED <<now, tokens, ended>>
    BY <1>1, AnswerStep
<1>5. /\ row' \in [Sessions -> Rows \union {NoRow}] /\ inserts' \in [Sessions -> Nat]
      /\ TableGrows /\ KeyInv'
    BY <1>1, <1>2, <1>3, <1>4, WriteOK
<1> QED
    BY <1>1, <1>5, AnswerOK

LEMMA SaveFailsOK ==
    ASSUME IInv, NEW r \in Requests, SaveFails(r)
    PROVE  IInv'
BY AnswerUnwritten DEF SaveFails

LEMMA ValidateOK ==
    ASSUME IInv, NEW r \in Requests, Validate(r)
    PROVE  IInv'
<1>1. PICK l \in Locals : l = loc[r] /\ Shape("validate", l) /\ Removal("validate", l)
    BY DEF Validate, IInv, TypeOK, Processes
<1>2. /\ l.key \in Sessions /\ inserts[l.key] > 0 /\ l.kind = "token" /\ l.todo = {}
      /\ r \in Processes /\ UNCHANGED <<now, table, tokens, history>>
    BY <1>1 DEF Shape, Removal, Validate, Processes
<1>3. CASE End(r)
    BY <1>2, <1>3, EndOK DEF history, IInv, TypeOK
<1>4. CASE /\ ValidSession(l.key)
           /\ \E label \in {"retrieve", "query"} :
                Goto(r, label, [l EXCEPT !.client = NoRow, !.ticket = Extended(l.key)])
    <2>1. PICK label \in {"retrieve", "query"} :
            Goto(r, label, [l EXCEPT !.client = NoRow, !.ticket = Extended(l.key)])
        BY <1>4
    <2>3. PICK t \in Rows : t = Extended(l.key) /\ t.expires <= now + Lifetime
        BY <1>2, <1>4, RowType, SessionAssumption DEF ValidSession, IInv, TypeOK, Rows
    <2> DEFINE next == [l EXCEPT !.client = NoRow, !.ticket = t]
    <2>4. /\ next \in Locals /\ next.kind = l.kind /\ next.key = l.key /\ next.ticket = t
          /\ next.found = l.found /\ next.todo = l.todo /\ next.late = l.late
        BY DEF Locals
    <2>5. Goto(r, label, next)
        BY <2>1, <2>3
    <2> HIDE DEF next
    <2>6. l.late => inserts[l.key] > 1
        BY <1>1, <1>4 DEF Shape, Gone, ValidSession
    <2>7. Shape(label, next) /\ Removal(label, next)
        BY <1>2, <2>3, <2>4, <2>6 DEF Shape, Removal, Holding, Renewing
    <2> QED
        BY <1>2, <2>4, <2>5, <2>7, GoOnOK DEF PCs
<1> QED
    BY <1>1, <1>2, <1>3, <1>4 DEF Validate

LEMMA RetrieveOK ==
    ASSUME IInv, NEW r \in Requests, Retrieve(r)
    PROVE  IInv'
<1>1. PICK l \in Locals :
        /\ l = loc[r] /\ Shape("retrieve", l) /\ Removal("retrieve", l)
        /\ l.key \in Sessions /\ inserts[l.key] > 0 /\ l.kind \in Renewing
        /\ l.ticket \in Rows /\ l.ticket.expires <= now + Lifetime /\ l.todo = {}
    BY HoldingFacts DEF Retrieve, Holding, IInv, TypeOK, Processes
<1>2. r \in Processes /\ UNCHANGED <<now, table, tokens, history>>
    BY DEF Retrieve, Processes
<1>3. CASE Present(l.key) /\ Goto(r, "get", [l EXCEPT !.ticket.clients = row[l.key].clients])
    <2>1. PICK C \in SUBSET Clients : C = row[l.key].clients
        BY <1>1, <1>3, RowType DEF IInv, Rows
    <2>2. PICK t \in Rows : t = [l.ticket EXCEPT !.clients = C] /\ t.expires = l.ticket.expires
        <3>1. PICK u \in Rows : u = l.ticket
            BY <1>1
        <3>2. [u EXCEPT !.clients = C] \in Rows /\ [u EXCEPT !.clients = C].expires = u.expires
            BY DEF Rows
        <3> QED
            BY <3>1, <3>2
    <2> DEFINE next == [l EXCEPT !.ticket.clients = C]
    <2>3. next = [l EXCEPT !.ticket = t]
        BY <2>2 DEF Locals
    <2>4. Goto(r, "get", next)
        BY <1>3, <2>1
    <2> HIDE DEF next
    <2>5. /\ next \in Locals /\ next.kind = l.kind /\ next.key = l.key /\ next.ticket = t
          /\ next.found = l.found /\ next.todo = l.todo /\ next.late = l.late
        BY <2>3 DEF Locals
    <2>6. Shape("get", next) /\ Removal("get", next)
        BY <1>1, <2>2, <2>5 DEF Shape, Removal, Holding, Renewing
    <2> QED
        BY <1>2, <2>4, <2>5, <2>6, GoOnOK DEF PCs
<1>4. CASE Goto(r, "query", l)
    <2>1. Shape("query", l) /\ Removal("query", l)
        BY <1>1 DEF Shape, Removal, Holding, Renewing
    <2> QED
        BY <1>2, <1>4, <2>1, GoOnOK DEF PCs
<1> QED
    BY <1>1, <1>3, <1>4 DEF Retrieve

LEMMA LookupOK ==
    ASSUME IInv, NEW r \in Requests, Lookup(r)
    PROVE  IInv'
<1>1. PICK l \in Locals : l = loc[r] /\ Shape("lookup", l) /\ Removal("lookup", l)
    BY DEF Lookup, IInv, TypeOK, Processes
<1>2. /\ l.key \in Sessions /\ inserts[l.key] > 0 /\ l.kind \in {"expired", "signout"}
      /\ l.late => inserts[l.key] > 1
      /\ r \in Processes /\ UNCHANGED <<now, table, tokens, history>>
    BY <1>1 DEF Shape, Lookup, Processes
<1>3. PICK T \in SUBSET [key : Sessions, clients : SUBSET Clients] :
        /\ Goto(r, "find", [l EXCEPT !.todo = T])
        /\ l.kind # "expired" => T = {}
        /\ \A s \in T : s.key = l.key
        /\ (l.kind = "expired" /\ T = {}) => Gone(l.key)
    <2> DEFINE T == IF l.kind = "expired" THEN Copies({l.key}) ELSE {}
    <2>1. Goto(r, "find", [l EXCEPT !.todo = T])
        BY <1>1 DEF Lookup
    <2>2. /\ T \in SUBSET [key : Sessions, clients : SUBSET Clients]
          /\ l.kind # "expired" => T = {}
          /\ \A s \in T : s.key = l.key
          /\ (l.kind = "expired" /\ T = {}) => Gone(l.key)
        BY <1>2, CopiesType DEF IInv, Gone
    <2> QED
        BY <2>1, <2>2
<1> DEFINE next == [l EXCEPT !.todo = T]
<1>4. /\ next \in Locals /\ next.kind = l.kind /\ next.key = l.key /\ next.late = l.late
      /\ next.todo = T
    BY DEF Locals
<1>5. Goto(r, "find", next)
    BY <1>3
<1> HIDE DEF next
<1>6. Shape("find", next) /\ Removal("find", next)
    BY <1>2, <1>3, <1>4 DEF Shape, Removal, Holding, Gone
<1> QED
    BY <1>2, <1>4, <1>5, <1>6, GoOnOK DEF PCs

LEMMA RevokeOK ==
    ASSUME IInv, NEW r \in Requests, Revoke(r)
    PROVE  IInv'
<1>1. PICK l \in Locals : l = loc[r] /\ Shape("revoke", l) /\ Removal("revoke", l)
    BY DEF Revoke, IInv, TypeOK, Processes
<1>2. PICK conflict \in BOOLEAN :
        /\ Goto(r, "find", [l EXCEPT !.stuck = conflict])
        /\ tokens' \subseteq tokens
    BY <1>1 DEF Revoke, RemoveAll
<1> DEFINE next == [l EXCEPT !.stuck = conflict]
<1>3. /\ next \in Locals /\ next.kind = l.kind /\ next.key = l.key /\ next.late = l.late
      /\ next.todo = l.todo /\ next.found = l.found
    BY DEF Locals
<1>4. Goto(r, "find", next)
    BY <1>2
<1> HIDE DEF next
<1>5. Shape("find", next) /\ Removal("find", next)
    BY <1>1, <1>3 DEF Shape, Removal, Holding
<1>6. r \in Processes /\ UNCHANGED <<now, table, due, ended>>
    BY DEF Revoke, Processes, history
<1> QED
    BY <1>2, <1>3, <1>4, <1>5, <1>6, ControlOK DEF PCs, IInv, TypeOK

\* What a request does next, at either way out of a deletion.
LEMMA DeletedShape ==
    ASSUME NEW r \in Requests, NEW l \in Locals, NEW p \in {"find", "delete"},
           Shape(p, l), Removal(p, l), Deleted(r, l)
    PROVE  \/ /\ Goto(r, "expire", l) /\ Shape("expire", l) /\ Removal("expire", l)
              /\ l.kind = "expired" /\ l.todo # {}
           \/ /\ Goto(r, "logout", l) /\ Shape("logout", l) /\ Removal("logout", l)
              /\ l.kind = "signout" /\ l.todo = {}
           \/ End(r) /\ l.todo = {} /\ l.kind \in {"expired", "remove"}
<1>1. l.kind \in {"expired", "signout", "remove"} /\ p # "idle" /\ p # "validate"
    BY DEF Shape
<1>2. CASE l.kind = "expired" /\ l.todo # {}
    BY <1>1, <1>2 DEF Deleted, Shape, Removal, Holding
<1>3. CASE l.kind = "signout"
    BY <1>1, <1>3 DEF Deleted, Shape, Removal, Holding
<1>4. CASE l.kind = "remove" \/ (l.kind = "expired" /\ l.todo = {})
    BY <1>1, <1>4 DEF Deleted, Removal
<1> QED
    BY <1>1, <1>2, <1>3, <1>4

LEMMA DeletedOK ==
    ASSUME IInv, UNCHANGED <<now, table, tokens, history>>,
           NEW r \in Requests, NEW l \in Locals, NEW p \in {"find", "delete"},
           Shape(p, l), Removal(p, l), Deleted(r, l)
    PROVE  IInv'
<1>1. r \in Processes /\ UNCHANGED <<now, table, tokens, ended>> /\ due' \in SUBSET Sessions
    BY DEF Processes, history, IInv, TypeOK
<1>2. \/ End(r)
      \/ \E label \in {"expire", "logout"} :
            Goto(r, label, l) /\ Shape(label, l) /\ Removal(label, l)
    BY DeletedShape
<1> QED
    BY <1>1, <1>2, EndOK, GoOnOK DEF PCs

LEMMA FindOK ==
    ASSUME IInv, NEW r \in Requests, Find(r)
    PROVE  IInv'
<1>1. PICK l \in Locals : l = loc[r] /\ Shape("find", l) /\ Removal("find", l)
    BY DEF Find, IInv, TypeOK, Processes
<1>2. /\ l.kind \in {"expired", "signout", "remove"}
      /\ l.kind # "remove" => l.key \in Sessions /\ inserts[l.key] > 0
      /\ r \in Processes /\ UNCHANGED <<now, table, tokens, history>>
    BY <1>1 DEF Shape, Find, Processes
<1>3. PICK F \in SUBSET Ids :
        /\ IF F = {} THEN Deleted(r, l) ELSE Goto(r, "delete", [l EXCEPT !.found = F])
        /\ l.kind # "remove" => KeysOf(F) \subseteq {l.key}
    <2>1. PICK K \in SUBSET Sessions : K = IF l.kind = "remove" THEN Sessions ELSE {l.key}
        BY <1>2
    <2>2. /\ RowsOf(K) \in SUBSET Ids
          /\ KeysOf(RowsOf(K)) \subseteq K
        BY RowsOfType DEF IInv
    <2>3. IF RowsOf(K) = {} THEN Deleted(r, l) ELSE Goto(r, "delete", [l EXCEPT !.found = RowsOf(K)])
        BY <1>1, <2>1 DEF Find
    <2> QED
        BY <2>1, <2>2, <2>3
<1>4. CASE F = {}
    BY <1>1, <1>2, <1>3, <1>4, DeletedOK
<1>5. CASE F # {}
    <2> DEFINE next == [l EXCEPT !.found = F]
    <2>1. /\ next \in Locals /\ next.kind = l.kind /\ next.key = l.key /\ next.late = l.late
          /\ next.todo = l.todo /\ next.found = F
        BY DEF Locals
    <2>2. Goto(r, "delete", next)
        BY <1>3, <1>5
    <2> HIDE DEF next
    <2>3. Shape("delete", next) /\ Removal("delete", next)
        BY <1>1, <1>2, <1>3, <2>1 DEF Shape, Removal, Holding
    <2> QED
        BY <1>2, <2>1, <2>2, <2>3, GoOnOK DEF PCs
<1> QED
    BY <1>4, <1>5

LEMMA DeleteFailsOK ==
    ASSUME IInv, NEW r \in Requests, DeleteFails(r)
    PROVE  IInv'
<1>1. PICK l \in Locals : l = loc[r] /\ Shape("delete", l) /\ Removal("delete", l)
    BY DEF DeleteFails, IInv, TypeOK, Processes
<1> DEFINE next == [l EXCEPT !.stuck = TRUE]
<1>2. /\ next \in Locals /\ next.kind = l.kind /\ next.key = l.key /\ next.late = l.late
      /\ next.todo = l.todo /\ next.found = l.found
    BY DEF Locals
<1>3. Deleted(r, next) /\ UNCHANGED <<now, table, tokens, history>>
    BY <1>1 DEF DeleteFails
<1> HIDE DEF next
<1>4. Shape("delete", next) /\ Removal("delete", next)
    BY <1>1, <1>2 DEF Shape, Removal, Holding
<1> QED
    BY <1>2, <1>3, <1>4, DeletedOK

LEMMA LogoutOK ==
    ASSUME IInv, NEW r \in Requests, Logout(r)
    PROVE  IInv'
<1>1. PICK l \in Locals : l = loc[r] /\ Shape("logout", l)
    BY DEF Logout, IInv, TypeOK, Processes
<1>2. /\ l.key \in Sessions /\ inserts[l.key] > 0 /\ r \in Processes
      /\ tokens' \subseteq tokens /\ UNCHANGED <<now, table, due>> /\ End(r)
      /\ ended' = IF Present(l.key) THEN ended ELSE ended \union {l.key}
    BY <1>1 DEF Shape, Logout, RemoveAll, Processes
<1> QED
    BY <1>2, ControlOK, NoLocalsType, NoLocalsShape DEF End, PCs, IInv, TypeOK, Gone

\* Sessions that are there are removed from the table.
LEMMA WithoutOK ==
    ASSUME IInv, NEW K \in SUBSET Sessions, \A k \in K : Present(k),
           row' = Without(K), UNCHANGED <<now, inserts, tokens>>,
           ended' \in SUBSET (ended \union K)
    PROVE  /\ row' \in [Sessions -> Rows \union {NoRow}] /\ TableGrows /\ KeyInv'
           /\ \A k \in Sessions : row'[k] = IF k \in K THEN NoRow ELSE row[k]
<1>1. /\ row' \in [Sessions -> Rows \union {NoRow}]
      /\ \A k \in Sessions : row'[k] = IF k \in K THEN NoRow ELSE row[k]
    BY DEF Without, IInv, TypeOK
<1>2. \A k \in Sessions : Gone(k) => Gone(k)'
    BY <1>1 DEF Gone, Present
<1>3. TableGrows
    BY <1>2 DEF TableGrows, IInv, TypeOK
<1>4. \A k \in K : inserts[k] > 0 /\ Gone(k)'
    BY <1>1, PresentInserts DEF Gone, Present
<1>5. KeyInv'
    BY <1>1, <1>2, <1>4 DEF IInv, KeyInv, Present
<1> QED
    BY <1>1, <1>3, <1>5

\* A process goes on after a change of the table.
LEMMA MoveOK ==
    ASSUME IInv, TableGrows, KeyInv', row' \in [Sessions -> Rows \union {NoRow}],
           UNCHANGED <<inserts, tokens>>,
           due' \in SUBSET Sessions, ended' \in SUBSET Sessions,
           NEW p \in Processes, NEW label \in PCs, NEW l \in Locals,
           Goto(p, label, l), Shape(label, l), Removal(label, l)
    PROVE  IInv'
<1>1. TypeOK'
    BY TypeStep DEF IInv, TypeOK, TableGrows
<1>2. Shape(label, l)' /\ Removal(label, l)'
    BY ShapeKept DEF IInv
<1>3. \A q \in Processes : \/ pc'[q] = pc[q] /\ loc'[q] = loc[q]
                           \/ Shape(pc[q], loc[q])' /\ Removal(pc[q], loc[q])'
    BY <1>2, GotoType DEF IInv
<1> QED
    BY <1>1, <1>3, StepOK

\* The sessions whose rows a process has found are there as long as the rows are.
LEMMA FoundKeys ==
    ASSUME NEW F \in SUBSET Ids, Unchanged(F)
    PROVE  KeysOf(F) \in SUBSET Sessions /\ \A k \in KeysOf(F) : Present(k)
BY DEF KeysOf, Unchanged, Ids

LEMMA DeleteOK ==
    ASSUME IInv, NEW r \in Requests, Delete(r)
    PROVE  IInv'
<1>1. PICK l \in Locals : l = loc[r] /\ Shape("delete", l) /\ Removal("delete", l)
    BY DEF Delete, IInv, TypeOK, Processes
<1>2. PICK K \in SUBSET Sessions : K = KeysOf(l.found) /\ \A k \in K : Present(k)
    BY <1>1, FoundKeys DEF Delete, Locals
<1>3. /\ row' = Without(K) /\ UNCHANGED <<now, inserts, tokens>> /\ Deleted(r, l)
      /\ due' = IF l.kind = "expired" THEN due \union K ELSE due
      /\ ended' = IF l.kind = "remove" THEN ended \union K ELSE ended
    BY <1>1, <1>2 DEF Delete, KeysOf
<1>4. /\ r \in Processes /\ due' \in SUBSET Sessions /\ ended' \in SUBSET Sessions
      /\ ended' \in SUBSET (ended \union K)
    BY <1>3 DEF Processes, IInv, TypeOK
<1>5. row' \in [Sessions -> Rows \union {NoRow}] /\ TableGrows /\ KeyInv'
    BY <1>2, <1>3, <1>4, WithoutOK
<1>6. \/ Goto(r, "idle", NoLocals)
      \/ \E label \in {"expire", "logout"} :
            Goto(r, label, l) /\ Shape(label, l) /\ Removal(label, l)
    BY <1>1, <1>3, DeletedShape DEF End
<1>7. CASE Goto(r, "idle", NoLocals)
    BY <1>3, <1>4, <1>5, <1>7, NoLocalsType, NoLocalsShape, MoveOK DEF PCs
<1>8. ASSUME NEW label \in {"expire", "logout"},
             Goto(r, label, l), Shape(label, l), Removal(label, l)
      PROVE  IInv'
    BY <1>3, <1>4, <1>5, <1>8, MoveOK DEF PCs
<1> QED
    BY <1>6, <1>7, <1>8

\* What a cleanup host has found.
LEMMA SweepStep ==
    ASSUME IInv, NEW h \in Hosts, Sweep(h)
    PROVE  /\ h \in Processes /\ pc[h] = "idle" /\ loc[h] = NoLocals
           /\ UNCHANGED <<now, table, tokens, history>>
           /\ loc'[h] \in Locals /\ Goto(h, "remove", loc'[h])
           /\ Shape("remove", loc'[h]) /\ Removal("remove", loc'[h])
<1>1. PICK K \in SUBSET Sessions :
        Goto(h, "remove", [NoLocals EXCEPT !.kind = "cleanup", !.found = RowsOf(K),
                                           !.todo = Copies(K)])
    BY DEF Sweep
<1>2. /\ RowsOf(K) \in SUBSET Ids /\ KeysOf(RowsOf(K)) = {k \in K : Present(k)}
      /\ \A t, u \in RowsOf(K) : t[1] = u[1] => t = u
    BY RowsOfType DEF IInv
<1>3. /\ Copies(K) \in SUBSET [key : Sessions, clients : SUBSET Clients]
      /\ {s.key : s \in Copies(K)} = {k \in K : Present(k)}
    BY CopiesType DEF IInv
<1> DEFINE next == [NoLocals EXCEPT !.kind = "cleanup", !.found = RowsOf(K),
                                    !.todo = Copies(K)]
<1>4. /\ next \in Locals /\ next.kind = "cleanup" /\ ~next.late /\ next.found = RowsOf(K)
      /\ next.todo = Copies(K)
    BY <1>2, <1>3 DEF NoLocals, Locals
<1>5. Goto(h, "remove", next)
    BY <1>1
<1> HIDE DEF next
<1>6. Shape("remove", next)
    BY <1>4 DEF Shape, Holding
<1>7. Removal("remove", next)
    BY <1>2, <1>3, <1>4 DEF Removal
<1>8. loc'[h] = next /\ h \in Processes
    BY <1>5 DEF Goto, IInv, TypeOK, Processes
<1>9. pc[h] = "idle" /\ UNCHANGED <<now, table, tokens, history>>
    BY DEF Sweep
<1> QED
    BY <1>4, <1>5, <1>6, <1>7, <1>8, <1>9 DEF IInv, Shape

LEMMA SweepOK ==
    ASSUME IInv, NEW h \in Hosts, Sweep(h)
    PROVE  IInv'
<1>1. PICK l : l = loc'[h]
    OBVIOUS
<1> QED
    BY <1>1, SweepStep, GoOnOK DEF PCs

LEMMA RemoveOK ==
    ASSUME IInv, NEW h \in Hosts, Remove(h)
    PROVE  IInv'
<1>1. PICK l \in Locals : l = loc[h] /\ Shape("remove", l) /\ Removal("remove", l)
    BY DEF Remove, IInv, TypeOK, Processes
<1>2. PICK K \in SUBSET Sessions : K = KeysOf(l.found) /\ \A k \in K : Present(k)
    BY <1>1, FoundKeys DEF Remove, Locals
<1>3. /\ row' = Without(K) /\ UNCHANGED <<now, inserts, tokens, ended>> /\ due' = due \union K
      /\ IF l.todo = {} THEN End(h) ELSE Goto(h, "expire", [l EXCEPT !.found = {}])
    BY <1>1, <1>2 DEF Remove, KeysOf
<1>4. h \in Processes /\ due' \in SUBSET Sessions /\ ended' \in SUBSET Sessions
    BY <1>3 DEF Processes, IInv, TypeOK
<1>5. row' \in [Sessions -> Rows \union {NoRow}] /\ TableGrows /\ KeyInv'
    BY <1>2, <1>3, WithoutOK
<1>6. CASE l.todo = {}
    BY <1>3, <1>4, <1>5, <1>6, NoLocalsType, NoLocalsShape, MoveOK DEF PCs, End
<1>7. CASE l.todo # {}
    <2> DEFINE next == [l EXCEPT !.found = {}]
    <2>1. /\ next \in Locals /\ next.kind = l.kind /\ next.key = l.key /\ next.late = l.late
          /\ next.todo = l.todo
        BY DEF Locals
    <2>2. Goto(h, "expire", next)
        BY <1>3, <1>7
    <2> HIDE DEF next
    <2>3. Shape("expire", next) /\ Removal("expire", next)
        BY <1>1, <2>1 DEF Shape, Removal, Holding
    <2> QED
        BY <1>3, <1>4, <1>5, <2>1, <2>2, <2>3, MoveOK DEF PCs
<1> QED
    BY <1>6, <1>7

LEMMA RetryRemoveOK ==
    ASSUME IInv, NEW h \in Hosts, RetryRemove(h)
    PROVE  IInv'
<1>1. PICK l \in Locals : l = loc[h] /\ Shape("remove", l) /\ Removal("remove", l)
    BY DEF RetryRemove, IInv, TypeOK, Processes
<1>2. PICK t \in l.found :
        Goto(h, "remove", [l EXCEPT !.found = @ \ {t}, !.todo = {s \in @ : s.key # t[1]}])
    BY <1>1 DEF RetryRemove
<1> DEFINE next == [l EXCEPT !.found = @ \ {t}, !.todo = {s \in @ : s.key # t[1]}]
<1>3. /\ next \in Locals /\ next.kind = l.kind /\ next.key = l.key /\ next.late = l.late
      /\ next.found = l.found \ {t} /\ next.todo = {s \in l.todo : s.key # t[1]}
    BY DEF Locals
<1>4. Goto(h, "remove", next)
    BY <1>2
<1> HIDE DEF next
<1>5. Shape("remove", next)
    BY <1>1, <1>3 DEF Shape, Holding
<1>6. KeysOf(next.found) = {s.key : s \in next.todo}
    <2>1. PICK F, T : F = l.found /\ T = l.todo
        OBVIOUS
    <2>2. KeysOf(F) = {s.key : s \in T} /\ \A u, v \in F : u[1] = v[1] => u = v
        BY <1>1, <2>1 DEF Removal
    <2>3. \A k : k \in KeysOf(F \ {t}) <=> (k \in KeysOf(F) /\ k # t[1])
        BY <1>2, <2>1, <2>2 DEF KeysOf
    <2>4. \A k : k \in {s.key : s \in {s2 \in T : s2.key # t[1]}}
                 <=> (k \in {s.key : s \in T} /\ k # t[1])
        OBVIOUS
    <2> QED
        BY <1>3, <2>1, <2>2, <2>3, <2>4
<1>7. Removal("remove", next)
    BY <1>1, <1>3, <1>6 DEF Removal, Shape
<1> QED
    BY <1>3, <1>4, <1>5, <1>7, GoOnOK DEF RetryRemove, PCs, Processes

LEMMA ExpireOK ==
    ASSUME IInv, NEW p \in Processes, Expire(p)
    PROVE  IInv'
<1>1. PICK l \in Locals : l = loc[p] /\ Shape("expire", l) /\ Removal("expire", l)
    BY DEF Expire, IInv, TypeOK
<1>2. PICK s \in l.todo, conflict \in BOOLEAN :
        /\ tokens' \subseteq tokens
        /\ Goto(p, "notify", [l EXCEPT !.key = s.key, !.stuck = @ \/ conflict])
    BY <1>1 DEF Expire, RemoveAll
<1>3. PICK k \in Sessions : k = s.key
    BY DEF Locals
<1> DEFINE next == [l EXCEPT !.key = k, !.stuck = @ \/ conflict]
<1>4. /\ next \in Locals /\ next.kind = l.kind /\ next.key = k /\ next.late = l.late
      /\ next.found = l.found /\ next.todo = l.todo
    BY DEF Locals
<1>5. Goto(p, "notify", next)
    BY <1>2, <1>3
<1> HIDE DEF next
<1>6. /\ l.kind \in {"expired", "cleanup"}
      /\ l.kind = "expired" => k = l.key
      /\ l.kind = "cleanup" => ~l.late
    BY <1>1, <1>3 DEF Shape, Removal
<1>7. Shape("notify", next)
    BY <1>1, <1>3, <1>4, <1>6 DEF Shape, Holding
<1>8. Removal("notify", next)
    BY <1>1, <1>4, <1>6 DEF Removal
<1>9. tokens' \subseteq tokens /\ UNCHANGED <<now, table, due, ended>>
    BY <1>2 DEF Expire, history
<1> QED
    BY <1>4, <1>5, <1>7, <1>8, <1>9, ControlOK DEF PCs, IInv, TypeOK

LEMMA NotifyOK ==
    ASSUME IInv, NEW p \in Processes, Notify(p)
    PROVE  IInv'
<1>1. PICK l \in Locals : l = loc[p] /\ Shape("notify", l) /\ Removal("notify", l)
    BY DEF Notify, IInv, TypeOK
<1>2. PICK T : T = {s \in l.todo : s.key # l.key}
    OBVIOUS
<1>3. /\ due' \subseteq due /\ UNCHANGED <<now, table, tokens, ended>>
      /\ IF T = {} THEN End(p) ELSE Goto(p, "expire", [l EXCEPT !.todo = T])
    BY <1>1, <1>2 DEF Notify
<1>4. CASE T = {}
    BY <1>3, <1>4, EndOK DEF IInv, TypeOK
<1>5. CASE T # {}
    <2> DEFINE next == [l EXCEPT !.todo = T]
    <2>1. /\ next \in Locals /\ next.kind = l.kind /\ next.key = l.key /\ next.late = l.late
          /\ next.found = l.found /\ next.todo = T
        BY <1>2 DEF Locals
    <2>2. Goto(p, "expire", next)
        BY <1>3, <1>5
    <2> HIDE DEF next
    <2>3. Shape("expire", next) /\ Removal("expire", next)
        BY <1>1, <1>2, <2>1 DEF Shape, Removal, Holding
    <2> QED
        BY <1>3, <2>1, <2>2, <2>3, ControlOK DEF PCs, IInv, TypeOK
<1> QED
    BY <1>4, <1>5

LEMMA AbortOK ==
    ASSUME IInv, NEW p \in Processes, Abort(p)
    PROVE  IInv'
<1>1. /\ End(p) /\ UNCHANGED <<now, table, tokens, ended>>
      /\ due' \subseteq due
    BY DEF Abort
<1>2. due' \in SUBSET Sessions
    BY <1>1 DEF IInv, TypeOK
<1> QED
    BY <1>1, <1>2, EndOK

LEMMA TickOK ==
    ASSUME IInv, Tick
    PROVE  IInv'
<1>1. now \in Nat /\ now' = now + 1 /\ UNCHANGED <<row, inserts, tokens, pc, loc, due, ended>>
    BY DEF Tick, IInv, TypeOK, table, history
<1>2. TypeOK'
    BY <1>1 DEF IInv, TypeOK
<1>3. \A k \in Sessions : Present(k) => row[k].expires \in Nat
    BY RowType DEF IInv, Rows
<1>4. KeyInv' /\ TableGrows
    BY <1>1, <1>3, SessionAssumption DEF IInv, KeyInv, TypeOK, Gone, Present, TableGrows
<1>5. \A q \in Processes : pc'[q] = pc[q] /\ loc'[q] = loc[q]
    BY <1>1
<1> QED
    BY <1>2, <1>4, <1>5, StepOK

LEMMA InitOK == Init => IInv
<1> SUFFICES ASSUME Init PROVE IInv
    OBVIOUS
<1>1. TypeOK
    BY NoLocalsType DEF Init, TypeOK
<1>2. KeyInv
    BY DEF Init, KeyInv, Present
<1> QED
    BY <1>1, <1>2, NoLocalsShape DEF Init, IInv

LEMMA StutterOK ==
    ASSUME IInv, UNCHANGED vars
    PROVE  IInv'
<1>1. /\ UNCHANGED <<now, table>>
      /\ \A q \in Processes : pc'[q] = pc[q] /\ loc'[q] = loc[q]
    BY DEF vars, table
<1>2. TypeOK'
    BY DEF IInv, TypeOK, vars
<1>3. KeyInv'
    BY DEF IInv, KeyInv, Gone, Present, vars
<1> QED
    BY <1>1, <1>2, <1>3, TableSame, StepOK DEF IInv

LEMMA NextOK ==
    ASSUME IInv, [Next]_vars
    PROVE  IInv'
<1>1. CASE UNCHANGED vars
    BY <1>1, StutterOK
<1>2. ASSUME NEW r \in Requests, NEW k \in Sessions,
             Authenticate(r, k) \/ \E c \in Clients : UseToken(r, k, c)
      PROVE  IInv'
    BY <1>2, AuthenticateOK, UseTokenOK
<1>3. ASSUME NEW r \in Requests,
             \/ Issue(r) \/ Get(r) \/ Create(r) \/ Query(r) \/ Save(r) \/ SaveFails(r)
             \/ Validate(r) \/ Retrieve(r) \/ RemoveSessions(r) \/ Revoke(r)
             \/ Lookup(r) \/ Find(r) \/ Delete(r) \/ DeleteFails(r) \/ Logout(r)
      PROVE  IInv'
    BY <1>3, IssueOK, GetOK, CreateOK, QueryOK, SaveOK, SaveFailsOK, ValidateOK, RetrieveOK,
       RemoveSessionsOK, RevokeOK, LookupOK, FindOK, DeleteOK, DeleteFailsOK, LogoutOK
<1>4. ASSUME NEW h \in Hosts, Sweep(h) \/ Remove(h) \/ RetryRemove(h)
      PROVE  IInv'
    BY <1>4, SweepOK, RemoveOK, RetryRemoveOK
<1>5. ASSUME NEW p \in Processes, Expire(p) \/ Notify(p) \/ Abort(p)
      PROVE  IInv'
    BY <1>5, ExpireOK, NotifyOK, AbortOK
<1>6. CASE Tick \/ \E k \in Sessions : SignIn(k)
    BY <1>6, TickOK, SignInOK
<1> QED
    BY <1>1, <1>2, <1>3, <1>4, <1>5, <1>6 DEF Next

\* IInv is an invariant: what is in the table, what every process at each of
\* its steps refers to, and what it is about to remove.
THEOREM Invariance == Spec => []IInv
<1>1. Init => IInv
    BY InitOK
<1>2. IInv /\ [Next]_vars => IInv'
    BY NextOK
<1> QED
    BY <1>1, <1>2, PTL DEF Spec

\* Type correctness of sessions, tokens, requests and cleanup hosts.
THEOREM TypeCorrect == Spec => []TypeOK
<1>1. IInv => TypeOK
    BY DEF IInv
<1> QED
    BY <1>1, Invariance, PTL

\* A request that comes after the sign-out or the removal of its session was
\* answered gets nowhere, unless a renewal under way stored the session again.
THEOREM EndedStaysEnded == Spec => []EndedForGood
<1>1. IInv => EndedForGood
    <2> SUFFICES ASSUME IInv, NEW r \in Requests, loc[r].late
                 PROVE  pc[r] = "validate" \/ inserts[loc[r].key] > 1
        BY DEF EndedForGood
    <2>1. Shape(pc[r], loc[r])
        BY DEF IInv, Processes
    <2> QED
        BY <2>1 DEF Shape
<1> QED
    BY <1>1, Invariance, PTL

-----------------------------------------------------------------------------
(* Sessions that were removed as expired are processed. *)

PInv == IInv /\ ExpirationProcessed

\* Where a process has no expiration to process yet.
LEMMA NoWork ==
    ASSUME IInv, NEW p \in Processes,
           pc[p] \notin {"find", "delete", "expire", "notify"}
    PROVE  ToProcess(p) = {}
<1>1. Shape(pc[p], loc[p]) /\ Removal(pc[p], loc[p]) /\ pc[p] \in PCs
    BY DEF IInv, TypeOK, PCs
<1>2. CASE pc[p] = "remove"
    BY <1>2 DEF ToProcess
<1>3. CASE pc[p] = "idle"
    BY <1>1, <1>3, NoLocalsType DEF ToProcess, Shape
<1>4. CASE pc[p] \notin {"remove", "idle"}
    <2>1. loc[p].todo = {}
        BY <1>1, <1>4 DEF Shape, Removal, PCs, Holding, Renewing
    <2> QED
        BY <2>1 DEF ToProcess
<1> QED
    BY <1>2, <1>3, <1>4

\* The step of p leaves the work of others as it is.
OthersWork(p) == \A q \in Processes : q # p => ToProcess(q)' = ToProcess(q)

LEMMA GotoWork ==
    ASSUME IInv, NEW p \in Processes, NEW label \in PCs, NEW l \in Locals, Goto(p, label, l)
    PROVE  /\ OthersWork(p)
           /\ ToProcess(p)' = IF label = "remove" THEN {} ELSE {s.key : s \in l.todo}
<1>1. /\ pc'[p] = label /\ loc'[p] = l
      /\ \A q \in Processes : q # p => pc'[q] = pc[q] /\ loc'[q] = loc[q]
    BY GotoType DEF IInv
<1>2. OthersWork(p)
    BY <1>1 DEF OthersWork, ToProcess
<1>3. ToProcess(p)' = IF pc'[p] = "remove" THEN {} ELSE {s.key : s \in loc'[p].todo}
    BY DEF ToProcess
<1> QED
    BY <1>1, <1>2, <1>3

LEMMA WorkOK ==
    ASSUME PInv, NEW p \in Processes, OthersWork(p), due' \in SUBSET Sessions,
           \A k \in Sessions : inserts'[k] \in Nat /\ inserts[k] <= inserts'[k],
           \A k \in due' : \/ k \in due /\ (k \in ToProcess(p) => k \in ToProcess(p)')
                           \/ inserts[k] > 1 \/ k \in ToProcess(p)'
    PROVE  ExpirationProcessed'
<1> SUFFICES ASSUME NEW k \in due', ~(inserts'[k] > 1)
             PROVE  \E q \in Processes : k \in ToProcess(q)'
    BY DEF ExpirationProcessed
<1>1. inserts[k] \in Nat /\ inserts'[k] \in Nat /\ inserts[k] <= inserts'[k]
    BY DEF PInv, IInv, TypeOK
<1>2. ~(inserts[k] > 1)
    BY <1>1
<1>3. CASE k \in ToProcess(p)'
    BY <1>3
<1>4. CASE k \in due /\ k \notin ToProcess(p)
    <2>1. PICK q \in Processes : k \in ToProcess(q)
        BY <1>2, <1>4 DEF PInv, ExpirationProcessed
    <2>2. k \in ToProcess(q)'
        BY <1>4, <2>1 DEF OthersWork
    <2> QED
        BY <2>2
<1> QED
    BY <1>2, <1>3, <1>4

\* A process that has nothing to process goes on.
LEMMA IdleWork ==
    ASSUME PInv, NEW p \in Processes, OthersWork(p), due' = due,
           \A k \in Sessions : inserts'[k] \in Nat /\ inserts[k] <= inserts'[k],
           pc[p] \notin {"find", "delete", "expire", "notify"}
    PROVE  ExpirationProcessed'
BY NoWork, WorkOK DEF PInv, IInv, TypeOK

LEMMA AnswerWork ==
    ASSUME IInv, NEW r \in Requests, NEW written \in BOOLEAN, Answer(r, written)
    PROVE  OthersWork(r) /\ due' = due
<1>1. ASSUME NEW q \in Processes, q # r
      PROVE  ToProcess(q)' = ToProcess(q)
    <2>1. pc'[q] = pc[q] /\ (loc'[q] = loc[q] \/ loc'[q] = [loc[q] EXCEPT !.stale = TRUE])
        BY <1>1, AnswerStep
    <2>2. PICK l \in Locals : l = loc[q]
        BY DEF IInv, TypeOK
    <2>3. [l EXCEPT !.stale = TRUE].todo = l.todo
        BY DEF Locals
    <2>4. loc'[q].todo = loc[q].todo
        BY <2>1, <2>2, <2>3
    <2> QED
        BY <2>1, <2>4 DEF ToProcess
<1>2. due' = due
    BY AnswerStep
<1> QED
    BY <1>1, <1>2 DEF OthersWork

\* The rows inserted for a session only grow in number.
LEMMA InsertsGrow ==
    ASSUME IInv, UNCHANGED inserts
    PROVE  \A k \in Sessions : inserts'[k] \in Nat /\ inserts[k] <= inserts'[k]
BY DEF IInv, TypeOK

\* A process with nothing to process goes on, and the table stays.
LEMMA IdleGoes ==
    ASSUME PInv, UNCHANGED inserts, due' = due, NEW p \in Processes,
           pc[p] \notin {"find", "delete", "expire", "notify"},
           NEW label \in PCs, NEW l, Goto(p, label, l)
    PROVE  ExpirationProcessed'
<1>1. \A q \in Processes : q # p => pc'[q] = pc[q] /\ loc'[q] = loc[q]
    BY DEF Goto, PInv, IInv, TypeOK
<1>2. OthersWork(p)
    BY <1>1 DEF OthersWork, ToProcess
<1>3. \A k \in Sessions : inserts'[k] \in Nat /\ inserts[k] <= inserts'[k]
    BY InsertsGrow DEF PInv
<1> QED
    BY <1>2, <1>3, IdleWork

\* A request or host that has sessions to process goes on with them.
LEMMA BusyGoes ==
    ASSUME PInv, UNCHANGED inserts, due' = due, NEW p \in Processes,
           NEW label \in PCs \ {"remove"}, NEW l \in Locals, Goto(p, label, l),
           l.todo = loc[p].todo
    PROVE  ExpirationProcessed'
<1>1. OthersWork(p) /\ ToProcess(p)' = {s.key : s \in l.todo}
    BY GotoWork DEF PInv
<1>2. \A k \in ToProcess(p) : k \in ToProcess(p)'
    BY <1>1 DEF ToProcess
<1>3. \A k \in Sessions : inserts'[k] \in Nat /\ inserts[k] <= inserts'[k]
    BY InsertsGrow DEF PInv
<1> QED
    BY <1>1, <1>2, <1>3, WorkOK DEF PInv, IInv, TypeOK

LEMMA BeginWork ==
    ASSUME PInv, NEW r \in Requests, NEW label \in PCs, NEW kind, NEW k, NEW c, NEW t,
           Begin(r, label, kind, k, c, t)
    PROVE  ExpirationProcessed'
BY IdleGoes DEF Begin, table, history, Processes

LEMMA AuthenticateWork ==
    ASSUME PInv, NEW r \in Requests, NEW k \in Sessions, Authenticate(r, k)
    PROVE  ExpirationProcessed'
<1>1. PICK t, x : t = Ticket(k) /\ x = Extended(k)
    OBVIOUS
<1>2. \/ Begin(r, "lookup", "expired", k, NoRow, NoRow)
      \/ Begin(r, "get", "page", k, NoRow, x)
      \/ \E c \in Clients : Begin(r, "issue", "authorize", k, c, t)
      \/ Begin(r, "lookup", "signout", k, NoRow, t)
    BY <1>1 DEF Authenticate
<1> QED
    BY <1>2, BeginWork DEF PCs

LEMMA UseTokenWork ==
    ASSUME PInv, NEW r \in Requests, NEW k \in Sessions, NEW c \in Clients, UseToken(r, k, c)
    PROVE  ExpirationProcessed'
BY BeginWork DEF UseToken, PCs

LEMMA RemoveSessionsWork ==
    ASSUME PInv, NEW r \in Requests, RemoveSessions(r)
    PROVE  ExpirationProcessed'
BY BeginWork DEF RemoveSessions, PCs

LEMMA QuietWork ==
    ASSUME PInv, NEW r \in Requests,
           Issue(r) \/ Get(r) \/ Validate(r) \/ Retrieve(r) \/ Lookup(r) \/ Revoke(r) \/ Logout(r)
    PROVE  ExpirationProcessed'
<1>1. /\ pc[r] \notin {"find", "delete", "expire", "notify"} /\ r \in Processes
      /\ UNCHANGED <<inserts, due>>
    BY DEF Issue, Get, Validate, Retrieve, Lookup, Revoke, Logout, Processes, table, history
<1>2. \E label \in PCs : \E l : Goto(r, label, l)
    BY DEF Issue, Get, Validate, Retrieve, Lookup, Revoke, Logout, End, PCs
<1> QED
    BY <1>1, <1>2, IdleGoes

LEMMA AnsweredWork ==
    ASSUME PInv, NEW r \in Requests, Create(r) \/ Query(r) \/ Save(r) \/ SaveFails(r)
    PROVE  ExpirationProcessed'
<1>1. /\ pc[r] \in {"create", "query", "save"} /\ r \in Processes
      /\ \A k \in Sessions : inserts'[k] \in Nat /\ inserts[k] <= inserts'[k]
    <2>1. \/ UNCHANGED inserts
          \/ inserts' = [inserts EXCEPT ![loc[r].key] = @ + 1]
        BY DEF Create, Query, Save, SaveFails, table
    <2>2. \A k \in Sessions : inserts[k] \in Nat
        BY DEF PInv, IInv, TypeOK
    <2>3. \A k \in Sessions : inserts'[k] = inserts[k] \/ inserts'[k] = inserts[k] + 1
        BY <2>1 DEF PInv, IInv, TypeOK
    <2>4. pc[r] \in {"create", "query", "save"} /\ r \in Processes
        BY DEF Create, Query, Save, SaveFails, Processes
    <2> QED
        BY <2>2, <2>3, <2>4
<1>2. CASE \E written \in BOOLEAN : Answer(r, written)
    BY <1>1, <1>2, AnswerWork, IdleWork DEF PInv
<1>3. CASE /\ UNCHANGED <<now, table, tokens, history>>
           /\ \E l : Goto(r, "save", l)
    BY <1>1, <1>3, IdleGoes DEF table, history, PCs
<1> QED
    BY <1>2, <1>3 DEF Create, Query, Save, SaveFails

\* After a deletion a request goes on with the sessions it has to process.
LEMMA DeletedWork ==
    ASSUME PInv, NEW r \in Requests, NEW l \in Locals, NEW p \in {"find", "delete"},
           Shape(p, l), Removal(p, l), Deleted(r, l), l.todo = loc[r].todo
    PROVE  OthersWork(r) /\ ToProcess(r)' = {s.key : s \in l.todo}
<1>1. r \in Processes
    BY DEF Processes
<1>2. \/ \E label \in {"expire", "logout"} : Goto(r, label, l)
      \/ Goto(r, "idle", NoLocals) /\ l.todo = {}
    BY DeletedShape DEF End
<1>3. CASE \E label \in {"expire", "logout"} : Goto(r, label, l)
    BY <1>1, <1>3, GotoWork DEF PInv, PCs
<1>4. CASE Goto(r, "idle", NoLocals) /\ l.todo = {}
    <2>1. OthersWork(r) /\ ToProcess(r)' = {s.key : s \in NoLocals.todo}
        BY <1>1, <1>4, GotoWork, NoLocalsType DEF PInv, PCs
    <2> QED
        BY <1>4, <2>1, NoLocalsType
<1> QED
    BY <1>2, <1>3, <1>4

LEMMA FindWork ==
    ASSUME PInv, NEW r \in Requests, Find(r) \/ DeleteFails(r)
    PROVE  ExpirationProcessed'
<1>1. PICK l \in Locals : l = loc[r] /\ Shape(pc[r], l) /\ Removal(pc[r], l)
    BY DEF PInv, IInv, TypeOK, Processes
<1>2. /\ pc[r] \in {"find", "delete"} /\ r \in Processes /\ UNCHANGED <<inserts, due>>
      /\ due' \in SUBSET Sessions
      /\ \A k \in Sessions : inserts'[k] \in Nat /\ inserts[k] <= inserts'[k]
    BY InsertsGrow DEF Find, DeleteFails, Processes, table, history, PInv, IInv, TypeOK
<1>3. \/ Deleted(r, l)
      \/ Deleted(r, [l EXCEPT !.stuck = TRUE])
      \/ \E F \in SUBSET Ids : Goto(r, "delete", [l EXCEPT !.found = F])
    <2>1. CASE DeleteFails(r)
        BY <1>1, <2>1 DEF DeleteFails
    <2>2. CASE Find(r)
        <3>1. PICK K : K = IF l.kind = "remove" THEN Sessions ELSE {l.key}
            OBVIOUS
        <3>2. K \in SUBSET Sessions
            BY <1>1, <2>2, <3>1 DEF Find, Shape
        <3>3. RowsOf(K) \in SUBSET Ids
            BY <3>2, RowsOfType DEF PInv, IInv
        <3> QED
            BY <1>1, <2>2, <3>1, <3>3 DEF Find
    <2> QED
        BY <2>1, <2>2
<1>4. CASE Deleted(r, l)
    <2>1. OthersWork(r) /\ ToProcess(r)' = {s.key : s \in l.todo}
        BY <1>1, <1>2, <1>4, DeletedWork
    <2> QED
        BY <1>1, <1>2, <2>1, WorkOK DEF ToProcess
<1>5. CASE Deleted(r, [l EXCEPT !.stuck = TRUE])
    <2> DEFINE m == [l EXCEPT !.stuck = TRUE]
    <2>1. /\ m \in Locals /\ m.kind = l.kind /\ m.key = l.key
          /\ m.late = l.late /\ m.todo = l.todo /\ m.found = l.found
        BY DEF Locals
    <2>4. Deleted(r, m)
        BY <1>5
    <2> HIDE DEF m
    <2>2. Shape(pc[r], m) /\ Removal(pc[r], m)
        BY <1>1, <1>2, <2>1 DEF Shape, Removal, Holding
    <2>3. OthersWork(r) /\ ToProcess(r)' = {s.key : s \in m.todo}
        BY <1>1, <1>2, <2>1, <2>2, <2>4, DeletedWork
    <2> QED
        BY <1>1, <1>2, <2>1, <2>3, WorkOK DEF ToProcess
<1>6. ASSUME NEW F \in SUBSET Ids, Goto(r, "delete", [l EXCEPT !.found = F])
      PROVE  ExpirationProcessed'
    <2>1. [l EXCEPT !.found = F] \in Locals /\ [l EXCEPT !.found = F].todo = l.todo
        BY DEF Locals
    <2> QED
        BY <1>1, <1>2, <1>6, <2>1, BusyGoes DEF PCs
<1> QED
    BY <1>3, <1>4, <1>5, <1>6

LEMMA DeleteWork ==
    ASSUME PInv, NEW r \in Requests, Delete(r)
    PROVE  ExpirationProcessed'
<1>1. PICK l \in Locals : l = loc[r] /\ Shape("delete", l) /\ Removal("delete", l)
    BY DEF Delete, PInv, IInv, TypeOK, Processes
<1>2. PICK K \in SUBSET Sessions : K = KeysOf(l.found) /\ \A k \in K : Present(k)
    BY <1>1, FoundKeys DEF Delete, Locals
<1>3. /\ UNCHANGED inserts /\ Deleted(r, l) /\ pc[r] = "delete" /\ r \in Processes
      /\ due' = IF l.kind = "expired" THEN due \union K ELSE due
    BY <1>1, <1>2 DEF Delete, KeysOf, Processes
<1>4. OthersWork(r) /\ ToProcess(r)' = {s.key : s \in l.todo}
    BY <1>1, <1>3, DeletedWork
<1>5. \A k \in K : l.kind = "expired" => inserts[k] > 1 \/ k \in ToProcess(r)'
    BY <1>1, <1>2, <1>4 DEF Removal, Gone
<1>6. \A k \in ToProcess(r) : k \in ToProcess(r)'
    BY <1>1, <1>4 DEF ToProcess
<1>7. /\ \A k \in Sessions : inserts'[k] \in Nat /\ inserts[k] <= inserts'[k]
      /\ due' \in SUBSET Sessions
    BY <1>3, InsertsGrow DEF PInv, IInv, TypeOK
<1> QED
    BY <1>3, <1>4, <1>5, <1>6, <1>7, WorkOK

LEMMA HostWork ==
    ASSUME PInv, NEW h \in Hosts, Sweep(h) \/ RetryRemove(h)
    PROVE  ExpirationProcessed'
<1>1. /\ pc[h] \in {"idle", "remove"} /\ h \in Processes /\ UNCHANGED <<inserts, due>>
      /\ \E l : Goto(h, "remove", l)
    BY DEF Sweep, RetryRemove, Processes, table, history
<1> QED
    BY <1>1, IdleGoes DEF PCs

LEMMA RemoveWork ==
    ASSUME PInv, NEW h \in Hosts, Remove(h)
    PROVE  ExpirationProcessed'
<1>1. PICK l \in Locals : l = loc[h] /\ Removal("remove", l)
    BY DEF Remove, PInv, IInv, TypeOK, Processes
<1>2. PICK K : K = KeysOf(l.found) /\ K = {s.key : s \in l.todo}
    BY <1>1 DEF Removal
<1>3. /\ UNCHANGED inserts /\ due' = due \union K /\ pc[h] = "remove" /\ h \in Processes
      /\ IF l.todo = {} THEN End(h) ELSE Goto(h, "expire", [l EXCEPT !.found = {}])
    BY <1>1, <1>2 DEF Remove, KeysOf, Processes
<1>4. OthersWork(h) /\ \A k \in K : k \in ToProcess(h)'
    <2>1. CASE l.todo = {}
        BY <1>2, <1>3, <2>1, GotoWork, NoLocalsType DEF PInv, PCs, End
    <2>2. CASE l.todo # {}
        <3>1. [l EXCEPT !.found = {}] \in Locals /\ [l EXCEPT !.found = {}].todo = l.todo
            BY DEF Locals
        <3> QED
            BY <1>2, <1>3, <2>2, <3>1, GotoWork DEF PInv, PCs
    <2> QED
        BY <2>1, <2>2
<1>5. ToProcess(h) = {}
    BY <1>3, NoWork DEF PInv
<1>6. /\ \A k \in Sessions : inserts'[k] \in Nat /\ inserts[k] <= inserts'[k]
      /\ due' \in SUBSET Sessions
    BY <1>2, <1>3, InsertsGrow DEF PInv, IInv, TypeOK, Locals
<1> QED
    BY <1>3, <1>4, <1>5, <1>6, WorkOK

LEMMA ExpireWork ==
    ASSUME PInv, NEW p \in Processes, Expire(p)
    PROVE  ExpirationProcessed'
<1>1. PICK l \in Locals : l = loc[p]
    BY DEF PInv, IInv, TypeOK
<1>2. PICK s \in l.todo, conflict \in BOOLEAN :
        Goto(p, "notify", [l EXCEPT !.key = s.key, !.stuck = @ \/ conflict])
    BY <1>1 DEF Expire
<1> DEFINE next == [l EXCEPT !.key = s.key, !.stuck = @ \/ conflict]
<1>3. next \in Locals /\ next.todo = l.todo
    BY DEF Locals
<1>4. Goto(p, "notify", next)
    BY <1>2
<1> HIDE DEF next
<1> QED
    BY <1>1, <1>3, <1>4, BusyGoes DEF Expire, PCs, table, history

LEMMA NotifyWork ==
    ASSUME PInv, NEW p \in Processes, Notify(p)
    PROVE  ExpirationProcessed'
<1>1. PICK l \in Locals : l = loc[p]
    BY DEF PInv, IInv, TypeOK
<1>2. PICK T : T = {s \in l.todo : s.key # l.key}
    OBVIOUS
<1>3. /\ pc[p] = "notify" /\ due' = due \ {l.key} /\ UNCHANGED inserts
      /\ IF T = {} THEN End(p) ELSE Goto(p, "expire", [l EXCEPT !.todo = T])
    BY <1>1, <1>2 DEF Notify, table
<1>4. OthersWork(p) /\ ToProcess(p)' = {s.key : s \in T}
    <2>1. CASE T = {}
        BY <1>3, <2>1, GotoWork, NoLocalsType DEF PInv, PCs, End
    <2>2. CASE T # {}
        <3> DEFINE next == [l EXCEPT !.todo = T]
        <3>1. next \in Locals /\ next.todo = T
            BY <1>2 DEF Locals
        <3>2. Goto(p, "expire", next)
            BY <1>3, <2>2
        <3> HIDE DEF next
        <3> QED
            BY <3>1, <3>2, GotoWork DEF PInv, PCs
    <2> QED
        BY <2>1, <2>2
<1>5. \A k \in due' : k \in due /\ (k \in ToProcess(p) => k \in ToProcess(p)')
    BY <1>1, <1>2, <1>3, <1>4 DEF ToProcess
<1>6. /\ \A k \in Sessions : inserts'[k] \in Nat /\ inserts[k] <= inserts'[k]
      /\ due' \in SUBSET Sessions
    BY <1>3, InsertsGrow DEF PInv, IInv, TypeOK
<1> QED
    BY <1>4, <1>5, <1>6, WorkOK

LEMMA AbortWork ==
    ASSUME PInv, NEW p \in Processes, Abort(p)
    PROVE  ExpirationProcessed'
<1>1. Goto(p, "idle", NoLocals)
    BY DEF Abort, End
<1>2. OthersWork(p)
    BY <1>1, GotoWork, NoLocalsType DEF PInv, PCs
<1>3. \A k \in due' : \E q \in Processes : q # p /\ k \in ToProcess(q)
    BY DEF Abort
<1> QED
    BY <1>2, <1>3 DEF OthersWork, ExpirationProcessed

\* A step in which no process moves.
LEMMA ClockWork ==
    ASSUME PInv, Tick \/ UNCHANGED vars \/ \E k \in Sessions : SignIn(k)
    PROVE  ExpirationProcessed'
<1>1. \A q \in Processes : ToProcess(q)' = ToProcess(q)
    BY DEF Tick, SignIn, vars, ToProcess
<1>2. \A k \in Sessions : inserts'[k] > 1 \/ ~(inserts[k] > 1)
    BY DEF Tick, SignIn, vars, table, PInv, IInv, TypeOK
<1>3. due' = due
    BY DEF Tick, SignIn, vars, history
<1> QED
    BY <1>1, <1>2, <1>3 DEF PInv, ExpirationProcessed, IInv, TypeOK

LEMMA NextWork ==
    ASSUME PInv, [Next]_vars
    PROVE  ExpirationProcessed'
<1>1. CASE Tick \/ UNCHANGED vars \/ \E k \in Sessions : SignIn(k)
    BY <1>1, ClockWork
<1>2. ASSUME NEW r \in Requests, NEW k \in Sessions,
             Authenticate(r, k) \/ \E c \in Clients : UseToken(r, k, c)
      PROVE  ExpirationProcessed'
    BY <1>2, AuthenticateWork, UseTokenWork
<1>3. ASSUME NEW r \in Requests,
             \/ Issue(r) \/ Get(r) \/ Create(r) \/ Query(r) \/ Save(r) \/ SaveFails(r)
             \/ Validate(r) \/ Retrieve(r) \/ RemoveSessions(r) \/ Revoke(r)
             \/ Lookup(r) \/ Find(r) \/ Delete(r) \/ DeleteFails(r) \/ Logout(r)
      PROVE  ExpirationProcessed'
    BY <1>3, RemoveSessionsWork, QuietWork, AnsweredWork, FindWork, DeleteWork
<1>4. ASSUME NEW h \in Hosts, Sweep(h) \/ Remove(h) \/ RetryRemove(h)
      PROVE  ExpirationProcessed'
    BY <1>4, HostWork, RemoveWork
<1>5. ASSUME NEW p \in Processes, Expire(p) \/ Notify(p) \/ Abort(p)
      PROVE  ExpirationProcessed'
    BY <1>5, ExpireWork, NotifyWork, AbortWork
<1> QED
    BY <1>1, <1>2, <1>3, <1>4, <1>5 DEF Next

\* A session that was removed as expired is processed as such: whoever has
\* removed it, or found it removed, has still to do it or has done it.  Only a
\* session that a renewal under way stored again is exempt.
THEOREM ExpirationsProcessed == Spec => []ExpirationProcessed
<1>1. Init => PInv
    BY InitOK DEF Init, PInv, ExpirationProcessed
<1>2. PInv /\ [Next]_vars => PInv'
    BY NextOK, NextWork DEF PInv
<1>3. PInv => ExpirationProcessed
    BY DEF PInv
<1> QED
    BY <1>1, <1>2, <1>3, PTL DEF Spec

-----------------------------------------------------------------------------
(* A copy that nobody overtook is no older than the row. *)

LEMMA FreshKept ==
    ASSUME NEW p, NEW l, Fresh(p, l),
           (p \in Holding /\ ~l.stale /\ Present(l.key)') =>
               /\ Present(l.key)
               /\ row'[l.key].clients = row[l.key].clients
               /\ row'[l.key].expires = row[l.key].expires
    PROVE  Fresh(p, l)'
BY DEF Fresh

\* The table stays: what the moving process holds is fresh.
LEMMA FreshGoto ==
    ASSUME FInv, UNCHANGED row, NEW p \in Processes, NEW label, NEW l,
           Goto(p, label, l), Fresh(label, l)
    PROVE  \A q \in Processes : Fresh(pc[q], loc[q])'
<1> SUFFICES ASSUME NEW q \in Processes PROVE Fresh(pc[q], loc[q])'
    OBVIOUS
<1>1. pc'[q] = IF q = p THEN label ELSE pc[q]
    BY DEF Goto, FInv, IInv, TypeOK
<1>2. loc'[q] = IF q = p THEN l ELSE loc[q]
    BY DEF Goto, FInv, IInv, TypeOK
<1>3. CASE q = p
    BY <1>1, <1>2, <1>3 DEF Fresh, Present
<1>4. CASE q # p
    BY <1>1, <1>2, <1>4 DEF FInv, Fresh, Present
<1> QED
    BY <1>3, <1>4

\* A process goes where it holds nothing.
LEMMA FreshEmpty ==
    ASSUME FInv, UNCHANGED row, NEW p \in Processes,
           \E label \in PCs \ Holding : \E l : Goto(p, label, l)
    PROVE  \A q \in Processes : Fresh(pc[q], loc[q])'
<1>1. PICK label, l : label \in PCs \ Holding /\ Goto(p, label, l)
    OBVIOUS
<1>2. Fresh(label, l)
    BY <1>1 DEF Fresh
<1> QED
    BY <1>1, <1>2, FreshGoto

\* Rows are removed; the process that does so holds nothing.
LEMMA FreshRemoved ==
    ASSUME FInv, NEW K, row' = Without(K), NEW p \in Processes,
           \E label \in PCs \ Holding : \E l : Goto(p, label, l)
    PROVE  \A q \in Processes : Fresh(pc[q], loc[q])'
<1> SUFFICES ASSUME NEW q \in Processes PROVE Fresh(pc[q], loc[q])'
    OBVIOUS
<1>1. PICK label, l : label \in PCs \ Holding /\ Goto(p, label, l)
    OBVIOUS
<1>2. \A j \in Processes :
        /\ pc'[j] = IF j = p THEN label ELSE pc[j]
        /\ loc'[j] = IF j = p THEN l ELSE loc[j]
    BY <1>1 DEF Goto, FInv, IInv, TypeOK
<1>3. CASE q = p
    BY <1>1, <1>2, <1>3 DEF Fresh
<1>4. CASE q # p
    <2>1. PICK a, b : a = pc[q] /\ b = loc[q]
        OBVIOUS
    <2>2. Fresh(a, b) /\ Shape(a, b)
        BY <2>1 DEF FInv, IInv
    <2>3. a \in Holding => b.key \in Sessions
        BY <2>2 DEF Shape, Holding, Renewing
    <2>4. \A k \in Sessions : Present(k)' => Present(k) /\ row'[k] = row[k]
        BY DEF Without, Present
    <2>5. Fresh(a, b)'
        BY <2>2, <2>3, <2>4, FreshKept
    <2> QED
        BY <1>2, <1>4, <2>1, <2>5
<1> QED
    BY <1>3, <1>4

LEMMA FreshAnswer ==
    ASSUME FInv, NEW r \in Requests, NEW written \in BOOLEAN, Answer(r, written),
           \A k \in Sessions : row'[k] # row[k] => written /\ k = loc[r].key
    PROVE  \A q \in Processes : Fresh(pc[q], loc[q])'
<1> SUFFICES ASSUME NEW q \in Processes PROVE Fresh(pc[q], loc[q])'
    OBVIOUS
<1>1. CASE q = r
    <2>1. pc'[q] = "idle"
        BY <1>1, AnswerStep DEF FInv
    <2> QED
        BY <2>1 DEF Fresh, Holding
<1>2. CASE q # r /\ Overtaken(q, r, written)
    <2>1. loc'[q] = [loc[q] EXCEPT !.stale = TRUE]
        BY <1>2, AnswerStep DEF FInv
    <2>2. PICK l \in Locals : l = loc[q]
        BY DEF FInv, IInv, TypeOK
    <2>3. [l EXCEPT !.stale = TRUE].stale
        BY DEF Locals
    <2>4. loc'[q].stale
        BY <2>1, <2>2, <2>3
    <2> QED
        BY <2>4 DEF Fresh
<1>3. CASE q # r /\ ~Overtaken(q, r, written)
    <2>1. pc'[q] = pc[q] /\ loc'[q] = loc[q]
        BY <1>3, AnswerStep DEF FInv
    <2>2. PICK a, b : a = pc[q] /\ b = loc[q]
        OBVIOUS
    <2>3. Fresh(a, b) /\ Shape(a, b)
        BY <2>2 DEF FInv, IInv
    <2>4. a \in Holding => /\ b.key \in Sessions /\ b.kind \in Renewing
                           /\ b.ticket # NoRow
        BY <2>3, SessionAssumption DEF Shape, Holding, Renewing
    <2>5. a \in Holding => row'[b.key] = row[b.key]
        BY <1>3, <2>2, <2>4 DEF Overtaken
    <2>6. Fresh(a, b)'
        BY <2>3, <2>5, FreshKept DEF Present
    <2> QED
        BY <2>1, <2>2, <2>6
<1> QED
    BY <1>1, <1>2, <1>3

LEMMA FreshSignIn ==
    ASSUME FInv, NEW k \in Sessions, SignIn(k)
    PROVE  \A q \in Processes : Fresh(pc[q], loc[q])'
<1> SUFFICES ASSUME NEW q \in Processes PROVE Fresh(pc[q], loc[q])'
    OBVIOUS
<1>1. PICK a, b : a = pc[q] /\ b = loc[q]
    OBVIOUS
<1>2. Fresh(a, b) /\ Shape(a, b)
    BY <1>1 DEF FInv, IInv
<1>3. a \in Holding => b.key \in Sessions /\ inserts[b.key] > 0
    BY <1>2 DEF Shape, Holding, Renewing
<1>4. inserts[k] = 0 /\ \A j \in Sessions : j # k => row'[j] = row[j]
    BY DEF SignIn, FInv, IInv, TypeOK
<1>5. a \in Holding => row'[b.key] = row[b.key]
    BY <1>3, <1>4
<1>6. Fresh(a, b)'
    BY <1>2, <1>5, FreshKept DEF Present
<1> QED
    BY <1>1, <1>6 DEF SignIn

LEMMA FreshBegin ==
    ASSUME FInv, NEW r \in Requests, NEW label \in PCs, NEW kind \in Kinds,
           NEW k \in Sessions \union {NoRow}, NEW c \in Clients \union {NoRow},
           NEW t \in Rows \union {NoRow}, Begin(r, label, kind, k, c, t),
           label \in Holding => row[k].clients \subseteq t.clients /\ row[k].expires <= t.expires
    PROVE  \A q \in Processes : Fresh(pc[q], loc[q])'
<1>1. TypeOK /\ r \in Processes
    BY DEF FInv, IInv, Processes
<1>2. /\ Goto(r, label, loc'[r]) /\ UNCHANGED row
      /\ loc'[r].key = k /\ loc'[r].ticket = t
    BY <1>1, BeginLocals DEF table
<1>3. PICK l : l = loc'[r]
    OBVIOUS
<1>4. Fresh(label, l)
    BY <1>2, <1>3 DEF Fresh
<1> QED
    BY <1>1, <1>2, <1>3, <1>4, FreshGoto

LEMMA AuthenticateFresh ==
    ASSUME FInv, NEW r \in Requests, NEW k \in Sessions, Authenticate(r, k)
    PROVE  \A q \in Processes : Fresh(pc[q], loc[q])'
<1>1. Present(k) /\ IInv /\ TypeOK
    BY DEF Authenticate, FInv, IInv
<1>2. PICK t \in Rows, x \in Rows :
        /\ t = Ticket(k) /\ t.clients = row[k].clients /\ t.expires = row[k].expires
        /\ x = Extended(k) /\ x.clients = row[k].clients /\ x.expires = now + Lifetime
    BY <1>1, RowType
<1>3. row[k].expires <= t.expires /\ row[k].expires <= x.expires
    BY <1>1, <1>2, PresentInserts DEF Rows
<1>4. \/ Begin(r, "lookup", "expired", k, NoRow, NoRow)
      \/ Begin(r, "get", "page", k, NoRow, x)
      \/ \E c \in Clients : Begin(r, "issue", "authorize", k, c, t)
      \/ Begin(r, "lookup", "signout", k, NoRow, t)
    BY <1>2 DEF Authenticate
<1>5. CASE Begin(r, "lookup", "expired", k, NoRow, NoRow)
    BY <1>5, FreshBegin DEF PCs, Kinds, Holding
<1>6. CASE Begin(r, "get", "page", k, NoRow, x)
    BY <1>2, <1>3, <1>6, FreshBegin DEF PCs, Kinds
<1>7. ASSUME NEW c \in Clients, Begin(r, "issue", "authorize", k, c, t)
      PROVE  \A q \in Processes : Fresh(pc[q], loc[q])'
    BY <1>2, <1>3, <1>7, FreshBegin DEF PCs, Kinds
<1>8. CASE Begin(r, "lookup", "signout", k, NoRow, t)
    BY <1>8, FreshBegin DEF PCs, Kinds, Holding
<1> QED
    BY <1>4, <1>5, <1>6, <1>7, <1>8

LEMMA IssueFresh ==
    ASSUME FInv, NEW r \in Requests, Issue(r)
    PROVE  \A q \in Processes : Fresh(pc[q], loc[q])'
<1>1. PICK l \in Locals :
        /\ l = loc[r] /\ Shape("issue", l) /\ Fresh("issue", l)
        /\ l.key \in Sessions /\ l.ticket \in Rows
    BY HoldingFacts DEF Issue, Holding, FInv, IInv, TypeOK, Processes
<1>2. /\ r \in Processes /\ UNCHANGED row
      /\ IF l.client \in l.ticket.clients THEN End(r)
         ELSE Goto(r, "get", [l EXCEPT !.client = NoRow,
                                       !.ticket.clients = @ \union {l.client}])
    BY <1>1 DEF Issue, table, Processes
<1>3. CASE End(r)
    BY <1>2, <1>3, FreshEmpty DEF End, PCs, Holding
<1>4. CASE Goto(r, "get", [l EXCEPT !.client = NoRow, !.ticket.clients = @ \union {l.client}])
    <2> DEFINE next == [l EXCEPT !.client = NoRow, !.ticket.clients = @ \union {l.client}]
    <2>1. PICK t \in Rows : t = l.ticket
        BY <1>1
    <2>2. /\ [t EXCEPT !.clients = @ \union {l.client}].clients = t.clients \union {l.client}
          /\ [t EXCEPT !.clients = @ \union {l.client}].expires = t.expires
        BY DEF Rows
    <2>3. /\ next.key = l.key /\ next.stale = l.stale
          /\ next.ticket = [t EXCEPT !.clients = @ \union {l.client}]
        BY <2>1 DEF Locals
    <2>4. Goto(r, "get", next)
        BY <1>4
    <2> HIDE DEF next
    <2>5. Fresh("get", next)
        BY <1>1, <2>1, <2>2, <2>3 DEF Fresh, Holding
    <2> QED
        BY <1>2, <2>4, <2>5, FreshGoto
<1> QED
    BY <1>2, <1>3, <1>4

LEMMA RetrieveFresh ==
    ASSUME FInv, NEW r \in Requests, Retrieve(r)
    PROVE  \A q \in Processes : Fresh(pc[q], loc[q])'
<1>1. PICK l \in Locals :
        /\ l = loc[r] /\ Fresh("retrieve", l)
        /\ l.key \in Sessions /\ l.ticket \in Rows
    BY HoldingFacts DEF Retrieve, Holding, FInv, IInv, TypeOK, Processes
<1>2. /\ r \in Processes /\ UNCHANGED row
      /\ IF Present(l.key) THEN Goto(r, "get", [l EXCEPT !.ticket.clients = row[l.key].clients])
                           ELSE Goto(r, "query", l)
    BY <1>1 DEF Retrieve, table, Processes
<1>3. CASE Goto(r, "query", l)
    BY <1>1, <1>2, <1>3, FreshGoto DEF Fresh, Holding
<1>4. CASE Present(l.key) /\ Goto(r, "get", [l EXCEPT !.ticket.clients = row[l.key].clients])
    <2>1. PICK t \in Rows, C \in SUBSET Clients : t = l.ticket /\ C = row[l.key].clients
        BY <1>1, <1>4, RowType DEF FInv, IInv, Rows
    <2> DEFINE next == [l EXCEPT !.ticket.clients = C]
    <2>2. [t EXCEPT !.clients = C].clients = C /\ [t EXCEPT !.clients = C].expires = t.expires
        BY DEF Rows
    <2>3. next.key = l.key /\ next.stale = l.stale /\ next.ticket = [t EXCEPT !.clients = C]
        BY <2>1 DEF Locals
    <2>4. Goto(r, "get", next)
        BY <1>4, <2>1
    <2> HIDE DEF next
    <2>5. Fresh("get", next)
        BY <1>1, <2>1, <2>2, <2>3 DEF Fresh, Holding
    <2> QED
        BY <1>2, <2>4, <2>5, FreshGoto
<1> QED
    BY <1>2, <1>3, <1>4

LEMMA ValidateFresh ==
    ASSUME FInv, NEW r \in Requests, Validate(r)
    PROVE  \A q \in Processes : Fresh(pc[q], loc[q])'
<1>1. PICK l \in Locals : l = loc[r] /\ Shape("validate", l)
    BY DEF Validate, FInv, IInv, TypeOK, Processes
<1>2. /\ r \in Processes /\ UNCHANGED row /\ l.key \in Sessions /\ IInv
      /\ \/ End(r)
         \/ /\ ValidSession(l.key)
            /\ \E label \in {"retrieve", "query"} :
                 Goto(r, label, [l EXCEPT !.client = NoRow, !.ticket = Extended(l.key)])
    BY <1>1 DEF Validate, table, Processes, Shape, FInv
<1>3. CASE End(r)
    BY <1>2, <1>3, FreshEmpty DEF End, PCs, Holding
<1>4. ASSUME ValidSession(l.key), NEW label \in {"retrieve", "query"},
             Goto(r, label, [l EXCEPT !.client = NoRow, !.ticket = Extended(l.key)])
      PROVE  \A q \in Processes : Fresh(pc[q], loc[q])'
    <2>1. PICK t \in Rows : /\ t = Extended(l.key) /\ t.clients = row[l.key].clients
                            /\ t.expires = now + Lifetime
        BY <1>2, <1>4, RowType DEF ValidSession, IInv
    <2>2. row[l.key].expires <= t.expires
        BY <1>2, <1>4, <2>1, PresentInserts DEF ValidSession
    <2> DEFINE next == [l EXCEPT !.client = NoRow, !.ticket = t]
    <2>3. next.key = l.key /\ next.ticket = t
        BY DEF Locals
    <2>4. Goto(r, label, next)
        BY <1>4, <2>1
    <2> HIDE DEF next
    <2>5. Fresh(label, next)
        BY <2>1, <2>2, <2>3 DEF Fresh
    <2> QED
        BY <1>2, <2>4, <2>5, FreshGoto
<1> QED
    BY <1>2, <1>3, <1>4

LEMMA GetFresh ==
    ASSUME FInv, NEW r \in Requests, Get(r)
    PROVE  \A q \in Processes : Fresh(pc[q], loc[q])'
<1>1. PICK l : l = loc[r] /\ Fresh("get", l)
    BY DEF Get, FInv, Processes
<1>2. r \in Processes /\ UNCHANGED row /\ \E label \in {"query", "create"} : Goto(r, label, l)
    BY <1>1 DEF Get, table, Processes
<1>3. \A label \in {"query", "create"} : Fresh(label, l)
    BY <1>1 DEF Fresh, Holding
<1> QED
    BY <1>2, <1>3, FreshGoto

LEMMA QueryFresh ==
    ASSUME FInv, NEW r \in Requests, Query(r)
    PROVE  \A q \in Processes : Fresh(pc[q], loc[q])'
<1>1. PICK l \in Locals : l = loc[r] /\ Fresh("query", l)
    BY DEF Query, FInv, IInv, TypeOK, Processes
<1>2. CASE Goto(r, "save", [l EXCEPT !.found = RowsOf({l.key})]) /\ UNCHANGED table
    <2> DEFINE next == [l EXCEPT !.found = RowsOf({l.key})]
    <2>1. next.key = l.key /\ next.stale = l.stale /\ next.ticket = l.ticket
        BY DEF Locals
    <2>2. Goto(r, "save", next)
        BY <1>2
    <2> HIDE DEF next
    <2>3. Fresh("save", next)
        BY <1>1, <2>1 DEF Fresh, Holding
    <2> QED
        BY <1>2, <2>2, <2>3, FreshGoto DEF table, Processes
<1>3. CASE Answer(r, FALSE) /\ UNCHANGED table
    BY <1>3, FreshAnswer DEF table
<1> QED
    BY <1>1, <1>2, <1>3 DEF Query

LEMMA WriteFresh ==
    ASSUME FInv, NEW r \in Requests, Create(r) \/ Save(r) \/ SaveFails(r)
    PROVE  \A q \in Processes : Fresh(pc[q], loc[q])'
<1>1. \/ Answer(r, FALSE) /\ UNCHANGED row
      \/ Answer(r, TRUE) /\ \E w : row' = [row EXCEPT ![loc[r].key] = w]
    BY DEF Create, Save, SaveFails, table
<1>2. \A k \in Sessions : row'[k] # row[k] => k = loc[r].key /\ ~UNCHANGED row
    BY <1>1 DEF FInv, IInv, TypeOK
<1> QED
    BY <1>1, <1>2, FreshAnswer

\* The steps after which a request holds nothing, and the table stays.
LEMMA QuietFresh ==
    ASSUME FInv, NEW r \in Requests,
           \/ RemoveSessions(r) \/ Revoke(r) \/ Lookup(r) \/ Find(r) \/ DeleteFails(r) \/ Logout(r)
           \/ \E k \in Sessions, c \in Clients : UseToken(r, k, c)
    PROVE  \A q \in Processes : Fresh(pc[q], loc[q])'
<1>1. r \in Processes /\ UNCHANGED row
    BY DEF RemoveSessions, Revoke, Lookup, Find, DeleteFails, Logout, UseToken, Begin, table,
           Processes
<1>2. \E label \in PCs \ Holding : \E l : Goto(r, label, l)
    BY DEF RemoveSessions, Revoke, Lookup, Find, DeleteFails, Deleted, Logout, UseToken, Begin,
           End, PCs, Holding
<1> QED
    BY <1>1, <1>2, FreshEmpty

LEMMA RemovedFresh ==
    ASSUME FInv, \/ \E r \in Requests : Delete(r)
                 \/ \E h \in Hosts : Remove(h)
    PROVE  \A q \in Processes : Fresh(pc[q], loc[q])'
<1>1. PICK p \in Processes :
        /\ \E K : row' = Without(K)
        /\ \E label \in PCs \ Holding : \E l : Goto(p, label, l)
    <2>1. CASE \E r \in Requests : Delete(r)
        BY <2>1 DEF Delete, Deleted, End, PCs, Holding, Processes
    <2>2. CASE \E h \in Hosts : Remove(h)
        BY <2>2 DEF Remove, End, PCs, Holding, Processes
    <2> QED
        BY <2>1, <2>2
<1> QED
    BY <1>1, FreshRemoved

LEMMA HostFresh ==
    ASSUME FInv, \/ \E h \in Hosts : Sweep(h) \/ RetryRemove(h)
                 \/ \E p \in Processes : Expire(p) \/ Notify(p) \/ Abort(p)
    PROVE  \A q \in Processes : Fresh(pc[q], loc[q])'
<1>1. UNCHANGED row
    BY DEF Sweep, RetryRemove, Expire, Notify, Abort, table
<1>2. PICK p \in Processes : \E label \in PCs \ Holding : \E l : Goto(p, label, l)
    BY DEF Sweep, RetryRemove, Expire, Notify, Abort, End, PCs, Holding, Processes
<1> QED
    BY <1>1, <1>2, FreshEmpty

LEMMA ClockFresh ==
    ASSUME FInv, Tick \/ UNCHANGED vars
    PROVE  \A q \in Processes : Fresh(pc[q], loc[q])'
<1>1. UNCHANGED <<row, pc, loc>>
    BY DEF Tick, vars, table
<1> QED
    BY <1>1 DEF FInv, Fresh, Present

LEMMA NextFresh ==
    ASSUME FInv, [Next]_vars
    PROVE  \A q \in Processes : Fresh(pc[q], loc[q])'
<1> DEFINE Goal == \A q \in Processes : Fresh(pc[q], loc[q])'
<1> SUFFICES Goal
    OBVIOUS
<1>1. CASE Tick \/ UNCHANGED vars \/ \E k \in Sessions : SignIn(k)
    BY <1>1, ClockFresh, FreshSignIn
<1>2. ASSUME NEW r \in Requests, NEW k \in Sessions,
             Authenticate(r, k) \/ \E c \in Clients : UseToken(r, k, c)
      PROVE  Goal
    BY <1>2, AuthenticateFresh, QuietFresh
<1>3. ASSUME NEW r \in Requests,
             \/ Issue(r) \/ Get(r) \/ Create(r) \/ Query(r) \/ Save(r) \/ SaveFails(r)
             \/ Validate(r) \/ Retrieve(r) \/ RemoveSessions(r) \/ Revoke(r)
             \/ Lookup(r) \/ Find(r) \/ Delete(r) \/ DeleteFails(r) \/ Logout(r)
      PROVE  Goal
    BY <1>3, IssueFresh, GetFresh, QueryFresh, WriteFresh, ValidateFresh, RetrieveFresh,
       QuietFresh, RemovedFresh
<1>4. ASSUME NEW h \in Hosts, Sweep(h) \/ Remove(h) \/ RetryRemove(h)
      PROVE  Goal
    BY <1>4, HostFresh, RemovedFresh
<1>5. ASSUME NEW p \in Processes, Expire(p) \/ Notify(p) \/ Abort(p)
      PROVE  Goal
    BY <1>5, HostFresh
<1> HIDE DEF Goal
<1> QED
    BY <1>1, <1>2, <1>3, <1>4, <1>5 DEF Next

\* FInv is an invariant: the ticket that a request is about to write has at
\* least the clients and the expiration of the row, or it is known as stale.
THEOREM Freshness == Spec => []FInv
<1>1. Init => FInv
    BY InitOK DEF Init, FInv, Fresh, Holding
<1>2. FInv /\ [Next]_vars => FInv'
    BY NextOK, NextFresh DEF FInv
<1> QED
    BY <1>1, <1>2, PTL DEF Spec

\* The steps that change the table.
LEMMA RowSteps ==
    ASSUME [Next]_vars
    PROVE  \/ UNCHANGED row
           \/ \E k \in Sessions : SignIn(k)
           \/ \E r \in Requests : Create(r) \/ Save(r)
           \/ \E K : row' = Without(K)
<1>1. ASSUME NEW r \in Requests, NEW k \in Sessions,
             Authenticate(r, k) \/ \E c \in Clients : UseToken(r, k, c)
      PROVE  UNCHANGED row
    BY <1>1 DEF Authenticate, UseToken, Begin, table
<1>2. ASSUME NEW r \in Requests,
             \/ Issue(r) \/ Get(r) \/ Query(r) \/ SaveFails(r)
             \/ Validate(r) \/ Retrieve(r) \/ RemoveSessions(r) \/ Revoke(r)
             \/ Lookup(r) \/ Find(r) \/ DeleteFails(r) \/ Logout(r)
      PROVE  UNCHANGED row
    BY <1>2 DEF Issue, Get, Query, SaveFails, Validate, Retrieve, RemoveSessions, Revoke, Lookup,
                Find, DeleteFails, Logout, Begin, table
<1>3. ASSUME NEW p \in Processes,
             Sweep(p) \/ RetryRemove(p) \/ Expire(p) \/ Notify(p) \/ Abort(p)
      PROVE  UNCHANGED row
    BY <1>3 DEF Sweep, RetryRemove, Expire, Notify, Abort, table
<1>4. ASSUME NEW p \in Processes, Delete(p) \/ Remove(p)
      PROVE  \E K : row' = Without(K)
    BY <1>4 DEF Delete, Remove
<1>5. Tick \/ UNCHANGED vars => UNCHANGED row
    BY DEF Tick, vars, table
<1> QED
    BY <1>1, <1>2, <1>3, <1>4, <1>5 DEF Next, Processes

\* A session that is there loses a client, or gets an earlier expiration.
Loses(k) ==
    /\ Present(k) /\ Present(k)'
    /\ ~(row[k].clients \subseteq row'[k].clients) \/ row'[k].expires < row[k].expires

\* A client of a session is forgotten, or its expiration brought forward, only
\* by the save of a request whose copy another write has overtaken.
THEOREM UpdatesLostByOverlapOnly == Spec => LostByOverlapOnly
<1>1. ASSUME FInv, [Next]_vars, NEW k \in Sessions, Loses(k)
      PROVE  \E r \in Requests : pc[r] = "save" /\ loc[r].key = k /\ loc[r].stale
    <2>1. row[k] \in Rows /\ row[k].expires \in Nat /\ inserts[k] > 0
        BY <1>1, RowType, PresentInserts DEF FInv, IInv, Loses, Rows
    <2>2. row'[k] # row[k]
        BY <1>1, <2>1 DEF Loses
    <2>3. ASSUME NEW j \in Sessions, SignIn(j)
          PROVE  FALSE
        BY <1>1, <2>1, <2>2, <2>3 DEF SignIn, FInv, IInv, TypeOK
    <2>4. ASSUME NEW r \in Requests, Create(r)
          PROVE  FALSE
        BY <1>1, <2>2, <2>4 DEF Create, table, Loses, FInv, IInv, TypeOK
    <2>5. ASSUME NEW K, row' = Without(K)
          PROVE  FALSE
        BY <1>1, <2>2, <2>5 DEF Without, Loses, Present
    <2>6. ASSUME NEW r \in Requests, Save(r)
          PROVE  pc[r] = "save" /\ loc[r].key = k /\ loc[r].stale
        <3>1. PICK l \in Locals, w \in Rows :
                /\ l = loc[r] /\ l.key \in Sessions /\ inserts[l.key] > 0
                /\ Present(l.key) /\ l.kind \in Renewing
                /\ w.id = row[l.key].id /\ w.expires = l.ticket.expires
                /\ w.clients = l.ticket.clients
                /\ w.expires <= now + Lifetime
                /\ row' = [row EXCEPT ![l.key] = w] /\ UNCHANGED inserts
                /\ Answer(r, TRUE)
            <4>1. IInv
                BY <1>1 DEF FInv
            <4> QED
                BY <2>6, <4>1, SaveStep
        <3>2. l.key = k /\ row'[k] = w
            BY <1>1, <2>2, <3>1 DEF FInv, IInv, TypeOK
        <3>3. Fresh("save", l) /\ pc[r] = "save"
            BY <1>1, <2>6, <3>1 DEF FInv, Save, Processes
        <3>4. ~l.stale => /\ row[k].clients \subseteq row'[k].clients
                          /\ row[k].expires <= row'[k].expires
            BY <3>1, <3>2, <3>3 DEF Fresh, Holding
        <3>5. row'[k].expires \in Nat
            BY <3>2 DEF Rows
        <3> QED
            BY <1>1, <2>1, <3>1, <3>2, <3>3, <3>4, <3>5 DEF Loses
    <2> QED
        BY <1>1, <2>2, <2>3, <2>4, <2>5, <2>6, RowSteps
<1>2. FInv /\ [Next]_vars =>
        [\A k \in Sessions :
           (Present(k) /\ Present(k)' /\ ( \/ ~(row[k].clients \subseteq row'[k].clients)
                                           \/ row'[k].expires < row[k].expires))
           => \E r \in Requests : pc[r] = "save" /\ loc[r].key = k /\ loc[r].stale]_vars
    BY <1>1 DEF Loses
<1> QED
    BY <1>2, Freshness, PTL DEF Spec, LostByOverlapOnly
=============================================================================
