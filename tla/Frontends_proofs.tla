------------------------- MODULE Frontends_proofs --------------------------
(***************************************************************************)
(* That the index and the cached options of a BFF host follow its          *)
(* collection of frontends is proved here for any number of names,         *)
(* criteria, threads and requests, and of changes.                         *)
(*                                                                         *)
(* Between the swap of the collection and the last handler the index and   *)
(* the options are behind, and how far is written in what the threads have *)
(* still to do.  The inductive invariant says it: IndexInv of the index,   *)
(* OptionsInv of the options.                                              *)
(***************************************************************************)
EXTENDS Frontends, FiniteSetTheorems, SequenceTheorems, TLAPS

Distinct(s) == \A i, j \in DOMAIN s : s[i].name = s[j].name => i = j

\* An index leads to each frontend of F by its name, and by criteria to one of
\* those that claim them.
Agrees(ix, F) ==
    /\ \A n \in Names : IF ix.byName[n] = None THEN \A f \in F : f.name # n
                        ELSE ix.byName[n] \in F /\ ix.byName[n].name = n
    /\ \A m \in Criteria : IF ix.byCriteria[m] = None THEN \A f \in F : f.criteria # m
                           ELSE ix.byCriteria[m] \in F /\ ix.byCriteria[m].criteria = m

\* A change that will still replace the index, and one that will still clear
\* the options.
Rebuilds(e) == e.do \in {"read", "assign"} \/ (e.do = "clear" /\ order = "caches")

RebuildDue == \E c \in Callers : \E i \in DOMAIN todo[c] : Rebuilds(todo[c][i])

AddDue(f) ==
    \E c \in Callers : \E i \in DOMAIN todo[c] :
        todo[c][i].do = "add" /\ todo[c][i].frontend = f

\* The frontends whose addition no thread has still to handle.
Settled == {f \in Range(frontends) : ~AddDue(f)}

\* Additions come first, each of another name; only the change at hand is
\* between its handlers.
TodoInv ==
    \A c \in Callers : \A i \in DOMAIN todo[c] :
        /\ todo[c][i].do = "assign" => i = 1
        /\ todo[c][i].do = "add" =>
              \A j \in 1..(i - 1) : /\ todo[c][j].do = "add"
                                    /\ todo[c][j].frontend.name # todo[c][i].frontend.name

\* While changes do not overlap, one thread at a time has handlers to run; what
\* it adds is in the collection, the index it builds is of the collection, and
\* the index agrees with the collection but for what is still to be done.
IndexInv ==
    ~overlapped =>
        /\ \A c, d \in Callers : todo[c] # << >> /\ todo[d] # << >> => c = d
        /\ \A c \in Callers : \A i \in DOMAIN todo[c] :
              /\ todo[c][i].do = "add" => todo[c][i].frontend \in Range(frontends)
              /\ todo[c][i].do = "assign" => snapshot[c] = frontends
        /\ RebuildDue \/ Agrees(index, Settled)

\* Cached options are those of the frontend, or a thread will clear them.
OptionsInv ==
    \A n \in Names :
        options[n] # None /\ ~options[n].exempt =>
            ~Behind(options[n].of, n) \/ ClearDue(n)

IInv == TypeOK /\ TodoInv /\ IndexInv /\ OptionsInv


-----------------------------------------------------------------------------
(* Filtered sequences. *)

\* The rank of an element among finitely many numbers is a bijection: At lists
\* the elements at the given positions, each once.
LEMMA AtElements ==
    ASSUME NEW S, NEW s \in Seq(S), NEW P \in SUBSET DOMAIN s
    PROVE  /\ At(s, P) \in Seq(S)
           /\ \E pos \in [DOMAIN At(s, P) -> P] :
                 /\ \A i \in DOMAIN At(s, P) : At(s, P)[i] = s[pos[i]]
                 /\ \A p \in P : \E i \in DOMAIN At(s, P) : pos[i] = p
                 /\ \A i, j \in DOMAIN At(s, P) : pos[i] = pos[j] => i = j
<1> DEFINE Below(p) == {q \in P : q < p}
           k == Cardinality(P)
           rank == [p \in P |-> Cardinality(Below(p)) + 1]
           pos == [i \in 1..k |-> CHOOSE p \in P : Cardinality(Below(p)) = i - 1]
<1>1. DOMAIN s = 1..Len(s) /\ Len(s) \in Nat /\ P \subseteq Nat
    OBVIOUS
<1>2. IsFiniteSet(P) /\ k \in Nat
    <2>1. IsFiniteSet(1..Len(s))
        BY <1>1, FS_Interval
    <2> QED
        BY <1>1, <2>1, FS_Subset, FS_CardinalityType
<1>3. \A p \in P : /\ Below(p) \subseteq P /\ p \notin Below(p)
                   /\ Cardinality(Below(p)) \in Nat /\ Cardinality(Below(p)) < k
    <2> SUFFICES ASSUME NEW p \in P
                 PROVE  /\ Below(p) \subseteq P /\ p \notin Below(p)
                        /\ Cardinality(Below(p)) \in Nat /\ Cardinality(Below(p)) < k
        OBVIOUS
    <2>1. Below(p) \subseteq P /\ p \notin Below(p)
        BY <1>1
    <2>2. IsFiniteSet(Below(p)) /\ Cardinality(Below(p)) <= k
          /\ (Cardinality(Below(p)) = k => Below(p) = P)
        BY <1>2, <2>1, FS_Subset
    <2>3. Cardinality(Below(p)) \in Nat
        BY <2>2, FS_CardinalityType
    <2> HIDE DEF Below, k
    <2> QED
        BY <1>2, <2>1, <2>2, <2>3
<1>4. \A p, q \in P : p < q => Cardinality(Below(p)) < Cardinality(Below(q))
    <2> SUFFICES ASSUME NEW p \in P, NEW q \in P, p < q
                 PROVE  Cardinality(Below(p)) < Cardinality(Below(q))
        OBVIOUS
    <2>1. Below(p) \subseteq Below(q) /\ p \in Below(q) /\ p \notin Below(p)
        BY <1>1
    <2>2. IsFiniteSet(Below(q))
        BY <1>2, <1>3, FS_Subset
    <2>3. Cardinality(Below(p)) <= Cardinality(Below(q))
          /\ (Cardinality(Below(p)) = Cardinality(Below(q)) => Below(p) = Below(q))
        BY <2>1, <2>2, FS_Subset
    <2>4. Cardinality(Below(p)) \in Nat /\ Cardinality(Below(q)) \in Nat
        BY <1>3
    <2> HIDE DEF Below
    <2> QED
        BY <2>1, <2>3, <2>4
<1>5. \A p, q \in P : Cardinality(Below(p)) = Cardinality(Below(q)) => p = q
    <2> SUFFICES ASSUME NEW p \in P, NEW q \in P, p # q
                 PROVE  Cardinality(Below(p)) # Cardinality(Below(q))
        OBVIOUS
    <2>1. p < q \/ q < p
        BY <1>1
    <2>2. Cardinality(Below(p)) \in Nat /\ Cardinality(Below(q)) \in Nat
        BY <1>3
    <2> HIDE DEF Below
    <2> QED
        BY <1>4, <2>1, <2>2
<1>6. rank \in Injection(P, 1..k)
    <2>1. \A p \in P : rank[p] \in 1..k
        <3> HIDE DEF Below, k
        <3> QED
            BY <1>2, <1>3
    <2>2. \A p, q \in P : rank[p] = rank[q] => p = q
        <3> SUFFICES ASSUME NEW p \in P, NEW q \in P, rank[p] = rank[q] PROVE p = q
            OBVIOUS
        <3>1. Cardinality(Below(p)) \in Nat /\ Cardinality(Below(q)) \in Nat
            BY <1>3
        <3> HIDE DEF Below
        <3> QED
            BY <1>5, <3>1
    <2> HIDE DEF Below, k
    <2> QED
        BY <2>1, <2>2 DEF Injection, IsInjective
<1>7. rank \in Surjection(P, 1..k)
    <2>1. IsFiniteSet(1..k) /\ Cardinality(1..k) = k
        BY <1>2, FS_Interval
    <2> HIDE DEF rank
    <2> QED
        BY <1>2, <1>6, <2>1, FS_Injection
<1>8. \A i \in 1..k : \E p \in P : Cardinality(Below(p)) = i - 1
    <2> SUFFICES ASSUME NEW i \in 1..k PROVE \E p \in P : Cardinality(Below(p)) = i - 1
        OBVIOUS
    <2>1. PICK p \in P : rank[p] = i
        <3> HIDE DEF Below, k
        <3> QED
            BY <1>7 DEF Surjection
    <2>2. Cardinality(Below(p)) \in Nat /\ Cardinality(Below(p)) + 1 = i
        BY <1>3, <2>1
    <2> HIDE DEF Below
    <2> QED
        BY <2>2
<1>9. \A i \in 1..k : pos[i] \in P /\ Cardinality(Below(pos[i])) = i - 1
    <2> HIDE DEF Below, k
    <2> QED
        BY <1>8
<1>10. \A p \in P : \E i \in 1..k : pos[i] = p
    <2> SUFFICES ASSUME NEW p \in P PROVE \E i \in 1..k : pos[i] = p
        OBVIOUS
    <2>1. PICK i \in 1..k : i - 1 = Cardinality(Below(p))
        <3>1. Cardinality(Below(p)) \in Nat /\ Cardinality(Below(p)) < k
            BY <1>3
        <3> HIDE DEF Below, k
        <3> QED
            BY <1>2, <3>1
    <2> HIDE DEF Below, k, pos
    <2> QED
        BY <1>5, <1>9, <2>1
<1>11. At(s, P) = [i \in 1..k |-> s[pos[i]]]
    BY DEF At
<1>12. \A i, j \in 1..k : pos[i] = pos[j] => i = j
    <2> HIDE DEF Below, k, pos
    <2> QED
        BY <1>2, <1>9
<1>13. pos \in [1..k -> P]
    <2> HIDE DEF Below, k
    <2> QED
        BY <1>9
<1> HIDE DEF Below, k, pos, rank
<1>14. DOMAIN At(s, P) = 1..k /\ \A i \in 1..k : At(s, P)[i] = s[pos[i]]
    BY <1>11
<1>15. At(s, P) \in Seq(S)
    BY <1>1, <1>2, <1>11, <1>13, IsASeq
<1>16. \E f \in [DOMAIN At(s, P) -> P] :
          /\ \A i \in DOMAIN At(s, P) : At(s, P)[i] = s[f[i]]
          /\ \A p \in P : \E i \in DOMAIN At(s, P) : f[i] = p
          /\ \A i, j \in DOMAIN At(s, P) : f[i] = f[j] => i = j
    <2>1. pos \in [DOMAIN At(s, P) -> P]
        BY <1>13, <1>14
    <2> WITNESS pos \in [DOMAIN At(s, P) -> P]
    <2>2. \A i \in DOMAIN At(s, P) : At(s, P)[i] = s[pos[i]]
        BY <1>14
    <2>3. \A p \in P : \E i \in DOMAIN At(s, P) : pos[i] = p
        BY <1>10, <1>14
    <2>4. \A i, j \in DOMAIN At(s, P) : pos[i] = pos[j] => i = j
        BY <1>12, <1>14
    <2> QED
        BY <2>2, <2>3, <2>4
<1> QED
    BY <1>15, <1>16

\* What Where keeps is in the sequence and passes the test, what passes is kept,
\* and names that are distinct stay so.  The test is a set of positions here.
LEMMA AtKeeps ==
    ASSUME NEW s \in Seq(Frontend), NEW P \in SUBSET DOMAIN s
    PROVE  /\ At(s, P) \in Seq(Frontend)
           /\ \A i \in DOMAIN At(s, P) : \E p \in P : At(s, P)[i] = s[p]
           /\ \A p \in P : \E i \in DOMAIN At(s, P) : At(s, P)[i] = s[p]
           /\ Distinct(s) => Distinct(At(s, P))
<1>1. At(s, P) \in Seq(Frontend)
    BY AtElements
<1>2. PICK pos \in [DOMAIN At(s, P) -> P] :
            /\ \A i \in DOMAIN At(s, P) : At(s, P)[i] = s[pos[i]]
            /\ \A p \in P : \E i \in DOMAIN At(s, P) : pos[i] = p
            /\ \A i, j \in DOMAIN At(s, P) : pos[i] = pos[j] => i = j
    BY AtElements
<1>3. \A i \in DOMAIN At(s, P) : \E p \in P : At(s, P)[i] = s[p]
    BY <1>2
<1>4. \A p \in P : \E i \in DOMAIN At(s, P) : At(s, P)[i] = s[p]
    BY <1>2
<1>5. Distinct(s) => Distinct(At(s, P))
    BY <1>2 DEF Distinct
<1> QED
    BY <1>1, <1>3, <1>4, <1>5

\* The first element that passes a test, or none.
LEMMA HeadOfAt ==
    ASSUME NEW s \in Seq(Frontend), NEW P \in SUBSET DOMAIN s
    PROVE  \/ HeadOrNone(At(s, P)) = None /\ P = {}
           \/ \E p \in P : HeadOrNone(At(s, P)) = s[p]
<1> DEFINE t == At(s, P)
<1>1. t \in Seq(Frontend) /\ (\A i \in DOMAIN t : \E p \in P : t[i] = s[p])
      /\ (\A p \in P : \E i \in DOMAIN t : t[i] = s[p])
    BY AtKeeps
<1> SUFFICES \/ HeadOrNone(t) = None /\ P = {}
             \/ \E p \in P : HeadOrNone(t) = s[p]
    OBVIOUS
<1> HIDE DEF t
<1>2. CASE t = << >>
    BY <1>1, <1>2 DEF HeadOrNone
<1>3. CASE t # << >>
    <2>1. 1 \in DOMAIN t /\ HeadOrNone(t) = t[1]
        BY <1>1, <1>3 DEF HeadOrNone
    <2> QED
        BY <1>1, <2>1
<1> QED
    BY <1>2, <1>3

\* Looking a name up finds a frontend that has it, or there is none.
LEMMA NamedFirst ==
    ASSUME NEW s \in Seq(Frontend), NEW n
    PROVE  \/ Named(s, n) = None /\ \A i \in DOMAIN s : s[i].name # n
           \/ \E i \in DOMAIN s : s[i].name = n /\ Named(s, n) = s[i] /\ Named(s, n) # None
<1> DEFINE P == {i \in DOMAIN s : s[i].name = n}
<1>1. Named(s, n) = HeadOrNone(At(s, P))
    BY DEF Named, Where
<1>2. \/ HeadOrNone(At(s, P)) = None /\ P = {}
      \/ \E p \in P : HeadOrNone(At(s, P)) = s[p]
    BY HeadOfAt
<1>3. \A i \in DOMAIN s : s[i] \in Frontend
    OBVIOUS
<1> QED
    BY <1>1, <1>2, <1>3, NoneAssumption

\* The index has criteria lead to a frontend that claims them, if one does.
LEMMA ClaimingFirst ==
    ASSUME NEW s \in Seq(Frontend), NEW m \in Criteria
    PROVE  LET f == Index(s).byCriteria[m]
           IN \/ f = None /\ \A i \in DOMAIN s : s[i].criteria # m
              \/ \E i \in DOMAIN s : s[i].criteria = m /\ f = s[i] /\ f # None
<1> DEFINE P == {i \in DOMAIN s : s[i].criteria = m}
<1>1. Index(s).byCriteria[m] = HeadOrNone(At(s, P))
    BY DEF Index, Where
<1>2. \/ HeadOrNone(At(s, P)) = None /\ P = {}
      \/ \E p \in P : HeadOrNone(At(s, P)) = s[p]
    BY HeadOfAt
<1>3. \A i \in DOMAIN s : s[i] \in Frontend
    OBVIOUS
<1> QED
    BY <1>1, <1>2, <1>3, NoneAssumption

\* Where names are distinct, the frontend of a name is the one that has it.
LEMMA NamedUnique ==
    ASSUME NEW s \in Seq(Frontend), Distinct(s), NEW i \in DOMAIN s
    PROVE  Named(s, s[i].name) = s[i] /\ s[i] # None
<1>1. s[i] \in Frontend
    OBVIOUS
<1> QED
    BY <1>1, NamedFirst, NoneAssumption DEF Distinct

\* An index built from a collection agrees with it.
LEMMA IndexAgrees ==
    ASSUME NEW s \in Seq(Frontend)
    PROVE  Agrees(Index(s), Range(s))
<1>1. Range(s) = {s[i] : i \in DOMAIN s}
    BY DEF Range
<1>2. \A n \in Names : Index(s).byName[n] = Named(s, n)
    BY DEF Index
<1>3. \A n \in Names : IF Index(s).byName[n] = None THEN \A f \in Range(s) : f.name # n
                        ELSE Index(s).byName[n] \in Range(s) /\ Index(s).byName[n].name = n
    BY <1>1, <1>2, NamedFirst
<1>4. \A m \in Criteria :
        IF Index(s).byCriteria[m] = None THEN \A f \in Range(s) : f.criteria # m
        ELSE Index(s).byCriteria[m] \in Range(s) /\ Index(s).byCriteria[m].criteria = m
    BY <1>1, ClaimingFirst
<1> QED
    BY <1>3, <1>4 DEF Agrees

LEMMA IndexType ==
    ASSUME NEW s \in Seq(Frontend)
    PROVE  Index(s) \in [byName : [Names -> Frontend \union {None}],
                         byCriteria : [Criteria -> Frontend \union {None}]]
<1>1. \A n \in Names : Named(s, n) \in Frontend \union {None}
    BY NamedFirst
<1>2. \A m \in Criteria : Index(s).byCriteria[m] \in Frontend \union {None}
    BY ClaimingFirst
<1>3. Index(s) = [byName |-> [n \in Names |-> Named(s, n)],
                  byCriteria |-> [m \in Criteria |-> Index(s).byCriteria[m]]]
    BY DEF Index
<1> QED
    BY <1>1, <1>2, <1>3

-----------------------------------------------------------------------------
(* Changes of the collection. *)

\* What is announced of a change accounts for all that it changes: the frontend
\* of a name is the one it was, or the name is announced as changed, or it is
\* new and announced as added.
Announced(new, added, changed) ==
    /\ new \in Seq(Frontend) /\ Distinct(new)
    /\ added \in Seq(Frontend) /\ Distinct(added)
    /\ changed \in Seq(Frontend)
    /\ \A i \in DOMAIN added :
          added[i] \in Range(new) /\ Current(added[i].name) = None
    /\ \A n \in Names :
          \/ Named(new, n) = Current(n)
          \/ \E i \in DOMAIN changed : changed[i].name = n
          \/ Current(n) = None /\ \E i \in DOMAIN added : added[i] = Named(new, n)

\* The collection without a name is as it was for every other name.
LEMMA OthersKept ==
    ASSUME TypeOK, NEW n \in Names
    PROVE  /\ Others(n) \in Seq(Frontend) /\ Distinct(Others(n))
           /\ \A i \in DOMAIN Others(n) : Others(n)[i].name # n
           /\ \A m \in Names \ {n} : Named(Others(n), m) = Current(m)
<1> DEFINE P == {i \in DOMAIN frontends : frontends[i].name # n}
<1>1. frontends \in Seq(Frontend) /\ Distinct(frontends)
    BY DEF TypeOK, Distinct
<1>2. Others(n) = At(frontends, P)
    BY DEF Others, Where
<1>3. /\ Others(n) \in Seq(Frontend) /\ Distinct(Others(n))
      /\ \A i \in DOMAIN Others(n) : \E p \in P : Others(n)[i] = frontends[p]
      /\ \A p \in P : \E i \in DOMAIN Others(n) : Others(n)[i] = frontends[p]
    <2>1. P \in SUBSET DOMAIN frontends
        OBVIOUS
    <2> HIDE DEF P
    <2> QED
        BY <1>1, <1>2, <2>1, AtKeeps
<1>4. ASSUME NEW m \in Names \ {n} PROVE Named(Others(n), m) = Current(m)
    <2>1. CASE \E p \in DOMAIN frontends : frontends[p].name = m
        <3>1. PICK p \in DOMAIN frontends : frontends[p].name = m
            BY <2>1
        <3>2. PICK i \in DOMAIN Others(n) : Others(n)[i] = frontends[p]
            BY <1>3, <3>1
        <3> QED
            BY <1>1, <1>3, <3>1, <3>2, NamedUnique DEF Current
    <2>2. CASE \A p \in DOMAIN frontends : frontends[p].name # m
        BY <1>1, <1>3, <2>2, NamedFirst DEF Current
    <2> QED
        BY <2>1, <2>2
<1> QED
    BY <1>3, <1>4

\* An addition or update announces what it changes.
LEMMA AddOrUpdateAnnounced ==
    ASSUME TypeOK, NEW c \in Callers, AddOrUpdate(c)
    PROVE  \E new, added, changed :
              Swap(c, new, added, changed) /\ Announced(new, added, changed)
<1>1. PICK f \in Fresh :
        IF Current(f.name) = None
        THEN Swap(c, Append(Others(f.name), f), <<f>>, << >>)
        ELSE Swap(c, Append(Others(f.name), f), << >>, <<f>>)
    BY DEF AddOrUpdate
<1>2. f \in Frontend /\ f.name \in Names
    BY DEF Fresh, Frontend
<1> DEFINE s == Others(f.name)
           new == Append(s, f)
<1>3. /\ s \in Seq(Frontend) /\ Distinct(s) /\ \A i \in DOMAIN s : s[i].name # f.name
      /\ \A m \in Names \ {f.name} : Named(s, m) = Current(m)
    BY <1>2, OthersKept
<1> HIDE DEF s
<1>4. /\ new \in Seq(Frontend) /\ DOMAIN new = DOMAIN s \union {Len(s) + 1}
      /\ new[Len(s) + 1] = f /\ \A i \in DOMAIN s : new[i] = s[i]
      /\ Len(s) + 1 \notin DOMAIN s
    BY <1>2, <1>3
<1> HIDE DEF new
<1>5. Distinct(new)
    BY <1>3, <1>4 DEF Distinct
<1>6. Named(new, f.name) = f /\ f \in Range(new)
    <2>1. Len(s) + 1 \in DOMAIN new
        BY <1>4
    <2> QED
        BY <1>4, <1>5, <2>1, NamedUnique DEF Range
<1>7. ASSUME NEW m \in Names \ {f.name} PROVE Named(new, m) = Named(s, m)
    <2>1. CASE \E i \in DOMAIN s : s[i].name = m
        <3>1. PICK i \in DOMAIN s : s[i].name = m
            BY <2>1
        <3>2. i \in DOMAIN new /\ new[i] = s[i]
            BY <1>4
        <3> QED
            BY <1>3, <1>4, <1>5, <3>1, <3>2, NamedUnique
    <2>2. CASE \A i \in DOMAIN s : s[i].name # m
        <3>1. \A i \in DOMAIN new : new[i].name # m
            BY <1>4, <2>2
        <3> QED
            BY <1>3, <1>4, <2>2, <3>1, NamedFirst
    <2> QED
        BY <2>1, <2>2
<1>8. << >> \in Seq(Frontend) /\ <<f>> \in Seq(Frontend) /\ Distinct(<< >>) /\ Distinct(<<f>>)
      /\ DOMAIN << >> = {} /\ DOMAIN <<f>> = {1} /\ <<f>>[1] = f
    BY <1>2 DEF Distinct
<1>9. CASE Current(f.name) = None
    <2>1. Announced(new, <<f>>, << >>)
        BY <1>3, <1>4, <1>5, <1>6, <1>7, <1>8, <1>9 DEF Announced
    <2> QED
        BY <1>1, <1>9, <2>1 DEF new, s
<1>10. CASE Current(f.name) # None
    <2>1. Announced(new, << >>, <<f>>)
        BY <1>3, <1>4, <1>5, <1>7, <1>8 DEF Announced
    <2> QED
        BY <1>1, <1>10, <2>1 DEF new, s
<1> QED
    BY <1>9, <1>10

\* So does a removal.
LEMMA RemoveAnnounced ==
    ASSUME TypeOK, NEW c \in Callers, RemoveFrontend(c)
    PROVE  \E new, added, changed :
              Swap(c, new, added, changed) /\ Announced(new, added, changed)
<1>1. PICK n \in NamesOf(frontends) : Swap(c, Others(n), << >>, <<Current(n)>>)
    BY DEF RemoveFrontend
<1>2. frontends \in Seq(Frontend) /\ Distinct(frontends)
    BY DEF TypeOK, Distinct
<1>3. PICK i \in DOMAIN frontends : frontends[i].name = n
    BY DEF NamesOf
<1>4. Current(n) = frontends[i] /\ frontends[i] \in Frontend
    BY <1>2, <1>3, NamedUnique DEF Current
<1>5. Current(n) \in Frontend /\ Current(n).name = n /\ n \in Names
    BY <1>3, <1>4 DEF Frontend
<1>6. /\ Others(n) \in Seq(Frontend) /\ Distinct(Others(n))
      /\ \A m \in Names \ {n} : Named(Others(n), m) = Current(m)
    BY <1>5, OthersKept
<1>7. << >> \in Seq(Frontend) /\ <<Current(n)>> \in Seq(Frontend) /\ Distinct(<< >>)
      /\ DOMAIN << >> = {} /\ DOMAIN <<Current(n)>> = {1} /\ <<Current(n)>>[1] = Current(n)
    BY <1>5 DEF Distinct
<1>8. Announced(Others(n), << >>, <<Current(n)>>)
    BY <1>5, <1>6, <1>7 DEF Announced
<1> QED
    BY <1>1, <1>8

\* And a reload, whatever the configuration says.
LEMMA ReloadAnnounced ==
    ASSUME TypeOK, NEW c \in Callers, Reload(c)
    PROVE  \E new, added, changed :
              Swap(c, new, added, changed) /\ Announced(new, added, changed)
<1> DEFINE New(s) == {p \in DOMAIN s : Current(s[p].name) = None}
           Altered(s) == {p \in DOMAIN s : Current(s[p].name) \notin {None, s[p]}}
           Gone(s) == {p \in DOMAIN frontends : Named(s, frontends[p].name) = None}
<1>1. PICK new \in Configurations :
        Swap(c, new, At(new, New(new)), At(new, Altered(new)) \o At(frontends, Gone(new)))
    BY DEF Reload, Where
<1> DEFINE added == At(new, New(new))
           altered == At(new, Altered(new))
           gone == At(frontends, Gone(new))
<1>2. frontends \in Seq(Frontend) /\ Distinct(frontends)
    BY DEF TypeOK, Distinct
<1>3. new \in Seq(Frontend) /\ Distinct(new)
    <2>1. PICK k \in 0..Cardinality(Names) : new \in [1..k -> Fresh \union Range(frontends)]
        BY DEF Configurations, SeqOf
    <2>2. Fresh \union Range(frontends) \subseteq Frontend
        BY <1>2 DEF Fresh, Range
    <2>3. new \in Seq(Frontend) /\ DOMAIN new = 1..k /\ k \in Nat
        BY <2>1, <2>2
    <2>4. \A i, j \in DOMAIN new : i < j => new[i].name < new[j].name
        BY DEF Configurations
    <2>5. \A i \in DOMAIN new : new[i] \in Frontend /\ new[i].name \in Nat
        <3>1. \A f \in Frontend : f.name \in Names
            BY DEF Frontend
        <3>2. Names \subseteq Nat
            BY FrontendAssumption
        <3>3. \A i \in DOMAIN new : new[i] \in Frontend
            BY <2>3
        <3> QED
            BY <3>1, <3>2, <3>3
    <2>6. \A i, j \in DOMAIN new : new[i].name = new[j].name => i = j
        BY <2>3, <2>4, <2>5
    <2> QED
        BY <2>3, <2>6 DEF Distinct
<1>4. /\ added \in Seq(Frontend) /\ Distinct(added)
      /\ \A i \in DOMAIN added : \E p \in New(new) : added[i] = new[p]
      /\ \A p \in New(new) : \E i \in DOMAIN added : added[i] = new[p]
    <2>1. New(new) \in SUBSET DOMAIN new
        OBVIOUS
    <2> HIDE DEF New
    <2> QED
        BY <1>3, <2>1, AtKeeps
<1>5. /\ altered \in Seq(Frontend)
      /\ \A p \in Altered(new) : \E i \in DOMAIN altered : altered[i] = new[p]
    <2>1. Altered(new) \in SUBSET DOMAIN new
        OBVIOUS
    <2> HIDE DEF Altered
    <2> QED
        BY <1>3, <2>1, AtKeeps
<1>6. /\ gone \in Seq(Frontend)
      /\ \A p \in Gone(new) : \E i \in DOMAIN gone : gone[i] = frontends[p]
    <2>1. Gone(new) \in SUBSET DOMAIN frontends
        OBVIOUS
    <2> HIDE DEF Gone
    <2> QED
        BY <1>2, <2>1, AtKeeps
<1> DEFINE changed == altered \o gone
<1> HIDE DEF added, altered, gone
<1>7. /\ changed \in Seq(Frontend)
      /\ \A i \in DOMAIN altered : i \in DOMAIN changed /\ changed[i] = altered[i]
      /\ \A i \in DOMAIN gone : Len(altered) + i \in DOMAIN changed
                                /\ changed[Len(altered) + i] = gone[i]
    BY <1>5, <1>6
<1> HIDE DEF changed
<1>8. \A i \in DOMAIN added : added[i] \in Range(new) /\ Current(added[i].name) = None
    BY <1>4 DEF Range
<1>9. ASSUME NEW n \in Names
      PROVE  \/ Named(new, n) = Current(n)
             \/ \E i \in DOMAIN changed : changed[i].name = n
             \/ Current(n) = None /\ \E i \in DOMAIN added : added[i] = Named(new, n)
    <2>1. CASE \E p \in DOMAIN new : new[p].name = n
        <3>1. PICK p \in DOMAIN new : new[p].name = n
            BY <2>1
        <3>2. Named(new, n) = new[p]
            BY <1>3, <3>1, NamedUnique
        <3>3. Current(n) = new[p] \/ p \in New(new) \/ p \in Altered(new)
            BY <3>1
        <3> QED
            BY <1>4, <1>5, <1>7, <3>1, <3>2, <3>3
    <2>2. CASE \A p \in DOMAIN new : new[p].name # n
        <3>1. Named(new, n) = None
            BY <1>3, <2>2, NamedFirst
        <3>2. CASE Current(n) = None
            BY <3>1, <3>2
        <3>3. CASE Current(n) # None
            <4>1. PICK p \in DOMAIN frontends : frontends[p].name = n
                BY <1>2, <3>3, NamedFirst DEF Current
            <4>2. p \in Gone(new)
                BY <3>1, <4>1
            <4> QED
                BY <1>6, <1>7, <4>1, <4>2
        <3> QED
            BY <3>2, <3>3
    <2> QED
        BY <2>1, <2>2
<1>10. Announced(new, added, changed)
    BY <1>3, <1>4, <1>7, <1>8, <1>9 DEF Announced
<1>11. Swap(c, new, added, changed)
    BY <1>1 DEF added, altered, gone, changed
<1> QED
    BY <1>10, <1>11

\* The handlers a thread has to run after a change: those of the additions,
\* then of the other changes, each at its first handler.
LEMMA RaisedEvents ==
    ASSUME NEW added \in Seq(Frontend), NEW changed \in Seq(Frontend),
           order \in {"index", "caches"}
    PROVE  LET T == Added(added) \o Changed(changed)
           IN /\ T \in Seq(Event)
              /\ \A i \in DOMAIN T :
                    \/ i \in DOMAIN added /\ T[i] = [do |-> "add", frontend |-> added[i]]
                    \/ /\ i \notin DOMAIN added /\ T[i].do \in {"read", "clear"}
                       /\ i > Len(added) /\ Rebuilds(T[i]) /\ Clears(T[i])
              /\ \A i \in DOMAIN added :
                    i \in DOMAIN T /\ T[i] = [do |-> "add", frontend |-> added[i]]
              /\ \A i \in DOMAIN changed :
                    /\ Len(added) + i \in DOMAIN T
                    /\ T[Len(added) + i].frontend = changed[i]
                    /\ Clears(T[Len(added) + i]) /\ Rebuilds(T[Len(added) + i])
<1> DEFINE A == Added(added)
           C == Changed(changed)
           do == IF order = "index" THEN "read" ELSE "clear"
<1>1. /\ A \in Seq(Event) /\ Len(A) = Len(added) /\ DOMAIN A = DOMAIN added
      /\ \A i \in DOMAIN added : A[i] = [do |-> "add", frontend |-> added[i]]
    <2>1. A = [i \in 1..Len(added) |-> [do |-> "add", frontend |-> added[i]]]
        BY DEF Added
    <2>2. \A i \in 1..Len(added) : [do |-> "add", frontend |-> added[i]] \in Event
        BY DEF Event
    <2> QED
        BY <2>1, <2>2
<1>2. /\ C \in Seq(Event) /\ Len(C) = Len(changed) /\ DOMAIN C = DOMAIN changed
      /\ \A i \in DOMAIN changed : C[i] = [do |-> do, frontend |-> changed[i]]
    <2>1. C = [i \in 1..Len(changed) |-> [do |-> do, frontend |-> changed[i]]]
        BY DEF Changed
    <2>2. \A i \in 1..Len(changed) : [do |-> do, frontend |-> changed[i]] \in Event
        BY DEF Event
    <2> QED
        BY <2>1, <2>2
<1>3. \A f : Rebuilds([do |-> do, frontend |-> f]) /\ Clears([do |-> do, frontend |-> f])
             /\ do \in {"read", "clear"}
    BY DEF Rebuilds, Clears
<1> DEFINE T == A \o C
<1> HIDE DEF A, C, do
<1>4. /\ T \in Seq(Event) /\ Len(T) = Len(added) + Len(changed)
      /\ DOMAIN T = 1..(Len(added) + Len(changed))
      /\ \A i \in DOMAIN T : IF i <= Len(added) THEN T[i] = A[i] ELSE T[i] = C[i - Len(added)]
    <2>1. T \in Seq(Event) /\ Len(T) = Len(A) + Len(C)
          /\ \A i \in 1..Len(T) : T[i] = IF i <= Len(A) THEN A[i] ELSE C[i - Len(A)]
        <3>1. A \in Seq(Event) /\ C \in Seq(Event)
            BY <1>1, <1>2
        <3>2. A \o C \in Seq(Event) /\ Len(A \o C) = Len(A) + Len(C)
              /\ \A i \in 1..(Len(A) + Len(C)) :
                    (A \o C)[i] = IF i <= Len(A) THEN A[i] ELSE C[i - Len(A)]
            BY <3>1, ConcatProperties
        <3> QED
            BY <3>2
    <2>2. DOMAIN T = 1..Len(T)
        BY <2>1
    <2> HIDE DEF T
    <2> QED
        BY <1>1, <1>2, <2>1, <2>2
<1>5. /\ DOMAIN added = 1..Len(added) /\ Len(added) \in Nat
      /\ DOMAIN changed = 1..Len(changed) /\ Len(changed) \in Nat
    OBVIOUS
<1> HIDE DEF T
<1>6. ASSUME NEW i \in DOMAIN T
      PROVE  \/ i \in DOMAIN added /\ T[i] = [do |-> "add", frontend |-> added[i]]
             \/ /\ i \notin DOMAIN added /\ T[i].do \in {"read", "clear"}
                /\ i > Len(added) /\ Rebuilds(T[i]) /\ Clears(T[i])
    <2>1. CASE i <= Len(added)
        BY <1>1, <1>4, <1>5, <2>1
    <2>2. CASE ~(i <= Len(added))
        <3>1. i - Len(added) \in DOMAIN changed /\ T[i] = C[i - Len(added)]
              /\ i > Len(added) /\ i \notin DOMAIN added
            BY <1>4, <1>5, <2>2
        <3>2. T[i] = [do |-> do, frontend |-> changed[i - Len(added)]]
            BY <1>2, <3>1
        <3> QED
            BY <1>3, <3>1, <3>2
    <2> QED
        BY <2>1, <2>2
<1>7. \A i \in DOMAIN added : i \in DOMAIN T /\ T[i] = [do |-> "add", frontend |-> added[i]]
    BY <1>1, <1>4, <1>5
<1>8. ASSUME NEW i \in DOMAIN changed
      PROVE  /\ Len(added) + i \in DOMAIN T /\ T[Len(added) + i].frontend = changed[i]
             /\ Clears(T[Len(added) + i]) /\ Rebuilds(T[Len(added) + i])
    <2>1. Len(added) + i \in DOMAIN T /\ T[Len(added) + i] = C[i]
        BY <1>4, <1>5
    <2>2. T[Len(added) + i] = [do |-> do, frontend |-> changed[i]]
        BY <1>2, <2>1
    <2> QED
        BY <1>3, <2>1, <2>2
<1>9. T = Added(added) \o Changed(changed)
    BY DEF T, A, C
<1> QED
    BY <1>4, <1>6, <1>7, <1>8, <1>9

\* A change keeps the invariant: it is announced as what it is, and where it
\* ends an overlap the index will be built again.
LEMMA SwapKept ==
    ASSUME IInv, NEW c \in Callers, todo[c] = << >>, changes' \in 0..MaxChanges,
           NEW new, NEW added, NEW changed,
           Swap(c, new, added, changed), Announced(new, added, changed)
    PROVE  IInv'
<1> DEFINE T == Added(added) \o Changed(changed)
<1>1. /\ new \in Seq(Frontend) /\ added \in Seq(Frontend) /\ changed \in Seq(Frontend)
      /\ Distinct(new) /\ Distinct(added)
      /\ \A i \in DOMAIN added : added[i] \in Range(new) /\ Current(added[i].name) = None
    BY DEF Announced
<1>2. /\ T \in Seq(Event)
      /\ \A i \in DOMAIN T :
            \/ i \in DOMAIN added /\ T[i] = [do |-> "add", frontend |-> added[i]]
            \/ /\ i \notin DOMAIN added /\ T[i].do \in {"read", "clear"}
               /\ i > Len(added) /\ Rebuilds(T[i]) /\ Clears(T[i])
      /\ \A i \in DOMAIN added : i \in DOMAIN T /\ T[i] = [do |-> "add", frontend |-> added[i]]
      /\ \A i \in DOMAIN changed :
            /\ Len(added) + i \in DOMAIN T
            /\ T[Len(added) + i].frontend = changed[i]
            /\ Clears(T[Len(added) + i]) /\ Rebuilds(T[Len(added) + i])
    BY <1>1, RaisedEvents DEF IInv, TypeOK
<1> HIDE DEF T
<1>3. /\ frontends' = new /\ order' = order /\ snapshot' = snapshot /\ index' = index
      /\ options' = options /\ page' = page /\ queue' = queue /\ request' = request
      /\ overlapped' = (IF Quiet THEN overlapped /\ changed = << >> ELSE TRUE)
    BY DEF Swap, caches
<1>4. /\ todo' \in [Callers -> Seq(Event)] /\ todo'[c] = T
      /\ \A d \in Callers : d # c => todo'[d] = todo[d]
    BY <1>2 DEF Swap, T, IInv, TypeOK
<1>5. TypeOK'
    <2>1. new \in Seq(Frontend) /\ (\A i, j \in DOMAIN new : new[i].name = new[j].name => i = j)
        BY <1>1 DEF Distinct
    <2>2. overlapped' \in BOOLEAN
        BY <1>3 DEF IInv, TypeOK
    <2> QED
        BY <1>3, <1>4, <2>1, <2>2 DEF IInv, TypeOK
<1>6. TodoInv'
    <2> SUFFICES ASSUME NEW d \in Callers, NEW i \in DOMAIN todo'[d]
                 PROVE  /\ todo'[d][i].do = "assign" => i = 1
                        /\ todo'[d][i].do = "add" =>
                              \A j \in 1..(i - 1) :
                                  /\ todo'[d][j].do = "add"
                                  /\ todo'[d][j].frontend.name # todo'[d][i].frontend.name
        BY DEF TodoInv
    <2>1. CASE d # c
        BY <1>4, <2>1 DEF IInv, TodoInv
    <2>2. CASE d = c
        <3>1. todo'[d] = T /\ i \in DOMAIN T
            BY <1>4, <2>2
        <3>2. T[i].do # "assign"
            BY <1>2, <3>1
        <3>3. ASSUME T[i].do = "add", NEW j \in 1..(i - 1)
              PROVE  T[j].do = "add" /\ T[j].frontend.name # T[i].frontend.name
            <4>1. i \in DOMAIN added /\ T[i] = [do |-> "add", frontend |-> added[i]]
                BY <1>2, <3>1, <3>3
            <4>2. j \in DOMAIN added /\ j # i
                BY <1>1, <4>1
            <4>3. T[j] = [do |-> "add", frontend |-> added[j]]
                BY <1>2, <4>2
            <4> QED
                BY <1>1, <4>1, <4>2, <4>3 DEF Distinct
        <3> QED
            BY <3>1, <3>2, <3>3
    <2> QED
        BY <2>1, <2>2
<1>7. IndexInv'
    <2> SUFFICES ASSUME ~overlapped'
                 PROVE  /\ \A d, e \in Callers : todo'[d] # << >> /\ todo'[e] # << >> => d = e
                        /\ \A d \in Callers : \A i \in DOMAIN todo'[d] :
                              /\ todo'[d][i].do = "add" =>
                                    todo'[d][i].frontend \in Range(frontends')
                              /\ todo'[d][i].do = "assign" => snapshot'[d] = frontends'
                        /\ RebuildDue' \/ Agrees(index', Settled')
        BY DEF IndexInv, Agrees
    <2>1. Quiet /\ (~overlapped \/ changed # << >>)
        BY <1>3 DEF IInv, TypeOK
    <2>2. \A d \in Callers : d # c => todo'[d] = << >>
        BY <1>4, <2>1 DEF Quiet
    <2>3. ASSUME NEW i \in DOMAIN T
          PROVE  /\ T[i].do = "add" => T[i].frontend \in Range(new)
                 /\ T[i].do # "assign"
        BY <1>1, <1>2
    <2>4. \A d \in Callers : \A i \in DOMAIN todo'[d] :
              /\ todo'[d][i].do = "add" => todo'[d][i].frontend \in Range(frontends')
              /\ todo'[d][i].do = "assign" => snapshot'[d] = frontends'
        BY <1>3, <1>4, <2>2, <2>3
    <2>5. CASE changed # << >>
        <3>1. 1 \in DOMAIN changed
            BY <1>1, <2>5
        <3>2. PICK i \in DOMAIN T : Rebuilds(T[i])
            BY <1>2, <3>1
        <3>3. RebuildDue'
            BY <1>3, <1>4, <3>2 DEF RebuildDue, Rebuilds
        <3> QED
            BY <2>2, <2>4, <3>3
    <2>6. CASE changed = << >>
        <3>1. ~overlapped /\ ~RebuildDue /\ Settled = Range(frontends)
            BY <2>1, <2>6 DEF Quiet, RebuildDue, Settled, AddDue
        <3>2. Agrees(index, Range(frontends))
            BY <3>1 DEF IInv, IndexInv
        <3>3. DOMAIN changed = {}
            BY <2>6
        <3>4. frontends \in Seq(Frontend) /\ Distinct(frontends)
            BY DEF IInv, TypeOK, Distinct
        <3>5. \A f : AddDue(f)' <=> \E i \in DOMAIN added : added[i] = f
            <4> SUFFICES ASSUME NEW f
                         PROVE  AddDue(f)' <=> \E i \in DOMAIN added : added[i] = f
                OBVIOUS
            <4>1. ASSUME NEW i \in DOMAIN added, added[i] = f PROVE AddDue(f)'
                <5>1. i \in DOMAIN T /\ T[i].do = "add" /\ T[i].frontend = f
                    <6>1. i \in DOMAIN T /\ T[i] = [do |-> "add", frontend |-> added[i]]
                        BY <1>2
                    <6> QED
                        BY <4>1, <6>1
                <5>2. i \in DOMAIN todo'[c] /\ todo'[c][i].do = "add" /\ todo'[c][i].frontend = f
                    BY <1>4, <5>1
                <5> QED
                    BY <5>2 DEF AddDue
            <4>2. ASSUME AddDue(f)' PROVE \E i \in DOMAIN added : added[i] = f
                <5>1. PICK d \in Callers : \E i \in DOMAIN todo'[d] :
                            todo'[d][i].do = "add" /\ todo'[d][i].frontend = f
                    BY <4>2 DEF AddDue
                <5>2. d = c
                    BY <2>2, <5>1
                <5>3. PICK i \in DOMAIN T : T[i].do = "add" /\ T[i].frontend = f
                    BY <1>4, <5>1, <5>2
                <5> QED
                    BY <1>2, <5>3
            <4> QED
                BY <4>1, <4>2
        <3>6. ASSUME NEW f \in Range(frontends) PROVE f \in Range(new) /\ ~AddDue(f)'
            <4>1. PICK i \in DOMAIN frontends : frontends[i] = f
                BY DEF Range
            <4>0. f \in Frontend
                BY <3>4, <4>1
            <4>2. Current(f.name) = f /\ f # None /\ f.name \in Names
                <5>1. Current(f.name) = f /\ f # None
                    BY <3>4, <4>1, NamedUnique DEF Current
                <5> QED
                    BY <4>0, <5>1 DEF Frontend
            <4>3. Named(new, f.name) = f
                BY <3>3, <4>2 DEF Announced
            <4>4. f \in Range(new)
                BY <1>1, <4>2, <4>3, NamedFirst DEF Range
            <4> QED
                BY <1>1, <3>5, <4>2, <4>4
        <3>7. ASSUME NEW f \in Range(new), ~AddDue(f)' PROVE f \in Range(frontends)
            <4>1. PICK i \in DOMAIN new : new[i] = f
                BY DEF Range
            <4>0. f \in Frontend
                BY <1>1, <4>1
            <4>2. Named(new, f.name) = f /\ f # None /\ f.name \in Names
                <5>1. Named(new, f.name) = f /\ f # None
                    BY <1>1, <4>1, NamedUnique
                <5> QED
                    BY <4>0, <5>1 DEF Frontend
            <4>3. Current(f.name) = f
                BY <3>3, <3>5, <3>7, <4>2 DEF Announced
            <4> QED
                BY <3>4, <4>2, <4>3, NamedFirst DEF Current, Range
        <3>8. Settled' = Range(frontends)
            BY <1>3, <3>6, <3>7 DEF Settled
        <3>9. Agrees(index', Settled')
            BY <1>3, <3>2, <3>8
        <3> QED
            BY <2>2, <2>4, <3>9
    <2> QED
        BY <2>5, <2>6
<1>8. OptionsInv'
    <2> SUFFICES ASSUME NEW n \in Names, options[n] # None, ~options[n].exempt
                 PROVE  \/ options[n].of # None /\ options[n].of = Named(new, n)
                        \/ ClearDue(n)'
        BY <1>3 DEF OptionsInv, Behind, Current
    <2>1. (options[n].of # None /\ options[n].of = Current(n)) \/ ClearDue(n)
        BY DEF IInv, OptionsInv, Behind
    <2>2. CASE ClearDue(n)
        <3>0. PICK d \in Callers : \E i \in DOMAIN todo[d] :
                Clears(todo[d][i]) /\ todo[d][i].frontend.name = n
            BY <2>2 DEF ClearDue
        <3>1. PICK i \in DOMAIN todo[d] : Clears(todo[d][i]) /\ todo[d][i].frontend.name = n
            BY <3>0
        <3>2. d # c /\ todo'[d] = todo[d]
            BY <1>4, <3>1
        <3>3. ClearDue(n)'
            BY <1>3, <3>1, <3>2 DEF ClearDue, Clears
        <3> QED
            BY <2>1, <3>3
    <2>3. CASE options[n].of # None /\ options[n].of = Current(n)
        <3>1. Named(new, n) = Current(n) \/ \E i \in DOMAIN changed : changed[i].name = n
            BY <2>1, <2>3 DEF Announced
        <3>2. ASSUME NEW i \in DOMAIN changed, changed[i].name = n PROVE ClearDue(n)'
            BY <1>2, <1>3, <1>4, <3>2 DEF ClearDue, Clears
        <3> QED
            BY <2>1, <2>3, <3>1, <3>2
    <2> QED
        BY <2>1, <2>2, <2>3
<1> QED
    BY <1>5, <1>6, <1>7, <1>8 DEF IInv

-----------------------------------------------------------------------------
(* The handlers of a change. *)

\* The handler at hand is done: the next change is at hand.
LEMMA TodoPopped ==
    ASSUME TypeOK, NEW c \in Callers, todo[c] # << >>, Done(c)
    PROVE  /\ todo' \in [Callers -> Seq(Event)]
           /\ \A d \in Callers : d # c => todo'[d] = todo[d]
           /\ \A i \in DOMAIN todo'[c] : i + 1 \in DOMAIN todo[c] /\ todo'[c][i] = todo[c][i + 1]
           /\ \A i \in DOMAIN todo[c] :
                 i # 1 => i - 1 \in DOMAIN todo'[c] /\ todo'[c][i - 1] = todo[c][i]
<1> DEFINE t == todo[c]
<1>1. t \in Seq(Event) /\ t # << >>
    BY DEF TypeOK
<1>2. todo'[c] = Tail(t) /\ \A d \in Callers : d # c => todo'[d] = todo[d]
    BY DEF Done, TypeOK
<1>3. Tail(t) \in Seq(Event) /\ Len(Tail(t)) = Len(t) - 1
      /\ \A i \in 1..(Len(t) - 1) : Tail(t)[i] = t[i + 1]
    BY <1>1
<1>4. DOMAIN t = 1..Len(t) /\ Len(t) \in Nat /\ DOMAIN Tail(t) = 1..(Len(t) - 1)
    BY <1>1, <1>3
<1>5. todo' \in [Callers -> Seq(Event)]
    BY <1>2, <1>3 DEF Done, TypeOK
<1> HIDE DEF t
<1>6. \A i \in DOMAIN Tail(t) : i + 1 \in DOMAIN t /\ Tail(t)[i] = t[i + 1]
    BY <1>3, <1>4
<1>7. \A i \in DOMAIN t : i # 1 => i - 1 \in DOMAIN Tail(t) /\ Tail(t)[i - 1] = t[i]
    BY <1>3, <1>4
<1> QED
    BY <1>2, <1>5, <1>6, <1>7 DEF t

\* The change at hand goes to its next handler.
LEMMA TodoAdvanced ==
    ASSUME TypeOK, NEW c \in Callers, todo[c] # << >>,
           NEW do \in {"read", "assign", "clear"}, Then(c, do)
    PROVE  /\ todo' \in [Callers -> Seq(Event)]
           /\ \A d \in Callers : d # c => todo'[d] = todo[d]
           /\ DOMAIN todo'[c] = DOMAIN todo[c] /\ 1 \in DOMAIN todo[c]
           /\ \A i \in DOMAIN todo[c] : i # 1 => todo'[c][i] = todo[c][i]
           /\ todo'[c][1].do = do /\ todo'[c][1].frontend = todo[c][1].frontend
<1>1. todo[c] \in Seq(Event) /\ 1 \in DOMAIN todo[c] /\ todo[c][1] \in Event
    BY DEF TypeOK
<1>2. PICK f \in Frontend, was \in {"add", "read", "assign", "clear"} :
            todo[c][1] = [do |-> was, frontend |-> f]
    BY <1>1 DEF Event
<1> DEFINE e == [do |-> do, frontend |-> f]
<1>3. e \in Event
    BY DEF Event
<1>4. [todo[c][1] EXCEPT !.do = do] = e
    BY <1>2
<1>5. todo' = [todo EXCEPT ![c] = [todo[c] EXCEPT ![1] = e]]
    BY <1>4 DEF Then
<1>6. [todo[c] EXCEPT ![1] = e] \in Seq(Event)
    BY <1>1, <1>3
<1>7. todo' \in [Callers -> Seq(Event)] /\ todo'[c] = [todo[c] EXCEPT ![1] = e]
      /\ \A d \in Callers : d # c => todo'[d] = todo[d]
    BY <1>5, <1>6 DEF TypeOK
<1>8. e.do = do /\ e.frontend = f /\ todo[c][1].frontend = f
    BY <1>2
<1> HIDE DEF e
<1> QED
    BY <1>1, <1>7, <1>8

\* A change that moves on or ends keeps the order of what is left: additions
\* first, and "assign" only at hand.
LEMMA PoppedInOrder ==
    ASSUME TypeOK, TodoInv, NEW c \in Callers, todo[c] # << >>, Done(c)
    PROVE  TodoInv'
<1>0. /\ \A d \in Callers : d # c => todo'[d] = todo[d]
      /\ \A i \in DOMAIN todo'[c] : i + 1 \in DOMAIN todo[c] /\ todo'[c][i] = todo[c][i + 1]
      /\ todo' \in [Callers -> Seq(Event)]
    BY TodoPopped
<1> SUFFICES ASSUME NEW d \in Callers, NEW i \in DOMAIN todo'[d]
             PROVE  /\ todo'[d][i].do = "assign" => i = 1
                    /\ todo'[d][i].do = "add" =>
                          \A j \in 1..(i - 1) :
                              /\ todo'[d][j].do = "add"
                              /\ todo'[d][j].frontend.name # todo'[d][i].frontend.name
    BY DEF TodoInv
<1>1. CASE d # c
    BY <1>0, <1>1 DEF TodoInv
<1>2. CASE d = c
    <2>1. i \in Nat /\ i > 0 /\ \A j \in 1..(i - 1) : j \in DOMAIN todo'[c]
        BY <1>0, <1>2
    <2>2. PICK k \in DOMAIN todo[c] : k = i + 1 /\ todo'[c][i] = todo[c][k]
        BY <1>0, <1>2
    <2>3. \A j \in 1..(i - 1) : j + 1 \in 1..(k - 1) /\ todo'[c][j] = todo[c][j + 1]
        <3> SUFFICES ASSUME NEW j \in 1..(i - 1)
                     PROVE  j + 1 \in 1..(k - 1) /\ todo'[c][j] = todo[c][j + 1]
            OBVIOUS
        <3>1. todo'[c][j] = todo[c][j + 1]
            BY <1>0, <2>1
        <3>2. j + 1 \in 1..(k - 1)
            BY <2>1, <2>2
        <3> QED
            BY <3>1, <3>2
    <2>4. todo[c][k].do # "assign"
        BY <2>1, <2>2 DEF TodoInv
    <2>5. todo[c][k].do = "add" =>
            \A j \in 1..(k - 1) :
                todo[c][j].do = "add" /\ todo[c][j].frontend.name # todo[c][k].frontend.name
        BY DEF TodoInv
    <2> QED
        BY <1>2, <2>2, <2>3, <2>4, <2>5
<1> QED
    BY <1>1, <1>2

\* Going on to the next handler of a change keeps the order too.
LEMMA AdvancedInOrder ==
    ASSUME TypeOK, TodoInv, NEW c \in Callers, todo[c] # << >>, todo[c][1].do # "add",
           NEW do \in {"read", "assign", "clear"}, Then(c, do)
    PROVE  TodoInv'
<1>0. /\ \A d \in Callers : d # c => todo'[d] = todo[d]
      /\ DOMAIN todo'[c] = DOMAIN todo[c] /\ 1 \in DOMAIN todo[c]
      /\ \A i \in DOMAIN todo[c] : i # 1 => todo'[c][i] = todo[c][i]
      /\ todo'[c][1].do = do
      /\ todo' \in [Callers -> Seq(Event)]
    BY TodoAdvanced
<1> SUFFICES ASSUME NEW d \in Callers, NEW i \in DOMAIN todo'[d]
             PROVE  /\ todo'[d][i].do = "assign" => i = 1
                    /\ todo'[d][i].do = "add" =>
                          \A j \in 1..(i - 1) :
                              /\ todo'[d][j].do = "add"
                              /\ todo'[d][j].frontend.name # todo'[d][i].frontend.name
    BY DEF TodoInv
<1>1. CASE d # c
    BY <1>0, <1>1 DEF TodoInv
<1>2. CASE d = c /\ i = 1
    BY <1>0, <1>2
<1>3. CASE d = c /\ i # 1
    <2>1. i \in DOMAIN todo[c] /\ todo'[c][i] = todo[c][i] /\ 1 \in 1..(i - 1)
        BY <1>0, <1>3
    <2>2. todo[c][i].do # "assign" /\ todo[c][i].do # "add"
        BY <1>3, <2>1 DEF TodoInv
    <2> QED
        BY <1>3, <2>1, <2>2
<1> QED
    BY <1>1, <1>2, <1>3

\* No addition follows a change.
LEMMA NoAddAfter ==
    ASSUME TypeOK, TodoInv, NEW c \in Callers, todo[c] # << >>, todo[c][1].do # "add",
           NEW i \in DOMAIN todo[c]
    PROVE  todo[c][i].do # "add"
<1>1. i \in Nat /\ i >= 1
    BY DEF TypeOK
<1>2. CASE i = 1
    BY <1>2
<1>3. CASE i # 1
    <2>1. 1 \in 1..(i - 1)
        BY <1>1, <1>3
    <2> QED
        BY <2>1 DEF TodoInv
<1> QED
    BY <1>2, <1>3

\* A handler of a change leaves the additions that are due alone.
LEMMA AdditionsLeft ==
    ASSUME TypeOK, TodoInv, NEW c \in Callers, todo[c] # << >>, todo[c][1].do # "add",
           frontends' = frontends,
           Done(c) \/ \E do \in {"read", "assign", "clear"} : Then(c, do)
    PROVE  /\ todo' \in [Callers -> Seq(Event)] /\ TodoInv'
           /\ \A d \in Callers : todo'[d] # << >> => todo[d] # << >>
           /\ \A d \in Callers : d # c => todo'[d] = todo[d]
           /\ \A i \in DOMAIN todo'[c] : todo'[c][i].do # "add"
           /\ \A i \in DOMAIN todo'[c] : i # 1 => todo'[c][i].do # "assign"
           /\ Settled' = Settled
<1>1. /\ todo' \in [Callers -> Seq(Event)] /\ TodoInv'
      /\ \A d \in Callers : d # c => todo'[d] = todo[d]
    BY TodoPopped, TodoAdvanced, PoppedInOrder, AdvancedInOrder
<1>2. ASSUME NEW i \in DOMAIN todo'[c] PROVE todo'[c][i].do # "add"
    <2>1. CASE Done(c)
        <3>1. i + 1 \in DOMAIN todo[c] /\ todo'[c][i] = todo[c][i + 1]
            BY <2>1, TodoPopped
        <3> QED
            BY <3>1, NoAddAfter
    <2>2. ASSUME NEW do \in {"read", "assign", "clear"}, Then(c, do)
          PROVE  todo'[c][i].do # "add"
        <3>1. /\ i \in DOMAIN todo[c] /\ (i # 1 => todo'[c][i] = todo[c][i])
              /\ todo'[c][1].do = do
            BY <2>2, TodoAdvanced
        <3> QED
            BY <3>1, NoAddAfter
    <2> QED
        BY <2>1, <2>2
<1>3. \A i \in DOMAIN todo'[c] : i # 1 => todo'[c][i].do # "assign"
    BY <1>1 DEF TodoInv
<1>4. \A i \in DOMAIN todo[c] : todo[c][i].do # "add"
    BY NoAddAfter
<1>5. ASSUME NEW f PROVE AddDue(f)' <=> AddDue(f)
    <2>1. ASSUME AddDue(f) PROVE AddDue(f)'
        <3>1. PICK d \in Callers : \E i \in DOMAIN todo[d] :
                    todo[d][i].do = "add" /\ todo[d][i].frontend = f
            BY <2>1 DEF AddDue
        <3>2. todo'[d] = todo[d]
            BY <1>1, <1>4, <3>1
        <3> QED
            BY <3>1, <3>2 DEF AddDue
    <2>2. ASSUME AddDue(f)' PROVE AddDue(f)
        <3>1. PICK d \in Callers : \E i \in DOMAIN todo'[d] :
                    todo'[d][i].do = "add" /\ todo'[d][i].frontend = f
            BY <2>2 DEF AddDue
        <3>2. todo'[d] = todo[d]
            BY <1>1, <1>2, <3>1
        <3> QED
            BY <3>1, <3>2 DEF AddDue
    <2> QED
        BY <2>1, <2>2
<1>6. Settled' = Settled
    BY <1>5 DEF Settled
<1> QED
    BY <1>1, <1>2, <1>3, <1>6

\* The index to come is of the collection as it is read.
LEMMA ReadKept ==
    ASSUME IInv, NEW c \in Callers, ReadFrontends(c)
    PROVE  IInv'
<1>0. TypeOK /\ TodoInv /\ todo[c] # << >> /\ todo[c] \in Seq(Event) /\ todo[c][1].do = "read"
    BY DEF IInv, TypeOK, ReadFrontends, Due
<1>1. /\ frontends' = frontends /\ order' = order /\ index' = index /\ options' = options
      /\ page' = page /\ queue' = queue /\ request' = request /\ overlapped' = overlapped
      /\ changes' = changes /\ Then(c, "assign")
      /\ snapshot' = [snapshot EXCEPT ![c] = frontends]
    BY DEF ReadFrontends, collection, caches
<1>2. /\ todo' \in [Callers -> Seq(Event)] /\ TodoInv' /\ Settled' = Settled
      /\ \A d \in Callers : todo'[d] # << >> => todo[d] # << >>
      /\ \A d \in Callers : d # c => todo'[d] = todo[d]
      /\ \A i \in DOMAIN todo'[c] : todo'[c][i].do # "add"
      /\ \A i \in DOMAIN todo'[c] : i # 1 => todo'[c][i].do # "assign"
    BY <1>0, <1>1, AdditionsLeft
<1>3. /\ DOMAIN todo'[c] = DOMAIN todo[c] /\ 1 \in DOMAIN todo[c]
      /\ \A i \in DOMAIN todo[c] : i # 1 => todo'[c][i] = todo[c][i]
      /\ todo'[c][1].do = "assign" /\ todo'[c][1].frontend = todo[c][1].frontend
    BY <1>0, <1>1, TodoAdvanced
<1>4. TypeOK'
    <2>1. snapshot' \in [Callers -> Seq(Frontend)]
        BY <1>1 DEF IInv, TypeOK
    <2> QED
        BY <1>1, <1>2, <2>1 DEF IInv, TypeOK
<1>5. IndexInv'
    <2> SUFFICES ASSUME ~overlapped
                 PROVE  /\ \A d, e \in Callers : todo'[d] # << >> /\ todo'[e] # << >> => d = e
                        /\ \A d \in Callers : \A i \in DOMAIN todo'[d] :
                              /\ todo'[d][i].do = "add" => todo'[d][i].frontend \in Range(frontends)
                              /\ todo'[d][i].do = "assign" => snapshot'[d] = frontends
                        /\ RebuildDue' \/ Agrees(index', Settled')
        BY <1>1 DEF IndexInv, Agrees
    <2>1. RebuildDue'
        BY <1>1, <1>3 DEF RebuildDue, Rebuilds
    <2>2. \A d, e \in Callers : todo'[d] # << >> /\ todo'[e] # << >> => d = e
        BY <1>2 DEF IInv, IndexInv
    <2>3. ASSUME NEW d \in Callers, NEW i \in DOMAIN todo'[d]
          PROVE  /\ todo'[d][i].do = "add" => todo'[d][i].frontend \in Range(frontends)
                 /\ todo'[d][i].do = "assign" => snapshot'[d] = frontends
        <3>1. CASE d = c
            <4>1. snapshot'[c] = frontends
                BY <1>1 DEF IInv, TypeOK
            <4> QED
                BY <1>2, <3>1, <4>1
        <3>2. CASE d # c
            <4>1. snapshot'[d] = snapshot[d] /\ todo'[d] = todo[d]
                BY <1>1, <1>2, <3>2 DEF IInv, TypeOK
            <4> QED
                BY <4>1 DEF IInv, IndexInv
        <3> QED
            BY <3>1, <3>2
    <2> QED
        BY <2>1, <2>2, <2>3
<1>6. ASSUME NEW n, ClearDue(n) PROVE ClearDue(n)'
    <2>1. PICK d \in Callers : \E i \in DOMAIN todo[d] :
                Clears(todo[d][i]) /\ todo[d][i].frontend.name = n
        BY <1>6 DEF ClearDue
    <2>2. PICK i \in DOMAIN todo[d] : Clears(todo[d][i]) /\ todo[d][i].frontend.name = n
        BY <2>1
    <2>3. i \in DOMAIN todo'[d] /\ Clears(todo'[d][i]) /\ todo'[d][i].frontend.name = n
        <3>1. CASE d # c \/ i # 1
            BY <1>2, <1>3, <2>2, <3>1
        <3>2. CASE d = c /\ i = 1
            BY <1>0, <1>3, <2>2, <3>2 DEF Clears
        <3> QED
            BY <3>1, <3>2
    <2> QED
        BY <1>1, <2>3 DEF ClearDue, Clears
<1>7. OptionsInv'
    BY <1>1, <1>6 DEF IInv, OptionsInv, Behind, Current
<1> QED
    BY <1>2, <1>4, <1>5, <1>7 DEF IInv

\* A new index agrees with the collection, unless changes overlap.
LEMMA AssignKept ==
    ASSUME IInv, NEW c \in Callers, AssignIndex(c)
    PROVE  IInv'
<1>0. TypeOK /\ TodoInv /\ todo[c] # << >> /\ todo[c] \in Seq(Event) /\ todo[c][1].do = "assign"
    BY DEF IInv, TypeOK, AssignIndex, Due
<1>1. /\ frontends' = frontends /\ order' = order /\ options' = options
      /\ page' = page /\ queue' = queue /\ request' = request /\ overlapped' = overlapped
      /\ changes' = changes /\ index' = Index(snapshot[c])
      /\ IF order = "index" THEN Then(c, "clear") ELSE Done(c)
      /\ snapshot' = [snapshot EXCEPT ![c] = << >>]
    BY DEF AssignIndex, collection, caches
<1>2. /\ todo' \in [Callers -> Seq(Event)] /\ TodoInv' /\ Settled' = Settled
      /\ \A d \in Callers : todo'[d] # << >> => todo[d] # << >>
      /\ \A d \in Callers : d # c => todo'[d] = todo[d]
      /\ \A i \in DOMAIN todo'[c] : todo'[c][i].do # "add"
      /\ \A i \in DOMAIN todo'[c] : i # 1 => todo'[c][i].do # "assign"
    BY <1>0, <1>1, AdditionsLeft
<1>3. TypeOK'
    <2>1. snapshot' \in [Callers -> Seq(Frontend)]
        BY <1>1 DEF IInv, TypeOK
    <2>2. snapshot[c] \in Seq(Frontend)
        BY DEF IInv, TypeOK
    <2>3. index' \in [byName : [Names -> Frontend \union {None}],
                      byCriteria : [Criteria -> Frontend \union {None}]]
        BY <1>1, <2>2, IndexType
    <2> QED
        BY <1>1, <1>2, <2>1, <2>3 DEF IInv, TypeOK
<1>4. IndexInv'
    <2> SUFFICES ASSUME ~overlapped
                 PROVE  /\ \A d, e \in Callers : todo'[d] # << >> /\ todo'[e] # << >> => d = e
                        /\ \A d \in Callers : \A i \in DOMAIN todo'[d] :
                              /\ todo'[d][i].do = "add" => todo'[d][i].frontend \in Range(frontends)
                              /\ todo'[d][i].do = "assign" => snapshot'[d] = frontends
                        /\ RebuildDue' \/ Agrees(index', Settled')
        BY <1>1 DEF IndexInv, Agrees
    <2>0. 1 \in DOMAIN todo[c]
        BY <1>0
    <2>1. snapshot[c] = frontends /\ \A d \in Callers : d # c => todo[d] = << >>
        BY <1>0, <2>0 DEF IInv, IndexInv
    <2>2. Settled = Range(frontends)
        <3>1. \A i \in DOMAIN todo[c] : todo[c][i].do # "add"
            BY <1>0, NoAddAfter
        <3> QED
            BY <2>1, <3>1 DEF Settled, AddDue
    <2>3. Agrees(index', Settled')
        <3>1. Agrees(Index(frontends), Range(frontends))
            BY IndexAgrees DEF IInv, TypeOK
        <3> QED
            BY <1>1, <1>2, <2>1, <2>2, <3>1
    <2>4. \A i \in DOMAIN todo'[c] : todo'[c][i].do # "assign"
        <3>1. CASE order = "index"
            BY <1>0, <1>1, <1>2, <3>1, TodoAdvanced
        <3>2. CASE order # "index"
            <4>1. \A i \in DOMAIN todo'[c] :
                    i + 1 \in DOMAIN todo[c] /\ todo'[c][i] = todo[c][i + 1]
                BY <1>0, <1>1, <3>2, TodoPopped
            <4>2. \A i \in DOMAIN todo'[c] : i + 1 # 1
                BY <1>2
            <4> QED
                BY <1>0, <4>1, <4>2 DEF TodoInv
        <3> QED
            BY <3>1, <3>2
    <2>5. \A d \in Callers : \A i \in DOMAIN todo'[d] :
                              /\ todo'[d][i].do = "add" => todo'[d][i].frontend \in Range(frontends)
                              /\ todo'[d][i].do = "assign" => snapshot'[d] = frontends
        BY <1>2, <2>1, <2>4
    <2>6. \A d, e \in Callers : todo'[d] # << >> /\ todo'[e] # << >> => d = e
        BY <1>2, <2>1
    <2> QED
        BY <2>3, <2>5, <2>6
<1>5. ASSUME NEW n, ClearDue(n) PROVE ClearDue(n)'
    <2>1. PICK d \in Callers : \E i \in DOMAIN todo[d] :
                Clears(todo[d][i]) /\ todo[d][i].frontend.name = n
        BY <1>5 DEF ClearDue
    <2>2. PICK i \in DOMAIN todo[d] : Clears(todo[d][i]) /\ todo[d][i].frontend.name = n
        BY <2>1
    <2>3. CASE d # c
        BY <1>1, <1>2, <2>2, <2>3 DEF ClearDue, Clears
    <2>4. CASE d = c /\ order = "index"
        <3>1. /\ DOMAIN todo'[c] = DOMAIN todo[c] /\ 1 \in DOMAIN todo[c]
              /\ \A j \in DOMAIN todo[c] : j # 1 => todo'[c][j] = todo[c][j]
              /\ todo'[c][1].do = "clear" /\ todo'[c][1].frontend = todo[c][1].frontend
            BY <1>0, <1>1, <2>4, TodoAdvanced
        <3>2. i \in DOMAIN todo'[c] /\ Clears(todo'[c][i]) /\ todo'[c][i].frontend.name = n
            BY <2>2, <2>4, <3>1 DEF Clears
        <3> QED
            BY <1>1, <3>2 DEF ClearDue, Clears
    <2>5. CASE d = c /\ order # "index"
        <3>1. i # 1
            BY <1>0, <2>2, <2>5 DEF Clears
        <3>2. i - 1 \in DOMAIN todo'[c] /\ todo'[c][i - 1] = todo[c][i]
            BY <1>0, <1>1, <2>2, <2>5, <3>1, TodoPopped
        <3> QED
            BY <1>1, <2>2, <2>5, <3>2 DEF ClearDue, Clears
    <2> QED
        BY <2>3, <2>4, <2>5
<1>6. OptionsInv'
    BY <1>1, <1>5 DEF IInv, OptionsInv, Behind, Current
<1> QED
    BY <1>2, <1>3, <1>4, <1>6 DEF IInv

\* Entries that will not be cleared are exempt, and nothing else changes.
LEMMA MissedExempts ==
    ASSUME NEW entries \in [Names -> Entry \union {None}], NEW N, NEW n \in Names
    PROVE  /\ Missed(entries, N)[n] \in Entry \union {None}
           /\ Missed(entries, N)[n] # None /\ ~Missed(entries, N)[n].exempt =>
                 /\ Missed(entries, N)[n] = entries[n]
                 /\ n \notin N \/ ~Behind(entries[n].of, n)
<1>1. CASE n \in N /\ entries[n] # None /\ Behind(entries[n].of, n)
    <2>1. entries[n] \in Entry
        BY <1>1
    <2>2. Missed(entries, N)[n] = [entries[n] EXCEPT !.exempt = TRUE]
        BY <1>1 DEF Missed
    <2>3. ASSUME NEW e \in Entry
          PROVE  [e EXCEPT !.exempt = TRUE] \in Entry /\ [e EXCEPT !.exempt = TRUE].exempt
        BY DEF Entry
    <2> QED
        BY <2>1, <2>2, <2>3
<1>2. CASE ~(n \in N /\ entries[n] # None /\ Behind(entries[n].of, n))
    BY <1>2 DEF Missed
<1> QED
    BY <1>1, <1>2

LEMMA MissedType ==
    ASSUME NEW entries \in [Names -> Entry \union {None}], NEW N
    PROVE  Missed(entries, N) \in [Names -> Entry \union {None}]
<1>1. \A n \in Names : Missed(entries, N)[n] \in Entry \union {None}
    BY MissedExempts
<1>2. Missed(entries, N) = [n \in Names |-> Missed(entries, N)[n]]
    BY DEF Missed
<1> QED
    BY <1>1, <1>2

LEMMA HoldingType ==
    ASSUME TypeOK, NEW N
    PROVE  Holding(N) \in [Requests -> [frontend : Frontend, exempt : BOOLEAN] \union {None}]
<1> DEFINE Held == [frontend : Frontend, exempt : BOOLEAN]
<1>1. ASSUME NEW r \in Requests PROVE Holding(N)[r] \in Held \union {None}
    <2>1. CASE /\ request[r] # None /\ request[r].frontend.name \in N
               /\ Behind(request[r].frontend, request[r].frontend.name)
        <3>1. request[r] \in Held
            BY <2>1 DEF TypeOK
        <3>2. Holding(N)[r] = [request[r] EXCEPT !.exempt = TRUE]
            BY <2>1 DEF Holding
        <3>3. ASSUME NEW e \in Held PROVE [e EXCEPT !.exempt = TRUE] \in Held
            OBVIOUS
        <3> QED
            BY <3>1, <3>2, <3>3
    <2>2. CASE ~(/\ request[r] # None /\ request[r].frontend.name \in N
                 /\ Behind(request[r].frontend, request[r].frontend.name))
        BY <2>2 DEF Holding, TypeOK
    <2> QED
        BY <2>1, <2>2
<1>2. Holding(N) = [r \in Requests |-> Holding(N)[r]]
    BY DEF Holding
<1> HIDE DEF Held
<1>3. Holding(N) \in [Requests -> Held \union {None}]
    BY <1>1, <1>2
<1> QED
    BY <1>3 DEF Held

\* Options that no thread will clear any more are gone or current.
LEMMA ClearKept ==
    ASSUME IInv, NEW c \in Callers, ClearOptions(c)
    PROVE  IInv'
<1>0. TypeOK /\ TodoInv /\ todo[c] # << >> /\ todo[c] \in Seq(Event) /\ todo[c][1].do = "clear"
      /\ 1 \in DOMAIN todo[c] /\ todo[c][1] \in Event
    BY DEF IInv, TypeOK, ClearOptions, Due
<1> DEFINE n == todo[c][1].frontend.name
<1>1. /\ frontends' = frontends /\ order' = order /\ index' = index /\ page' = page
      /\ request' = request /\ overlapped' = overlapped /\ changes' = changes
      /\ snapshot' = snapshot
      /\ IF order = "index" THEN Done(c) ELSE Then(c, "read")
      /\ options' = [options EXCEPT ![n] = None]
      /\ queue' = Append(queue, n)
    BY <1>0 DEF ClearOptions, Cleared, collection
<1>2. /\ todo' \in [Callers -> Seq(Event)] /\ TodoInv' /\ Settled' = Settled
      /\ \A d \in Callers : todo'[d] # << >> => todo[d] # << >>
      /\ \A d \in Callers : d # c => todo'[d] = todo[d]
      /\ \A i \in DOMAIN todo'[c] : todo'[c][i].do # "add"
      /\ \A i \in DOMAIN todo'[c] : i # 1 => todo'[c][i].do # "assign"
    BY <1>0, <1>1, AdditionsLeft
<1>3. n \in Names
    BY <1>0 DEF Event, Frontend
<1> HIDE DEF n
<1>4. TypeOK'
    <2>1. options' \in [Names -> Entry \union {None}] /\ queue' \in Seq(Names)
        BY <1>1, <1>3 DEF IInv, TypeOK
    <2> QED
        BY <1>1, <1>2, <2>1 DEF IInv, TypeOK
<1>5. \A i \in DOMAIN todo[c] : i # 1 =>
        \E j \in DOMAIN todo'[c] : todo'[c][j] = todo[c][i]
    <2>1. CASE order = "index"
        BY <1>0, <1>1, <2>1, TodoPopped
    <2>2. CASE order # "index"
        BY <1>0, <1>1, <2>2, TodoAdvanced
    <2> QED
        BY <2>1, <2>2
<1>6. \A i \in DOMAIN todo'[c] : todo'[c][i].do # "assign"
    <2>1. CASE order = "index"
        <3>1. \A i \in DOMAIN todo'[c] : i + 1 \in DOMAIN todo[c] /\ todo'[c][i] = todo[c][i + 1]
            BY <1>0, <1>1, <2>1, TodoPopped
        <3>2. \A i \in DOMAIN todo'[c] : i + 1 # 1
            BY <1>2
        <3> QED
            BY <1>0, <3>1, <3>2 DEF TodoInv
    <2>2. CASE order # "index"
        BY <1>0, <1>1, <1>2, <2>2, TodoAdvanced
    <2> QED
        BY <2>1, <2>2
<1>7. RebuildDue => RebuildDue'
    <2> SUFFICES ASSUME RebuildDue PROVE RebuildDue'
        OBVIOUS
    <2>1. PICK d \in Callers : \E i \in DOMAIN todo[d] : Rebuilds(todo[d][i])
        BY DEF RebuildDue
    <2>2. PICK i \in DOMAIN todo[d] : Rebuilds(todo[d][i])
        BY <2>1
    <2>3. CASE d # c
        BY <1>1, <1>2, <2>2, <2>3 DEF RebuildDue, Rebuilds
    <2>4. CASE d = c /\ i # 1
        <3>1. PICK j \in DOMAIN todo'[c] : todo'[c][j] = todo[c][i]
            BY <1>5, <2>2, <2>4
        <3>2. Rebuilds(todo'[c][j])
            BY <2>2, <2>4, <3>1
        <3> QED
            BY <1>1, <3>2 DEF RebuildDue, Rebuilds
    <2>5. CASE d = c /\ i = 1
        <3>1. order # "index"
            BY <1>0, <2>2, <2>5 DEF Rebuilds
        <3>2. 1 \in DOMAIN todo'[c] /\ todo'[c][1].do = "read"
            BY <1>0, <1>1, <3>1, TodoAdvanced
        <3> QED
            BY <3>2 DEF RebuildDue, Rebuilds
    <2> QED
        BY <2>3, <2>4, <2>5
<1>8. IndexInv'
    <2> SUFFICES ASSUME ~overlapped
                 PROVE  /\ \A d, e \in Callers : todo'[d] # << >> /\ todo'[e] # << >> => d = e
                        /\ \A d \in Callers : \A i \in DOMAIN todo'[d] :
                              /\ todo'[d][i].do = "add" => todo'[d][i].frontend \in Range(frontends)
                              /\ todo'[d][i].do = "assign" => snapshot'[d] = frontends
                        /\ RebuildDue' \/ Agrees(index', Settled')
        BY <1>1 DEF IndexInv, Agrees
    <2>1. \A d, e \in Callers : todo'[d] # << >> /\ todo'[e] # << >> => d = e
        BY <1>2 DEF IInv, IndexInv
    <2>2. \A d \in Callers : \A i \in DOMAIN todo'[d] :
              /\ todo'[d][i].do = "add" => todo'[d][i].frontend \in Range(frontends)
              /\ todo'[d][i].do = "assign" => snapshot'[d] = frontends
        BY <1>1, <1>2, <1>6 DEF IInv, IndexInv
    <2>3. RebuildDue' \/ Agrees(index', Settled')
        BY <1>1, <1>2, <1>7 DEF IInv, IndexInv
    <2> QED
        BY <2>1, <2>2, <2>3
<1>9. ASSUME NEW m, m # n, ClearDue(m) PROVE ClearDue(m)'
    <2>1. PICK d \in Callers : \E i \in DOMAIN todo[d] :
                Clears(todo[d][i]) /\ todo[d][i].frontend.name = m
        BY <1>9 DEF ClearDue
    <2>2. PICK i \in DOMAIN todo[d] : Clears(todo[d][i]) /\ todo[d][i].frontend.name = m
        BY <2>1
    <2>3. CASE d # c
        BY <1>1, <1>2, <2>2, <2>3 DEF ClearDue, Clears
    <2>4. CASE d = c
        <3>1. i # 1
            BY <1>9, <2>2, <2>4 DEF n
        <3>2. PICK j \in DOMAIN todo'[c] : todo'[c][j] = todo[c][i]
            BY <1>5, <2>2, <2>4, <3>1
        <3>3. Clears(todo'[c][j]) /\ todo'[c][j].frontend.name = m
            BY <2>2, <2>4, <3>2
        <3> QED
            BY <1>1, <3>3 DEF ClearDue, Clears
    <2> QED
        BY <2>3, <2>4
<1>10. OptionsInv'
    <2> SUFFICES ASSUME NEW m \in Names, options'[m] # None, ~options'[m].exempt
                 PROVE  ~Behind(options'[m].of, m) \/ ClearDue(m)'
        BY <1>1 DEF OptionsInv, Behind, Current
    <2>1. m # n /\ options'[m] = options[m]
        BY <1>1, <1>3 DEF IInv, TypeOK
    <2> QED
        BY <1>9, <2>1 DEF IInv, OptionsInv
<1> QED
    BY <1>2, <1>4, <1>8, <1>10 DEF IInv

\* An addition that is not handled leaves the others of its thread unhandled:
\* an overlap, until a change runs alone.
LEMMA ThrowKept ==
    ASSUME IInv, NEW c \in Callers, todo[c] # << >>, todo[c][1].do = "add", Throw(c)
    PROVE  IInv'
<1> DEFINE N == {todo[c][i].frontend.name : i \in 2..Len(todo[c])}
<1>1. /\ todo' = [todo EXCEPT ![c] = << >>]
      /\ options' = Missed(options, N) /\ page' = Missed(page, N) /\ request' = Holding(N)
      /\ overlapped' = TRUE /\ frontends' = frontends /\ changes' = changes /\ order' = order
      /\ snapshot' = snapshot /\ index' = index /\ queue' = queue
    BY DEF Throw, collection
<1>2. /\ todo' \in [Callers -> Seq(Event)] /\ todo'[c] = << >>
      /\ \A d \in Callers : d # c => todo'[d] = todo[d]
    BY <1>1 DEF IInv, TypeOK
<1>3. \A i \in DOMAIN todo[c] : i # 1 => todo[c][i].frontend.name \in N
    <2>1. DOMAIN todo[c] = 1..Len(todo[c]) /\ Len(todo[c]) \in Nat
        BY DEF IInv, TypeOK
    <2> QED
        BY <2>1
<1> HIDE DEF N
<1>4. TypeOK'
    <2>1. /\ options' \in [Names -> Entry \union {None}] /\ page' \in [Names -> Entry \union {None}]
          /\ request' \in [Requests -> [frontend : Frontend, exempt : BOOLEAN] \union {None}]
        BY <1>1, MissedType, HoldingType DEF IInv, TypeOK
    <2> QED
        BY <1>1, <1>2, <2>1 DEF IInv, TypeOK
<1>5. TodoInv'
    BY <1>2 DEF IInv, TodoInv
<1>6. IndexInv'
    BY <1>1 DEF IndexInv
<1>7. OptionsInv'
    <2> SUFFICES ASSUME NEW n \in Names, options'[n] # None, ~options'[n].exempt
                 PROVE  ~Behind(options'[n].of, n) \/ ClearDue(n)'
        BY <1>1 DEF OptionsInv, Behind, Current
    <2>1. options'[n] = options[n] /\ (n \notin N \/ ~Behind(options[n].of, n))
        <3>1. options \in [Names -> Entry \union {None}]
            BY DEF IInv, TypeOK
        <3> QED
            BY <1>1, <3>1, MissedExempts
    <2>2. ~Behind(options[n].of, n) \/ ClearDue(n)
        BY <2>1 DEF IInv, OptionsInv
    <2>3. ASSUME ClearDue(n), n \notin N PROVE ClearDue(n)'
        <3>1. PICK d \in Callers : \E i \in DOMAIN todo[d] :
                    Clears(todo[d][i]) /\ todo[d][i].frontend.name = n
            BY <2>3 DEF ClearDue
        <3>2. PICK i \in DOMAIN todo[d] : Clears(todo[d][i]) /\ todo[d][i].frontend.name = n
            BY <3>1
        <3>3. d # c
            BY <1>3, <2>3, <3>2 DEF Clears
        <3> QED
            BY <1>1, <1>2, <3>2, <3>3 DEF ClearDue, Clears
    <2> QED
        BY <2>1, <2>2, <2>3
<1> QED
    BY <1>4, <1>5, <1>6, <1>7 DEF IInv

LEMMA AddedType ==
    ASSUME index \in [byName : [Names -> Frontend \union {None}],
                     byCriteria : [Criteria -> Frontend \union {None}]],
           NEW f \in Frontend
    PROVE  AddToIndex(f) \in [byName : [Names -> Frontend \union {None}],
                             byCriteria : [Criteria -> Frontend \union {None}]]
BY DEF AddToIndex

\* An addition in place keeps the index true to what has been added.
LEMMA AddedAgrees ==
    ASSUME index \in [byName : [Names -> Frontend \union {None}],
                     byCriteria : [Criteria -> Frontend \union {None}]],
           NEW f \in Frontend, f.name \in Names, f.criteria \in Criteria, f # None,
           index.byName[f.name] = None, NEW F, Agrees(index, F)
    PROVE  Agrees(AddToIndex(f), F \union {f})
<1>1. /\ AddToIndex(f).byName = [index.byName EXCEPT ![f.name] = f]
      /\ AddToIndex(f).byCriteria =
            [index.byCriteria EXCEPT ![f.criteria] = IF @ = None THEN f ELSE @]
    BY DEF AddToIndex
<1>2. /\ index.byName \in [Names -> Frontend \union {None}]
      /\ index.byCriteria \in [Criteria -> Frontend \union {None}]
    OBVIOUS
<1>3. /\ AddToIndex(f).byName[f.name] = f
      /\ \A n \in Names : n # f.name => AddToIndex(f).byName[n] = index.byName[n]
    BY <1>1, <1>2
<1>4. /\ AddToIndex(f).byCriteria[f.criteria] =
            IF index.byCriteria[f.criteria] = None THEN f ELSE index.byCriteria[f.criteria]
      /\ \A m \in Criteria : m # f.criteria => AddToIndex(f).byCriteria[m] = index.byCriteria[m]
    BY <1>1, <1>2
<1> QED
    BY <1>3, <1>4 DEF Agrees

\* An addition to the index, lost or not, or one that throws.
LEMMA AddKept ==
    ASSUME IInv, NEW c \in Callers, AddFrontend(c)
    PROVE  IInv'
<1> DEFINE f == todo[c][1].frontend
<1>0. TypeOK /\ TodoInv /\ todo[c] # << >> /\ todo[c] \in Seq(Event) /\ todo[c][1].do = "add"
      /\ 1 \in DOMAIN todo[c] /\ todo[c][1] \in Event /\ Head(todo[c]) = todo[c][1]
    BY DEF IInv, TypeOK, AddFrontend, Due
<1>1. CASE index.byName[f.name] # None
    <2>1. Throw(c)
        BY <1>0, <1>1 DEF AddFrontend
    <2> QED
        BY <1>0, <2>1, ThrowKept
<1>2. CASE index.byName[f.name] = None
    <2>1. /\ Done(c)
          /\ index' = AddToIndex(f) \/ (index' = index /\ \E d \in Callers \ {c} : Due(d, "add"))
          /\ frontends' = frontends /\ changes' = changes /\ order' = order
          /\ snapshot' = snapshot /\ options' = options /\ page' = page /\ queue' = queue
          /\ request' = request /\ overlapped' = overlapped
        BY <1>0, <1>2 DEF AddFrontend, collection, caches
    <2>2. f \in Frontend
        BY <1>0 DEF Event
    <2>3. f.name \in Names /\ f.criteria \in Criteria /\ f # None
        BY <2>2, NoneAssumption DEF Frontend
    <2>4. /\ todo' \in [Callers -> Seq(Event)]
          /\ \A d \in Callers : d # c => todo'[d] = todo[d]
          /\ \A i \in DOMAIN todo'[c] : i + 1 \in DOMAIN todo[c] /\ todo'[c][i] = todo[c][i + 1]
          /\ \A i \in DOMAIN todo[c] :
                i # 1 => i - 1 \in DOMAIN todo'[c] /\ todo'[c][i - 1] = todo[c][i]
        BY <1>0, <2>1, TodoPopped
    <2>5. TodoInv'
        BY <1>0, <2>1, PoppedInOrder
    <2> HIDE DEF f
    <2>6. TypeOK'
        <3>1. AddToIndex(f) \in [byName : [Names -> Frontend \union {None}],
                                 byCriteria : [Criteria -> Frontend \union {None}]]
            BY <2>2, <2>3, AddedType DEF IInv, TypeOK
        <3>2. index' \in [byName : [Names -> Frontend \union {None}],
                          byCriteria : [Criteria -> Frontend \union {None}]]
            BY <2>1, <3>1 DEF IInv, TypeOK
        <3> QED
            BY <2>1, <2>4, <3>2 DEF IInv, TypeOK
    <2>7. IndexInv'
        <3> SUFFICES ASSUME ~overlapped
                     PROVE  /\ \A d, e \in Callers : todo'[d] # << >> /\ todo'[e] # << >> => d = e
                            /\ \A d \in Callers : \A i \in DOMAIN todo'[d] :
                                  /\ todo'[d][i].do = "add" =>
                                        todo'[d][i].frontend \in Range(frontends)
                                  /\ todo'[d][i].do = "assign" => snapshot'[d] = frontends
                            /\ RebuildDue' \/ Agrees(index', Settled')
            BY <2>1 DEF IndexInv, Agrees
        <3>1. \A d \in Callers : d # c => todo[d] = << >> /\ todo'[d] = << >>
            BY <1>0, <2>4 DEF IInv, IndexInv
        <3>2. index' = AddToIndex(f)
            BY <2>1, <3>1 DEF Due
        <3>3. ASSUME NEW i \in DOMAIN todo'[c]
              PROVE  /\ todo'[c][i].do = "add" => todo'[c][i].frontend \in Range(frontends)
                                                  /\ todo'[c][i].frontend # f
                     /\ todo'[c][i].do # "assign"
            <4>1. PICK k \in DOMAIN todo[c] : k = i + 1 /\ todo'[c][i] = todo[c][k]
                BY <2>4
            <4>2. i \in Nat /\ i > 0 /\ k # 1 /\ 1 \in 1..(k - 1)
                BY <2>4, <4>1
            <4>3. todo[c][k].do # "assign"
                BY <1>0, <4>2 DEF TodoInv
            <4>4. todo[c][k].do = "add" => todo[c][k].frontend.name # f.name
                BY <1>0, <4>2 DEF TodoInv, f
            <4>5. todo[c][k].do = "add" => todo[c][k].frontend \in Range(frontends)
                BY DEF IInv, IndexInv
            <4> QED
                BY <4>1, <4>3, <4>4, <4>5
        <3>4. f \in Range(frontends)
            BY <1>0 DEF IInv, IndexInv, f
        <3>5. CASE RebuildDue
            <4>1. PICK i \in DOMAIN todo[c] : Rebuilds(todo[c][i])
                BY <3>1, <3>5 DEF RebuildDue
            <4>2. i # 1
                BY <1>0, <4>1 DEF Rebuilds
            <4>3. i - 1 \in DOMAIN todo'[c] /\ Rebuilds(todo'[c][i - 1])
                BY <2>4, <4>1, <4>2
            <4>4. RebuildDue'
                BY <2>1, <4>3 DEF RebuildDue, Rebuilds
            <4> QED
                BY <3>1, <3>3, <4>4
        <3>6. CASE ~RebuildDue
            <4>1. Agrees(index, Settled)
                BY <3>6 DEF IInv, IndexInv
            <4>2. Agrees(AddToIndex(f), Settled \union {f})
                BY <1>2, <2>2, <2>3, <4>1, AddedAgrees DEF IInv, TypeOK, f
            <4>3. ASSUME NEW g PROVE AddDue(g)' <=> AddDue(g) /\ g # f
                <5>1. ASSUME AddDue(g)' PROVE AddDue(g) /\ g # f
                    <6>1. PICK i \in DOMAIN todo'[c] :
                            todo'[c][i].do = "add" /\ todo'[c][i].frontend = g
                        BY <3>1, <5>1 DEF AddDue
                    <6>2. i + 1 \in DOMAIN todo[c] /\ todo'[c][i] = todo[c][i + 1]
                        BY <2>4
                    <6> QED
                        BY <3>3, <6>1, <6>2 DEF AddDue
                <5>2. ASSUME AddDue(g), g # f PROVE AddDue(g)'
                    <6>1. PICK i \in DOMAIN todo[c] :
                            todo[c][i].do = "add" /\ todo[c][i].frontend = g
                        BY <3>1, <5>2 DEF AddDue
                    <6>2. i # 1
                        BY <5>2, <6>1 DEF f
                    <6>3. i - 1 \in DOMAIN todo'[c] /\ todo'[c][i - 1] = todo[c][i]
                        BY <2>4, <6>2
                    <6> QED
                        BY <6>1, <6>3 DEF AddDue
                <5> QED
                    BY <5>1, <5>2
            <4>4. Settled' = Settled \union {f}
                BY <2>1, <3>4, <4>3 DEF Settled
            <4>5. Agrees(index', Settled')
                BY <3>2, <4>2, <4>4
            <4> QED
                BY <3>1, <3>3, <4>5
        <3> QED
            BY <3>5, <3>6
    <2>8. ASSUME NEW n, ClearDue(n) PROVE ClearDue(n)'
        <3>1. PICK d \in Callers : \E i \in DOMAIN todo[d] :
                    Clears(todo[d][i]) /\ todo[d][i].frontend.name = n
            BY <2>8 DEF ClearDue
        <3>2. PICK i \in DOMAIN todo[d] : Clears(todo[d][i]) /\ todo[d][i].frontend.name = n
            BY <3>1
        <3>3. CASE d # c
            BY <2>1, <2>4, <3>2, <3>3 DEF ClearDue, Clears
        <3>4. CASE d = c
            <4>1. i # 1
                BY <1>0, <3>2, <3>4 DEF Clears
            <4>2. i - 1 \in DOMAIN todo'[c] /\ todo'[c][i - 1] = todo[c][i]
                BY <2>4, <3>2, <3>4, <4>1
            <4>3. Clears(todo'[c][i - 1]) /\ todo'[c][i - 1].frontend.name = n
                BY <3>2, <3>4, <4>2
            <4> QED
                BY <2>1, <4>2, <4>3 DEF ClearDue, Clears
        <3> QED
            BY <3>3, <3>4
    <2>9. OptionsInv'
        BY <2>1, <2>8 DEF IInv, OptionsInv, Behind, Current
    <2> QED
        BY <2>5, <2>6, <2>7, <2>9 DEF IInv
<1> QED
    BY <1>1, <1>2

-----------------------------------------------------------------------------
(* The background service and requests. *)

\* When nothing is to be done and no overlap is left behind, the index is that
\* of the collection.
LEMMA QuietAgrees ==
    ASSUME TypeOK, IndexInv, Quiet, ~overlapped
    PROVE  /\ \A n \in Names : index.byName[n] = Current(n)
           /\ \A m \in Criteria :
                 IF index.byCriteria[m] = None THEN \A f \in Range(frontends) : f.criteria # m
                 ELSE index.byCriteria[m] \in Range(frontends) /\ index.byCriteria[m].criteria = m
<1>1. ~RebuildDue /\ Settled = Range(frontends)
    BY DEF Quiet, RebuildDue, Settled, AddDue
<1>2. Agrees(index, Range(frontends))
    BY <1>1 DEF IndexInv
<1>3. frontends \in Seq(Frontend) /\ Distinct(frontends)
    BY DEF TypeOK, Distinct
<1>4. ASSUME NEW n \in Names PROVE index.byName[n] = Current(n)
    <2>1. CASE index.byName[n] = None
        <3>1. \A f \in Range(frontends) : f.name # n
            BY <1>2, <2>1 DEF Agrees
        <3>2. \A i \in DOMAIN frontends : frontends[i].name # n
            BY <3>1 DEF Range
        <3> QED
            BY <1>3, <2>1, <3>2, NamedFirst DEF Current
    <2>2. CASE index.byName[n] # None
        <3>1. index.byName[n] \in Range(frontends) /\ index.byName[n].name = n
            BY <1>2, <2>2 DEF Agrees
        <3>2. PICK i \in DOMAIN frontends : frontends[i] = index.byName[n]
            BY <3>1 DEF Range
        <3> QED
            BY <1>3, <3>1, <3>2, NamedUnique DEF Current
    <2> QED
        BY <2>1, <2>2
<1> QED
    BY <1>2, <1>4 DEF Agrees

\* Pages, the queue and requests are not what the index and the options are of.
LEMMA OthersKeep ==
    ASSUME IInv, TypeOK', UNCHANGED <<collection, order, handlers, index, options, overlapped>>
    PROVE  IInv'
<1>1. /\ frontends' = frontends /\ order' = order /\ todo' = todo /\ snapshot' = snapshot
      /\ index' = index /\ options' = options /\ overlapped' = overlapped
    BY DEF collection, handlers
<1>2. TodoInv'
    BY <1>1 DEF IInv, TodoInv
<1>3. RebuildDue' = RebuildDue /\ Settled' = Settled
    BY <1>1 DEF RebuildDue, Rebuilds, Settled, AddDue
<1>4. IndexInv'
    BY <1>1, <1>3 DEF IInv, IndexInv
<1>5. \A n : ClearDue(n)' = ClearDue(n)
    BY <1>1 DEF ClearDue, Clears
<1>6. OptionsInv'
    BY <1>1, <1>5 DEF IInv, OptionsInv, Behind, Current
<1> QED
    BY <1>2, <1>4, <1>6 DEF IInv

\* The background service and requests leave index and options alone.
LEMMA ProcessKept ==
    ASSUME IInv, ProcessFrontendChange \/ ProcessingFails
    PROVE  IInv'
<1>1. PICK entries \in [Names -> Entry \union {None}] : Processed(entries)
    <2>1. page \in [Names -> Entry \union {None}]
        BY DEF IInv, TypeOK
    <2>2. [page EXCEPT ![Head(queue)] = None] \in [Names -> Entry \union {None}]
          /\ Missed(page, {Head(queue)}) \in [Names -> Entry \union {None}]
        BY <2>1, MissedType
    <2> QED
        BY <2>2 DEF ProcessFrontendChange, ProcessingFails
<1>2. /\ queue # << >> /\ queue' = Tail(queue) /\ page' = entries
      /\ request' = Holding({Head(queue)})
      /\ UNCHANGED <<collection, order, handlers, index, options, overlapped>>
    BY <1>1 DEF Processed
<1>3. queue' \in Seq(Names)
    BY <1>2 DEF IInv, TypeOK
<1>4. request' \in [Requests -> [frontend : Frontend, exempt : BOOLEAN] \union {None}]
    BY <1>2, HoldingType DEF IInv
<1>5. TypeOK'
    BY <1>1, <1>2, <1>3, <1>4 DEF IInv, TypeOK, collection, handlers
<1> QED
    BY <1>2, <1>5, OthersKeep

LEMMA SelectKept ==
    ASSUME IInv, NEW r \in Requests, NEW m \in Criteria, Select(r, m)
    PROVE  IInv'
<1> DEFINE n == Match(m).name
           new == [frontend |-> Match(m),
                   exempt |-> Behind(Match(m), n) /\ ~ClearDue(n) /\ n \notin Range(queue)]
<1>1. /\ Match(m) # None /\ request' = [request EXCEPT ![r] = new]
      /\ UNCHANGED <<collection, order, handlers, index, caches, overlapped>>
    BY DEF Select
<1>2. Match(m) \in Frontend
    BY <1>1, FrontendAssumption DEF Match, IInv, TypeOK
<1>3. new \in [frontend : Frontend, exempt : BOOLEAN]
    BY <1>2
<1> HIDE DEF new
<1>4. TypeOK'
    BY <1>1, <1>3 DEF IInv, TypeOK, collection, handlers, caches
<1> QED
    BY <1>1, <1>4, OthersKeep DEF caches

LEMMA StoreKept ==
    ASSUME IInv, NEW r \in Requests, Store(r)
    PROVE  IInv'
<1> DEFINE new == [of |-> request[r].frontend, exempt |-> request[r].exempt]
<1>1. /\ request[r] # None /\ page' = [page EXCEPT ![request[r].frontend.name] = new]
      /\ request' = [request EXCEPT ![r] = None]
      /\ UNCHANGED <<collection, order, handlers, index, options, queue, overlapped>>
    BY DEF Store
<1>2. request[r] \in [frontend : Frontend, exempt : BOOLEAN]
    BY <1>1 DEF IInv, TypeOK
<1>3. new \in Entry
    BY <1>2 DEF Entry
<1> HIDE DEF new
<1>4. TypeOK'
    BY <1>1, <1>3 DEF IInv, TypeOK, collection, handlers
<1> QED
    BY <1>1, <1>4, OthersKeep

LEMMA EndKept ==
    ASSUME IInv, NEW r \in Requests, EndRequest(r)
    PROVE  IInv'
<1>1. TypeOK'
    BY DEF EndRequest, IInv, TypeOK, collection, handlers, caches
<1> QED
    BY <1>1, OthersKeep DEF EndRequest, caches

LEMMA ExpireKept ==
    ASSUME IInv, NEW n \in Names, Expire(n)
    PROVE  IInv'
<1>1. TypeOK'
    BY DEF Expire, IInv, TypeOK, collection, handlers
<1> QED
    BY <1>1, OthersKeep DEF Expire

\* Options that are cached are true or will be cleared; the others are exempt.
LEMMA ConfigureKept ==
    ASSUME IInv, NEW r \in Requests, Configure(r)
    PROVE  IInv'
<1> DEFINE n == request[r].frontend.name
           new == [of |-> index.byName[n],
                   exempt |-> Behind(index.byName[n], n) /\ ~ClearDue(n)]
<1>1. /\ request[r] # None /\ options[n] = None
      /\ options' = [options EXCEPT ![n] = new]
      /\ UNCHANGED <<collection, order, handlers, index, page, queue, request, overlapped>>
    BY DEF Configure
<1>2. request[r] \in [frontend : Frontend, exempt : BOOLEAN]
    BY <1>1 DEF IInv, TypeOK
<1>3. n \in Names
    BY <1>2 DEF Frontend
<1>4. new \in Entry
    <2>1. index.byName[n] \in Frontend \union {None}
        BY <1>3 DEF IInv, TypeOK
    <2> HIDE DEF n
    <2> QED
        BY <2>1 DEF Entry
<1>5. ~new.exempt => ~Behind(new.of, n) \/ ClearDue(n)
    OBVIOUS
<1> HIDE DEF new, n
<1>6. TypeOK'
    BY <1>1, <1>3, <1>4 DEF IInv, TypeOK, collection, handlers
<1>7. /\ frontends' = frontends /\ order' = order /\ todo' = todo /\ snapshot' = snapshot
      /\ index' = index /\ overlapped' = overlapped
    BY <1>1 DEF collection, handlers
<1>8. TodoInv'
    BY <1>7 DEF IInv, TodoInv
<1>9. RebuildDue' = RebuildDue /\ Settled' = Settled
    BY <1>7 DEF RebuildDue, Rebuilds, Settled, AddDue
<1>10. IndexInv'
    BY <1>7, <1>9 DEF IInv, IndexInv
<1>11. OptionsInv'
    <2> SUFFICES ASSUME NEW m \in Names, options'[m] # None, ~options'[m].exempt
                 PROVE  ~Behind(options'[m].of, m) \/ ClearDue(m)'
        BY <1>7 DEF OptionsInv, Behind, Current
    <2>0. ClearDue(m) => ClearDue(m)'
        BY <1>7 DEF ClearDue, Clears
    <2>1. CASE m # n
        <3>1. options'[m] = options[m]
            BY <1>1, <2>1 DEF IInv, TypeOK
        <3> QED
            BY <2>0, <3>1 DEF IInv, OptionsInv
    <2>2. CASE m = n
        <3>1. options'[m] = new
            BY <1>1, <1>3, <2>2 DEF IInv, TypeOK
        <3> QED
            BY <1>5, <2>0, <2>2, <3>1
    <2> QED
        BY <2>1, <2>2
<1> QED
    BY <1>6, <1>8, <1>10, <1>11 DEF IInv

-----------------------------------------------------------------------------
(* The theorems. *)

\* The invariant is inductive.
LEMMA InitOK == Init => IInv
<1> SUFFICES ASSUME Init PROVE IInv
    OBVIOUS
<1>1. << >> \in Seq(Frontend) /\ << >> \in Seq(Event) /\ << >> \in Seq(Names) /\ DOMAIN << >> = {}
    OBVIOUS
<1>2. index \in [byName : [Names -> Frontend \union {None}],
                 byCriteria : [Criteria -> Frontend \union {None}]]
    BY <1>1, IndexType DEF Init
<1>3. TypeOK
    <2>1. /\ frontends \in Seq(Frontend) /\ DOMAIN frontends = {}
          /\ todo \in [Callers -> Seq(Event)] /\ snapshot \in [Callers -> Seq(Frontend)]
          /\ queue \in Seq(Names)
        BY <1>1 DEF Init
    <2>2. /\ options \in [Names -> Entry \union {None}] /\ page \in [Names -> Entry \union {None}]
          /\ request \in [Requests -> [frontend : Frontend, exempt : BOOLEAN] \union {None}]
        BY DEF Init
    <2>3. changes \in 0..MaxChanges /\ order \in {"index", "caches"} /\ overlapped \in BOOLEAN
        <3>1. changes \in 0..MaxChanges
            <4>1. changes = 0
                BY DEF Init
            <4> QED
                BY <4>1, FrontendAssumption
        <3>2. order \in {"index", "caches"} /\ overlapped \in BOOLEAN
            BY DEF Init
        <3> QED
            BY <3>1, <3>2
    <2> QED
        BY <1>2, <2>1, <2>2, <2>3 DEF TypeOK
<1>4. TodoInv
    BY DEF Init, TodoInv
<1>5. Settled = Range(frontends)
    BY DEF Init, Settled, AddDue
<1>6. Agrees(index, Settled)
    BY <1>1, <1>5, IndexAgrees DEF Init
<1>7. IndexInv
    BY <1>6 DEF Init, IndexInv
<1>8. OptionsInv
    BY DEF Init, OptionsInv
<1> QED
    BY <1>3, <1>4, <1>7, <1>8 DEF IInv

LEMMA NextOK == IInv /\ [Next]_vars => IInv'
<1> SUFFICES ASSUME IInv, [Next]_vars PROVE IInv'
    OBVIOUS
<1>1. ASSUME NEW c \in Callers, AddOrUpdate(c) \/ RemoveFrontend(c) \/ Reload(c)
      PROVE  IInv'
    <2>1. Change(c)
        BY <1>1 DEF AddOrUpdate, RemoveFrontend, Reload
    <2>2. todo[c] = << >> /\ changes' \in 0..MaxChanges
        BY <2>1, FrontendAssumption DEF Change, IInv, TypeOK
    <2>3. \E new, added, changed :
              Swap(c, new, added, changed) /\ Announced(new, added, changed)
        BY <1>1, AddOrUpdateAnnounced, RemoveAnnounced, ReloadAnnounced DEF IInv
    <2> QED
        BY <2>2, <2>3, SwapKept
<1>2. ASSUME NEW c \in Callers, Handle(c) PROVE IInv'
    BY <1>2, AddKept, ReadKept, AssignKept, ClearKept DEF Handle
<1>3. ASSUME ProcessFrontendChange \/ ProcessingFails PROVE IInv'
    BY <1>3, ProcessKept
<1>4. ASSUME NEW r \in Requests, Configure(r) \/ Store(r) \/ EndRequest(r) PROVE IInv'
    BY <1>4, ConfigureKept, StoreKept, EndKept
<1>5. ASSUME NEW r \in Requests, NEW m \in Criteria, Select(r, m) PROVE IInv'
    BY <1>5, SelectKept
<1>6. ASSUME NEW n \in Names, Expire(n) PROVE IInv'
    BY <1>6, ExpireKept
<1>7. CASE UNCHANGED vars
    <2>1. TypeOK' /\ UNCHANGED <<collection, order, handlers, index, options, overlapped>>
        BY <1>7 DEF vars, collection, handlers, caches, IInv, TypeOK
    <2> QED
        BY <2>1, OthersKeep
<1> QED
    BY <1>1, <1>2, <1>3, <1>4, <1>5, <1>6, <1>7 DEF Next

\* What threads have still to do accounts for all in which the index and the
\* cached options differ from the collection, in every reachable state
\* (FrontendCollection, FrontendSelector, BffCacheClearingHostedService).
THEOREM Invariance == Spec => []IInv
BY InitOK, NextOK, PTL DEF Spec

\* The collection, the index, the caches and the requests are well typed, and
\* no name is twice in the collection.
THEOREM TypeCorrect == Spec => []TypeOK
<1>1. IInv => TypeOK
    BY DEF IInv
<1> QED
    BY <1>1, Invariance, PTL

\* Once the handlers of every change have run, requests and schemes find
\* exactly the frontends of the collection, if the last changes did not overlap
\* (FrontendSelector).
THEOREM IndexFollows == Spec => []IndexCurrent
<1>1. IInv => IndexCurrent
    <2> SUFFICES ASSUME IInv, Quiet, ~overlapped
                 PROVE  /\ \A n \in Names : index.byName[n] = Current(n)
                        /\ \A m \in Criteria :
                              LET f == index.byCriteria[m]
                                  Claiming == {g \in Range(frontends) : g.criteria = m}
                              IN IF Claiming = {} THEN f = None ELSE f \in Claiming
        BY DEF IndexCurrent
    <2>1. /\ \A n \in Names : index.byName[n] = Current(n)
          /\ \A m \in Criteria :
                IF index.byCriteria[m] = None THEN \A f \in Range(frontends) : f.criteria # m
                ELSE index.byCriteria[m] \in Range(frontends) /\ index.byCriteria[m].criteria = m
        BY QuietAgrees DEF IInv
    <2> QED
        BY <2>1
<1> QED
    BY <1>1, Invariance, PTL

\* Once the handlers of every change have run, whatever changes overlapped, the
\* cached options of a scheme are those of its frontend
\* (BffCacheClearingHostedService).  The exceptions are those of OptionsCurrent:
\* options that were built from an index that was behind with no clear of theirs
\* to come, during a change or at any time after changes that overlapped, or of a
\* frontend that was not in the index; and those whose clear was not made because
\* a handler threw.
THEOREM OptionsFollow == Spec => []OptionsCurrent
<1>1. IInv => OptionsCurrent
    <2> SUFFICES ASSUME IInv, Quiet, NEW n \in Names, options[n] # None, ~options[n].exempt
                 PROVE  options[n].of = Current(n)
        BY DEF OptionsCurrent
    <2>1. ~ClearDue(n)
        BY DEF Quiet, ClearDue
    <2> QED
        BY <2>1 DEF IInv, OptionsInv, Behind
<1> QED
    BY <1>1, Invariance, PTL
=============================================================================
