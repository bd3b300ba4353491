-------------------------- MODULE Ingestion_proofs --------------------------
(***************************************************************************)
(* Proofs about Ingestion with its parts Seeding and Bootstrap, for every  *)
(* value of the constants.  The first section is about sums over finite    *)
(* sets, the second about the requests that seed the local stores, the     *)
(* third about the tasks that load the artifact, the last about the way    *)
(* from the one to the other.                                              *)
(***************************************************************************)
EXTENDS Ingestion, FiniteSetsExt, FiniteSetTheorems, WellFoundedInduction, TLAPS

Units    == Seed!Units
AllLinks == Seed!AllLinks

-----------------------------------------------------------------------------
(* Sums.                                                                   *)

LEMMA LeastExists ==
  ASSUME NEW S \in SUBSET Nat, S # {}
  PROVE  \E m \in S : \A n \in S : m <= n
  <1>1. PICK m \in S : \A n \in S : ~ (<<n, m>> \in OpToRel(<, Nat))
    BY NatLessThanWellFounded, WFMin
  <1>2. \A n \in S : ~ (n < m)
    BY <1>1 DEF OpToRel
  <1>3. QED BY <1>2

Some(T)   == CHOOSE x \in T : TRUE
Sum(f, T) == MapThenSumSet(LAMBDA u : f[u], T)

\* g solves the recursion of MapThenSumSet on the sets of D.
Sums(f, D, g) == g = [T \in D |-> IF T = {} THEN 0 ELSE f[Some(T)] + g[T \ {Some(T)}]]

LEMMA WithoutOne ==
  ASSUME NEW T, IsFiniteSet(T), T # {}
  PROVE  /\ Some(T) \in T /\ IsFiniteSet(T \ {Some(T)})
         /\ Cardinality(T) \in Nat \ {0}
         /\ Cardinality(T \ {Some(T)}) = Cardinality(T) - 1
  <1>1. Some(T) \in T
    BY DEF Some
  <1>2. Cardinality(T) \in Nat /\ Cardinality(T) # 0
    BY FS_CardinalityType, FS_EmptySet
  <1>3. QED BY <1>1, <1>2, FS_RemoveElement

LEMMA SumsExist ==
  ASSUME NEW f, NEW S, IsFiniteSet(S)
  PROVE  \E g : Sums(f, SUBSET S, g)
  <1> DEFINE D(n) == {T \in SUBSET S : Cardinality(T) <= n}
             bad == {n \in Nat : \A g : ~Sums(f, D(n), g)}
  <1>0. \A T \in SUBSET S : IsFiniteSet(T) /\ Cardinality(T) \in Nat
    BY FS_Subset, FS_CardinalityType
  <1>1. bad = {}
    <2>1. SUFFICES ASSUME bad # {}
                   PROVE  FALSE
      OBVIOUS
    <2>2. PICK m \in bad : \A n \in bad : m <= n
      BY <2>1, LeastExists
    <2>3. CASE m = 0
      <3> DEFINE g == [T \in D(0) |-> 0]
      <3>1. \A T \in D(0) : T = {}
        BY <1>0, FS_EmptySet
      <3>2. Sums(f, D(0), g)
        BY <3>1 DEF Sums
      <3>3. QED BY <2>2, <2>3, <3>2
    <2>4. CASE m # 0
      <3>1. m - 1 \in Nat /\ m - 1 \notin bad
        BY <2>2, <2>4
      <3>2. PICK g : Sums(f, D(m - 1), g)
        BY <3>1
      <3> DEFINE h == [T \in D(m) |-> IF T = {} THEN 0
                                      ELSE f[Some(T)] + g[T \ {Some(T)}]]
      <3>3. ASSUME NEW T \in D(m), T # {}
            PROVE  T \ {Some(T)} \in D(m - 1) /\ T \ {Some(T)} \in D(m)
        BY <1>0, <3>3, WithoutOne
      <3>4. ASSUME NEW T \in D(m - 1), T \in D(m)
            PROVE  h[T] = g[T]
        BY <3>2, <3>4 DEF Sums
      <3>5. h = [T \in D(m) |-> IF T = {} THEN 0 ELSE f[Some(T)] + h[T \ {Some(T)}]]
        <4> HIDE DEF D
        <4>1. \A T \in D(m) : h[T] = IF T = {} THEN 0 ELSE f[Some(T)] + g[T \ {Some(T)}]
          OBVIOUS
        <4>2. \A T \in D(m) : T # {} => h[T \ {Some(T)}] = g[T \ {Some(T)}]
          BY <3>3, <3>4
        <4>3. QED BY <4>2
      <3>6. Sums(f, D(m), h)
        <4> HIDE DEF D, h
        <4>1. QED BY <3>5 DEF Sums
      <3>7. QED BY <2>2, <3>6
    <2>5. QED BY <2>3, <2>4
  <1>2. D(Cardinality(S)) = SUBSET S /\ Cardinality(S) \in Nat
    BY <1>0, FS_Subset
  <1>3. QED
    <2>1. \E g : Sums(f, D(Cardinality(S)), g)
      BY <1>1, <1>2
    <2>2. QED BY <1>2, <2>1

LEMMA SumsAgree ==
  ASSUME NEW f, NEW S, IsFiniteSet(S), NEW R \in SUBSET S, NEW g, NEW h,
         Sums(f, SUBSET S, g), Sums(f, SUBSET R, h)
  PROVE  \A T \in SUBSET R : g[T] = h[T]
  <1> DEFINE bad == {n \in Nat : \E T \in SUBSET R : Cardinality(T) = n /\ g[T] # h[T]}
  <1>0. \A T \in SUBSET R : IsFiniteSet(T) /\ Cardinality(T) \in Nat
    BY FS_Subset, FS_CardinalityType
  <1>1. bad = {}
    <2>1. SUFFICES ASSUME bad # {}
                   PROVE  FALSE
      OBVIOUS
    <2>2. PICK m \in bad : \A n \in bad : m <= n
      BY <2>1, LeastExists
    <2>3. PICK T \in SUBSET R : Cardinality(T) = m /\ g[T] # h[T]
      BY <2>2
    <2>4. T # {}
      BY <2>3 DEF Sums
    <2>5. T \ {Some(T)} \in SUBSET R /\ Cardinality(T \ {Some(T)}) \in Nat
          /\ Cardinality(T \ {Some(T)}) < m
      BY <1>0, <2>3, <2>4, WithoutOne
    <2>6. g[T \ {Some(T)}] = h[T \ {Some(T)}]
      BY <2>2, <2>5
    <2>7. g[T] = h[T]
      BY <2>4, <2>6 DEF Sums
    <2>8. QED BY <2>3, <2>7
  <1>2. QED BY <1>0, <1>1

LEMMA SumStep ==
  ASSUME NEW f, NEW S, IsFiniteSet(S)
  PROVE  Sum(f, S) = IF S = {} THEN 0 ELSE f[Some(S)] + Sum(f, S \ {Some(S)})
  <1> DEFINE sums(T) == CHOOSE g : Sums(f, SUBSET T, g)
             rest == S \ {Some(S)}
  <1>1. Sum(f, S) = sums(S)[S] /\ Sum(f, rest) = sums(rest)[rest]
    BY DEF Sum, MapThenSumSet, MapThenFoldSet, Sums, Some
  <1>2. Sums(f, SUBSET S, sums(S))
    BY SumsExist
  <1>3. CASE S = {}
    BY <1>1, <1>2, <1>3 DEF Sums
  <1>4. CASE S # {}
    <2>1. Sums(f, SUBSET rest, sums(rest))
      BY <1>4, WithoutOne, SumsExist
    <2>2. PICK g, h : Sums(f, SUBSET S, g) /\ Sums(f, SUBSET rest, h) /\ g = sums(S) /\ h = sums(rest)
      BY <1>2, <2>1
    <2>3. g[rest] = h[rest]
      <3>1. rest \in SUBSET S /\ rest \in SUBSET rest
        OBVIOUS
      <3> HIDE DEF rest, sums
      <3>2. QED BY <2>2, <3>1, SumsAgree
    <2>4. g[S] = f[Some(S)] + g[rest]
      BY <1>4, <2>2 DEF Sums
    <2>5. QED BY <1>1, <1>4, <2>2, <2>3, <2>4
  <1>5. QED BY <1>3, <1>4

\* A sum over more is more, and the same only if each number is the same.
LEMMA SumsCompare ==
  ASSUME NEW U, IsFiniteSet(U), NEW f \in [U -> Nat], NEW g \in [U -> Nat], \A u \in U : f[u] <= g[u]
  PROVE  \A S \in SUBSET U :
            /\ Sum(f, S) \in Nat /\ Sum(g, S) \in Nat /\ Sum(f, S) <= Sum(g, S)
            /\ Sum(f, S) = Sum(g, S) => \A u \in S : f[u] = g[u]
  <1> DEFINE Good(S) == /\ Sum(f, S) \in Nat /\ Sum(g, S) \in Nat /\ Sum(f, S) <= Sum(g, S)
                        /\ Sum(f, S) = Sum(g, S) => \A u \in S : f[u] = g[u]
             bad == {n \in Nat : \E S \in SUBSET U : Cardinality(S) = n /\ ~Good(S)}
  <1>0. \A S \in SUBSET U : IsFiniteSet(S) /\ Cardinality(S) \in Nat
    BY FS_Subset, FS_CardinalityType
  <1>1. bad = {}
    <2>1. SUFFICES ASSUME bad # {}
                   PROVE  FALSE
      OBVIOUS
    <2>2. PICK m \in bad : \A n \in bad : m <= n
      BY <2>1, LeastExists
    <2>3. PICK S \in SUBSET U : Cardinality(S) = m /\ ~Good(S)
      BY <2>2
    <2>4. \A T \in SUBSET U : Cardinality(T) < m => Good(T)
      <3> HIDE DEF Good
      <3> QED BY <1>0, <2>2
    <2>5. S # {}
      <3>1. SUFFICES ASSUME S = {} PROVE FALSE
        OBVIOUS
      <3>2. Sum(f, S) = 0 /\ Sum(g, S) = 0
        BY <3>1, SumStep, FS_EmptySet
      <3>3. QED BY <2>3, <3>1, <3>2
    <2> DEFINE y == Some(S)
    <2>6. /\ y \in S /\ Sum(f, S) = f[y] + Sum(f, S \ {y}) /\ Sum(g, S) = g[y] + Sum(g, S \ {y})
          /\ m \in Nat \ {0} /\ Cardinality(S \ {y}) = m - 1
      BY <1>0, <2>3, <2>5, SumStep, WithoutOne
    <2> HIDE DEF y
    <2>7. Good(S \ {y})
      <3> HIDE DEF Good
      <3> QED BY <2>4, <2>6
    <2>8. f[y] \in Nat /\ g[y] \in Nat /\ f[y] <= g[y]
      BY <2>6
    <2>9. Sum(f, S) \in Nat /\ Sum(g, S) \in Nat /\ Sum(f, S) <= Sum(g, S)
      BY <2>6, <2>7, <2>8
    <2>10. ASSUME Sum(f, S) = Sum(g, S), NEW u \in S
           PROVE  f[u] = g[u]
      <3>1. f[y] = g[y] /\ Sum(f, S \ {y}) = Sum(g, S \ {y})
        BY <2>6, <2>7, <2>8, <2>10
      <3>2. QED BY <2>7, <3>1
    <2>11. QED BY <2>3, <2>9, <2>10
  <1>2. QED
    <2> HIDE DEF Good
    <2>1. \A S \in SUBSET U : Good(S)
      BY <1>0, <1>1
    <2>2. QED BY <2>1 DEF Good

Members(U, S) == [u \in U |-> IF u \in S THEN 1 ELSE 0]

\* The members of a set, one each, make its cardinality.
LEMMA MembersCount ==
  ASSUME NEW U, IsFiniteSet(U), NEW S \in SUBSET U
  PROVE  \A T \in SUBSET U : Sum(Members(U, S), T) = Cardinality(S \intersect T)
  <1> DEFINE f == Members(U, S)
             Good(T) == Sum(f, T) = Cardinality(S \intersect T)
             bad == {n \in Nat : \E T \in SUBSET U : Cardinality(T) = n /\ ~Good(T)}
  <1>0. \A T \in SUBSET U : IsFiniteSet(T) /\ Cardinality(T) \in Nat
    BY FS_Subset, FS_CardinalityType
  <1>9. \A u \in U : f[u] = IF u \in S THEN 1 ELSE 0
    BY DEF Members
  <1> HIDE DEF f
  <1>1. bad = {}
    <2>1. SUFFICES ASSUME bad # {}
                   PROVE  FALSE
      OBVIOUS
    <2>2. PICK m \in bad : \A n \in bad : m <= n
      BY <2>1, LeastExists
    <2>3. PICK T \in SUBSET U : Cardinality(T) = m /\ ~Good(T)
      BY <2>2
    <2>4. \A R \in SUBSET U : Cardinality(R) < m => Good(R)
      <3> HIDE DEF Good
      <3> QED BY <1>0, <2>2
    <2>5. T # {}
      <3>1. SUFFICES ASSUME T = {} PROVE FALSE
        OBVIOUS
      <3>2. Sum(f, T) = 0 /\ S \intersect T = {}
        BY <3>1, SumStep, FS_EmptySet
      <3>3. QED BY <2>3, <3>2, FS_EmptySet
    <2> DEFINE y == Some(T)
    <2>6. /\ y \in T /\ Sum(f, T) = f[y] + Sum(f, T \ {y})
          /\ m \in Nat \ {0} /\ Cardinality(T \ {y}) = m - 1
      BY <1>0, <2>3, <2>5, SumStep, WithoutOne
    <2> HIDE DEF y
    <2>7. Sum(f, T \ {y}) = Cardinality(S \intersect (T \ {y}))
      <3>1. Good(T \ {y})
        <4> HIDE DEF Good
        <4> QED BY <2>4, <2>6
      <3>2. QED BY <3>1
    <2>8. CASE y \in S
      <3>1. S \intersect (T \ {y}) = (S \intersect T) \ {y} /\ y \in S \intersect T
        BY <2>6, <2>8
      <3>2. IsFiniteSet(S \intersect T) /\ Cardinality(S \intersect T) \in Nat
        BY <1>0
      <3>3. Cardinality((S \intersect T) \ {y}) = Cardinality(S \intersect T) - 1
        BY <3>1, <3>2, FS_RemoveElement
      <3>4. f[y] = 1
        BY <1>9, <2>3, <2>6, <2>8
      <3>5. Sum(f, T) = Cardinality(S \intersect T)
        BY <2>6, <2>7, <3>1, <3>2, <3>3, <3>4
      <3>6. QED BY <2>3, <3>5
    <2>9. CASE y \notin S
      <3>1. S \intersect (T \ {y}) = S \intersect T
        BY <2>9
      <3>2. Cardinality(S \intersect T) \in Nat /\ f[y] = 0
        BY <1>0, <1>9, <2>3, <2>6, <2>9
      <3>3. Sum(f, T \ {y}) = Cardinality(S \intersect T)
        BY <2>7, <3>1, Zenon
      <3>4. Sum(f, T) = Cardinality(S \intersect T)
        BY <2>6, <3>2, <3>3
      <3>5. QED BY <2>3, <3>4
    <2>10. QED BY <2>8, <2>9
  <1>2. QED
    <2> HIDE DEF Good
    <2>1. \A T \in SUBSET U : Good(T)
      BY <1>0, <1>1
    <2>2. QED BY <2>1 DEF Good, f

-----------------------------------------------------------------------------
(* Seeding.  While every request of an episode asks for the corpus c and   *)
(* none has failed, each store is on its way to c: a record that is not    *)
(* there yet will be written by a request that is still to come to it, or  *)
(* is at it, and a record of another corpus is only there while all        *)
(* requests have still to pass the step that removes it.                   *)

Resets   == {"delete", "create"}
Unseen   == Resets \union {"index", "refresh"}
Clears   == Unseen \union {"clear"}
Unlinked == Clears \union {"nodes"}
Unpruned == Unlinked \union {"edges", "prune"}

Before(steps)    == \E r \in Requests : pc[r] \in steps
AllBefore(steps) == Seed!Busy # {} /\ \A r \in Seed!Busy : pc[r] \in steps
Writes(s, x)     == \E r \in Requests : pc[r] = s /\ x \in todo[r]

Filled(store, c, items, steps, s) ==
    \A x \in items : store[x] = c \/ Before(steps) \/ Writes(s, x)
Clean(store, c, items, steps) ==
    \/ \A x \in DOMAIN store : store[x] = None \/ (x \in items /\ store[x] = c)
    \/ AllBefore(steps)
Pruned(c) ==
    \/ c \in Scenarios
    \/ \A x \in DOMAIN objects : objects[x] = None \/ x \in Docs[c]
    \/ AllBefore(Unpruned)

IndexInv(c) ==
    /\ exists \/ Before(Resets)
    /\ Filled(index, c, Docs[c], Resets, "index") /\ Clean(index, c, Docs[c], Resets)
VisibleInv(c) == visible = index \/ Before(Unseen)
NodesInv(c) ==
    Filled(nodes, c, Docs[c], Clears, "nodes") /\ Clean(nodes, c, Docs[c], Clears)
EdgesInv(c) ==
    Filled(edges, c, Links[c], Unlinked, "edges") /\ Clean(edges, c, Links[c], Clears)
ObjectsInv(c) ==
    Filled(objects, c, Docs[c], Unpruned, "objects") /\ Pruned(c)

StoreTypes ==
    /\ exists \in BOOLEAN
    /\ index \in [Units -> Corpora \union {None}]
    /\ visible \in [Units -> Corpora \union {None}]
    /\ nodes \in [Units -> Corpora \union {None}]
    /\ objects \in [Units -> Corpora \union {None}]
    /\ edges \in [AllLinks -> Corpora \union {None}]
    /\ titles \in (SUBSET Units) \union {None}
    /\ reading \in (SUBSET Units) \union {None}
    /\ ~exists => index = Seed!Empty /\ visible = Seed!Empty

RequestTypes ==
    /\ pc \in [Requests -> Seed!Steps]
    /\ corpus \in [Requests -> Corpora \union {None}]
    /\ DOMAIN todo = Requests
    /\ \A r \in Requests :
        /\ pc[r] # "idle" => corpus[r] \in Corpora /\ corpus[r] \in episode
        /\ pc[r] \in {"index", "nodes", "objects"} => todo[r] \subseteq Docs[corpus[r]]
        /\ pc[r] = "edges" => todo[r] \subseteq Links[corpus[r]]
        /\ pc[r] \notin {"index", "nodes", "edges", "objects"} => todo[r] = {}

SeedTypes == StoreTypes /\ RequestTypes

LEMMA CorpusUnits ==
  ASSUME NEW c \in Corpora
  PROVE  Docs[c] \subseteq Units /\ Links[c] \subseteq AllLinks
  BY DEF Units, AllLinks, Seed!Units, Seed!AllLinks

LEMMA FirstIsMember ==
  ASSUME NEW c \in Corpora, NEW S \in SUBSET Docs[c], S # {}
  PROVE  Seed!First(S) \in S
  <1>1. S \in SUBSET Nat
    BY CorpusAssumption
  <1>2. QED BY <1>1, LeastExists DEF Seed!First

LEMMA TypesInit == Seed!Init => SeedTypes
  <1> SUFFICES ASSUME Seed!Init PROVE SeedTypes
    OBVIOUS
  <1> USE DEF Seed!Init
  <1>1. /\ Seed!Empty \in [Units -> Corpora \union {None}]
        /\ Seed!NoEdges \in [AllLinks -> Corpora \union {None}]
    BY DEF Seed!Empty, Seed!NoEdges, Units, AllLinks
  <1>2. pc \in [Requests -> Seed!Steps] /\ \A r \in Requests : pc[r] = "idle"
    BY DEF Seed!Steps
  <1>3. DOMAIN todo = Requests /\ \A r \in Requests : todo[r] = {}
    OBVIOUS
  <1>4. corpus \in [Requests -> Corpora \union {None}]
    OBVIOUS
  <1>5. titles \in (SUBSET Units) \union {None} /\ reading \in (SUBSET Units) \union {None}
    OBVIOUS
  <1>6. exists = FALSE /\ index = Seed!Empty /\ visible = Seed!Empty /\ nodes = Seed!Empty
        /\ objects = Seed!Empty /\ edges = Seed!NoEdges
    OBVIOUS
  <1> QED BY <1>1, <1>2, <1>3, <1>4, <1>5, <1>6 DEF SeedTypes, StoreTypes, RequestTypes

LEMMA TypesGoto ==
  ASSUME RequestTypes, NEW r \in Requests, NEW s \in Seed!Steps, NEW work, pc[r] # "idle",
         Seed!Goto(r, s, work),
         s \in {"index", "nodes", "objects"} => work \subseteq Docs[corpus[r]],
         s = "edges" => work \subseteq Links[corpus[r]],
         s \notin {"index", "nodes", "edges", "objects"} => work = {}
  PROVE  RequestTypes'
  BY DEF RequestTypes, Seed!Goto

\* A store keeps its type when the corpus of one record is written.
LEMMA WrittenTypes ==
  ASSUME NEW store \in [Units -> Corpora \union {None}], NEW r \in Requests, RequestTypes,
         pc[r] # "idle", NEW u \in Units
  PROVE  [store EXCEPT ![u] = corpus[r]] \in [Units -> Corpora \union {None}]
  BY DEF RequestTypes

LEMMA TypesBegin ==
  ASSUME SeedTypes, NEW r \in Requests, Seed!Begin(r)
  PROVE  SeedTypes'
  <1>1. PICK c \in Corpora : corpus' = [corpus EXCEPT ![r] = c]
          /\ episode' = (IF Seed!Busy = {} THEN {} ELSE episode) \union {c}
    BY DEF Seed!Begin
  <1>2. pc' = [pc EXCEPT ![r] = "delete"] /\ pc[r] = "idle" /\ todo' = todo
    BY DEF Seed!Begin, SeedTypes, Seed!cache
  <1>3. \A q \in Requests : q # r /\ pc[q] # "idle" => corpus[q] \in episode'
    BY <1>1 DEF SeedTypes, RequestTypes, Seed!Busy
  <1>4. RequestTypes'
    BY <1>1, <1>2, <1>3 DEF SeedTypes, RequestTypes, Seed!Steps
  <1>5. UNCHANGED <<exists, index, visible, nodes, edges, objects, titles, reading>>
    BY DEF Seed!Begin, Seed!stores, Seed!cache
  <1>6. StoreTypes'
    BY <1>5 DEF SeedTypes, StoreTypes
  <1>7. QED BY <1>4, <1>6 DEF SeedTypes

LEMMA TypesRequest ==
  ASSUME SeedTypes, NEW r \in Requests,
         Seed!Step(r), ~Seed!Begin(r)
  PROVE  SeedTypes'
  <1> DEFINE c == corpus[r]
  <1>1. Seed!Empty \in [Units -> Corpora \union {None}]
        /\ Seed!NoEdges \in [AllLinks -> Corpora \union {None}]
    BY DEF Seed!Empty, Seed!NoEdges, Units, AllLinks
  <1>2. pc[r] # "idle" => c \in Corpora /\ Docs[c] \subseteq Units /\ Links[c] \subseteq AllLinks
    BY CorpusUnits DEF SeedTypes, RequestTypes
  <1>3. \A u \in todo[r] : pc[r] \in {"index", "nodes", "objects"} => u \in Units
    BY <1>2 DEF SeedTypes, RequestTypes
  <1>4. pc[r] \in {"index", "nodes", "objects"} /\ todo[r] # {} =>
          /\ Seed!First(todo[r]) \in Units /\ todo[r] \ {Seed!First(todo[r])} \subseteq Docs[c]
    BY <1>2, <1>3, FirstIsMember DEF SeedTypes, RequestTypes
  <1>5. CASE Seed!DeleteIndex(r)
    <2>1. RequestTypes'
      BY <1>5, TypesGoto DEF SeedTypes, Seed!DeleteIndex, Seed!Steps
    <2>2. StoreTypes'
      <3>1. UNCHANGED <<nodes, edges, objects, titles, reading>>
        BY <1>5 DEF Seed!DeleteIndex, Seed!cache
      <3>2. Seed!Empty' = Seed!Empty
        BY DEF Seed!Empty
      <3>3. \/ exists' = FALSE /\ index' = Seed!Empty /\ visible' = Seed!Empty
            \/ UNCHANGED <<exists, index, visible>>
        BY <1>5 DEF Seed!DeleteIndex
      <3>4. QED BY <1>1, <3>1, <3>2, <3>3 DEF SeedTypes, StoreTypes
    <2>3. QED BY <2>1, <2>2 DEF SeedTypes
  <1>6. CASE Seed!CreateIndex(r)
    <2>1. RequestTypes'
      BY <1>2, <1>6, TypesGoto DEF SeedTypes, Seed!CreateIndex, Seed!Steps
    <2>2. StoreTypes'
      BY <1>6 DEF SeedTypes, StoreTypes, Seed!CreateIndex
    <2>3. QED BY <2>1, <2>2 DEF SeedTypes
  <1>7. CASE Seed!IndexDocument(r)
    <2>1. RequestTypes'
      BY <1>4, <1>7, TypesGoto DEF SeedTypes, Seed!IndexDocument, Seed!Steps
    <2>2. StoreTypes'
      <3>1. CASE todo[r] = {}
        BY <1>7, <3>1 DEF SeedTypes, StoreTypes, Seed!IndexDocument, Seed!cache, Seed!Empty
      <3>2. CASE todo[r] # {}
        <4>1. pc[r] = "index" /\ exists' = TRUE /\ UNCHANGED <<visible, nodes, edges, objects, titles, reading>>
              /\ index' = [index EXCEPT ![Seed!First(todo[r])] = corpus[r]]
          BY <1>7, <3>2 DEF Seed!IndexDocument, Seed!cache
        <4>2. index' \in [Units -> Corpora \union {None}]
          BY <1>4, <3>2, <4>1, WrittenTypes DEF SeedTypes, StoreTypes
        <4>3. QED BY <4>1, <4>2 DEF SeedTypes, StoreTypes
      <3>3. QED BY <3>1, <3>2
    <2>3. QED BY <2>1, <2>2 DEF SeedTypes
  <1>8. CASE Seed!Refresh(r)
    <2>1. RequestTypes'
      BY <1>8, TypesGoto DEF SeedTypes, Seed!Refresh, Seed!Steps
    <2>2. StoreTypes'
      BY <1>8 DEF SeedTypes, StoreTypes, Seed!Refresh, Seed!cache
    <2>3. QED BY <2>1, <2>2 DEF SeedTypes
  <1>9. CASE Seed!ClearGraph(r)
    <2>1. RequestTypes'
      BY <1>2, <1>9, TypesGoto DEF SeedTypes, Seed!ClearGraph, Seed!Steps
    <2>2. StoreTypes'
      BY <1>1, <1>9 DEF SeedTypes, StoreTypes, Seed!ClearGraph, Seed!cache
    <2>3. QED BY <2>1, <2>2 DEF SeedTypes
  <1>10. CASE Seed!SeedNodes(r)
    <2>1. RequestTypes'
      BY <1>2, <1>4, <1>10, TypesGoto DEF SeedTypes, Seed!SeedNodes, Seed!Steps
    <2>2. StoreTypes'
      BY <1>4, <1>10, WrittenTypes DEF SeedTypes, StoreTypes, Seed!SeedNodes, Seed!cache
    <2>3. QED BY <2>1, <2>2 DEF SeedTypes
  <1>11. CASE Seed!SeedEdges(r)
    <2>1. CASE todo[r] = {}
      <3>1. Seed!Goto(r, "prune", {}) /\ pc[r] = "edges" /\ UNCHANGED <<exists, index, visible, nodes, edges, objects, titles, reading>>
        BY <1>11, <2>1 DEF Seed!SeedEdges, Seed!cache
      <3>2. RequestTypes'
        BY <3>1, TypesGoto DEF SeedTypes, Seed!Steps
      <3>3. StoreTypes'
        BY <3>1 DEF SeedTypes, StoreTypes
      <3>4. QED BY <3>2, <3>3 DEF SeedTypes
    <2>2. CASE todo[r] # {}
      <3>1. PICK l \in todo[r] :
              /\ edges' = IF {l[1], l[2]} \subseteq Seed!Named(nodes)
                          THEN [edges EXCEPT ![l] = corpus[r]] ELSE edges
              /\ Seed!Goto(r, "edges", todo[r] \ {l})
        BY <1>11, <2>2 DEF Seed!SeedEdges
      <3>2. pc[r] = "edges" /\ UNCHANGED <<exists, index, visible, nodes, objects, titles, reading>>
        BY <1>11 DEF Seed!SeedEdges, Seed!cache
      <3>3. RequestTypes'
        BY <3>1, <3>2, TypesGoto DEF SeedTypes, RequestTypes, Seed!Steps
      <3>4. edges' \in [AllLinks -> Corpora \union {None}]
        BY <1>2, <3>1, <3>2 DEF SeedTypes, StoreTypes, RequestTypes
      <3>5. StoreTypes'
        BY <3>2, <3>4 DEF SeedTypes, StoreTypes
      <3>6. QED BY <3>3, <3>5 DEF SeedTypes
    <2>3. QED BY <2>1, <2>2
  <1>12. CASE Seed!Prune(r)
    <2>1. RequestTypes'
      BY <1>2, <1>12, TypesGoto DEF SeedTypes, Seed!Prune, Seed!Steps
    <2>2. StoreTypes'
      BY <1>12 DEF SeedTypes, StoreTypes, Seed!Prune, Seed!cache, Units
    <2>3. QED BY <2>1, <2>2 DEF SeedTypes
  <1>13. CASE Seed!PutObject(r)
    <2>1. RequestTypes'
      BY <1>4, <1>13, TypesGoto DEF SeedTypes, Seed!PutObject, Seed!Steps
    <2>2. StoreTypes'
      BY <1>4, <1>13, WrittenTypes DEF SeedTypes, StoreTypes, Seed!PutObject, Seed!cache
    <2>3. QED BY <2>1, <2>2 DEF SeedTypes
  <1>14. CASE Seed!Fail(r)
    <2>1. RequestTypes'
      BY <1>14 DEF SeedTypes, RequestTypes, Seed!Fail, Seed!Steps
    <2>2. StoreTypes'
      BY <1>14 DEF SeedTypes, StoreTypes, Seed!Fail, Seed!cache, Units
    <2>3. QED BY <2>1, <2>2 DEF SeedTypes
  <1>15. QED BY <1>5, <1>6, <1>7, <1>8, <1>9, <1>10, <1>11, <1>12, <1>13, <1>14 DEF Seed!Step

LEMMA TypesStep == SeedTypes /\ Seed!Next => SeedTypes'
  <1> SUFFICES ASSUME SeedTypes, Seed!Next
               PROVE  SeedTypes'
    OBVIOUS
  <1>1. CASE \E r \in Requests : Seed!Step(r)
    BY <1>1, TypesBegin, TypesRequest
  <1>2. CASE Seed!Crash
    <2>1. RequestTypes'
      BY <1>2 DEF SeedTypes, RequestTypes, Seed!Crash, Seed!Steps
    <2>2. StoreTypes'
      BY <1>2 DEF SeedTypes, StoreTypes, Seed!Crash, Seed!stores
    <2>3. QED BY <2>1, <2>2 DEF SeedTypes
  <1>3. CASE Seed!AutoRefresh
    <2>1. UNCHANGED <<pc, corpus, todo, episode>>
      BY <1>3 DEF Seed!AutoRefresh
    <2>2. RequestTypes'
      BY <2>1 DEF SeedTypes, RequestTypes
    <2>3. StoreTypes'
      BY <1>3 DEF SeedTypes, StoreTypes, Seed!AutoRefresh, Seed!cache
    <2>4. QED BY <2>2, <2>3 DEF SeedTypes
  <1>4. CASE Seed!ReadTitles \/ Seed!KeepTitles
    <2>1. UNCHANGED <<exists, index, visible, nodes, edges, objects, pc, corpus, todo, episode>>
      BY <1>4 DEF Seed!ReadTitles, Seed!KeepTitles, Seed!stores
    <2>2. Seed!Named(visible) \subseteq Units
      BY DEF SeedTypes, StoreTypes, Seed!Named
    <2>3. titles' \in (SUBSET Units) \union {None} /\ reading' \in (SUBSET Units) \union {None}
      BY <1>4, <2>2 DEF SeedTypes, StoreTypes, Seed!ReadTitles, Seed!KeepTitles
    <2>4. QED BY <2>1, <2>3 DEF SeedTypes, StoreTypes, RequestTypes
  <1>5. QED BY <1>1, <1>2, <1>3, <1>4 DEF Seed!Next

-----------------------------------------------------------------------------
\* What a move of a request does to the conditions on the requests that have still to write.
LEMMA Moved ==
  ASSUME RequestTypes, NEW r \in Requests, NEW s \in Seed!Steps, NEW work, pc[r] # "idle",
         Seed!Goto(r, s, work)
  PROVE  /\ \A X : s \in X => Before(X)'
         /\ \A X : Before(X) /\ pc[r] \notin X => Before(X)'
         /\ \A X : AllBefore(X) /\ s \in X \ {"idle"} => AllBefore(X)'
         /\ \A k, x : k = s /\ x \in work => Writes(k, x)'
         /\ \A k, x : Writes(k, x) /\ (pc[r] # k \/ x \notin todo[r]) => Writes(k, x)'
         /\ episode' = episode /\ corpus' = corpus
  BY DEF RequestTypes, Seed!Goto, Before, AllBefore, Writes, Seed!Busy

LEMMA GotoIs ==
  ASSUME RequestTypes, NEW r \in Requests
  PROVE  \A s, work : Seed!Goto(r, s, work) => pc'[r] = s /\ todo'[r] = work
  BY DEF RequestTypes, Seed!Goto

\* A request of the corpus c works beside others of the same corpus.
Works(c, r) ==
    /\ SeedTypes /\ c \in Corpora /\ r \in Requests
    /\ pc[r] # "idle" /\ corpus[r] = c
    /\ Seed!Step(r) /\ ~Seed!Begin(r) /\ ~Seed!Fail(r)

\* Where a request goes from the step it is at.
Follows(r, c) ==
    LET a == pc[r]
        s == pc'[r]
        work == todo'[r]
    IN \/ a = "delete" /\ s = "create" /\ work = {}
       \/ a = "create" /\ s = "index" /\ work = Docs[c]
       \/ a = "index" /\ todo[r] = {} /\ s = "refresh" /\ work = {}
       \/ a = "refresh" /\ s = "clear" /\ work = {}
       \/ a = "clear" /\ s = "nodes" /\ work = Docs[c]
       \/ a = "nodes" /\ todo[r] = {} /\ s = "edges" /\ work = Links[c]
       \/ a = "edges" /\ todo[r] = {} /\ s = "prune" /\ work = {}
       \/ a = "prune" /\ s = "objects" /\ work = Docs[c]
       \/ a = "objects" /\ todo[r] = {} /\ s = "idle" /\ work = {}
       \/ /\ a \in {"index", "nodes", "edges", "objects"} /\ s = a
          /\ \E x \in todo[r] : work = todo[r] \ {x}

LEMMA StepMoves ==
  ASSUME NEW c, NEW r, Works(c, r)
  PROVE  /\ Seed!Goto(r, pc'[r], todo'[r]) /\ pc'[r] \in Seed!Steps /\ Follows(r, c)
         /\ pc[r] \notin {"delete", "create", "index"} => UNCHANGED <<exists, index>>
         /\ pc[r] \notin {"delete", "refresh"} => UNCHANGED visible
         /\ pc[r] \notin {"clear", "nodes"} => UNCHANGED nodes
         /\ pc[r] \notin {"clear", "edges"} => UNCHANGED edges
         /\ pc[r] \notin {"prune", "objects"} => UNCHANGED objects
  <1> USE DEF Works
  <1>0. \A S : todo[r] = S /\ S # {} /\ pc[r] \in {"index", "nodes", "objects"} => Seed!First(S) \in S
    BY FirstIsMember DEF SeedTypes, RequestTypes
  <1> DEFINE s == pc'[r]
             work == todo'[r]
  <1>11. \A k, w : Seed!Goto(r, k, w) => s = k /\ work = w
    BY GotoIs DEF SeedTypes
  <1>1. CASE Seed!DeleteIndex(r)
    BY <1>11, <1>1 DEF Seed!DeleteIndex, Follows, Seed!Steps
  <1>2. CASE Seed!CreateIndex(r)
    BY <1>11, <1>2 DEF Seed!CreateIndex, Follows, Seed!Steps
  <1>3. CASE Seed!IndexDocument(r)
    BY <1>11, <1>0, <1>3 DEF Seed!IndexDocument, Follows, Seed!Steps
  <1>4. CASE Seed!Refresh(r)
    BY <1>11, <1>4 DEF Seed!Refresh, Follows, Seed!Steps
  <1>5. CASE Seed!ClearGraph(r)
    BY <1>11, <1>5 DEF Seed!ClearGraph, Follows, Seed!Steps
  <1>6. CASE Seed!SeedNodes(r)
    BY <1>11, <1>0, <1>6 DEF Seed!SeedNodes, Follows, Seed!Steps
  <1>7. CASE Seed!SeedEdges(r)
    BY <1>11, <1>7 DEF Seed!SeedEdges, Follows, Seed!Steps
  <1>8. CASE Seed!Prune(r)
    BY <1>11, <1>8 DEF Seed!Prune, Follows, Seed!Steps
  <1>9. CASE Seed!PutObject(r)
    BY <1>11, <1>0, <1>9 DEF Seed!PutObject, Follows, Seed!Steps
  <1>10. QED BY <1>1, <1>2, <1>3, <1>4, <1>5, <1>6, <1>7, <1>8, <1>9 DEF Seed!Step

\* The step that a request is at tells which of its steps it takes.
LEMMA Handlers ==
  ASSUME NEW c, NEW r, Works(c, r)
  PROVE  /\ pc[r] = "delete" => Seed!DeleteIndex(r)
         /\ pc[r] = "create" => Seed!CreateIndex(r)
         /\ pc[r] = "index" => Seed!IndexDocument(r)
         /\ pc[r] = "refresh" => Seed!Refresh(r)
         /\ pc[r] = "clear" => Seed!ClearGraph(r)
         /\ pc[r] = "nodes" => Seed!SeedNodes(r)
         /\ pc[r] = "edges" => Seed!SeedEdges(r)
         /\ pc[r] = "prune" => Seed!Prune(r)
         /\ pc[r] = "objects" => Seed!PutObject(r)
  BY DEF Works, Seed!Step, Seed!DeleteIndex, Seed!CreateIndex, Seed!IndexDocument, Seed!Refresh,
         Seed!ClearGraph, Seed!SeedNodes, Seed!SeedEdges, Seed!Prune, Seed!PutObject

\* A request that has still to write a record goes on until it writes it.
LEMMA StillToWrite ==
  ASSUME NEW c, NEW r, Works(c, r)
  PROVE  /\ \A x \in Docs[c] :
              /\ Before(Resets) \/ Writes("index", x) =>
                   Before(Resets)' \/ Writes("index", x)' \/ (pc[r] = "index" /\ x \in todo[r] /\ x \notin todo'[r])
              /\ Before(Clears) \/ Writes("nodes", x) =>
                   Before(Clears)' \/ Writes("nodes", x)' \/ (pc[r] = "nodes" /\ x \in todo[r] /\ x \notin todo'[r])
              /\ Before(Unpruned) \/ Writes("objects", x) =>
                   Before(Unpruned)' \/ Writes("objects", x)' \/ (pc[r] = "objects" /\ x \in todo[r] /\ x \notin todo'[r])
         /\ \A x \in Links[c] :
              Before(Unlinked) \/ Writes("edges", x) =>
                   Before(Unlinked)' \/ Writes("edges", x)' \/ (pc[r] = "edges" /\ x \in todo[r] /\ x \notin todo'[r])
         /\ Before(Unseen) /\ pc[r] # "refresh" => Before(Unseen)'
         /\ Before(Resets) /\ pc[r] # "create" => Before(Resets)'
         /\ AllBefore(Resets) /\ pc[r] # "create" => AllBefore(Resets)'
         /\ AllBefore(Clears) /\ pc[r] # "clear" => AllBefore(Clears)'
         /\ AllBefore(Unpruned) /\ pc[r] # "prune" => AllBefore(Unpruned)'
  <1> USE DEF Resets, Unseen, Clears, Unlinked, Unpruned
  <1> DEFINE a == pc[r]
             s == pc'[r]
             work == todo'[r]
  <1>1. Seed!Goto(r, s, work) /\ s \in Seed!Steps /\ Follows(r, c)
    BY StepMoves
  <1>2. RequestTypes /\ r \in Requests /\ pc[r] # "idle"
    BY DEF Works, SeedTypes
  <1>4. \A X : s \in X => Before(X)'
    BY <1>1, <1>2, Moved
  <1>5. \A X : Before(X) /\ a \notin X => Before(X)'
    BY <1>1, <1>2, Moved
  <1>6. \A X : AllBefore(X) /\ s \in X \ {"idle"} => AllBefore(X)'
    BY <1>1, <1>2, Moved
  <1>7. \A k, x : k = s /\ x \in work => Writes(k, x)'
    BY <1>1, <1>2, Moved
  <1>8. \A k, x : Writes(k, x) /\ (a # k \/ x \notin todo[r]) => Writes(k, x)'
    BY <1>1, <1>2, Moved
  <1>9. Follows(r, c)
    BY <1>1
  <1>10. \A X : AllBefore(X) => a \in X
    BY <1>2 DEF AllBefore, Seed!Busy
  <1> HIDE DEF a, s, work
  <1>11. \A x \in Docs[c] : Before(Resets) \/ Writes("index", x) =>
           Before(Resets)' \/ Writes("index", x)' \/ (a = "index" /\ x \in todo[r] /\ x \notin todo'[r])
    BY <1>4, <1>5, <1>7, <1>8, <1>9 DEF Follows, a, s, work
  <1>12. \A x \in Docs[c] : Before(Clears) \/ Writes("nodes", x) =>
           Before(Clears)' \/ Writes("nodes", x)' \/ (a = "nodes" /\ x \in todo[r] /\ x \notin todo'[r])
    BY <1>4, <1>5, <1>7, <1>8, <1>9 DEF Follows, a, s, work
  <1>13. \A x \in Docs[c] : Before(Unpruned) \/ Writes("objects", x) =>
           Before(Unpruned)' \/ Writes("objects", x)' \/ (a = "objects" /\ x \in todo[r] /\ x \notin todo'[r])
    BY <1>4, <1>5, <1>7, <1>8, <1>9 DEF Follows, a, s, work
  <1>14. \A x \in Links[c] : Before(Unlinked) \/ Writes("edges", x) =>
           Before(Unlinked)' \/ Writes("edges", x)' \/ (a = "edges" /\ x \in todo[r] /\ x \notin todo'[r])
    BY <1>4, <1>5, <1>7, <1>8, <1>9 DEF Follows, a, s, work
  <1>15. /\ Before(Unseen) /\ a # "refresh" => Before(Unseen)'
         /\ Before(Resets) /\ a # "create" => Before(Resets)'
    BY <1>4, <1>5, <1>9 DEF Follows, a, s, work
  <1>16. /\ AllBefore(Resets) /\ a # "create" => AllBefore(Resets)'
         /\ AllBefore(Clears) /\ a # "clear" => AllBefore(Clears)'
         /\ AllBefore(Unpruned) /\ a # "prune" => AllBefore(Unpruned)'
    BY <1>6, <1>9, <1>10 DEF Follows, a, s, work
  <1>17. QED BY <1>11, <1>12, <1>13, <1>14, <1>15, <1>16 DEF a

LEMMA IndexWork ==
  ASSUME NEW c, NEW r, Works(c, r), IndexInv(c)
  PROVE  IndexInv(c)'
  <1> USE DEF Works
  <1> DEFINE u == Seed!First(todo[r])
  <1>1. pc[r] \in {"index"} /\ todo[r] # {} => u \in todo[r] /\ todo[r] \in SUBSET Docs[c]
    BY FirstIsMember DEF SeedTypes, RequestTypes
  <1>2. (exists \/ Before(Resets))'
    <2>1. CASE pc[r] = "delete"
      <3>1. Before(Resets)'
        BY <2>1, StillToWrite DEF Before, Resets
      <3>2. QED BY <3>1
    <2>2. CASE pc[r] = "create"
      <3>1. Seed!CreateIndex(r)
        BY <2>2, Handlers
      <3>2. QED BY <3>1 DEF Seed!CreateIndex
    <2>3. CASE pc[r] \notin Resets
      <3>1. exists' = exists \/ exists' = TRUE
        BY <2>3, StepMoves, Handlers DEF Resets, Seed!IndexDocument
      <3>2. Before(Resets) => Before(Resets)'
        BY <2>3, StillToWrite DEF Resets
      <3>3. QED BY <3>1, <3>2 DEF IndexInv
    <2>4. QED BY <2>1, <2>2, <2>3 DEF Resets
  <1>3. CASE pc[r] = "delete"
    <2>1. Before(Resets)'
      BY <1>3, StillToWrite DEF Before, Resets
    <2>2. index' = Seed!Empty \/ index' = index
      <3>1. Seed!DeleteIndex(r)
        BY <1>3, Handlers
      <3>2. QED BY <3>1 DEF Seed!DeleteIndex
    <2>3. Clean(index, c, Docs[c], Resets)'
      <3>1. AllBefore(Resets) => AllBefore(Resets)'
        BY <1>3, StillToWrite
      <3>2. CASE index' = index
        BY <3>1, <3>2 DEF IndexInv, Clean
      <3>3. CASE index' = Seed!Empty
        BY <3>3 DEF Clean, Seed!Empty
      <3>4. QED BY <2>2, <3>2, <3>3
    <2>4. QED BY <1>2, <2>1, <2>3 DEF IndexInv, Filled
  <1>4. CASE pc[r] = "create"
    <2>1. Seed!CreateIndex(r)
      BY <1>4, Handlers
    <2>2. index' = Seed!Empty
      BY <2>1 DEF Seed!CreateIndex, SeedTypes, StoreTypes
    <2>3. pc'[r] = "index" /\ todo'[r] = Docs[c]
      BY <1>4, StepMoves DEF Follows
    <2>4. \A x \in Docs[c] : Writes("index", x)'
      BY <2>3 DEF Writes
    <2>5. QED BY <1>2, <2>2, <2>4 DEF IndexInv, Filled, Clean, Seed!Empty
  <1>5. CASE pc[r] = "index"
    <2>1. Seed!IndexDocument(r)
      BY <1>5, Handlers
    <2>2. ~AllBefore(Resets)
      BY <1>5 DEF AllBefore, Resets, Seed!Busy
    <2>3. CASE todo[r] = {}
      <3>1. index' = index
        BY <2>1, <2>3 DEF Seed!IndexDocument
      <3>2. QED BY <1>2, <1>5, <2>2, <2>3, <3>1, StillToWrite DEF IndexInv, Filled, Clean
    <2>4. CASE todo[r] # {}
      <3>1. index' = [index EXCEPT ![u] = c] /\ todo' = [todo EXCEPT ![r] = todo[r] \ {u}]
        BY <2>1, <2>4 DEF Seed!IndexDocument, Seed!Goto
      <3>2. u \in Docs[c] /\ index \in [Units -> Corpora \union {None}] /\ u \in Units
        BY <1>1, <1>5, <2>4, CorpusUnits DEF SeedTypes, StoreTypes
      <3>3. index'[u] = c /\ DOMAIN index' = DOMAIN index /\ \A x \in DOMAIN index : x # u => index'[x] = index[x]
        BY <3>1, <3>2
      <3>4. Clean(index, c, Docs[c], Resets)'
        BY <2>2, <3>2, <3>3 DEF IndexInv, Clean
      <3>5. todo'[r] = todo[r] \ {u}
        BY <3>1 DEF SeedTypes, RequestTypes
      <3>6. ASSUME NEW x \in Docs[c]
            PROVE  index'[x] = c \/ Before(Resets)' \/ Writes("index", x)'
        <4>1. CASE x = u
          BY <3>3, <4>1
        <4>2. CASE x # u
          <5>1. index'[x] = index[x]
            BY <3>2, <3>3, <4>2, CorpusUnits
          <5>2. index[x] = c \/ Before(Resets) \/ Writes("index", x)
            BY DEF IndexInv, Filled
          <5>3. ~(x \in todo[r] /\ x \notin todo'[r])
            BY <3>5, <4>2
          <5>4. QED BY <5>1, <5>2, <5>3, StillToWrite
        <4>3. QED BY <4>1, <4>2
      <3>7. Filled(index, c, Docs[c], Resets, "index")'
        BY <3>6 DEF Filled
      <3>8. QED BY <1>2, <3>4, <3>7 DEF IndexInv
    <2>5. QED BY <2>3, <2>4
  <1>6. CASE pc[r] \notin {"delete", "create", "index"}
    <2>1. index' = index /\ ~AllBefore(Resets)
      BY <1>6, StepMoves DEF AllBefore, Resets, Seed!Busy
    <2>2. QED BY <1>2, <1>6, <2>1, StillToWrite DEF IndexInv, Filled, Clean
  <1>7. QED BY <1>3, <1>4, <1>5, <1>6

LEMMA VisibleWork ==
  ASSUME NEW c, NEW r, Works(c, r), VisibleInv(c)
  PROVE  VisibleInv(c)'
  <1>1. CASE pc[r] = "refresh"
    BY <1>1, Handlers DEF Seed!Refresh, VisibleInv
  <1>2. CASE pc[r] \in Unseen \ {"refresh"}
    <2>1. Before(Unseen)
      BY <1>2 DEF Before, Works
    <2>2. QED BY <1>2, <2>1, StillToWrite DEF VisibleInv
  <1>3. CASE pc[r] \notin Unseen
    <2>1. UNCHANGED <<visible, index>> /\ pc[r] # "refresh"
      BY <1>3, StepMoves DEF Unseen, Resets
    <2>2. QED BY <2>1, StillToWrite DEF VisibleInv
  <1>4. QED BY <1>1, <1>2, <1>3 DEF Unseen

LEMMA NodesWork ==
  ASSUME NEW c, NEW r, Works(c, r), NodesInv(c)
  PROVE  NodesInv(c)'
  <1> USE DEF Works
  <1> DEFINE u == Seed!First(todo[r])
  <1>1. CASE pc[r] = "clear"
    <2>1. nodes' = Seed!Empty
      BY <1>1, Handlers DEF Seed!ClearGraph
    <2>2. \A x \in Docs[c] : Writes("nodes", x)'
      BY <1>1, StepMoves DEF Follows, Writes
    <2>3. QED BY <2>1, <2>2 DEF NodesInv, Filled, Clean, Seed!Empty
  <1>2. CASE pc[r] = "nodes" /\ todo[r] # {}
    <2>1. u \in todo[r] /\ todo[r] \in SUBSET Docs[c] /\ u \in Units
      BY <1>2, FirstIsMember, CorpusUnits DEF SeedTypes, RequestTypes
    <2>2. nodes' = [nodes EXCEPT ![u] = c] /\ todo' = [todo EXCEPT ![r] = todo[r] \ {u}]
      BY <1>2, Handlers DEF Seed!SeedNodes, Seed!Goto
    <2>3. nodes'[u] = c /\ DOMAIN nodes' = DOMAIN nodes /\ \A x \in DOMAIN nodes : x # u => nodes'[x] = nodes[x]
      BY <2>1, <2>2 DEF SeedTypes, StoreTypes
    <2>4. Clean(nodes, c, Docs[c], Clears)'
      <3>1. ~AllBefore(Clears)
        BY <1>2 DEF AllBefore, Clears, Unseen, Resets, Seed!Busy
      <3>2. QED BY <2>1, <2>3, <3>1 DEF NodesInv, Clean
    <2>5. ASSUME NEW x \in Docs[c]
          PROVE  nodes'[x] = c \/ Before(Clears)' \/ Writes("nodes", x)'
      <3>1. CASE x = u
        BY <2>3, <3>1
      <3>2. CASE x # u
        <4>1. nodes'[x] = nodes[x]
          BY <2>3, <3>2, CorpusUnits DEF SeedTypes, StoreTypes
        <4>2. nodes[x] = c \/ Before(Clears) \/ Writes("nodes", x)
          BY DEF NodesInv, Filled
        <4>3. ~(x \in todo[r] /\ x \notin todo'[r])
          BY <2>2, <3>2 DEF SeedTypes, RequestTypes
        <4>4. QED BY <4>1, <4>2, <4>3, StillToWrite
      <3>3. QED BY <3>1, <3>2
    <2>6. Filled(nodes, c, Docs[c], Clears, "nodes")'
      BY <2>5 DEF Filled
    <2>7. QED BY <2>4, <2>6 DEF NodesInv
  <1>3. CASE pc[r] # "clear" /\ (pc[r] = "nodes" => todo[r] = {})
    <2>1. nodes' = nodes
      BY <1>3, StepMoves, Handlers DEF Seed!SeedNodes
    <2>2. QED BY <1>3, <2>1, StillToWrite DEF NodesInv, Filled, Clean
  <1>4. QED BY <1>1, <1>2, <1>3

\* An edge is only left out while one of its ends is still to come, and then the request
\* that brings the end brings the edge after it.
LEMMA EdgesWork ==
  ASSUME NEW c, NEW r, Works(c, r), NodesInv(c), EdgesInv(c)
  PROVE  EdgesInv(c)'
  <1> USE DEF Works
  <1>1. CASE pc[r] = "clear"
    <2>1. edges' = Seed!NoEdges
      BY <1>1, Handlers DEF Seed!ClearGraph
    <2>2. Before(Unlinked)'
      BY <1>1, StepMoves DEF Follows, Before, Unlinked
    <2>3. QED BY <2>1, <2>2 DEF EdgesInv, Filled, Clean, Seed!NoEdges
  <1>2. CASE pc[r] = "edges" /\ todo[r] # {}
    <2>1. PICK l \in todo[r] :
            /\ edges' = IF {l[1], l[2]} \subseteq Seed!Named(nodes)
                        THEN [edges EXCEPT ![l] = c] ELSE edges
            /\ todo' = [todo EXCEPT ![r] = todo[r] \ {l}]
      BY <1>2, Handlers DEF Seed!SeedEdges, Seed!Goto
    <2>2. l \in Links[c] /\ l \in AllLinks
      BY <1>2, CorpusUnits DEF SeedTypes, RequestTypes
    <2>3. DOMAIN edges' = DOMAIN edges /\ (\A x \in DOMAIN edges : x # l => edges'[x] = edges[x])
          /\ edges'[l] \in {c, edges[l]} /\ ({l[1], l[2]} \subseteq Seed!Named(nodes) => edges'[l] = c)
      BY <2>1, <2>2 DEF SeedTypes, StoreTypes
    <2>4. Clean(edges, c, Links[c], Clears)'
      <3>1. ~AllBefore(Clears)
        BY <1>2 DEF AllBefore, Clears, Unseen, Resets, Seed!Busy
      <3>2. QED BY <2>2, <2>3, <3>1 DEF EdgesInv, Clean
    <2>5. Before(Unlinked) => Before(Unlinked)'
      <3>1. pc'[r] = "edges" /\ \A q \in Requests : q # r => pc'[q] = pc[q]
        BY <1>2, <2>1, StepMoves DEF Follows, Seed!Goto, SeedTypes, RequestTypes
      <3>2. QED BY <1>2, <3>1 DEF Before, Unlinked, Clears, Unseen, Resets
    <2>6. ASSUME ~({l[1], l[2]} \subseteq Seed!Named(nodes))
          PROVE  Before(Unlinked)
      <3>1. PICK x \in Docs[c] : nodes[x] = None
        BY <2>2, <2>6, CorpusAssumption, CorpusUnits DEF Seed!Named, SeedTypes, StoreTypes
      <3>2. Before(Clears) \/ Writes("nodes", x)
        BY <3>1, CorpusAssumption DEF NodesInv, Filled
      <3>3. QED BY <3>2 DEF Before, Writes, Unlinked
    <2>7. ASSUME NEW x \in Links[c]
          PROVE  edges'[x] = c \/ Before(Unlinked)' \/ Writes("edges", x)'
      <3>1. CASE x = l
        BY <2>3, <2>5, <2>6, <3>1
      <3>2. CASE x # l
        <4>1. edges'[x] = edges[x]
          BY <2>3, <3>2, CorpusUnits DEF SeedTypes, StoreTypes
        <4>2. edges[x] = c \/ Before(Unlinked) \/ Writes("edges", x)
          BY DEF EdgesInv, Filled
        <4>3. ~(x \in todo[r] /\ x \notin todo'[r])
          BY <2>1, <3>2 DEF SeedTypes, RequestTypes
        <4>4. QED BY <4>1, <4>2, <4>3, StillToWrite
      <3>3. QED BY <3>1, <3>2
    <2>8. Filled(edges, c, Links[c], Unlinked, "edges")'
      BY <2>7 DEF Filled
    <2>9. QED BY <2>4, <2>8 DEF EdgesInv
  <1>3. CASE pc[r] # "clear" /\ (pc[r] = "edges" => todo[r] = {})
    <2>1. edges' = edges
      BY <1>3, StepMoves, Handlers DEF Seed!SeedEdges
    <2>2. QED BY <1>3, <2>1, StillToWrite DEF EdgesInv, Filled, Clean
  <1>4. QED BY <1>1, <1>2, <1>3

LEMMA ObjectsWork ==
  ASSUME NEW c, NEW r, Works(c, r), ObjectsInv(c)
  PROVE  ObjectsInv(c)'
  <1> USE DEF Works
  <1> DEFINE u == Seed!First(todo[r])
  <1>1. CASE pc[r] = "prune"
    <2>1. objects' = [x \in Units |-> IF x \in Seed!Stale(c) THEN None ELSE objects[x]]
      BY <1>1, Handlers DEF Seed!Prune, Units
    <2>2. \A x \in Docs[c] : Writes("objects", x)'
      BY <1>1, StepMoves DEF Follows, Writes
    <2>3. Pruned(c)'
      BY <2>1 DEF Pruned, Seed!Stale, Seed!Named, SeedTypes, StoreTypes
    <2>4. QED BY <2>2, <2>3 DEF ObjectsInv, Filled
  <1>2. CASE pc[r] = "objects" /\ todo[r] # {}
    <2>1. u \in todo[r] /\ todo[r] \in SUBSET Docs[c] /\ u \in Units
      BY <1>2, FirstIsMember, CorpusUnits DEF SeedTypes, RequestTypes
    <2>2. objects' = [objects EXCEPT ![u] = c] /\ todo' = [todo EXCEPT ![r] = todo[r] \ {u}]
      BY <1>2, Handlers DEF Seed!PutObject, Seed!Goto
    <2>3. objects'[u] = c /\ DOMAIN objects' = DOMAIN objects
          /\ \A x \in DOMAIN objects : x # u => objects'[x] = objects[x]
      BY <2>1, <2>2 DEF SeedTypes, StoreTypes
    <2>4. Pruned(c)'
      <3>1. ~AllBefore(Unpruned)
        BY <1>2 DEF AllBefore, Unpruned, Unlinked, Clears, Unseen, Resets, Seed!Busy
      <3>2. QED BY <2>1, <2>3, <3>1 DEF ObjectsInv, Pruned
    <2>5. ASSUME NEW x \in Docs[c]
          PROVE  objects'[x] = c \/ Before(Unpruned)' \/ Writes("objects", x)'
      <3>1. CASE x = u
        BY <2>3, <3>1
      <3>2. CASE x # u
        <4>1. objects'[x] = objects[x]
          BY <2>3, <3>2, CorpusUnits DEF SeedTypes, StoreTypes
        <4>2. objects[x] = c \/ Before(Unpruned) \/ Writes("objects", x)
          BY DEF ObjectsInv, Filled
        <4>3. ~(x \in todo[r] /\ x \notin todo'[r])
          BY <2>2, <3>2 DEF SeedTypes, RequestTypes
        <4>4. QED BY <4>1, <4>2, <4>3, StillToWrite
      <3>3. QED BY <3>1, <3>2
    <2>6. Filled(objects, c, Docs[c], Unpruned, "objects")'
      BY <2>5 DEF Filled
    <2>7. QED BY <2>4, <2>6 DEF ObjectsInv
  <1>3. CASE pc[r] # "prune" /\ (pc[r] = "objects" => todo[r] = {})
    <2>1. objects' = objects
      BY <1>3, StepMoves, Handlers DEF Seed!PutObject
    <2>2. QED BY <1>3, <2>1, StillToWrite DEF ObjectsInv, Filled, Pruned
  <1>4. QED BY <1>1, <1>2, <1>3

Progress(c) == IndexInv(c) /\ VisibleInv(c) /\ NodesInv(c) /\ EdgesInv(c) /\ ObjectsInv(c)

SeedInv == SeedTypes /\ \A c \in Corpora : episode = {c} => Progress(c)

\* A new pause is over: nothing is promised before the request has gone on.
LEMMA FreshStart ==
  ASSUME NEW c \in Corpora, NEW r \in Requests, SeedTypes, Seed!Begin(r), Seed!Busy = {}
  PROVE  Progress(c)'
  <1>1. pc' = [pc EXCEPT ![r] = "delete"] /\ \A q \in Requests : pc[q] = "idle"
    BY DEF Seed!Begin, Seed!Busy
  <1>2. pc'[r] = "delete" /\ \A q \in Requests : pc'[q] # "idle" => pc'[q] = "delete"
    BY <1>1 DEF SeedTypes, RequestTypes
  <1>3. Before(Resets)' /\ Before(Unseen)' /\ Before(Clears)' /\ Before(Unlinked)' /\ Before(Unpruned)'
    BY <1>2 DEF Before, Resets, Unseen, Clears, Unlinked, Unpruned
  <1>4. AllBefore(Resets)' /\ AllBefore(Clears)' /\ AllBefore(Unpruned)'
    BY <1>2 DEF AllBefore, Resets, Unseen, Clears, Unlinked, Unpruned, Seed!Busy
  <1>5. QED BY <1>3, <1>4 DEF Progress, IndexInv, VisibleInv, NodesInv, EdgesInv, ObjectsInv, Filled, Clean, Pruned

\* A request that joins others has everything still to do.
LEMMA Joins ==
  ASSUME NEW c \in Corpora, NEW r \in Requests, SeedTypes, Progress(c), Seed!Begin(r), Seed!Busy # {}
  PROVE  Progress(c)'
  <1>1. /\ pc[r] = "idle" /\ pc' = [pc EXCEPT ![r] = "delete"]
        /\ UNCHANGED <<exists, index, visible, nodes, edges, objects, todo>>
    BY DEF Seed!Begin, Seed!stores
  <1>2. pc'[r] = "delete" /\ \A q \in Requests : q # r => pc'[q] = pc[q]
    BY <1>1 DEF SeedTypes, RequestTypes
  <1>3. Before(Resets)' /\ Before(Unseen)' /\ Before(Clears)' /\ Before(Unlinked)' /\ Before(Unpruned)'
    BY <1>2 DEF Before, Resets, Unseen, Clears, Unlinked, Unpruned
  <1>4. /\ AllBefore(Resets) => AllBefore(Resets)'
        /\ AllBefore(Clears) => AllBefore(Clears)'
        /\ AllBefore(Unpruned) => AllBefore(Unpruned)'
    BY <1>2 DEF AllBefore, Resets, Unseen, Clears, Unlinked, Unpruned, Seed!Busy
  <1>5. QED
    BY <1>1, <1>3, <1>4 DEF Progress, IndexInv, VisibleInv, NodesInv, EdgesInv, ObjectsInv, Filled, Clean, Pruned

\* What only the search client or the refresh of the index does.
LEMMA Beside ==
  ASSUME NEW c, Progress(c), UNCHANGED <<exists, index, nodes, edges, objects, pc, todo>>,
         visible' \in {visible, index}
  PROVE  Progress(c)'
  <1>1. \A X : Before(X)' = Before(X) /\ AllBefore(X)' = AllBefore(X)
    BY DEF Before, AllBefore, Seed!Busy
  <1>2. \A k, x : Writes(k, x)' = Writes(k, x)
    BY DEF Writes
  <1>3. IndexInv(c)'
    BY <1>1, <1>2 DEF Progress, IndexInv, Filled, Clean
  <1>4. VisibleInv(c)'
    BY <1>1 DEF Progress, VisibleInv
  <1>5. NodesInv(c)' /\ EdgesInv(c)'
    BY <1>1, <1>2 DEF Progress, NodesInv, EdgesInv, Filled, Clean
  <1>6. ObjectsInv(c)'
    BY <1>1, <1>2 DEF Progress, ObjectsInv, Filled, Pruned
  <1>7. QED BY <1>3, <1>4, <1>5, <1>6 DEF Progress

LEMMA SeedInit == Seed!Init => SeedInv
  <1> SUFFICES ASSUME Seed!Init PROVE SeedInv
    OBVIOUS
  <1>1. \A c \in Corpora : episode # {c}
    BY DEF Seed!Init
  <1>2. QED BY <1>1, TypesInit DEF SeedInv

LEMMA SeedNext == SeedInv /\ Seed!Next => SeedInv'
  <1> SUFFICES ASSUME SeedInv, Seed!Next
               PROVE  SeedInv'
    OBVIOUS
  <1>1. SeedTypes'
    BY TypesStep DEF SeedInv
  <1>2. SUFFICES ASSUME NEW c \in Corpora, episode' = {c}
                 PROVE  Progress(c)'
    BY <1>1 DEF SeedInv
  <1>3. c # "failed"
    BY CorpusAssumption
  <1>4. CASE Seed!Crash
    BY <1>2, <1>3, <1>4 DEF Seed!Crash
  <1>5. CASE Seed!AutoRefresh \/ Seed!ReadTitles \/ Seed!KeepTitles
    <2>1. /\ UNCHANGED <<exists, index, nodes, edges, objects, pc, todo, episode>>
          /\ visible' \in {visible, index}
      BY <1>5 DEF Seed!AutoRefresh, Seed!ReadTitles, Seed!KeepTitles, Seed!stores
    <2>2. Progress(c)
      BY <1>2, <2>1 DEF SeedInv
    <2>3. QED BY <2>1, <2>2, Beside
  <1>6. ASSUME NEW r \in Requests, Seed!Begin(r)
        PROVE  Progress(c)'
    <2>1. CASE Seed!Busy = {}
      BY <1>6, <2>1, FreshStart DEF SeedInv
    <2>2. CASE Seed!Busy # {}
      <3>1. \E d \in Corpora : d \in episode
        BY <2>2 DEF SeedInv, SeedTypes, RequestTypes, Seed!Busy
      <3>2. episode \subseteq {c}
        BY <1>2, <1>6, <2>2 DEF Seed!Begin
      <3>3. episode = {c}
        BY <3>1, <3>2
      <3>4. QED BY <1>6, <2>2, <3>3, Joins DEF SeedInv
    <2>3. QED BY <2>1, <2>2
  <1>7. ASSUME NEW r \in Requests, Seed!Step(r), ~Seed!Begin(r)
        PROVE  Progress(c)'
    <2>1. ~Seed!Fail(r)
      BY <1>2, <1>3 DEF Seed!Fail
    <2>2. pc[r] # "idle" /\ episode' = episode
      BY <1>7, <2>1 DEF Seed!Step, Seed!DeleteIndex, Seed!CreateIndex, Seed!IndexDocument, Seed!Refresh,
         Seed!ClearGraph, Seed!SeedNodes, Seed!SeedEdges, Seed!Prune, Seed!PutObject, Seed!Goto
    <2>3. Progress(c) /\ corpus[r] = c
      BY <1>2, <2>2 DEF SeedInv, SeedTypes, RequestTypes
    <2>4. Works(c, r)
      BY <1>7, <2>1, <2>2, <2>3 DEF Works, SeedInv
    <2>5. QED BY <2>3, <2>4, IndexWork, VisibleWork, NodesWork, EdgesWork, ObjectsWork DEF Progress
  <1>8. QED BY <1>4, <1>5, <1>6, <1>7 DEF Seed!Next

\* With no request left, all that was to be written has been written.
LEMMA Rests ==
  ASSUME SeedInv, NEW c \in Corpora, Seed!Busy = {}, episode = {c}
  PROVE  Seed!Holds(c)
  <1>1. \A r \in Requests : pc[r] = "idle"
    BY DEF Seed!Busy
  <1>2. ~Before(Resets) /\ ~Before(Unseen) /\ ~Before(Clears) /\ ~Before(Unlinked) /\ ~Before(Unpruned)
    BY <1>1 DEF Before, Resets, Unseen, Clears, Unlinked, Unpruned
  <1>3. \A x : ~Writes("index", x) /\ ~Writes("nodes", x) /\ ~Writes("edges", x) /\ ~Writes("objects", x)
    BY <1>1 DEF Writes
  <1>4. ~AllBefore(Resets) /\ ~AllBefore(Clears) /\ ~AllBefore(Unpruned)
    BY DEF AllBefore
  <1>5. Progress(c) /\ SeedTypes
    BY DEF SeedInv
  <1>6. exists /\ visible = index
    BY <1>2, <1>5 DEF Progress, IndexInv, VisibleInv
  <1>7. /\ \A x \in Docs[c] : index[x] = c /\ nodes[x] = c /\ objects[x] = c
        /\ \A x \in Links[c] : edges[x] = c
    BY <1>2, <1>3, <1>5 DEF Progress, IndexInv, NodesInv, EdgesInv, ObjectsInv, Filled
  <1>8. /\ \A x \in Units : index[x] = None \/ x \in Docs[c]
        /\ \A x \in Units : nodes[x] = None \/ x \in Docs[c]
        /\ \A x \in AllLinks : edges[x] = None \/ x \in Links[c]
    BY <1>4, <1>5 DEF Progress, IndexInv, NodesInv, EdgesInv, Clean, SeedTypes, StoreTypes
  <1>9. index = Seed!Of(c, Docs[c])
    BY <1>5, <1>7, <1>8 DEF Seed!Of, Units, SeedTypes, StoreTypes
  <1>10. nodes = Seed!Of(c, Docs[c])
    BY <1>5, <1>7, <1>8 DEF Seed!Of, Units, SeedTypes, StoreTypes
  <1>11. edges = [l \in Seed!AllLinks |-> IF l \in Links[c] THEN c ELSE None]
    BY <1>5, <1>7, <1>8 DEF AllLinks, SeedTypes, StoreTypes
  <1>12. c \notin Scenarios => Seed!Named(objects) = Docs[c]
    <2>1. SUFFICES ASSUME c \notin Scenarios
                   PROVE  Seed!Named(objects) = Docs[c]
      OBVIOUS
    <2>2. \A x \in Units : objects[x] = None \/ x \in Docs[c]
      BY <1>4, <1>5, <2>1 DEF Progress, ObjectsInv, Pruned, SeedTypes, StoreTypes
    <2>3. Docs[c] \subseteq Units /\ c # None /\ DOMAIN objects = Units
      BY <1>5, CorpusUnits, CorpusAssumption DEF SeedTypes, StoreTypes
    <2>4. QED BY <1>7, <2>2, <2>3 DEF Seed!Named
  <1>13. QED BY <1>6, <1>7, <1>9, <1>10, <1>11, <1>12 DEF Seed!Holds

-----------------------------------------------------------------------------
(* Whatever requests overlap, fail or are cut off: a record that is named  *)
(* after a corpus is a record of that corpus.                              *)

Recorded(store, items) == \A x \in DOMAIN store : store[x] # None => x \in items[store[x]]
RecordsInv ==
    /\ Recorded(index, Docs) /\ Recorded(visible, Docs) /\ Recorded(nodes, Docs)
    /\ Recorded(edges, Links)

LEMMA WrittenRecord ==
  ASSUME NEW f, NEW g, NEW x, NEW c, NEW items, Recorded(f, items), g = [f EXCEPT ![x] = c], x \in items[c]
  PROVE  Recorded(g, items)
  BY DEF Recorded

LEMMA RecordsInit == Seed!Init => RecordsInv
  BY DEF Seed!Init, RecordsInv, Recorded, Seed!Empty, Seed!NoEdges

LEMMA RecordsRequest ==
  ASSUME SeedTypes, RecordsInv, NEW r \in Requests, Seed!Step(r)
  PROVE  RecordsInv'
  <1>1. Recorded(Seed!Empty, Docs) /\ Recorded(Seed!NoEdges, Links)
    BY DEF Recorded, Seed!Empty, Seed!NoEdges
  <1>2. pc[r] \in {"index", "nodes", "objects"} /\ todo[r] # {} =>
          Seed!First(todo[r]) \in Docs[corpus[r]]
    BY FirstIsMember DEF SeedTypes, RequestTypes
  <1>3. CASE Seed!DeleteIndex(r)
    BY <1>1, <1>3 DEF RecordsInv, Seed!DeleteIndex
  <1>4. CASE Seed!IndexDocument(r)
    <2>1. UNCHANGED <<visible, nodes, edges>>
      BY <1>4 DEF Seed!IndexDocument
    <2>2. CASE todo[r] = {}
      BY <1>4, <2>1, <2>2 DEF RecordsInv, Seed!IndexDocument
    <2>3. CASE todo[r] # {}
      <3>1. index' = [index EXCEPT ![Seed!First(todo[r])] = corpus[r]] /\ pc[r] = "index"
        BY <1>4, <2>3 DEF Seed!IndexDocument
      <3>2. Recorded(index', Docs)
        BY <1>2, <2>3, <3>1, WrittenRecord DEF RecordsInv
      <3>3. QED BY <2>1, <3>2 DEF RecordsInv
    <2>4. QED BY <2>2, <2>3
  <1>5. CASE Seed!Refresh(r)
    BY <1>5 DEF RecordsInv, Seed!Refresh
  <1>6. CASE Seed!ClearGraph(r)
    BY <1>1, <1>6 DEF RecordsInv, Seed!ClearGraph
  <1>7. CASE Seed!SeedNodes(r)
    <2>1. UNCHANGED <<index, visible, edges>>
      BY <1>7 DEF Seed!SeedNodes
    <2>2. CASE todo[r] = {}
      BY <1>7, <2>1, <2>2 DEF RecordsInv, Seed!SeedNodes
    <2>3. CASE todo[r] # {}
      <3>1. nodes' = [nodes EXCEPT ![Seed!First(todo[r])] = corpus[r]] /\ pc[r] = "nodes"
        BY <1>7, <2>3 DEF Seed!SeedNodes
      <3>2. Recorded(nodes', Docs)
        BY <1>2, <2>3, <3>1, WrittenRecord DEF RecordsInv
      <3>3. QED BY <2>1, <3>2 DEF RecordsInv
    <2>4. QED BY <2>2, <2>3
  <1>8. CASE Seed!SeedEdges(r)
    <2>1. UNCHANGED <<index, visible, nodes>>
      BY <1>8 DEF Seed!SeedEdges
    <2>2. edges' = edges \/ \E l \in Links[corpus[r]] : edges' = [edges EXCEPT ![l] = corpus[r]]
      BY <1>8 DEF Seed!SeedEdges, SeedTypes, RequestTypes
    <2>3. Recorded(edges', Links)
      BY <2>2, WrittenRecord DEF RecordsInv
    <2>4. QED BY <2>1, <2>3 DEF RecordsInv
  <1>9. CASE Seed!Begin(r) \/ Seed!CreateIndex(r) \/ Seed!Prune(r) \/ Seed!PutObject(r) \/ Seed!Fail(r)
    <2>1. UNCHANGED <<index, visible, nodes, edges>>
      BY <1>9 DEF Seed!Begin, Seed!CreateIndex, Seed!Prune, Seed!PutObject, Seed!Fail, Seed!stores
    <2>2. QED BY <2>1 DEF RecordsInv
  <1>10. QED BY <1>3, <1>4, <1>5, <1>6, <1>7, <1>8, <1>9 DEF Seed!Step

LEMMA RecordsNext == SeedTypes /\ RecordsInv /\ Seed!Next => RecordsInv'
  <1> SUFFICES ASSUME SeedTypes, RecordsInv, Seed!Next
               PROVE  RecordsInv'
    OBVIOUS
  <1>1. CASE \E r \in Requests : Seed!Step(r)
    BY <1>1, RecordsRequest
  <1>2. CASE Seed!AutoRefresh
    BY <1>2 DEF RecordsInv, Seed!AutoRefresh
  <1>3. CASE Seed!Crash \/ Seed!ReadTitles \/ Seed!KeepTitles
    <2>1. UNCHANGED <<index, visible, nodes, edges>>
      BY <1>3 DEF Seed!Crash, Seed!ReadTitles, Seed!KeepTitles, Seed!stores
    <2>2. QED BY <2>1 DEF RecordsInv
  <1>4. QED BY <1>1, <1>2, <1>3 DEF Seed!Next

-----------------------------------------------------------------------------
(* Loading.                                                                *)

LoadSteps == {"idle", "check", "bulk", "save", "upload", "verify", "graph"}
Loaded(us) == \A u \in us : remote[u] > 0
Exact(us)  == \A u \in Units : remote[u] = IF u \in us THEN 1 ELSE 0

LoadTypes ==
    /\ artifact \in Artifacts \union {None}
    /\ remote \in [Units -> Nat]
    /\ seen \in Nat /\ seen <= Sum(remote, Units)
    /\ saved \in SUBSET Units
    /\ local \in [Tasks -> (SUBSET Units) \union {None}]
    /\ completed \in [Tasks -> SUBSET Units]
    /\ step \in [Tasks -> LoadSteps]
    /\ finished \in BOOLEAN /\ misread \in BOOLEAN /\ overlapped \in BOOLEAN

\* Checkpoints and tasks name only what is in the index.
KnownInv ==
    /\ Loaded(saved)
    /\ \A t \in Tasks :
        /\ Loaded(completed[t])
        /\ local[t] # None => Loaded(local[t])
        /\ step[t] = "upload" => local[t] = completed[t]
        /\ step[t] \in {"verify", "graph"} => artifact.docs \subseteq completed[t]

\* Nothing is loaded that is not in the artifact.
WithinArtifact ==
    IF artifact = None
    THEN /\ \A u \in Units : remote[u] = 0
         /\ remoteNodes = {} /\ remoteLinks = {} /\ ~finished
         /\ \A t \in Tasks : step[t] = "idle"
    ELSE /\ \A u \in Units : remote[u] > 0 => u \in artifact.docs
         /\ remoteNodes \subseteq artifact.nodes /\ remoteLinks \subseteq artifact.links

WholeInv ==
    finished =>
        /\ Loaded(artifact.docs) /\ remoteNodes = artifact.nodes /\ remoteLinks = artifact.links
        /\ artifact.links \subseteq artifact.own

\* A task that runs alone and has not misread the count knows what is in the index.
OnceInv ==
    ~misread /\ ~overlapped =>
        /\ \A u \in Units : remote[u] <= 1
        /\ \A s, t \in Tasks : step[s] # "idle" /\ step[t] # "idle" => s = t
        /\ \A t \in Tasks : step[t] \notin {"idle", "check"} => Exact(completed[t])

LoadInv == LoadTypes /\ KnownInv /\ WithinArtifact /\ WholeInv /\ OnceInv

LEMMA UnitsFinite == IsFiniteSet(Units)
  BY CorpusAssumption DEF Units

LEMMA EndsOfLinks ==
  ASSUME NEW c \in Corpora, NEW l \in Links[c]
  PROVE  /\ l[1] \in Docs[c] /\ l[2] \in Docs[c] /\ l = <<l[1], l[2]>>
         /\ l[1] \in Units /\ l[2] \in Units
  <1>1. l \in Docs[c] \X Docs[c]
    BY CorpusAssumption
  <1>2. QED BY <1>1, CorpusUnits

LEMMA LinksFinite == IsFiniteSet(AllLinks)
  <1>1. ASSUME NEW l \in AllLinks
        PROVE  l \in Units \X Units
    <2>1. PICK c \in Corpora : l \in Links[c]
      BY DEF AllLinks, Seed!AllLinks
    <2>2. QED BY <2>1, EndsOfLinks
  <1>2. IsFiniteSet(Units \X Units)
    BY UnitsFinite, FS_Product
  <1>3. QED BY <1>1, <1>2, FS_Subset

\* A part of a finite set that counts as many members is all of it.
LEMMA CountedInFull ==
  ASSUME NEW S, NEW T, NEW X, IsFiniteSet(S), T \subseteq S, Cardinality(T \intersect X) = Cardinality(S)
  PROVE  S \subseteq X
  <1>1. T \intersect X \in SUBSET S
    OBVIOUS
  <1>2. T \intersect X = S
    BY <1>1, FS_Subset
  <1>3. QED BY <1>2

LEMMA TotalIs == Load!Total = Sum(remote, Units)
  BY DEF Load!Total, Sum, Units, Seed!Units, MapThenSumSet, MapThenFoldSet,
         Load!MapThenSumSet, Load!MapThenFoldSet

LEMMA TotalGrows ==
  ASSUME NEW f \in [Units -> Nat], NEW g \in [Units -> Nat], \A u \in Units : f[u] <= g[u]
  PROVE  /\ Sum(f, Units) \in Nat /\ Sum(g, Units) \in Nat /\ Sum(f, Units) <= Sum(g, Units)
         /\ Sum(f, Units) = Sum(g, Units) => \A u \in Units : f[u] = g[u]
  <1>1. Units \in SUBSET Units
    OBVIOUS
  <1>2. QED BY <1>1, UnitsFinite, SumsCompare

\* A count that meets the documents a task knows to be loaded shows that there are no others.
LEMMA CountTells ==
  ASSUME NEW f \in [Units -> Nat], NEW S \in SUBSET Units, \A u \in S : f[u] > 0,
         Sum(f, Units) = Cardinality(S)
  PROVE  \A u \in Units : f[u] = IF u \in S THEN 1 ELSE 0
  <1> DEFINE g == Members(Units, S)
  <1>1. g \in [Units -> Nat] /\ \A u \in Units : g[u] = IF u \in S THEN 1 ELSE 0
    BY DEF Members
  <1>2. Sum(g, Units) = Cardinality(S)
    <2>1. Units \in SUBSET Units /\ S \intersect Units = S
      OBVIOUS
    <2>2. Sum(g, Units) = Cardinality(S \intersect Units)
      BY <2>1, UnitsFinite, MembersCount
    <2>3. QED BY <2>1, <2>2, Zenon
  <1>3. \A u \in Units : g[u] <= f[u]
    BY <1>1
  <1> HIDE DEF g
  <1>4. \A u \in Units : g[u] = f[u]
    BY <1>1, <1>2, <1>3, TotalGrows
  <1>5. QED BY <1>1, <1>4

LEMMA WrittenIs ==
  ASSUME LoadTypes, NEW us \in SUBSET Units, Load!Written(us)
  PROVE  /\ remote' \in [Units -> Nat]
         /\ \A u \in Units : remote'[u] = IF u \in us THEN remote[u] + 1 ELSE remote[u]
         /\ Sum(remote, Units) <= Sum(remote', Units) /\ Sum(remote', Units) \in Nat /\ Sum(remote, Units) \in Nat
  <1>1. remote' = [u \in Units |-> IF u \in us THEN remote[u] + 1 ELSE remote[u]]
    BY DEF Load!Written, Units, Seed!Units
  <1>2. remote' \in [Units -> Nat] /\ \A u \in Units : remote[u] <= remote'[u]
    BY <1>1 DEF LoadTypes
  <1>3. PICK f, g : f = remote /\ g = remote'
    OBVIOUS
  <1>4. f \in [Units -> Nat] /\ g \in [Units -> Nat] /\ \A u \in Units : f[u] <= g[u]
    BY <1>2, <1>3 DEF LoadTypes
  <1>5. Sum(f, Units) \in Nat /\ Sum(g, Units) \in Nat /\ Sum(f, Units) <= Sum(g, Units)
    BY <1>4, TotalGrows
  <1>6. QED BY <1>1, <1>2, <1>3, <1>5

LEMMA LoadInit == Load!Init => LoadInv
  <1> SUFFICES ASSUME Load!Init PROVE LoadInv
    OBVIOUS
  <1>1. remote \in [Units -> Nat] /\ \A u \in Units : remote[u] = 0
    BY DEF Load!Init, Units, Seed!Units
  <1>2. Sum(remote, Units) \in Nat
    <2>1. PICK f : f = remote
      OBVIOUS
    <2>2. f \in [Units -> Nat] /\ \A u \in Units : f[u] <= f[u]
      BY <1>1, <2>1
    <2>3. Sum(f, Units) \in Nat
      BY <2>2, TotalGrows
    <2>4. QED BY <2>1, <2>3
  <1>3. LoadTypes
    <2>1. seen = 0 /\ artifact = None /\ saved = {} /\ finished = FALSE /\ misread = FALSE /\ overlapped = FALSE
      BY DEF Load!Init
    <2>2. /\ local \in [Tasks -> (SUBSET Units) \union {None}]
          /\ completed \in [Tasks -> SUBSET Units]
          /\ step \in [Tasks -> LoadSteps]
      BY DEF Load!Init, LoadSteps
    <2>3. seen \in Nat /\ seen <= Sum(remote, Units)
      <3>1. PICK n \in Nat : n = Sum(remote, Units)
        BY <1>2
      <3>2. seen \in Nat /\ seen <= n
        BY <2>1
      <3>3. QED BY <3>1, <3>2
    <2>4. artifact \in Artifacts \union {None}
      BY <2>1
    <2>5. saved \in SUBSET Units /\ finished \in BOOLEAN /\ misread \in BOOLEAN /\ overlapped \in BOOLEAN
      BY <2>1
    <2>6. QED BY <1>1, <2>2, <2>3, <2>4, <2>5, Zenon DEF LoadTypes
  <1>4. KnownInv
    BY DEF Load!Init, KnownInv, Loaded
  <1>5. WithinArtifact /\ WholeInv /\ OnceInv
    BY <1>1 DEF Load!Init, WithinArtifact, WholeInv, OnceInv
  <1>6. QED BY <1>3, <1>4, <1>5 DEF LoadInv

LEMMA LoadStarts ==
  ASSUME LoadInv, NEW t \in Tasks, Load!Start(t)
  PROVE  LoadInv'
  <1> USE DEF LoadInv
  <1>1. PICK kept \in {local[t], None} :
          LET found == IF kept = None THEN saved ELSE kept
          IN local' = [local EXCEPT ![t] = found] /\ completed' = [completed EXCEPT ![t] = found]
    BY DEF Load!Start
  <1> DEFINE found == IF kept = None THEN saved ELSE kept
  <1>2. found \in SUBSET Units /\ Loaded(found)
    BY DEF LoadTypes, KnownInv
  <1>3. local' = [local EXCEPT ![t] = found] /\ completed' = [completed EXCEPT ![t] = found]
    BY <1>1
  <1> HIDE DEF found
  <1>4. /\ step[t] = "idle" /\ step' = [step EXCEPT ![t] = "check"] /\ artifact # None
        /\ overlapped' = (overlapped \/ \E s \in Tasks : step[s] # "idle")
        /\ UNCHANGED <<artifact, remote, seen, saved, remoteNodes, remoteLinks, finished, misread>>
    BY DEF Load!Start, Load!Goto, Load!index, Load!graph
  <1>5. LoadTypes'
    BY <1>2, <1>3, <1>4 DEF LoadTypes, LoadSteps
  <1>6. KnownInv'
    BY <1>2, <1>3, <1>4 DEF LoadTypes, KnownInv, Loaded
  <1>7. WithinArtifact' /\ WholeInv'
    BY <1>4 DEF WithinArtifact, WholeInv, Loaded
  <1>8. OnceInv'
    BY <1>2, <1>3, <1>4 DEF LoadTypes, OnceInv, Exact
  <1>9. QED BY <1>5, <1>6, <1>7, <1>8

LEMMA LoadChecks ==
  ASSUME LoadInv, NEW t \in Tasks, Load!Check(t)
  PROVE  LoadInv'
  <1> USE DEF LoadInv
  <1>0. misread' = (misread \/ seen < Load!Total)
    <2> HIDE DEF LoadInv
    <2> QED BY Zenon DEF Load!Check
  <1>1. /\ step[t] = "check" /\ step' = [step EXCEPT ![t] = "bulk"]
        /\ seen = Cardinality(completed[t])
        /\ UNCHANGED <<artifact, remote, seen, saved, local, completed, remoteNodes, remoteLinks, finished, overlapped>>
    <2> HIDE DEF LoadInv
    <2>1. step[t] = "check" /\ step' = [step EXCEPT ![t] = "bulk"] /\ seen = Load!Cardinality(completed[t])
      BY Zenon DEF Load!Check, Load!Goto
    <2>2. UNCHANGED <<artifact, remote, seen, saved, local, completed, remoteNodes, remoteLinks, finished, overlapped>>
      BY SMT DEF Load!Check, Load!index, Load!graph
    <2>3. Load!Cardinality(completed[t]) = Cardinality(completed[t])
      BY Zenon DEF Load!Cardinality, Cardinality
    <2>4. QED BY <2>1, <2>2, <2>3
  <1>2. LoadTypes'
    <2>1. misread' \in BOOLEAN
      BY <1>0
    <2>2. QED BY <1>1, <2>1 DEF LoadTypes, LoadSteps
  <1>3. KnownInv'
    BY <1>1 DEF LoadTypes, KnownInv, Loaded
  <1>4. WithinArtifact' /\ WholeInv'
    BY <1>1 DEF LoadTypes, WithinArtifact, WholeInv, Loaded
  <1>5. ASSUME ~misread', ~overlapped'
        PROVE  Exact(completed[t])
    <2>1. seen = Load!Total \/ ~(seen <= Load!Total)
      <3>1. Sum(remote, Units) \in Nat
        <4>1. PICK f : f = remote
          OBVIOUS
        <4>2. f \in [Units -> Nat] /\ \A u \in Units : f[u] <= f[u]
          BY <4>1 DEF LoadTypes
        <4>3. QED BY <4>1, <4>2, TotalGrows
      <3>2. ~(seen < Load!Total) /\ seen \in Nat
        BY <1>0, <1>1, <1>5 DEF LoadTypes
      <3>3. QED BY <3>1, <3>2, TotalIs
    <2>2. Sum(remote, Units) = Cardinality(completed[t])
      BY <1>1, <2>1, TotalIs DEF LoadTypes
    <2>3. PICK f, S : f = remote /\ S = completed[t]
      OBVIOUS
    <2>4. f \in [Units -> Nat] /\ S \in SUBSET Units /\ (\A u \in S : f[u] > 0) /\ Sum(f, Units) = Cardinality(S)
      BY <2>2, <2>3 DEF LoadTypes, KnownInv, Loaded
    <2>5. \A u \in Units : f[u] = IF u \in S THEN 1 ELSE 0
      BY <2>4, CountTells
    <2>6. QED BY <2>3, <2>5 DEF Exact
  <1>6. OnceInv'
    <2>1. ~misread' => ~misread
      BY <1>0
    <2>2. QED BY <1>1, <1>5, <2>1 DEF LoadTypes, OnceInv, Exact
  <1>7. QED BY <1>2, <1>3, <1>4, <1>6

\* What a task writes is of the artifact, and was not known to it.
LEMMA BatchIs ==
  ASSUME NEW t \in Tasks
  PROVE  Load!Batch(t) \subseteq artifact.docs /\ Load!Batch(t) \intersect completed[t] = {}
  BY DEF Load!Batch, Load!Pending

LEMMA ArtifactUnits ==
  ASSUME LoadInv, NEW t \in Tasks, step[t] # "idle"
  PROVE  artifact # None /\ artifact \in Artifacts /\ artifact.docs \in SUBSET Units
  <1>1. artifact # None
    BY DEF LoadInv, WithinArtifact
  <1>2. artifact \in Artifacts
    BY <1>1 DEF LoadInv, LoadTypes
  <1>3. QED BY <1>1, <1>2 DEF Artifacts, Units

LEMMA LoadVerifiesOrWrites ==
  ASSUME LoadInv, NEW t \in Tasks, Load!Bulk(t)
  PROVE  LoadInv'
  <1> USE DEF LoadInv
  <1>1. /\ step[t] = "bulk"
        /\ UNCHANGED <<artifact, seen, saved, local, remoteNodes, remoteLinks, finished, misread, overlapped>>
    BY DEF Load!Bulk, Load!graph
  <1>2. artifact # None /\ artifact \in Artifacts /\ artifact.docs \in SUBSET Units
    BY <1>1, ArtifactUnits
  <1>3. CASE Load!Pending(t) = {}
    <2>1. /\ step' = [step EXCEPT ![t] = "verify"]
          /\ UNCHANGED <<remote, completed>>
      BY <1>3 DEF Load!Bulk, Load!Goto
    <2>2. artifact.docs \subseteq completed[t]
      BY <1>3 DEF Load!Pending
    <2>3. LoadTypes'
      BY <1>1, <2>1 DEF LoadTypes, LoadSteps
    <2>4. KnownInv'
      BY <1>1, <2>1, <2>2 DEF LoadTypes, KnownInv, Loaded
    <2>5. WithinArtifact' /\ WholeInv'
      BY <1>1, <1>2, <2>1 DEF LoadTypes, WithinArtifact, WholeInv, Loaded
    <2>6. OnceInv'
      BY <1>1, <2>1 DEF LoadTypes, OnceInv, Exact
    <2>7. QED BY <2>3, <2>4, <2>5, <2>6
  <1>4. CASE Load!Pending(t) # {}
    <2> DEFINE us == Load!Batch(t)
    <2>1. /\ Load!Written(us)
          /\ completed' = [completed EXCEPT ![t] = completed[t] \union us]
          /\ step' = [step EXCEPT ![t] = "save"]
      BY <1>4 DEF Load!Bulk, Load!Goto
    <2>2. us \in SUBSET Units /\ us \subseteq artifact.docs /\ us \intersect completed[t] = {}
      BY <1>2, BatchIs
    <2> HIDE DEF us
    <2>3. /\ remote' \in [Units -> Nat]
          /\ \A u \in Units : remote'[u] = IF u \in us THEN remote[u] + 1 ELSE remote[u]
          /\ Sum(remote, Units) <= Sum(remote', Units) /\ Sum(remote', Units) \in Nat /\ Sum(remote, Units) \in Nat
      BY <2>1, <2>2, WrittenIs
    <2>4. seen' \in Nat /\ seen' <= Sum(remote', Units)
      BY <1>1, <2>3 DEF LoadTypes
    <2>5. LoadTypes'
      BY <1>1, <2>1, <2>2, <2>3, <2>4 DEF LoadTypes, LoadSteps
    <2>6. \A u \in Units : remote[u] > 0 => remote'[u] > 0
      BY <2>3 DEF LoadTypes
    <2>7. \A u \in us : remote'[u] > 0
      BY <2>2, <2>3 DEF LoadTypes
    <2>8. KnownInv'
      BY <1>1, <2>1, <2>2, <2>6, <2>7 DEF LoadTypes, KnownInv, Loaded
    <2>9. WithinArtifact'
      BY <1>1, <1>2, <2>2, <2>3 DEF LoadTypes, WithinArtifact
    <2>10. WholeInv'
      BY <1>1, <1>2, <2>6 DEF WholeInv, Loaded
    <2>11. OnceInv'
      <3>1. SUFFICES ASSUME ~misread', ~overlapped'
                     PROVE  /\ \A u \in Units : remote'[u] <= 1
                            /\ \A s, q \in Tasks : step'[s] # "idle" /\ step'[q] # "idle" => s = q
                            /\ \A q \in Tasks : step'[q] \notin {"idle", "check"} => Exact(completed[q])'
        BY DEF OnceInv
      <3>2. \A u \in Units : remote[u] = IF u \in completed[t] THEN 1 ELSE 0
        BY <1>1, <3>1 DEF OnceInv, Exact
      <3>3. \A u \in Units : remote'[u] = IF u \in completed[t] \union us THEN 1 ELSE 0
        BY <2>2, <2>3, <3>2
      <3>4. \A q \in Tasks : q # t => step[q] = "idle" /\ step'[q] = "idle"
        BY <1>1, <2>1, <3>1 DEF LoadTypes, OnceInv
      <3>5. completed'[t] = completed[t] \union us
        BY <2>1 DEF LoadTypes
      <3>6. QED BY <3>3, <3>4, <3>5 DEF Exact
    <2>12. QED BY <2>5, <2>8, <2>9, <2>10, <2>11
  <1>5. QED BY <1>3, <1>4

LEMMA LoadLosesAnAnswer ==
  ASSUME LoadInv, NEW t \in Tasks, Load!BulkFails(t)
  PROVE  LoadInv'
  <1> USE DEF LoadInv
  <1>1. /\ step[t] = "bulk" /\ step' = [step EXCEPT ![t] = "idle"]
        /\ UNCHANGED <<artifact, seen, saved, local, completed, remoteNodes, remoteLinks, finished,
                       misread, overlapped>>
    BY DEF Load!BulkFails, Load!Goto, Load!graph
  <1>2. PICK part \in SUBSET Load!Batch(t) : Load!Written(part)
    BY DEF Load!BulkFails
  <1>3. artifact # None /\ artifact \in Artifacts /\ artifact.docs \in SUBSET Units
    BY <1>1, ArtifactUnits
  <1>4. part \in SUBSET Units /\ part \subseteq artifact.docs /\ part \intersect completed[t] = {}
    BY <1>2, <1>3, BatchIs
  <1>5. /\ remote' \in [Units -> Nat]
        /\ \A u \in Units : remote'[u] = IF u \in part THEN remote[u] + 1 ELSE remote[u]
        /\ Sum(remote, Units) <= Sum(remote', Units) /\ Sum(remote', Units) \in Nat /\ Sum(remote, Units) \in Nat
    BY <1>2, <1>4, WrittenIs
  <1>6. seen' \in Nat /\ seen' <= Sum(remote', Units)
    BY <1>1, <1>5 DEF LoadTypes
  <1>7. LoadTypes'
    BY <1>1, <1>5, <1>6 DEF LoadTypes, LoadSteps
  <1>8. \A u \in Units : remote[u] > 0 => remote'[u] > 0
    BY <1>5 DEF LoadTypes
  <1>9. KnownInv'
    BY <1>1, <1>8 DEF LoadTypes, KnownInv, Loaded
  <1>10. WithinArtifact'
    BY <1>1, <1>3, <1>4, <1>5 DEF LoadTypes, WithinArtifact
  <1>11. WholeInv'
    BY <1>1, <1>3, <1>8 DEF WholeInv, Loaded
  <1>12. OnceInv'
    <2>1. SUFFICES ASSUME ~misread', ~overlapped'
                   PROVE  /\ \A u \in Units : remote'[u] <= 1
                          /\ \A s, q \in Tasks : step'[s] # "idle" /\ step'[q] # "idle" => s = q
                          /\ \A q \in Tasks : step'[q] \notin {"idle", "check"} => Exact(completed[q])'
      BY DEF OnceInv
    <2>2. \A u \in Units : remote[u] = IF u \in completed[t] THEN 1 ELSE 0
      BY <1>1, <2>1 DEF OnceInv, Exact
    <2>3. \A u \in Units : remote'[u] <= 1
      BY <1>4, <1>5, <2>2
    <2>4. \A q \in Tasks : step'[q] = "idle"
      BY <1>1, <2>1 DEF LoadTypes, OnceInv
    <2>5. QED BY <2>3, <2>4
  <1>13. QED BY <1>7, <1>9, <1>10, <1>11, <1>12

LEMMA LoadKeepsCheckpoint ==
  ASSUME LoadInv, NEW t \in Tasks, Load!Save(t) \/ Load!Upload(t) \/ Load!Verify(t)
  PROVE  LoadInv'
  <1> USE DEF LoadInv
  <1>1. /\ UNCHANGED <<artifact, remote, seen, completed, remoteNodes, remoteLinks, finished, misread, overlapped>>
        /\ step[t] \in {"save", "upload", "verify"}
    BY DEF Load!Save, Load!Upload, Load!Verify, Load!index, Load!graph
  <1>2. \/ /\ step' = [step EXCEPT ![t] = "upload"]
           /\ local' = [local EXCEPT ![t] = completed[t]] /\ saved' = saved
        \/ /\ step[t] = "upload" /\ step' = [step EXCEPT ![t] = "bulk"]
           /\ saved' = local[t] /\ local' = local
        \/ /\ step[t] = "verify" /\ step' = [step EXCEPT ![t] = "graph"]
           /\ saved' = saved /\ local' = local
    BY DEF Load!Save, Load!Upload, Load!Verify, Load!Goto
  <1>3. completed[t] \in SUBSET Units /\ Loaded(completed[t]) /\ (step[t] = "upload" => local[t] = completed[t])
    BY DEF LoadTypes, KnownInv
  <1>4. LoadTypes'
    BY <1>1, <1>2, <1>3 DEF LoadTypes, LoadSteps
  <1>5. KnownInv'
    BY <1>1, <1>2, <1>3 DEF LoadTypes, KnownInv, Loaded
  <1>6. WithinArtifact' /\ WholeInv'
    BY <1>1, <1>2 DEF LoadTypes, WithinArtifact, WholeInv, Loaded
  <1>7. OnceInv'
    BY <1>1, <1>2 DEF LoadTypes, OnceInv, Exact
  <1>8. QED BY <1>4, <1>5, <1>6, <1>7

LEMMA LoadMergesGraph ==
  ASSUME LoadInv, NEW t \in Tasks, Load!LoadGraph(t) \/ Load!Stop(t)
  PROVE  LoadInv'
  <1> USE DEF LoadInv
  <1>1. /\ step[t] # "idle" /\ step' = [step EXCEPT ![t] = "idle"]
        /\ UNCHANGED <<artifact, remote, seen, saved, local, completed, misread, overlapped>>
    BY DEF Load!LoadGraph, Load!Stop, Load!Goto, Load!index
  <1>2. artifact # None /\ artifact \in Artifacts
    BY <1>1, ArtifactUnits
  <1>3. /\ finished' \in BOOLEAN
        /\ remoteNodes \subseteq remoteNodes' /\ remoteNodes' \subseteq remoteNodes \union artifact.nodes
        /\ remoteLinks \subseteq remoteLinks' /\ remoteLinks' \subseteq remoteLinks \union artifact.links
    BY DEF Load!LoadGraph, Load!Stop, Load!graph, LoadTypes
  <1>4. LoadTypes'
    BY <1>1, <1>3 DEF LoadTypes, LoadSteps
  <1>5. KnownInv'
    BY <1>1 DEF LoadTypes, KnownInv, Loaded
  <1>6. WithinArtifact'
    BY <1>1, <1>2, <1>3 DEF WithinArtifact
  <1>7. WholeInv'
    <2>1. CASE Load!LoadGraph(t)
      <3>1. /\ step[t] = "graph" /\ remoteNodes' = remoteNodes \union artifact.nodes
            /\ remoteLinks' = remoteLinks \union artifact.links
        BY <2>1 DEF Load!LoadGraph
      <3>2. Loaded(artifact.docs)
        BY <3>1 DEF KnownInv, Loaded
      <3>3. artifact.links \subseteq artifact.own
        <4>1. remoteLinks' \subseteq artifact.links
          BY <1>2, <3>1 DEF WithinArtifact
        <4>2. artifact.links \in SUBSET AllLinks
          BY <1>2 DEF Artifacts, AllLinks
        <4>3. IsFiniteSet(artifact.links)
          BY <4>2, LinksFinite, FS_Subset
        <4>4. Cardinality(remoteLinks' \intersect artifact.own) = Cardinality(artifact.links)
          BY <2>1 DEF Load!LoadGraph, Load!Cardinality, Cardinality
        <4>5. QED BY <4>1, <4>3, <4>4, CountedInFull
      <3>4. QED BY <1>1, <1>2, <3>1, <3>2, <3>3 DEF WholeInv, WithinArtifact, Loaded
    <2>2. CASE Load!Stop(t)
      <3>1. finished' = finished
        BY <2>2 DEF Load!Stop
      <3>2. QED BY <1>1, <1>2, <1>3, <3>1 DEF WholeInv, WithinArtifact, Loaded
    <2>3. QED BY <2>1, <2>2
  <1>8. OnceInv'
    BY <1>1 DEF LoadTypes, OnceInv, Exact
  <1>9. QED BY <1>4, <1>5, <1>6, <1>7, <1>8

LEMMA LoadCounts == LoadInv /\ Load!Converge => LoadInv'
  <1> SUFFICES ASSUME LoadInv, Load!Converge
               PROVE  LoadInv'
    OBVIOUS
  <1> USE DEF LoadInv
  <1>1. /\ seen' = seen + 1
        /\ UNCHANGED <<artifact, remote, saved, local, step, completed, remoteNodes, remoteLinks,
                       finished, misread, overlapped>>
    BY DEF Load!Converge, Load!tasks, Load!graph
  <1>2. seen < Sum(remote, Units)
    BY TotalIs DEF Load!Converge
  <1>3. Sum(remote, Units) \in Nat
    <2>1. PICK f : f = remote
      OBVIOUS
    <2>2. f \in [Units -> Nat] /\ \A u \in Units : f[u] <= f[u]
      BY <2>1 DEF LoadTypes
    <2>3. QED BY <2>1, <2>2, TotalGrows
  <1>4. seen' \in Nat /\ seen' <= Sum(remote', Units)
    BY <1>1, <1>2, <1>3 DEF LoadTypes
  <1>5. LoadTypes'
    BY <1>1, <1>4 DEF LoadTypes
  <1>6. KnownInv' /\ WithinArtifact' /\ WholeInv' /\ OnceInv'
    BY <1>1 DEF KnownInv, WithinArtifact, WholeInv, OnceInv, Loaded, Exact
  <1>7. QED BY <1>5, <1>6

LEMMA LoadNext == LoadInv /\ Load!Next => LoadInv'
  <1> SUFFICES ASSUME LoadInv, Load!Next
               PROVE  LoadInv'
    OBVIOUS
  <1>1. CASE Load!Converge
    BY <1>1, LoadCounts
  <1>2. ASSUME NEW t \in Tasks,
               \/ Load!Start(t) \/ Load!Check(t) \/ Load!Bulk(t) \/ Load!BulkFails(t) \/ Load!Save(t)
               \/ Load!Upload(t) \/ Load!Verify(t) \/ Load!LoadGraph(t) \/ Load!Stop(t)
        PROVE  LoadInv'
    BY <1>2, LoadStarts, LoadChecks, LoadVerifiesOrWrites, LoadLosesAnAnswer, LoadKeepsCheckpoint, LoadMergesGraph
  <1>3. QED BY <1>1, <1>2 DEF Load!Next

-----------------------------------------------------------------------------
(* From the stores to AWS.                                                 *)

\* What an export has read so far is of the snapshots that it was told.
PackedInv ==
    /\ stage \in {"none", "index", "run", "nodes"}
    /\ stage # "none" =>
        /\ artifact = None
        /\ packed.search \in Corpora /\ packed.graph \in Corpora
        /\ packed.docs \subseteq Docs[packed.search]
        /\ packed.nodes \subseteq Docs[packed.graph] \union {Run}
        /\ packed = [search |-> packed.search, graph |-> packed.graph,
                     docs |-> packed.docs, nodes |-> packed.nodes]

\* So is the artifact, but for edges that are not counted as its own.
ArtifactInv ==
    artifact # None =>
        /\ artifact.search \in Corpora /\ artifact.graph \in Corpora
        /\ artifact.docs \subseteq Docs[artifact.search]
        /\ artifact.nodes \subseteq Docs[artifact.graph] \union {Run}
        /\ artifact.own \subseteq Links[artifact.graph]
        /\ \A l \in artifact.links : {l[1], l[2]} \subseteq artifact.nodes

\* What was read while the stores rested after a seed is its corpus, whole.
RestedInv ==
    rested =>
        /\ stage # "none" => packed.docs = Docs[packed.search]
        /\ stage = "nodes" => packed.nodes = Docs[packed.graph] \union {Run}
        /\ artifact # None =>
            /\ artifact.docs = Docs[artifact.search]
            /\ artifact.nodes = Docs[artifact.graph] \union {Run}
            /\ artifact.links = Links[artifact.graph]

ExportInv == PackedInv /\ ArtifactInv /\ RestedInv

Inv == SeedInv /\ RecordsInv /\ LoadInv /\ ExportInv

LEMMA SeedStays == SeedInv /\ RecordsInv /\ UNCHANGED seedVars => SeedInv' /\ RecordsInv'
  <1> SUFFICES ASSUME SeedInv, RecordsInv, UNCHANGED seedVars
               PROVE  SeedInv' /\ RecordsInv'
    OBVIOUS
  <1>1. UNCHANGED <<exists, index, visible, nodes, edges, objects, pc, corpus, todo, titles, reading, episode>>
    BY DEF seedVars
  <1>2. SeedTypes'
    BY <1>1 DEF SeedInv, SeedTypes, StoreTypes, RequestTypes
  <1>3. ASSUME NEW c \in Corpora, episode' = {c}
        PROVE  Progress(c)'
    <2>1. Progress(c)
      BY <1>1, <1>3 DEF SeedInv
    <2>2. QED BY <1>1, <2>1, Beside
  <1>4. RecordsInv'
    BY <1>1 DEF RecordsInv
  <1>5. QED BY <1>2, <1>3, <1>4 DEF SeedInv

LEMMA LoadStays == LoadInv /\ UNCHANGED loadVars => LoadInv'
  <1> SUFFICES ASSUME LoadInv, UNCHANGED loadVars
               PROVE  LoadInv'
    OBVIOUS
  <1>1. UNCHANGED <<artifact, remote, seen, saved, local, step, completed, remoteNodes, remoteLinks,
                    finished, misread, overlapped>>
    BY DEF loadVars
  <1>2. QED
    BY <1>1 DEF LoadInv, LoadTypes, KnownInv, WithinArtifact, WholeInv, OnceInv, Loaded, Exact

LEMMA ExportStays == ExportInv /\ UNCHANGED <<artifact, stage, packed, rested>> => ExportInv'
  BY DEF ExportInv, PackedInv, ArtifactInv, RestedInv

LEMMA SeedKeepsInv == Inv /\ SeedStep => Inv'
  <1> SUFFICES ASSUME Inv, SeedStep
               PROVE  Inv'
    OBVIOUS
  <1>1. SeedInv' /\ RecordsInv'
    BY SeedNext, RecordsNext DEF Inv, SeedInv, SeedStep
  <1>2. LoadInv'
    BY LoadStays DEF Inv, SeedStep
  <1>3. UNCHANGED <<artifact, stage, packed, rested>>
    BY DEF SeedStep, loadVars
  <1>4. QED BY <1>1, <1>2, <1>3, ExportStays DEF Inv

\* What a seed leaves behind is what the queries of the export find.
LEMMA SeedIsRead ==
  ASSUME Inv, NEW c \in Corpora, Seeded(c)
  PROVE  /\ DocsOf(c) = Docs[c]
         /\ published = c => NodesOf(c) = Docs[c] \union {Run}
         /\ LinksOf(c) = Links[c]
  <1>1. Seed!Holds(c)
    BY Rests DEF Inv, Seeded
  <1>2. /\ visible = Seed!Of(c, Docs[c]) /\ nodes = Seed!Of(c, Docs[c])
        /\ edges = [l \in AllLinks |-> IF l \in Links[c] THEN c ELSE None]
    BY <1>1 DEF Seed!Holds, AllLinks
  <1>3. c # None /\ Docs[c] \subseteq Units /\ Links[c] \subseteq AllLinks
    BY CorpusAssumption, CorpusUnits
  <1>4. DocsOf(c) = Docs[c]
    BY <1>2, <1>3 DEF DocsOf, Seed!Of, Units
  <1>5. {u \in Seed!Units : nodes[u] = c} = Docs[c]
    BY <1>2, <1>3 DEF Seed!Of, Units
  <1>6. published = c => NodesOf(c) = Docs[c] \union {Run}
    BY <1>5 DEF NodesOf
  <1>7. Seed!Named(edges) = Links[c]
    BY <1>2, <1>3 DEF Seed!Named
  <1>8. ASSUME NEW l \in Links[c]
        PROVE  nodes[l[1]] = c /\ nodes[l[2]] = c
    <2>1. l[1] \in Docs[c] /\ l[2] \in Docs[c]
      BY <1>8, EndsOfLinks
    <2>2. QED BY <1>2, <1>3, <2>1 DEF Seed!Of, Units
  <1>9. LinksOf(c) = Links[c]
    BY <1>7, <1>8 DEF LinksOf
  <1>10. QED BY <1>4, <1>6, <1>9

\* And whatever is there, they find nothing that is not of the snapshot.
LEMMA ReadsAreNamed ==
  ASSUME Inv, NEW c \in Corpora
  PROVE  /\ DocsOf(c) \subseteq Docs[c]
         /\ NodesOf(c) \subseteq Docs[c] \union {Run}
         /\ LinksOf(c) \subseteq AllLinks
         /\ {l \in LinksOf(c) : edges[l] = c} \subseteq Links[c]
  <1>1. c # None
    BY CorpusAssumption
  <1>2. /\ DOMAIN visible = Seed!Units /\ DOMAIN nodes = Seed!Units /\ DOMAIN edges = AllLinks
    BY DEF Inv, SeedInv, SeedTypes, StoreTypes, Units
  <1>3. /\ \A u \in Seed!Units : visible[u] # None => u \in Docs[visible[u]]
        /\ \A u \in Seed!Units : nodes[u] # None => u \in Docs[nodes[u]]
        /\ \A l \in AllLinks : edges[l] # None => l \in Links[edges[l]]
    BY <1>2 DEF Inv, RecordsInv, Recorded
  <1>4. DocsOf(c) \subseteq Docs[c]
    BY <1>1, <1>3 DEF DocsOf
  <1>5. NodesOf(c) \subseteq Docs[c] \union {Run}
    BY <1>1, <1>3 DEF NodesOf
  <1>6. LinksOf(c) \subseteq AllLinks
    BY <1>2 DEF LinksOf, Seed!Named
  <1>7. {l \in LinksOf(c) : edges[l] = c} \subseteq Links[c]
    BY <1>1, <1>3, <1>6
  <1>8. QED BY <1>4, <1>5, <1>6, <1>7

LEMMA ExportsIndex == Inv /\ ExportIndex => Inv'
  <1> SUFFICES ASSUME Inv, ExportIndex
               PROVE  Inv'
    OBVIOUS
  <1>1. UNCHANGED seedVars /\ UNCHANGED loadVars /\ artifact = None /\ artifact' = artifact /\ stage' = "index"
    BY DEF ExportIndex, loadVars
  <1>2. PICK s \in Corpora, g \in Corpora :
          /\ packed' = [search |-> s, graph |-> g, docs |-> DocsOf(s), nodes |-> {}]
          /\ rested' = Seeded(s)
    BY DEF ExportIndex
  <1>3. SeedInv' /\ RecordsInv' /\ LoadInv'
    BY <1>1, SeedStays, LoadStays DEF Inv
  <1>4. DocsOf(s) \subseteq Docs[s]
    BY ReadsAreNamed
  <1>5. PackedInv'
    BY <1>1, <1>2, <1>4 DEF PackedInv
  <1>6. ArtifactInv'
    BY <1>1 DEF ArtifactInv
  <1>7. RestedInv'
    BY <1>1, <1>2, SeedIsRead DEF RestedInv
  <1>8. QED BY <1>3, <1>5, <1>6, <1>7 DEF Inv, ExportInv

LEMMA ChecksRun == Inv /\ CheckRun => Inv'
  <1> SUFFICES ASSUME Inv, CheckRun
               PROVE  Inv'
    OBVIOUS
  <1>1. UNCHANGED seedVars /\ UNCHANGED loadVars /\ UNCHANGED <<artifact, packed, rested>>
        /\ stage = "index" /\ stage' = "run"
    BY DEF CheckRun, loadVars
  <1>2. SeedInv' /\ RecordsInv' /\ LoadInv'
    BY <1>1, SeedStays, LoadStays DEF Inv
  <1>3. ExportInv'
    BY <1>1 DEF Inv, ExportInv, PackedInv, ArtifactInv, RestedInv
  <1>4. QED BY <1>2, <1>3 DEF Inv

LEMMA ExportsNodes == Inv /\ ExportNodes => Inv'
  <1> SUFFICES ASSUME Inv, ExportNodes
               PROVE  Inv'
    OBVIOUS
  <1> DEFINE g == packed.graph
             read == NodesOf(g)
  <1>1. UNCHANGED seedVars /\ UNCHANGED loadVars /\ artifact' = artifact /\ stage = "run" /\ stage' = "nodes"
    BY DEF ExportNodes, loadVars
  <1>2. packed' = [packed EXCEPT !.nodes = read] /\ rested' = (rested /\ Ready(g))
    BY DEF ExportNodes
  <1>3. SeedInv' /\ RecordsInv' /\ LoadInv'
    BY <1>1, SeedStays, LoadStays DEF Inv
  <1>4. /\ artifact = None /\ g \in Corpora /\ packed.search \in Corpora
        /\ packed.docs \subseteq Docs[packed.search]
        /\ packed = [search |-> packed.search, graph |-> g, docs |-> packed.docs, nodes |-> packed.nodes]
    BY <1>1 DEF Inv, ExportInv, PackedInv
  <1>5. read \subseteq Docs[g] \union {Run} /\ (Ready(g) => read = Docs[g] \union {Run})
    BY <1>4, ReadsAreNamed, SeedIsRead DEF Ready
  <1> HIDE DEF read
  <1>6. packed' = [search |-> packed.search, graph |-> g, docs |-> packed.docs, nodes |-> read]
    BY <1>2, <1>4
  <1>7. PackedInv'
    BY <1>1, <1>4, <1>5, <1>6 DEF PackedInv
  <1>8. ArtifactInv'
    BY <1>1, <1>4 DEF ArtifactInv
  <1>9. RestedInv'
    BY <1>1, <1>2, <1>4, <1>5, <1>6 DEF Inv, ExportInv, RestedInv
  <1>10. QED BY <1>3, <1>7, <1>8, <1>9 DEF Inv, ExportInv

LEMMA ExportsEdges == Inv /\ ExportEdges => Inv'
  <1> SUFFICES ASSUME Inv, ExportEdges
               PROVE  Inv'
    OBVIOUS
  <1> DEFINE s   == packed.search
             g   == packed.graph
             ls  == LinksOf(g)
             own == {l \in ls : edges[l] = g}
  <1>1. /\ stage = "nodes" /\ stage' = "none" /\ packed' = None /\ Seed!Discard
        /\ rested' = (rested /\ Ready(g))
        /\ UNCHANGED <<remote, seen, saved, local, step, completed, remoteNodes, remoteLinks,
                       finished, misread, overlapped>>
    BY DEF ExportEdges
  <1>2. /\ artifact' = [search |-> s, graph |-> g, docs |-> packed.docs, nodes |-> packed.nodes,
                        links |-> ls, own |-> own]
        /\ \A l \in ls : {l[1], l[2]} \subseteq packed.nodes
    BY DEF ExportEdges
  <1>3. /\ artifact = None /\ s \in Corpora /\ g \in Corpora
        /\ packed.docs \subseteq Docs[s] /\ packed.nodes \subseteq Docs[g] \union {Run}
    BY <1>1 DEF Inv, ExportInv, PackedInv
  <1>4. /\ ls \subseteq AllLinks /\ own \subseteq Links[g] /\ own \subseteq ls
        /\ Ready(g) => ls = Links[g]
    BY <1>3, ReadsAreNamed, SeedIsRead DEF Ready
  <1>5. rested => packed.docs = Docs[s] /\ packed.nodes = Docs[g] \union {Run}
    BY <1>1 DEF Inv, ExportInv, RestedInv
  <1> HIDE DEF s, g, ls, own
  <1>6. artifact' \in Artifacts /\ artifact' # None
    <2>1. Docs[s] \subseteq Seed!Units /\ Docs[g] \subseteq Seed!Units
      BY <1>3, CorpusUnits DEF Units
    <2>2. artifact' \in Artifacts
      BY <1>2, <1>3, <1>4, <2>1 DEF Artifacts, GraphNodes, AllLinks
    <2>3. QED BY <2>2, CorpusAssumption
  <1>7. SeedInv' /\ RecordsInv'
    <2>1. Seed!Init'
      BY <1>1 DEF Seed!Discard, Seed!Init, Seed!Empty, Seed!NoEdges
    <2>2. (Seed!Init => SeedInv /\ RecordsInv)'
      BY SeedInit, RecordsInit, PTL
    <2>3. QED BY <2>1, <2>2
  <1>8. LoadInv'
    <2>1. /\ \A u \in Units : remote[u] = 0
          /\ remoteNodes = {} /\ remoteLinks = {} /\ ~finished
          /\ \A t \in Tasks : step[t] = "idle"
      BY <1>3 DEF Inv, LoadInv, WithinArtifact
    <2>2. LoadTypes'
      BY <1>1, <1>6 DEF Inv, LoadInv, LoadTypes
    <2>3. KnownInv'
      BY <1>1, <2>1 DEF Inv, LoadInv, KnownInv, Loaded
    <2>4. WithinArtifact' /\ WholeInv' /\ OnceInv'
      BY <1>1, <1>6, <2>1 DEF WithinArtifact, WholeInv, OnceInv
    <2>5. QED BY <2>2, <2>3, <2>4 DEF LoadInv
  <1>9. PackedInv'
    BY <1>1 DEF PackedInv
  <1>10. ArtifactInv'
    BY <1>2, <1>3, <1>4 DEF ArtifactInv
  <1>11. RestedInv'
    BY <1>1, <1>2, <1>4, <1>5 DEF RestedInv
  <1>12. QED BY <1>7, <1>8, <1>9, <1>10, <1>11 DEF Inv, ExportInv

LEMMA LoadKeepsInv == Inv /\ LoadStep => Inv'
  <1> SUFFICES ASSUME Inv, LoadStep
               PROVE  Inv'
    OBVIOUS
  <1>1. SeedInv' /\ RecordsInv' /\ LoadInv'
    BY SeedStays, LoadNext DEF Inv, LoadStep
  <1>2. UNCHANGED <<stage, packed, rested>>
    BY DEF LoadStep, exportVars
  <1>3. artifact' = artifact
    BY DEF LoadStep, Load!Next, Load!Start, Load!Check, Load!Bulk, Load!BulkFails, Load!Save, Load!Upload,
           Load!Verify, Load!LoadGraph, Load!Stop, Load!Converge
  <1>4. QED BY <1>1, <1>2, <1>3, ExportStays DEF Inv

LEMMA InvInit == Init => Inv
  <1> SUFFICES ASSUME Init
               PROVE  Inv
    OBVIOUS
  <1>1. SeedInv /\ RecordsInv /\ LoadInv
    BY SeedInit, RecordsInit, LoadInit DEF Init
  <1>2. artifact = None
    BY DEF Init, Load!Init
  <1>3. ExportInv
    BY <1>2 DEF Init, ExportInv, PackedInv, ArtifactInv, RestedInv
  <1>4. QED BY <1>1, <1>3 DEF Inv

LEMMA InvNext == Inv /\ [Next]_vars => Inv'
  <1> SUFFICES ASSUME Inv, [Next]_vars
               PROVE  Inv'
    OBVIOUS
  <1>1. ASSUME UNCHANGED seedVars, UNCHANGED loadVars, UNCHANGED <<stage, packed, rested>>
        PROVE  Inv'
    <2>1. SeedInv' /\ RecordsInv' /\ LoadInv'
      BY <1>1, SeedStays, LoadStays DEF Inv
    <2>2. artifact' = artifact
      BY <1>1 DEF loadVars
    <2>3. ExportInv'
      BY <1>1, <2>2, ExportStays DEF Inv
    <2>4. QED BY <2>1, <2>3 DEF Inv
  <1>2. CASE Classify
    BY <1>1, <1>2 DEF Classify
  <1>3. CASE UNCHANGED vars
    BY <1>1, <1>3 DEF vars, exportVars
  <1>4. QED
    BY <1>2, <1>3, SeedKeepsInv, ExportsIndex, ChecksRun, ExportsNodes, ExportsEdges, LoadKeepsInv
    DEF Next, Export

\* All parts of the invariant hold together, in every step of the whole way from seed_all to
\* the loaded stores.
THEOREM IngestionInvariant == Spec => []Inv
  BY InvInit, InvNext, PTL DEF Spec

\* When every request since the last pause succeeded for one corpus, the stores hold it (seed_all).
THEOREM SeedSucceeds == Spec => []SuccessIsWhole
  <1>1. Inv => SuccessIsWhole
    <2>1. SUFFICES ASSUME Inv, NEW c \in Corpora, Seed!Busy = {}, episode = {c}
                   PROVE  Seed!Holds(c)
      BY DEF SuccessIsWhole, Seed!SuccessIsWhole
    <2>2. QED BY <2>1, Rests DEF Inv
  <1>2. QED BY <1>1, IngestionInvariant, PTL

\* A load that reports success has loaded all of the artifact, and nothing twice while no tasks
\* overlap and the counts are right (bootstrap_aws_data.py).
THEOREM LoadSucceeds == Spec => []LoadIsExact
  <1>1. Inv => LoadIsExact
    <2> SUFFICES ASSUME Inv PROVE LoadIsExact
      OBVIOUS
    <2>1. Load!FinishedIsWhole
      BY DEF Inv, LoadInv, WholeInv, Loaded, Load!FinishedIsWhole
    <2>2. Load!LoadedOnce
      BY DEF Inv, LoadInv, OnceInv, Load!LoadedOnce, Units, Seed!Units
    <2>3. QED BY <2>1, <2>2 DEF LoadIsExact
  <1>2. QED BY <1>1, IngestionInvariant, PTL

\* A finished load serves nothing that the two snapshots of its export do not have, however
\* seeds, failures and crashes fell between the reads (export-existing-bootstrap-data.py).
THEOREM NamedIsServed == Spec => []ServedIsNamed
  <1>1. Inv => ServedIsNamed
    <2> SUFFICES ASSUME Inv, finished
                 PROVE  /\ \A u \in Seed!Units : remote[u] > 0 => u \in Docs[artifact.search]
                        /\ remoteNodes \subseteq Docs[artifact.graph] \union {Run}
                        /\ remoteLinks \subseteq Links[artifact.graph]
                        /\ \A l \in remoteLinks : {l[1], l[2]} \subseteq remoteNodes
      BY DEF ServedIsNamed
    <2>1. artifact # None
      BY DEF Inv, LoadInv, WithinArtifact
    <2>2. /\ artifact.docs \subseteq Docs[artifact.search]
          /\ artifact.nodes \subseteq Docs[artifact.graph] \union {Run}
          /\ artifact.own \subseteq Links[artifact.graph]
          /\ \A l \in artifact.links : {l[1], l[2]} \subseteq artifact.nodes
      BY <2>1 DEF Inv, ExportInv, ArtifactInv
    <2>3. /\ remoteNodes = artifact.nodes /\ remoteLinks = artifact.links
          /\ artifact.links \subseteq artifact.own
      BY DEF Inv, LoadInv, WholeInv
    <2>4. \A u \in Units : remote[u] > 0 => u \in artifact.docs
      BY <2>1 DEF Inv, LoadInv, WithinArtifact
    <2>5. QED BY <2>2, <2>3, <2>4 DEF Units
  <1>2. QED BY <1>1, IngestionInvariant, PTL

\* When each read of the export fell in a pause after successful seeds of the snapshot it asked
\* for, AWS serves both snapshots as a whole.
THEOREM FullIsServed == Spec => []ServedInFull
  <1>1. Inv => ServedInFull
    <2> SUFFICES ASSUME Inv, finished, rested
                 PROVE  /\ {u \in Seed!Units : remote[u] > 0} = Docs[artifact.search]
                        /\ remoteNodes = Docs[artifact.graph] \union {Run}
                        /\ remoteLinks = Links[artifact.graph]
      BY DEF ServedInFull
    <2>1. artifact # None
      BY DEF Inv, LoadInv, WithinArtifact
    <2>2. /\ artifact.search \in Corpora /\ artifact.docs = Docs[artifact.search]
          /\ artifact.nodes = Docs[artifact.graph] \union {Run}
          /\ artifact.links = Links[artifact.graph]
      BY <2>1 DEF Inv, ExportInv, ArtifactInv, RestedInv
    <2>3. Loaded(artifact.docs) /\ remoteNodes = artifact.nodes /\ remoteLinks = artifact.links
      BY DEF Inv, LoadInv, WholeInv
    <2>4. \A u \in Units : remote[u] > 0 => u \in artifact.docs
      BY <2>1 DEF Inv, LoadInv, WithinArtifact
    <2>5. artifact.docs \subseteq Units
      BY <2>2, CorpusUnits
    <2>6. {u \in Seed!Units : remote[u] > 0} = artifact.docs
      BY <2>3, <2>4, <2>5 DEF Loaded, Units
    <2>7. QED BY <2>2, <2>3, <2>6
  <1>2. QED BY <1>1, IngestionInvariant, PTL

\* A finished load serves nothing but what was seeded under the names that the export was given,
\* and both snapshots as a whole if each read of it found them at rest.
THEOREM SeedIsServed == Spec => []ServedIsSeeded
  <1>1. ServedIsNamed /\ ServedInFull => ServedIsSeeded
    BY DEF ServedIsSeeded
  <1>2. QED BY <1>1, NamedIsServed, FullIsServed, PTL
=============================================================================
