----------------------- MODULE LayeredRetrieval_proofs -----------------------
(***************************************************************************)
(* Proofs about LayeredRetrieval with EvidenceRequirements and             *)
(* ContextAssembly, for every value of the constants.                      *)
(***************************************************************************)
EXTENDS LayeredRetrieval, FiniteSetTheorems, SequenceTheorems, WellFoundedInduction, TLAPS

-----------------------------------------------------------------------------
(* Recursion.  A predicate that is to be proved by induction is a set.     *)

LEMMA LeastExists ==
  ASSUME NEW S \in SUBSET Nat, S # {}
  PROVE  \E m \in S : \A n \in S : m <= n
  <1>1. PICK m \in S : \A n \in S : ~ (<<n, m>> \in OpToRel(<, Nat))
    BY NatLessThanWellFounded, WFMin
  <1>2. \A n \in S : ~ (n < m)
    BY <1>1 DEF OpToRel
  <1>3. QED BY <1>2

LEMMA Induction ==
  ASSUME NEW T, 0 \in T, \A k \in Nat : k \in T => k + 1 \in T
  PROVE  \A k \in Nat : k \in T
  <1>1. SUFFICES ASSUME Nat \ T # {}
                 PROVE  FALSE
    OBVIOUS
  <1>2. PICK m \in Nat \ T : \A n \in Nat \ T : m <= n
    BY <1>1, LeastExists
  <1>3. m # 0 /\ m - 1 \in Nat /\ ~(m <= m - 1)
    BY <1>2
  <1>4. m - 1 \in T
    BY <1>2, <1>3
  <1>5. (m - 1) + 1 \in T /\ (m - 1) + 1 = m
    BY <1>3, <1>4
  <1>6. QED BY <1>2, <1>5

\* The place at which a fold goes on is the last of those it has to do.
LEMMA LastPlace ==
  ASSUME NEW k \in Nat, NEW T \in SUBSET (1..(k + 1)), k + 1 \in T
  PROVE  Max(T) = k + 1 /\ T # {} /\ T \ {Max(T)} \in SUBSET (1..k)
  <1>1. \A x \in T : x \in 1..(k + 1) /\ k + 1 >= x
    OBVIOUS
  <1>2. \A x \in T : (\A y \in T : x >= y) => x = k + 1
    BY <1>1
  <1>3. Max(T) = k + 1
    BY <1>1, <1>2 DEF Max
  <1>4. QED BY <1>3

LEMMA WholePlaces ==
  ASSUME NEW k \in Nat
  PROVE  Max(1..(k + 1)) = k + 1 /\ 1..(k + 1) # {} /\ (1..(k + 1)) \ {k + 1} = 1..k
  <1>1. k + 1 \in 1..(k + 1)
    OBVIOUS
  <1>2. QED BY <1>1, LastPlace

\* g solves the recursion of FoldLeft over the first k places of s.
Fold(op, base, s, k, g) ==
    g = [T \in SUBSET (1..k) |-> IF T = {} THEN base ELSE op[<<g[T \ {Max(T)}], s[Max(T)]>>]]

LEMMA FoldExists ==
  ASSUME NEW A, NEW B, NEW op \in [A \X B -> A], NEW base \in A, NEW n \in Nat,
         NEW s, \A k \in 1..n : s[k] \in B
  PROVE  \E g \in [SUBSET (1..n) -> A] : Fold(op, base, s, n, g)
  <1> DEFINE Has(k) == \E g \in [SUBSET (1..k) -> A] : Fold(op, base, s, k, g)
             T == {k \in Nat : k <= n => Has(k)}
  <1>1. 0 \in T
    <2> DEFINE g == [X \in SUBSET (1..0) |-> base]
    <2>1. \A X \in SUBSET (1..0) : X = {}
      OBVIOUS
    <2>2. g \in [SUBSET (1..0) -> A] /\ Fold(op, base, s, 0, g)
      BY <2>1 DEF Fold
    <2>3. Has(0)
      BY <2>2
    <2> HIDE DEF Has
    <2>4. QED BY <2>3
  <1>2. ASSUME NEW k \in Nat, k \in T
        PROVE  k + 1 \in T
    <2>1. SUFFICES ASSUME k + 1 <= n
                   PROVE  Has(k + 1)
      <3> HIDE DEF Has
      <3>1. QED OBVIOUS
    <2>2. Has(k)
      <3> HIDE DEF Has
      <3>1. QED BY <1>2, <2>1
    <2>3. PICK h \in [SUBSET (1..k) -> A] : Fold(op, base, s, k, h)
      BY <2>2
    <2> DEFINE g == [X \in SUBSET (1..(k + 1)) |->
                       IF k + 1 \in X THEN op[<<h[X \ {k + 1}], s[k + 1]>>] ELSE h[X]]
    <2>4. \A X \in SUBSET (1..(k + 1)) : k + 1 \notin X => X \in SUBSET (1..k)
      OBVIOUS
    <2>5. \A X \in SUBSET (1..(k + 1)) : k + 1 \in X => X \ {k + 1} \in SUBSET (1..k)
      OBVIOUS
    <2>6. s[k + 1] \in B
      BY <2>1
    <2>7. ASSUME NEW X \in SUBSET (1..(k + 1))
          PROVE  g[X] \in A /\ g[X] = IF X = {} THEN base ELSE op[<<g[X \ {Max(X)}], s[Max(X)]>>]
      <3>1. CASE k + 1 \in X
        <4>1. Max(X) = k + 1 /\ X # {} /\ X \ {Max(X)} \in SUBSET (1..k)
          BY <3>1, LastPlace
        <4>2. X \ {k + 1} \in SUBSET (1..(k + 1)) /\ k + 1 \notin X \ {k + 1}
          OBVIOUS
        <4>3. g[X \ {k + 1}] = h[X \ {k + 1}]
          BY <4>2
        <4>4. g[X] = op[<<h[X \ {k + 1}], s[k + 1]>>]
          BY <3>1
        <4>5. h[X \ {k + 1}] \in A
          BY <2>5, <3>1
        <4>6. op[<<h[X \ {k + 1}], s[k + 1]>>] \in A
          BY <4>5, <2>6
        <4>7. QED BY <4>1, <4>3, <4>4, <4>6
      <3>2. CASE k + 1 \notin X
        <4>1. X \in SUBSET (1..k) /\ g[X] = h[X]
          BY <3>2, <2>4
        <4>2. g[X] \in A
          BY <4>1
        <4>3. h[X] = IF X = {} THEN base ELSE op[<<h[X \ {Max(X)}], s[Max(X)]>>]
          BY <2>3, <4>1 DEF Fold
        <4>4. X \ {Max(X)} \in SUBSET (1..(k + 1)) /\ k + 1 \notin X \ {Max(X)}
          BY <3>2
        <4>5. g[X \ {Max(X)}] = h[X \ {Max(X)}]
          BY <4>4
        <4>6. QED BY <4>1, <4>2, <4>3, <4>5
      <3>3. QED BY <3>1, <3>2
    <2>8. g \in [SUBSET (1..(k + 1)) -> A]
      BY <2>7
    <2>9. Fold(op, base, s, k + 1, g)
      <3> DEFINE f == [X \in SUBSET (1..(k + 1)) |->
                         IF X = {} THEN base ELSE op[<<g[X \ {Max(X)}], s[Max(X)]>>]]
      <3>1. \A X \in SUBSET (1..(k + 1)) : g[X] = f[X]
        BY <2>7
      <3>2. DOMAIN g = SUBSET (1..(k + 1)) /\ DOMAIN f = SUBSET (1..(k + 1))
        OBVIOUS
      <3> HIDE DEF g
      <3>3. g = f
        BY <3>1, <3>2, <2>8
      <3>4. QED BY <3>3 DEF Fold
    <2>10. QED BY <2>8, <2>9
  <1>3. n \in T
    <2> HIDE DEF T
    <2>1. QED BY <1>1, <1>2, Induction
  <1>4. Has(n)
    <2> HIDE DEF Has
    <2>1. QED BY <1>3
  <1>5. QED BY <1>4

LEMMA MaxIsMember ==
  ASSUME NEW n \in Nat, NEW T \in SUBSET (1..n), T # {}
  PROVE  Max(T) \in T
  <1> DEFINE S == {k \in 0..n : n - k \in T}
  <1>1. S \in SUBSET Nat /\ S # {}
    <2>1. PICK x \in T : TRUE
      OBVIOUS
    <2>2. x \in 1..n /\ n - x \in 0..n /\ n - (n - x) = x
      OBVIOUS
    <2>3. n - x \in S
      BY <2>1, <2>2
    <2>4. S \in SUBSET Nat
      OBVIOUS
    <2> HIDE DEF S
    <2>5. QED BY <2>3, <2>4
  <1>2. PICK m \in S : \A k \in S : m <= k
    <2> HIDE DEF S
    <2>1. QED BY <1>1, LeastExists
  <1>3. n - m \in T
    BY <1>2
  <1>4. \A y \in T : n - m >= y
    <2>1. TAKE y \in T
    <2>2. y \in 1..n /\ n - y \in 0..n /\ n - (n - y) = y
      OBVIOUS
    <2>3. n - y \in S
      BY <2>2
    <2>4. m <= n - y
      <3> HIDE DEF S
      <3>1. QED BY <1>2, <2>3
    <2>5. m \in 0..n
      BY <1>2
    <2>6. QED BY <2>2, <2>4, <2>5
  <1>5. QED BY <1>3, <1>4 DEF Max

\* g folds s[1], ..., s[n] with op, as long as what it has is of A.
FoldSteps(A, op, base, s, n, g) ==
    /\ g[{}] = base
    /\ \A T \in SUBSET (1..n) : T # {} /\ g[T \ {Max(T)}] \in A =>
          g[T] = op[<<g[T \ {Max(T)}], s[Max(T)]>>]

\* g does so, and what it has is always of A.
FoldWhole(A, B, op, base, s, n, g) ==
    /\ g \in [SUBSET (1..n) -> A]
    /\ g[{}] = base
    /\ \A T \in SUBSET (1..n) : T # {} =>
          /\ g[T \ {Max(T)}] \in A /\ s[Max(T)] \in B
          /\ g[T] = op[<<g[T \ {Max(T)}], s[Max(T)]>>]

LEMMA FoldSolved ==
  ASSUME NEW A, NEW B, NEW op \in [A \X B -> A], NEW base \in A, NEW n \in Nat,
         NEW s, \A k \in 1..n : s[k] \in B
  PROVE  \E g : FoldWhole(A, B, op, base, s, n, g)
  <1>1. PICK g \in [SUBSET (1..n) -> A] : Fold(op, base, s, n, g)
    BY FoldExists
  <1>2. g[{}] = base
    BY <1>1 DEF Fold
  <1>3. ASSUME NEW T \in SUBSET (1..n), T # {}
        PROVE  /\ g[T \ {Max(T)}] \in A /\ s[Max(T)] \in B
               /\ g[T] = op[<<g[T \ {Max(T)}], s[Max(T)]>>]
    <2>1. Max(T) \in 1..n
      BY <1>3, MaxIsMember
    <2>2. g[T] = op[<<g[T \ {Max(T)}], s[Max(T)]>>]
      BY <1>1, <1>3 DEF Fold
    <2>3. QED BY <2>1, <2>2
  <1>4. QED BY <1>2, <1>3 DEF FoldWhole

\* P holds after each step if it holds before it.
FoldKeeps(A, op, s, n, P) ==
    \A k \in 1..n, x \in A : <<k - 1, x>> \in P => <<k, op[<<x, s[k]>>]>> \in P

\* P holds at the end.
FoldEnds(A, n, g, P) == g[1..n] \in A /\ <<n, g[1..n]>> \in P

LEMMA FoldInduction ==
  ASSUME NEW A, NEW B, NEW op \in [A \X B -> A], NEW base \in A, NEW n \in Nat,
         NEW s, \A k \in 1..n : s[k] \in B,
         NEW g, FoldSteps(A, op, base, s, n, g),
         NEW P, <<0, base>> \in P, FoldKeeps(A, op, s, n, P)
  PROVE  FoldEnds(A, n, g, P)
  <1> DEFINE Good == {k \in Nat : k <= n => g[1..k] \in A /\ <<k, g[1..k]>> \in P}
  <1>1. 0 \in Good
    <2>1. 1..0 = {}
      OBVIOUS
    <2>2. g[1..0] = base
      BY <2>1 DEF FoldSteps
    <2>3. QED BY <2>2
  <1>2. ASSUME NEW k \in Nat, k \in Good
        PROVE  k + 1 \in Good
    <2>1. SUFFICES ASSUME k + 1 <= n
                   PROVE  g[1..(k + 1)] \in A /\ <<k + 1, g[1..(k + 1)]>> \in P
      OBVIOUS
    <2>2. g[1..k] \in A /\ <<k, g[1..k]>> \in P /\ k + 1 \in 1..n /\ (k + 1) - 1 = k
      BY <1>2, <2>1
    <2>3. 1..(k + 1) \in SUBSET (1..n)
      BY <2>1
    <2>4. g[1..(k + 1)] = op[<<g[1..k], s[k + 1]>>]
      <3>1. Max(1..(k + 1)) = k + 1 /\ 1..(k + 1) # {} /\ (1..(k + 1)) \ {Max(1..(k + 1))} = 1..k
        BY WholePlaces
      <3>2. QED BY <2>2, <2>3, <3>1 DEF FoldSteps
    <2>5. s[k + 1] \in B
      BY <2>2
    <2>6. op[<<g[1..k], s[k + 1]>>] \in A
      BY <2>2, <2>5
    <2>7. <<k + 1, op[<<g[1..k], s[k + 1]>>]>> \in P
      BY <2>2 DEF FoldKeeps
    <2>8. QED BY <2>4, <2>6, <2>7
  <1>3. n \in Good
    <2> HIDE DEF Good
    <2>1. QED BY <1>1, <1>2, Induction
  <1>4. QED BY <1>3 DEF FoldEnds

\* g starts with base and takes n steps with op.
Iter(op, base, n, g) ==
    g = [k \in 0..n |-> IF k = 0 THEN base ELSE op[<<k, g[k - 1]>>]]

LEMMA IterExists ==
  ASSUME NEW A, NEW op \in [Nat \X A -> A], NEW base \in A, NEW n \in Nat
  PROVE  \E g \in [0..n -> A] : Iter(op, base, n, g)
  <1> DEFINE Has(k) == \E g \in [0..k -> A] : Iter(op, base, k, g)
             T == {k \in Nat : Has(k)}
  <1>1. 0 \in T
    <2> DEFINE g == [k \in 0..0 |-> base]
    <2>1. g \in [0..0 -> A]
      OBVIOUS
    <2>2. Iter(op, base, 0, g)
      <3>1. g = [k \in 0..0 |-> IF k = 0 THEN base ELSE op[<<k, g[k - 1]>>]]
        OBVIOUS
      <3>2. QED BY <3>1 DEF Iter
    <2>3. Has(0)
      BY <2>1, <2>2
    <2> HIDE DEF Has
    <2>4. QED BY <2>3
  <1>2. ASSUME NEW k \in Nat, k \in T
        PROVE  k + 1 \in T
    <2>1. PICK h \in [0..k -> A] : Iter(op, base, k, h)
      BY <1>2
    <2> DEFINE g == [j \in 0..(k + 1) |-> IF j = k + 1 THEN op[<<k + 1, h[k]>>] ELSE h[j]]
    <2>2. g \in [0..(k + 1) -> A]
      OBVIOUS
    <2>3. \A j \in 0..(k + 1) : g[j] = IF j = 0 THEN base ELSE op[<<j, g[j - 1]>>]
      <3>1. ASSUME NEW j \in 0..(k + 1)
            PROVE  g[j] = IF j = 0 THEN base ELSE op[<<j, g[j - 1]>>]
        <4>1. CASE j = k + 1
          <5>1. j - 1 = k /\ k \in 0..(k + 1) /\ k # k + 1 /\ j # 0
            BY <4>1
          <5>2. g[k] = h[k] /\ g[j] = op[<<j, h[k]>>]
            BY <4>1, <5>1
          <5>3. QED BY <5>1, <5>2
        <4>2. CASE j # k + 1
          <5>1. j \in 0..k /\ g[j] = h[j] /\ (j # 0 => g[j - 1] = h[j - 1])
            BY <4>2
          <5>2. h[j] = IF j = 0 THEN base ELSE op[<<j, h[j - 1]>>]
            BY <2>1, <5>1 DEF Iter
          <5>3. QED BY <5>1, <5>2
        <4>3. QED BY <4>1, <4>2
      <3>2. QED BY <3>1
    <2>4. Iter(op, base, k + 1, g)
      <3> DEFINE f == [j \in 0..(k + 1) |-> IF j = 0 THEN base ELSE op[<<j, g[j - 1]>>]]
      <3>1. DOMAIN g = 0..(k + 1) /\ DOMAIN f = 0..(k + 1) /\ \A j \in 0..(k + 1) : g[j] = f[j]
        BY <2>3
      <3> HIDE DEF g
      <3>2. g = f
        BY <3>1, <2>2
      <3>3. QED BY <3>2 DEF Iter
    <2>5. QED BY <2>2, <2>4
  <1>3. n \in T
    <2> HIDE DEF T
    <2>1. QED BY <1>1, <1>2, Induction
  <1>4. QED BY <1>3

LEMMA FlattenType ==
  ASSUME NEW S, NEW seqs \in Seq(Seq(S))
  PROVE  FlattenSeq(seqs) \in Seq(S)
  <1> DEFINE n == Len(seqs)
             op == [q \in Nat \X Seq(S) |-> IF q[1] \in 1..n THEN q[2] \o seqs[q[1]] ELSE q[2]]
             Solves(h) == h = [k \in 1..n |-> IF k = 1 THEN seqs[k] ELSE h[k - 1] \o seqs[k]]
             flatten == CHOOSE h : Solves(h)
  <1>1. n \in Nat /\ \A k \in 1..n : seqs[k] \in Seq(S)
    OBVIOUS
  <1>2. op \in [Nat \X Seq(S) -> Seq(S)] /\ <<>> \in Seq(S)
    BY <1>1
  <1>3. PICK g \in [0..n -> Seq(S)] : Iter(op, <<>>, n, g)
    <2> HIDE DEF op, n
    <2>1. QED BY <1>1, <1>2, IterExists
  <1>4. g[0] = <<>> /\ \A k \in 1..n : g[k - 1] \in Seq(S) /\ g[k] = g[k - 1] \o seqs[k]
    <2>1. g[0] = <<>>
      BY <1>1, <1>3 DEF Iter
    <2>2. ASSUME NEW k \in 1..n
          PROVE  g[k - 1] \in Seq(S) /\ g[k] = g[k - 1] \o seqs[k]
      <3>0. k \in Nat /\ k \in 0..n /\ k - 1 \in 0..n /\ k # 0
        <4> HIDE DEF n
        <4>1. QED BY <1>1
      <3>1. g[k - 1] \in Seq(S)
        BY <3>0
      <3>2. g[k] = op[<<k, g[k - 1]>>]
        <4> HIDE DEF op
        <4>1. QED BY <1>3, <3>0, <3>1 DEF Iter
      <3>3. QED BY <3>0, <3>1, <3>2
    <2>3. QED BY <2>1, <2>2
  <1>5. \E h : Solves(h)
    <2> DEFINE h == [k \in 1..n |-> g[k]]
    <2>1. ASSUME NEW k \in 1..n
          PROVE  h[k] = IF k = 1 THEN seqs[k] ELSE h[k - 1] \o seqs[k]
      <3>1. CASE k = 1
        <4>1. 1 \in 1..n /\ 1 - 1 = 0
          BY <3>1
        <4>2. g[1] = <<>> \o seqs[1] /\ seqs[1] \in Seq(S)
          BY <1>1, <1>4, <4>1
        <4>3. <<>> \o seqs[1] = seqs[1]
          BY <4>2
        <4>4. QED BY <3>1, <4>2, <4>3
      <3>2. CASE k # 1
        <4>1. k - 1 \in 1..n
          <5> HIDE DEF n
          <5>1. QED BY <1>1, <3>2
        <4>2. h[k] = g[k] /\ h[k - 1] = g[k - 1]
          BY <4>1
        <4>3. QED BY <1>4, <3>2, <4>2
      <3>3. QED BY <3>1, <3>2
    <2>2. h = [k \in 1..n |-> IF k = 1 THEN seqs[k] ELSE h[k - 1] \o seqs[k]]
      BY <2>1
    <2>3. QED BY <2>2
  <1>6. Solves(flatten)
    <2> HIDE DEF Solves
    <2>1. QED BY <1>5
  <1>7. FlattenSeq(seqs) = IF n = 0 THEN seqs ELSE flatten[n]
    BY DEF FlattenSeq
  <1> HIDE DEF flatten
  <1> DEFINE Good == {k \in Nat : k \in 1..n => flatten[k] \in Seq(S)}
  <1>8. ASSUME NEW k \in Nat, k \in Good
        PROVE  k + 1 \in Good
    <2>1. SUFFICES ASSUME k + 1 \in 1..n
                   PROVE  flatten[k + 1] \in Seq(S)
      OBVIOUS
    <2>2. flatten[k + 1] = IF k + 1 = 1 THEN seqs[k + 1] ELSE flatten[(k + 1) - 1] \o seqs[k + 1]
      BY <1>6, <2>1
    <2>3. k # 0 => k \in 1..n
      BY <1>1, <2>1
    <2>4. QED BY <1>1, <1>8, <2>1, <2>2, <2>3
  <1>9. n \in Good
    <2>1. 0 \in Good
      OBVIOUS
    <2> HIDE DEF Good
    <2>2. QED BY <1>1, <1>8, <2>1, Induction
  <1>10. QED BY <1>1, <1>7, <1>9

-----------------------------------------------------------------------------
(* Slots.                                                                  *)

Subtypes    == {"none", "application", "exception", "form"}
Authorities == {"none", "order"}
GroupNames  == Families \union {"explicit"}
Stops       == {"none", "time_budget_exhausted", "search_call_budget_exhausted"}
Reasons     == Stops \union {"requirement_limit_exhausted", "no_candidate_article",
                             "article_candidate_budget_exhausted", "no_satisfying_article"}

Requirement ==
    [issue : Nat, family : Families, subtype : Subtypes, authority : Authorities,
     parent : Articles \union {NoArticle}, target : Articles \union {NoArticle},
     direct : BOOLEAN, explicit : BOOLEAN, mandatory : BOOLEAN, depth : Nat,
     groups : {G \in SUBSET (Nat \X GroupNames) : IsFiniteSet(G)},
     status : Statuses, reason : Reasons, overBudget : BOOLEAN, accepted : Seq(Articles)]

Store == Seq(Requirement)

\* Nothing was done for the slot yet.
Untouched(r) == r.status = "unresolved" /\ r.accepted = <<>>
Fresh(r)     == Untouched(r) /\ r.reason = "none" /\ ~r.overBudget

LEMMA AddType ==
  ASSUME NEW st \in Store, NEW r \in Requirement
  PROVE  Add(st, r) \in Store
  <1> DEFINE q == [r EXCEPT !.overBudget = TRUE, !.status = "unresolved",
                            !.reason = "requirement_limit_exhausted"]
  <1>1. q \in Requirement
    BY DEF Requirement, Statuses, Reasons
  <1> HIDE DEF q
  <1>2. Append(st, r) \in Store /\ Append(st, q) \in Store
    BY <1>1 DEF Store
  <1>3. Add(st, r) \in {st, Append(st, r), Append(st, q)}
    BY DEF Add, q
  <1>4. QED BY <1>2, <1>3

LEMMA AppendSet ==
  ASSUME NEW X, NEW s \in Seq(X), NEW x \in X
  PROVE  ToSet(Append(s, x)) = ToSet(s) \cup {x}
  <1>1. DOMAIN Append(s, x) = (DOMAIN s) \cup {Len(s) + 1}
    OBVIOUS
  <1>2. (\A i \in DOMAIN s : Append(s, x)[i] = s[i]) /\ Append(s, x)[Len(s) + 1] = x
    OBVIOUS
  <1>3. QED BY <1>1, <1>2 DEF ToSet

LEMMA KeepFacts ==
  ASSUME NEW X, NEW S, NEW s \in Seq(X)
  PROVE  Keep(s, S) \in Seq(X) /\ ToSet(Keep(s, S)) = ToSet(s) \cap S
  <1> DEFINE len == Len(s)
             A  == Seq(X)
             B  == X
             op == [q \in A \X B |-> (IF q[2] \in S THEN Append(q[1], q[2]) ELSE q[1])]
             Solves(h) == h = [T \in SUBSET (1..len) |->
                                 IF T = {} THEN <<>> ELSE (IF s[Max(T)] \in S THEN Append(h[T \ {Max(T)}], s[Max(T)]) ELSE h[T \ {Max(T)}])]
             iter == CHOOSE h : Solves(h)
             Good(k, x) == ToSet(x) = {s[j] : j \in 1..k} \cap S
             P == {q \in Nat \X A : Good(q[1], q[2])}
  <1>1. len \in Nat /\ DOMAIN s = 1..len /\ \A k \in 1..len : s[k] \in B
    OBVIOUS
  <1>2. /\ op \in [A \X B -> A]
        /\ \A x \in A, y \in B : op[<<x, y>>] = (IF y \in S THEN Append(x, y) ELSE x)
    <2>1. ASSUME NEW x \in A, NEW y \in B
          PROVE  (IF y \in S THEN Append(x, y) ELSE x) \in A
      OBVIOUS
    <2> HIDE DEF A, B
    <2>2. QED BY <2>1
  <1>3. <<>> \in A /\ Good(0, <<>>)
    <2>1. ToSet(<<>>) = {} /\ {s[j] : j \in 1..0} = {}
      BY DEF ToSet
    <2>2. QED BY <2>1
  <1>4. <<>> \in A /\ <<0, <<>>>> \in P
    <2> HIDE DEF A, Good
    <2>1. QED BY <1>3
  <1>5. FoldKeeps(A, op, s, len, P)
    <2>1. ASSUME NEW k \in 1..len, NEW x \in A, Good(k - 1, x), s[k] \in B
          PROVE  Good(k, (IF s[k] \in S THEN Append(x, s[k]) ELSE x))
      <3>1. k \in Nat /\ k - 1 \in Nat /\ 1..k = (1..(k - 1)) \cup {k}
        BY <1>1, <2>1
      <3>2. ToSet(Append(x, s[k])) = ToSet(x) \cup {s[k]}
        BY <2>1, AppendSet
      <3>3. {s[j] : j \in 1..k} = {s[j] : j \in 1..(k - 1)} \cup {s[k]}
        BY <3>1
      <3>4. ToSet(x) = {s[j] : j \in 1..(k - 1)} \cap S
        BY <2>1
      <3>5. CASE s[k] \in S
        <4>1. ToSet(Append(x, s[k])) = {s[j] : j \in 1..k} \cap S
          BY <3>2, <3>3, <3>4, <3>5
        <4>2. Append(x, s[k]) \in Seq(X)
          BY <2>1
        <4>3. QED BY <3>1, <3>5, <4>1, <4>2
      <3>6. CASE s[k] \notin S
        <4>1. ToSet(x) = {s[j] : j \in 1..k} \cap S
          BY <3>3, <3>4, <3>6
        <4>2. QED BY <2>1, <3>1, <3>6, <4>1
      <3>7. QED BY <3>5, <3>6
    <2> HIDE DEF op, len, A, B, Good
    <2>2. ASSUME NEW k \in 1..len, NEW x \in A, <<k - 1, x>> \in P
          PROVE  <<k, op[<<x, s[k]>>]>> \in P
      <3>1. s[k] \in B /\ Good(k - 1, x) /\ k \in Nat
        BY <1>1, <2>2
      <3>2. op[<<x, s[k]>>] \in A /\ op[<<x, s[k]>>] = (IF s[k] \in S THEN Append(x, s[k]) ELSE x)
        BY <1>2, <3>1
      <3>3. Good(k, op[<<x, s[k]>>])
        BY <2>1, <3>1, <3>2
      <3>4. QED BY <3>1, <3>2, <3>3
    <2>3. QED BY <2>2 DEF FoldKeeps
  <1>6. PICK g : FoldWhole(A, B, op, <<>>, s, len, g)
    <2> HIDE DEF op, len, A, B, P, Good
    <2>1. QED BY <1>1, <1>2, <1>4, FoldSolved
  <1>7. Solves(iter)
    <2> HIDE DEF op, A, B, P, Good
    <2>1. \A T \in SUBSET (1..len) :
             g[T] = IF T = {} THEN <<>> ELSE (IF s[Max(T)] \in S THEN Append(g[T \ {Max(T)}], s[Max(T)]) ELSE g[T \ {Max(T)}])
      BY <1>2, <1>6 DEF FoldWhole
    <2>2. Solves(g)
      BY <1>6, <2>1 DEF FoldWhole
    <2> HIDE DEF Solves
    <2>3. QED BY <2>2
  <1>8. Keep(s, S) = iter[1..len]
    BY <1>1 DEF Keep, FoldLeft, MapThenFoldSet
  <1>9. FoldSteps(A, op, <<>>, s, len, iter)
    <2> HIDE DEF iter, op, len, A, B, P, Good
    <2>1. \A T \in SUBSET (1..len) : T # {} => s[Max(T)] \in B
      BY <1>6 DEF FoldWhole
    <2>2. QED BY <1>2, <1>7, <2>1 DEF FoldSteps
  <1>10. Keep(s, S) \in A /\ Good(len, Keep(s, S))
    <2> HIDE DEF op, iter, len, A, B, Good
    <2>1. FoldEnds(A, len, iter, P)
      <3> HIDE DEF P
      <3>1. QED BY <1>1, <1>2, <1>4, <1>5, <1>9, FoldInduction
    <2>2. QED BY <1>8, <2>1 DEF FoldEnds
  <1>11. QED
    <2>1. ToSet(s) = {s[j] : j \in 1..len}
      BY <1>1 DEF ToSet
    <2>2. QED BY <1>10, <2>1

\* What a slot starts with, and what may be added to the store.
Children == {r \in Requirement : Fresh(r)}

\* x is st with slots behind it for which nothing was done yet.
Grown(st, x) ==
    /\ Len(st) <= Len(x)
    /\ \A i \in DOMAIN st : x[i] = st[i]
    /\ \A i \in DOMAIN x : i > Len(st) =>
          Untouched(x[i]) /\ (x[i].overBudget => x[i].reason # "none")

LEMMA AddGrown ==
  ASSUME NEW st \in Store, NEW x \in Store, Grown(st, x), NEW r \in Children
  PROVE  Grown(st, Add(x, r))
  <1> DEFINE q == [r EXCEPT !.overBudget = TRUE, !.status = "unresolved",
                            !.reason = "requirement_limit_exhausted"]
  <1>1. q \in Requirement /\ Untouched(q) /\ q.reason # "none"
    BY DEF Requirement, Statuses, Reasons, Children, Untouched, Fresh
  <1>2. r \in Requirement /\ Untouched(r) /\ ~r.overBudget
    BY DEF Children, Fresh
  <1> HIDE DEF q
  <1>3. ASSUME NEW y \in {r, q}
        PROVE  Grown(st, Append(x, y))
    <2>1. y \in Requirement /\ Untouched(y) /\ (y.overBudget => y.reason # "none")
      BY <1>1, <1>2
    <2>2. /\ Len(Append(x, y)) = Len(x) + 1 /\ Len(st) \in Nat /\ Len(x) \in Nat
          /\ DOMAIN st = 1..Len(st) /\ DOMAIN x = 1..Len(x)
          /\ DOMAIN Append(x, y) = 1..(Len(x) + 1)
          /\ \A i \in 1..Len(x) : Append(x, y)[i] = x[i]
          /\ Append(x, y)[Len(x) + 1] = y
      BY <2>1 DEF Store
    <2>3. \A i \in DOMAIN st : Append(x, y)[i] = st[i]
      BY <2>2 DEF Grown
    <2>4. \A i \in 1..(Len(x) + 1) : i \in 1..Len(x) \/ i = Len(x) + 1
      BY <2>2
    <2>5. \A i \in DOMAIN Append(x, y) : i > Len(st) =>
             Untouched(Append(x, y)[i]) /\ (Append(x, y)[i].overBudget => Append(x, y)[i].reason # "none")
      BY <2>1, <2>2, <2>4 DEF Grown
    <2>6. Len(st) <= Len(Append(x, y))
      BY <2>2 DEF Grown
    <2>7. QED BY <2>3, <2>5, <2>6 DEF Grown
  <1>4. Add(x, r) \in {x, Append(x, r), Append(x, q)}
    BY DEF Add, q
  <1>5. QED BY <1>3, <1>4

LEMMA AddAllGrown ==
  ASSUME NEW st \in Store, NEW reqs \in Seq(Children)
  PROVE  AddAll(st, reqs) \in Store /\ Grown(st, AddAll(st, reqs))
  <1> DEFINE len == Len(reqs)
             A  == Store
             B  == Children
             op == [q \in A \X B |-> Add(q[1], q[2])]
             Solves(h) == h = [T \in SUBSET (1..len) |->
                                 IF T = {} THEN st ELSE Add(h[T \ {Max(T)}], reqs[Max(T)])]
             iter == CHOOSE h : Solves(h)
             Good(k, x) == Grown(st, x)
             P == {q \in Nat \X A : Good(q[1], q[2])}
  <1>1. len \in Nat /\ DOMAIN reqs = 1..len /\ \A k \in 1..len : reqs[k] \in B
    OBVIOUS
  <1>2. /\ op \in [A \X B -> A]
        /\ \A x \in A, y \in B : op[<<x, y>>] = Add(x, y)
    <2>1. ASSUME NEW x \in A, NEW y \in B
          PROVE  Add(x, y) \in A
      BY AddType DEF Children
    <2> HIDE DEF A, B
    <2>2. QED BY <2>1
  <1>3. st \in A /\ Good(0, st)
    <2>1. \A i \in DOMAIN st : ~(i > Len(st))
      BY DEF Store
    <2>2. QED BY <2>1 DEF Grown, Store
  <1>4. st \in A /\ <<0, st>> \in P
    <2> HIDE DEF A, Good
    <2>1. QED BY <1>3
  <1>5. FoldKeeps(A, op, reqs, len, P)
    <2>1. ASSUME NEW k \in 1..len, NEW x \in A, Good(k - 1, x), reqs[k] \in B
          PROVE  Good(k, Add(x, reqs[k]))
      BY <2>1, AddGrown
    <2> HIDE DEF op, len, A, B, Good
    <2>2. ASSUME NEW k \in 1..len, NEW x \in A, <<k - 1, x>> \in P
          PROVE  <<k, op[<<x, reqs[k]>>]>> \in P
      <3>1. reqs[k] \in B /\ Good(k - 1, x) /\ k \in Nat
        BY <1>1, <2>2
      <3>2. op[<<x, reqs[k]>>] \in A /\ op[<<x, reqs[k]>>] = Add(x, reqs[k])
        BY <1>2, <3>1
      <3>3. Good(k, op[<<x, reqs[k]>>])
        BY <2>1, <3>1, <3>2
      <3>4. QED BY <3>1, <3>2, <3>3
    <2>3. QED BY <2>2 DEF FoldKeeps
  <1>6. PICK g : FoldWhole(A, B, op, st, reqs, len, g)
    <2> HIDE DEF op, len, A, B, P, Good
    <2>1. QED BY <1>1, <1>2, <1>4, FoldSolved
  <1>7. Solves(iter)
    <2> HIDE DEF op, A, B, P, Good
    <2>1. \A T \in SUBSET (1..len) :
             g[T] = IF T = {} THEN st ELSE Add(g[T \ {Max(T)}], reqs[Max(T)])
      BY <1>2, <1>6 DEF FoldWhole
    <2>2. Solves(g)
      BY <1>6, <2>1 DEF FoldWhole
    <2> HIDE DEF Solves
    <2>3. QED BY <2>2
  <1>8. AddAll(st, reqs) = iter[1..len]
    BY <1>1 DEF AddAll, FoldLeft, MapThenFoldSet
  <1>9. FoldSteps(A, op, st, reqs, len, iter)
    <2> HIDE DEF iter, op, len, A, B, P, Good
    <2>1. \A T \in SUBSET (1..len) : T # {} => reqs[Max(T)] \in B
      BY <1>6 DEF FoldWhole
    <2>2. QED BY <1>2, <1>7, <2>1 DEF FoldSteps
  <1>10. AddAll(st, reqs) \in A /\ Good(len, AddAll(st, reqs))
    <2> HIDE DEF op, iter, len, A, B, Good
    <2>1. FoldEnds(A, len, iter, P)
      <3> HIDE DEF P
      <3>1. QED BY <1>1, <1>2, <1>4, <1>5, <1>9, FoldInduction
    <2>2. QED BY <1>8, <2>1 DEF FoldEnds
  <1>11. QED
    BY <1>10

LEMMA SelectedPlace ==
  ASSUME NEW n \in Nat, NEW I \in SUBSET (1..n), I # {}
  PROVE  Min(I) \in I /\ \A j \in I : Min(I) <= j
  <1>1. I \in SUBSET Nat
    OBVIOUS
  <1>2. \E m \in I : \A j \in I : m <= j
    BY <1>1, LeastExists
  <1>3. QED BY <1>2 DEF Min

LEMMA NewSlot ==
  ASSUME NEW i \in Nat, NEW f \in Families, NEW a \in Articles \union {NoArticle}
  PROVE  [issue |-> i, family |-> f, subtype |-> "none", authority |-> "none",
          parent |-> NoArticle, target |-> a, direct |-> TRUE,
          explicit |-> a # NoArticle,
          mandatory |-> a # NoArticle \/ f \notin Auxiliary,
          depth |-> 0, groups |-> {}, status |-> "unresolved", reason |-> "none",
          overBudget |-> FALSE, accepted |-> <<>>] \in Children
  <1>1. IsFiniteSet({}) /\ {} \in SUBSET (Nat \X GroupNames)
    BY FS_EmptySet
  <1>2. (a # NoArticle) \in BOOLEAN /\ (a # NoArticle \/ f \notin Auxiliary) \in BOOLEAN
    OBVIOUS
  <1>3. "none" \in Subtypes /\ "none" \in Authorities /\ "unresolved" \in Statuses /\ "none" \in Reasons
    BY DEF Subtypes, Authorities, Statuses, Reasons, Stops
  <1>4. <<>> \in Seq(Articles)
    OBVIOUS
  <1>5. QED BY <1>1, <1>2, <1>3, <1>4 DEF Children, Requirement, Fresh, Untouched

LEMMA InitialOfType ==
  ASSUME NEW p \in Plans, NEW i \in DOMAIN p
  PROVE  InitialOf(p, i) \in Seq(Children)
  <1> DEFINE issue == p[i]
             I == {j \in 1..Len(issue.families) : issue.families[j] \in Conclusion}
             named == IF I # {} /\ Min(I) > 0 THEN issue.families[Min(I)]
                      ELSE IF issue.families # <<>> THEN Head(issue.families)
                      ELSE "normative_rule"
  <1>1. p \in Seq([families : Seq(Families), references : Seq(Articles)])
    BY SettingsAssumption
  <1>2. issue.families \in Seq(Families) /\ issue.references \in Seq(Articles) /\ i \in Nat
    <2> DEFINE Issues == [families : Seq(Families), references : Seq(Articles)]
    <2>1. p \in Seq(Issues)
      BY <1>1
    <2>2. i \in 1..Len(p) /\ Len(p) \in Nat /\ p[i] \in Issues
      <3> HIDE DEF Issues
      <3>1. QED BY <2>1
    <2>3. QED BY <2>2
  <1>3. Len(issue.families) \in Nat /\ I \in SUBSET (1..Len(issue.families))
    <2> HIDE DEF issue
    <2>1. QED BY <1>2
  <1>4. named \in Families
    <2> HIDE DEF issue, I
    <2>1. I # {} => Min(I) \in 1..Len(issue.families)
      BY <1>3, SelectedPlace
    <2>2. issue.families # <<>> => Head(issue.families) \in Families
      BY <1>2
    <2>3. "normative_rule" \in Families
      BY DEF Families, Conclusion
    <2>4. QED BY <1>2, <2>1, <2>2, <2>3
  <1> DEFINE Slot(family, target) ==
            [issue |-> i, family |-> family, subtype |-> "none", authority |-> "none",
             parent |-> NoArticle, target |-> target, direct |-> TRUE,
             explicit |-> target # NoArticle,
             mandatory |-> target # NoArticle \/ family \notin Auxiliary,
             depth |-> 0, groups |-> {}, status |-> "unresolved", reason |-> "none",
             overBudget |-> FALSE, accepted |-> <<>>]
             texts == [n \in DOMAIN issue.references |-> Slot(named, issue.references[n])]
             roles == [n \in DOMAIN issue.families |-> Slot(issue.families[n], NoArticle)]
  <1>5. \A f \in Families, a \in Articles \union {NoArticle} : Slot(f, a) \in Children
    BY <1>2, NewSlot
  <1>6. texts \in Seq(Children)
    <2> HIDE DEF Slot, issue, named
    <2>1. DOMAIN issue.references = 1..Len(issue.references) /\ Len(issue.references) \in Nat
      BY <1>2
    <2>2. \A n \in DOMAIN issue.references : Slot(named, issue.references[n]) \in Children
      BY <1>2, <1>4, <1>5
    <2>3. QED BY <2>1, <2>2
  <1>7. roles \in Seq(Children)
    <2> HIDE DEF Slot, issue, named
    <2>1. DOMAIN issue.families = 1..Len(issue.families) /\ Len(issue.families) \in Nat
      BY <1>2
    <2>2. \A n \in DOMAIN issue.families : Slot(issue.families[n], NoArticle) \in Children
      BY <1>2, <1>5
    <2>3. QED BY <2>1, <2>2
  <1>8. SelectInSeq(issue.families, LAMBDA f : f \in Conclusion) = IF I # {} THEN Min(I) ELSE 0
    BY DEF SelectInSeq
  <1>9. named = IF SelectInSeq(issue.families, LAMBDA f : f \in Conclusion) > 0
                THEN issue.families[SelectInSeq(issue.families, LAMBDA f : f \in Conclusion)]
                ELSE IF issue.families # <<>> THEN Head(issue.families)
                ELSE "normative_rule"
    <2> HIDE DEF issue, I
    <2>1. QED BY <1>8
  <1>10. InitialOf(p, i) = texts \o roles
    BY <1>9 DEF InitialOf
  <1>11. QED
    <2> HIDE DEF texts, roles
    <2>1. QED BY <1>6, <1>7, <1>10

LEMMA FiniteRange ==
  ASSUME NEW S, IsFiniteSet(S), NEW f, DOMAIN f = S
  PROVE  IsFiniteSet({f[x] : x \in S}) /\ Cardinality({f[x] : x \in S}) <= Cardinality(S)
  <1> DEFINE T == {f[x] : x \in S}
             g == [x \in S |-> f[x]]
  <1>1. g \in Surjection(S, T)
    BY DEF Surjection
  <1>2. QED
    <2> HIDE DEF g, T
    <2>1. IsFiniteSet(T) /\ Cardinality(T) <= Cardinality(S)
      BY <1>1, FS_Surjection
    <2>2. QED BY <2>1 DEF T

LEMMA FiniteSeqSet ==
  ASSUME NEW X, NEW s \in Seq(X)
  PROVE  IsFiniteSet(ToSet(s)) /\ Cardinality(ToSet(s)) <= Len(s)
  <1>1. DOMAIN s = 1..Len(s) /\ Len(s) \in Nat
    OBVIOUS
  <1>2. IsFiniteSet(1..Len(s)) /\ Cardinality(1..Len(s)) = Len(s)
    <2>1. Len(s) \in Int /\ 1 \in Int /\ (1 > Len(s) => Len(s) = 0)
      BY <1>1
    <2>2. QED BY <2>1, FS_Interval
  <1>3. QED BY <1>1, <1>2, FiniteRange DEF ToSet

LEMMA GroupsOfType ==
  ASSUME NEW reqs \in Seq(Requirement), NEW r \in Requirement
  PROVE  GroupsOf(r, reqs) \in SUBSET (Nat \X GroupNames) /\ IsFiniteSet(GroupsOf(r, reqs))
  <1> DEFINE like == {t \in ToSet(reqs) : t.issue = r.issue /\ t.family \in Conclusion}
             conclusions == {<<r.issue, s.family>> : s \in like}
             OrOwn(own) == IF conclusions # {} THEN conclusions ELSE {<<r.issue, own>>}
  <1>1. conclusions \in SUBSET ({r.issue} \X Families)
    BY DEF Families
  <1>2. IsFiniteSet(conclusions)
    <2>1. IsFiniteSet(Families)
      <3>1. Families = ((((((({} \cup {"normative_rule"}) \cup {"consequence"}) \cup {"qualification"})
               \cup {"meaning_scope"}) \cup {"procedure"}) \cup {"temporal"}) \cup {"interpretive"})
               \cup {"linkage"}
        BY DEF Families, Conclusion, Qualifier, Procedure, Auxiliary
      <3>2. QED BY <3>1, FS_AddElement, FS_EmptySet
    <2>2. IsFiniteSet({r.issue} \X Families)
      BY <2>1, FS_Singleton, FS_Product
    <2> HIDE DEF conclusions
    <2>3. QED BY <1>1, <2>2, FS_Subset
  <1>3. conclusions \in SUBSET (Nat \X GroupNames)
    <2>1. \A s \in like : s.family \in Conclusion /\ r.issue \in Nat
      BY DEF Requirement
    <2>2. Conclusion \subseteq GroupNames
      BY DEF GroupNames, Families
    <2> HIDE DEF like
    <2>3. QED BY <2>1, <2>2
  <1>4. /\ r.issue \in Nat /\ r.family \in GroupNames
        /\ "explicit" \in GroupNames /\ "procedure" \in GroupNames /\ "interpretive" \in GroupNames
    BY DEF Requirement, GroupNames, Families, Procedure, Auxiliary
  <1> DEFINE Ok(G) == G \in SUBSET (Nat \X GroupNames) /\ IsFiniteSet(G)
  <1>5. \A own \in GroupNames : Ok({<<r.issue, own>>}) /\ Ok(OrOwn(own))
    <2> HIDE DEF conclusions
    <2>1. \A own \in GroupNames : Ok({<<r.issue, own>>})
      <3>1. \A own \in GroupNames : {<<r.issue, own>>} \in SUBSET (Nat \X GroupNames)
        BY <1>4
      <3>2. \A own \in GroupNames : IsFiniteSet({<<r.issue, own>>})
        BY FS_Singleton
      <3>3. QED BY <3>1, <3>2
    <2>2. QED BY <1>2, <1>3, <2>1
  <1> HIDE DEF conclusions
  <1>6. GroupsOf(r, reqs) \in {OrOwn("explicit"), {<<r.issue, r.family>>}, OrOwn(r.family),
                               {<<r.issue, "procedure">>}, {<<r.issue, "interpretive">>}}
    BY DEF GroupsOf, conclusions
  <1> HIDE DEF OrOwn
  <1>7. Ok(GroupsOf(r, reqs))
    <2> HIDE DEF Ok
    <2>1. QED BY <1>4, <1>5, <1>6
  <1>8. QED BY <1>7

LEMMA InitialType ==
  ASSUME NEW p \in Plans
  PROVE  AssignGroups(InitialRequirements(p)) \in Seq(Children)
  <1> DEFINE reqs == InitialRequirements(p)
  <1>1. reqs \in Seq(Children)
    <2> DEFINE seqs == [i \in DOMAIN p |-> InitialOf(p, i)]
    <2>1. DOMAIN p = 1..Len(p) /\ Len(p) \in Nat
      BY SettingsAssumption
    <2>2. seqs \in Seq(Seq(Children))
      BY <2>1, InitialOfType
    <2> HIDE DEF seqs
    <2>3. FlattenSeq(seqs) \in Seq(Children)
      BY <2>2, FlattenType
    <2>4. QED BY <2>3 DEF seqs, InitialRequirements
  <1>2. reqs \in Seq(Requirement) /\ DOMAIN reqs = 1..Len(reqs) /\ Len(reqs) \in Nat
    <2> HIDE DEF reqs
    <2>1. QED BY <1>1 DEF Children
  <1> DEFINE Assigned(n) == IF reqs[n].groups # {} THEN reqs[n]
                            ELSE [reqs[n] EXCEPT !.groups = GroupsOf(reqs[n], reqs)]
  <1>3. \A n \in DOMAIN reqs : Assigned(n) \in Children
    <2> HIDE DEF reqs
    <2>1. ASSUME NEW n \in DOMAIN reqs
          PROVE  Assigned(n) \in Children
      <3>1. reqs[n] \in Children /\ reqs[n] \in Requirement
        BY <1>1, <1>2
      <3>2. GroupsOf(reqs[n], reqs) \in {G \in SUBSET (Nat \X GroupNames) : IsFiniteSet(G)}
        BY <1>2, <3>1, GroupsOfType
      <3>3. QED BY <3>1, <3>2 DEF Children, Requirement, Fresh, Untouched
    <2>2. QED BY <2>1
  <1>4. AssignGroups(reqs) = [n \in 1..Len(reqs) |-> Assigned(n)]
    BY <1>2 DEF AssignGroups
  <1>5. QED
    <2> HIDE DEF reqs, Assigned
    <2>1. \A n \in 1..Len(reqs) : Assigned(n) \in Children
      BY <1>2, <1>3
    <2>2. [n \in 1..Len(reqs) |-> Assigned(n)] \in Seq(Children)
      BY <1>2, <2>1
    <2>3. QED BY <1>4, <2>2 DEF reqs

LEMMA ChildType ==
  ASSUME NEW r \in Requirement, NEW f \in Families, NEW u \in Subtypes, NEW v \in Authorities,
         NEW a \in Articles \union {NoArticle}, NEW b \in Articles \union {NoArticle}
  PROVE  Child(r, f, u, v, a, b) \in Children
  <1>1. (r.mandatory /\ f \notin Auxiliary) \in BOOLEAN /\ r.depth + 1 \in Nat /\ <<>> \in Seq(Articles)
    BY DEF Requirement
  <1>2. "unresolved" \in Statuses /\ "none" \in Reasons
    BY DEF Statuses, Reasons, Stops
  <1>3. QED BY <1>1, <1>2 DEF Child, Children, Requirement, Fresh, Untouched

LEMMA TextChildrenType ==
  ASSUME NEW r \in Requirement, NEW a \in Articles
  PROVE  ChildrenFromText(r, a) \in Seq(Children)
  <1> DEFINE Of(cue) ==
          CASE cue = "delegation"  -> Child(r, r.family, r.subtype, "order", a, NoArticle)
            [] cue = "application" -> Child(r, "linkage", "application", "none", a, NoArticle)
            [] cue = "exception"   -> Child(r, "qualification", "exception", "none", a, NoArticle)
            [] cue = "form"        -> Child(r, "procedure", "form", "none", a, NoArticle)
             cues == Cues[a]
  <1>1. cues \in Seq({"delegation", "application", "exception", "form"})
    BY SettingsAssumption
  <1>2. \A c \in {"delegation", "application", "exception", "form"} : Of(c) \in Children
    <2>1. /\ r.family \in Families /\ r.subtype \in Subtypes
          /\ "linkage" \in Families /\ "qualification" \in Families /\ "procedure" \in Families
          /\ "application" \in Subtypes /\ "exception" \in Subtypes /\ "form" \in Subtypes
          /\ "order" \in Authorities /\ "none" \in Authorities
      BY DEF Requirement, Families, Qualifier, Procedure, Auxiliary, Subtypes, Authorities
    <2>2. /\ Child(r, r.family, r.subtype, "order", a, NoArticle) \in Children
          /\ Child(r, "linkage", "application", "none", a, NoArticle) \in Children
          /\ Child(r, "qualification", "exception", "none", a, NoArticle) \in Children
          /\ Child(r, "procedure", "form", "none", a, NoArticle) \in Children
      BY <2>1, ChildType
    <2>3. QED BY <2>2
  <1>3. ChildrenFromText(r, a) = [n \in DOMAIN cues |-> Of(cues[n])]
    BY DEF ChildrenFromText
  <1>4. QED
    <2> HIDE DEF Of, cues
    <2>1. DOMAIN cues = 1..Len(cues) /\ Len(cues) \in Nat
      BY <1>1
    <2>2. \A n \in 1..Len(cues) : Of(cues[n]) \in Children
      BY <1>1, <1>2, <2>1
    <2>3. [n \in 1..Len(cues) |-> Of(cues[n])] \in Seq(Children)
      BY <2>1, <2>2
    <2>4. QED BY <1>3, <2>1, <2>3

\* The edges of the accepted Articles of a slot, and the slot an edge asks for.
Edge == [from : Articles, type : RelationTypes, to : Articles]

EdgesOf(articles) ==
    [n \in DOMAIN articles |->
       [k \in DOMAIN Relations[articles[n]] |->
          [from |-> articles[n], type |-> Relations[articles[n]][k].type,
           to |-> Relations[articles[n]][k].to]]]

AskedBy(r, e) ==
    CASE e.type = "APPLIED_BY" -> Child(r, "linkage", "application", "none", e.from, e.to)
      [] e.type # "APPLIED_BY" -> Child(r, r.family, r.subtype, "none", e.from, e.to)

AddAsked(r, children_, e) ==
    IF Len(children_) >= MaxChildRelations \/ e.to = r.target
    THEN children_ ELSE Append(children_, AskedBy(r, e))

LEMMA EdgesType ==
  ASSUME NEW articles \in Seq(Articles)
  PROVE  FlattenSeq(EdgesOf(articles)) \in Seq(Edge)
  <1>1. DOMAIN articles = 1..Len(articles) /\ Len(articles) \in Nat
    OBVIOUS
  <1> DEFINE Row(n) == [k \in DOMAIN Relations[articles[n]] |->
                          [from |-> articles[n], type |-> Relations[articles[n]][k].type,
                           to |-> Relations[articles[n]][k].to]]
  <1>2. ASSUME NEW n \in 1..Len(articles)
        PROVE  Row(n) \in Seq(Edge)
    <2>1. articles[n] \in Articles
      BY <1>1
    <2> DEFINE rel == Relations[articles[n]]
    <2>2. rel \in Seq([type : RelationTypes, to : Articles])
      BY <2>1, SettingsAssumption
    <2>3. DOMAIN rel = 1..Len(rel) /\ Len(rel) \in Nat
      <3> HIDE DEF rel
      <3>1. QED BY <2>2
    <2>4. \A k \in 1..Len(rel) :
            [from |-> articles[n], type |-> rel[k].type, to |-> rel[k].to] \in Edge
      <3> DEFINE R == [type : RelationTypes, to : Articles]
      <3> HIDE DEF rel
      <3>1. rel \in Seq(R)
        BY <2>2
      <3>2. \A k \in 1..Len(rel) : rel[k] \in R
        <4> HIDE DEF R
        <4>1. QED BY <2>3, <3>1
      <3>3. QED BY <2>1, <3>2 DEF Edge
    <2>5. Row(n) = [k \in 1..Len(rel) |-> [from |-> articles[n], type |-> rel[k].type, to |-> rel[k].to]]
      BY <2>3
    <2>6. QED
      <3> HIDE DEF rel, Row
      <3>1. [k \in 1..Len(rel) |-> [from |-> articles[n], type |-> rel[k].type, to |-> rel[k].to]] \in Seq(Edge)
        BY <2>3, <2>4
      <3>2. QED BY <2>5, <3>1
  <1>3. EdgesOf(articles) = [n \in 1..Len(articles) |-> Row(n)]
    BY <1>1 DEF EdgesOf
  <1>4. EdgesOf(articles) \in Seq(Seq(Edge))
    <2> HIDE DEF Row
    <2>1. [n \in 1..Len(articles) |-> Row(n)] \in Seq(Seq(Edge))
      BY <1>1, <1>2
    <2>2. QED BY <1>3, <2>1
  <1>5. QED BY <1>4, FlattenType

LEMMA AskedByType ==
  ASSUME NEW r \in Requirement, NEW e \in Edge
  PROVE  AskedBy(r, e) \in Children
  <1>1. /\ r.family \in Families /\ r.subtype \in Subtypes /\ e.from \in Articles /\ e.to \in Articles
        /\ "linkage" \in Families /\ "application" \in Subtypes /\ "none" \in Authorities
    BY DEF Requirement, Edge, Families, Auxiliary, Subtypes, Authorities
  <1>2. /\ Child(r, "linkage", "application", "none", e.from, e.to) \in Children
        /\ Child(r, r.family, r.subtype, "none", e.from, e.to) \in Children
    BY <1>1, ChildType
  <1>3. QED BY <1>2 DEF AskedBy

LEMMA GraphChildrenType ==
  ASSUME NEW r \in Requirement, NEW articles \in Seq(Articles)
  PROVE  ChildrenFromGraph(r, articles) \in Seq(Children)
  <1> DEFINE edges == FlattenSeq(EdgesOf(articles))
             len == Len(edges)
             A  == Seq(Children)
             B  == Edge
             op == [q \in A \X B |-> AddAsked(r, q[1], q[2])]
             Solves(h) == h = [T \in SUBSET (1..len) |->
                                 IF T = {} THEN <<>> ELSE AddAsked(r, h[T \ {Max(T)}], edges[Max(T)])]
             iter == CHOOSE h : Solves(h)
             Good(k, x) == TRUE
             P == {q \in Nat \X A : Good(q[1], q[2])}
  <1>1. len \in Nat /\ DOMAIN edges = 1..len /\ \A k \in 1..len : edges[k] \in B
    BY EdgesType
  <1>2. /\ op \in [A \X B -> A]
        /\ \A x \in A, y \in B : op[<<x, y>>] = AddAsked(r, x, y)
    <2>1. ASSUME NEW x \in A, NEW y \in B
          PROVE  AddAsked(r, x, y) \in A
      BY AskedByType DEF AddAsked
    <2> HIDE DEF A, B
    <2>2. QED BY <2>1
  <1>3. <<>> \in A /\ Good(0, <<>>)
    OBVIOUS
  <1>4. <<>> \in A /\ <<0, <<>>>> \in P
    <2> HIDE DEF A, Good
    <2>1. QED BY <1>3
  <1>5. FoldKeeps(A, op, edges, len, P)
    <2>1. ASSUME NEW k \in 1..len, NEW x \in A, Good(k - 1, x), edges[k] \in B
          PROVE  Good(k, AddAsked(r, x, edges[k]))
      OBVIOUS
    <2> HIDE DEF op, len, A, B, Good
    <2>2. ASSUME NEW k \in 1..len, NEW x \in A, <<k - 1, x>> \in P
          PROVE  <<k, op[<<x, edges[k]>>]>> \in P
      <3>1. edges[k] \in B /\ Good(k - 1, x) /\ k \in Nat
        BY <1>1, <2>2
      <3>2. op[<<x, edges[k]>>] \in A /\ op[<<x, edges[k]>>] = AddAsked(r, x, edges[k])
        BY <1>2, <3>1
      <3>3. Good(k, op[<<x, edges[k]>>])
        BY <2>1, <3>1, <3>2
      <3>4. QED BY <3>1, <3>2, <3>3
    <2>3. QED BY <2>2 DEF FoldKeeps
  <1>6. PICK g : FoldWhole(A, B, op, <<>>, edges, len, g)
    <2> HIDE DEF op, len, A, B, P, Good
    <2>1. QED BY <1>1, <1>2, <1>4, FoldSolved
  <1>7. Solves(iter)
    <2> HIDE DEF op, A, B, P, Good
    <2>1. \A T \in SUBSET (1..len) :
             g[T] = IF T = {} THEN <<>> ELSE AddAsked(r, g[T \ {Max(T)}], edges[Max(T)])
      BY <1>2, <1>6 DEF FoldWhole
    <2>2. Solves(g)
      BY <1>6, <2>1 DEF FoldWhole
    <2> HIDE DEF Solves
    <2>3. QED BY <2>2
  <1>8. ChildrenFromGraph(r, articles) = iter[1..len]
    BY <1>1 DEF ChildrenFromGraph, EdgesOf, AddAsked, AskedBy, FoldLeft, MapThenFoldSet
  <1>9. FoldSteps(A, op, <<>>, edges, len, iter)
    <2> HIDE DEF iter, op, len, A, B, P, Good
    <2>1. \A T \in SUBSET (1..len) : T # {} => edges[Max(T)] \in B
      BY <1>6 DEF FoldWhole
    <2>2. QED BY <1>2, <1>7, <2>1 DEF FoldSteps
  <1>10. ChildrenFromGraph(r, articles) \in A /\ Good(len, ChildrenFromGraph(r, articles))
    <2> HIDE DEF op, iter, len, A, B, Good
    <2>1. FoldEnds(A, len, iter, P)
      <3> HIDE DEF P
      <3>1. QED BY <1>1, <1>2, <1>4, <1>5, <1>9, FoldInduction
    <2>2. QED BY <1>8, <2>1 DEF FoldEnds
  <1>11. QED
    BY <1>10

-----------------------------------------------------------------------------
(* The candidates of one slot.                                             *)

Distinct(s) == \A i, j \in DOMAIN s : i # j => s[i] # s[j]

Allocation ==
    [pool : Seq(Seq(Articles)), evictable : Seq(Nat \X Articles), count : Int, limited : BOOLEAN,
     pooled : Seq(Articles), accepted : Seq(Articles), closed : BOOLEAN]

\* What the slots and the candidates must be for the allocation.
PoolShape ==
    /\ store \in Store
    /\ pool \in Seq(Seq(Articles)) /\ Len(pool) = Len(store)
    /\ evictable \in Seq(Nat \X Articles)
    /\ count \in Int /\ limited \in BOOLEAN

Start == [pool |-> pool, evictable |-> evictable, count |-> count, limited |-> limited,
          pooled |-> <<>>, accepted |-> <<>>, closed |-> FALSE]

\* What was kept for other slots and may not be given up is still kept.
Protects(n, acc) ==
    \A m \in DOMAIN pool : m # n =>
        \A a \in ToSet(pool[m]) : <<m, a>> \in ToSet(evictable) \/ a \in ToSet(acc.pool[m])

\* Of the candidates so far, those that may be given up are not accepted.
Separates(n, seen, acc) ==
    /\ ToSet(acc.accepted) \subseteq ToSet(acc.pooled) \cap seen
    /\ \A e \in ToSet(acc.evictable) :
          \/ e \in ToSet(evictable)
          \/ e[1] = n /\ e[2] \in seen \ ToSet(acc.accepted)

AllocationFacts(n, seen, acc) ==
    /\ Len(acc.pool) = Len(pool)
    /\ Protects(n, acc)
    /\ Separates(n, seen, acc)
    /\ limited => acc.limited

LEMMA EvictType ==
  ASSUME NEW acc \in Allocation, acc.evictable # <<>>
  PROVE  /\ Evict(acc) \in Allocation
         /\ Last(acc.evictable) \in ToSet(acc.evictable)
         /\ ToSet(Evict(acc).evictable) \subseteq ToSet(acc.evictable)
         /\ Len(Evict(acc).pool) = Len(acc.pool)
         /\ \A m \in DOMAIN acc.pool :
               ToSet(Evict(acc).pool[m]) = IF m = Last(acc.evictable)[1]
                                           THEN ToSet(acc.pool[m]) \cap (Articles \ {Last(acc.evictable)[2]})
                                           ELSE ToSet(acc.pool[m])
         /\ Evict(acc).pooled = acc.pooled /\ Evict(acc).accepted = acc.accepted
         /\ Evict(acc).limited = acc.limited /\ Evict(acc).closed = acc.closed
  <1> DEFINE ev  == acc.evictable
             out == Last(ev)
             S   == Articles \ {out[2]}
             p   == [acc.pool EXCEPT ![out[1]] = Keep(@, S)]
  <1>1. ev \in Seq(Nat \X Articles) /\ acc.pool \in Seq(Seq(Articles)) /\ acc.count \in Int
    BY DEF Allocation
  <1>2. Len(ev) \in Nat /\ Len(ev) > 0 /\ DOMAIN ev = 1..Len(ev)
    <2> HIDE DEF ev
    <2>1. ev # <<>>
      BY DEF ev
    <2>2. QED BY <1>1, <2>1
  <1>3. out \in ToSet(ev)
    <2> HIDE DEF ev
    <2>1. Len(ev) \in DOMAIN ev
      BY <1>2
    <2>2. QED BY <2>1 DEF ToSet, Last
  <1>4. Front(ev) \in Seq(Nat \X Articles) /\ ToSet(Front(ev)) \subseteq ToSet(ev)
    <2> HIDE DEF ev
    <2>1. Front(ev) = [i \in 1..(Len(ev) - 1) |-> ev[i]]
      BY <1>1, <1>2 DEF Front
    <2>2. \A i \in 1..(Len(ev) - 1) : ev[i] \in Nat \X Articles /\ i \in DOMAIN ev
      BY <1>1, <1>2
    <2>3. Len(ev) - 1 \in Nat
      BY <1>2
    <2>4. Front(ev) \in Seq(Nat \X Articles)
      BY <2>1, <2>2, <2>3
    <2>5. ToSet(Front(ev)) \subseteq ToSet(ev)
      BY <2>1, <2>2 DEF ToSet
    <2>6. QED BY <2>4, <2>5
  <1>5. DOMAIN p = DOMAIN acc.pool /\ DOMAIN acc.pool = 1..Len(acc.pool) /\ Len(acc.pool) \in Nat
    BY <1>1
  <1>6. \A m \in DOMAIN acc.pool :
           /\ acc.pool[m] \in Seq(Articles)
           /\ p[m] = IF m = out[1] THEN Keep(acc.pool[m], S) ELSE acc.pool[m]
    <2> HIDE DEF S, out
    <2>1. QED BY <1>1, <1>5
  <1>7. \A m \in DOMAIN acc.pool :
           /\ p[m] \in Seq(Articles)
           /\ ToSet(p[m]) = IF m = out[1] THEN ToSet(acc.pool[m]) \cap S ELSE ToSet(acc.pool[m])
    <2> HIDE DEF S, out, p
    <2>1. ASSUME NEW m \in DOMAIN acc.pool
          PROVE  /\ Keep(acc.pool[m], S) \in Seq(Articles)
                 /\ ToSet(Keep(acc.pool[m], S)) = ToSet(acc.pool[m]) \cap S
      BY <1>6, KeepFacts
    <2>2. QED BY <1>6, <2>1
  <1>8. p \in Seq(Seq(Articles)) /\ Len(p) = Len(acc.pool)
    <2> DEFINE len == Len(acc.pool)
    <2>1. p \in [1..len -> Seq(Articles)] /\ len \in Nat
      BY <1>5, <1>7
    <2> HIDE DEF p, len
    <2>2. p \in Seq(Seq(Articles)) /\ Len(p) = len
      BY <2>1
    <2>3. QED BY <2>2 DEF len
  <1>9. Evict(acc) = [acc EXCEPT !.evictable = Front(ev), !.count = acc.count - 1, !.pool = p]
    BY DEF Evict, Allocation
  <1>10. acc.count - 1 \in Int
    BY <1>1
  <1>11. /\ Evict(acc) \in Allocation
         /\ Evict(acc).evictable = Front(ev) /\ Evict(acc).pool = p
         /\ Evict(acc).pooled = acc.pooled /\ Evict(acc).accepted = acc.accepted
         /\ Evict(acc).limited = acc.limited /\ Evict(acc).closed = acc.closed
    <2> HIDE DEF p, ev
    <2>1. QED BY <1>4, <1>8, <1>9, <1>10 DEF Allocation
  <1>12. QED
    <2> HIDE DEF p
    <2>1. QED BY <1>3, <1>4, <1>7, <1>8, <1>11

LEMMA EvictFacts ==
  ASSUME PoolShape, NEW n \in DOMAIN store, NEW seen,
         NEW acc \in Allocation, acc.evictable # <<>>, AllocationFacts(n, seen, acc)
  PROVE  Evict(acc) \in Allocation /\ AllocationFacts(n, seen, Evict(acc))
  <1> DEFINE out == Last(acc.evictable)
             ev  == Evict(acc)
  <1>1. /\ ev \in Allocation
        /\ out \in ToSet(acc.evictable)
        /\ ToSet(ev.evictable) \subseteq ToSet(acc.evictable)
        /\ Len(ev.pool) = Len(acc.pool)
        /\ \A m \in DOMAIN acc.pool :
              ToSet(ev.pool[m]) = IF m = out[1] THEN ToSet(acc.pool[m]) \cap (Articles \ {out[2]})
                                  ELSE ToSet(acc.pool[m])
        /\ ev.pooled = acc.pooled /\ ev.accepted = acc.accepted
        /\ ev.limited = acc.limited /\ ev.closed = acc.closed
    BY EvictType
  <1> HIDE DEF ev
  <1>2. out \in Nat \X Articles
    <2>1. acc.evictable \in Seq(Nat \X Articles)
      BY DEF Allocation
    <2>2. QED BY <1>1, <2>1 DEF ToSet
  <1>3. DOMAIN acc.pool = DOMAIN pool /\ \A m \in DOMAIN acc.pool : ToSet(acc.pool[m]) \subseteq Articles
    <2>1. acc.pool \in Seq(Seq(Articles)) /\ Len(acc.pool) = Len(pool) /\ pool \in Seq(Seq(Articles))
      BY DEF Allocation, AllocationFacts, PoolShape
    <2>2. DOMAIN acc.pool = DOMAIN pool
      BY <2>1
    <2>3. \A m \in DOMAIN acc.pool : acc.pool[m] \in Seq(Articles)
      BY <2>1
    <2>4. QED BY <2>2, <2>3 DEF ToSet
  <1>4. Protects(n, ev)
    <2>1. SUFFICES ASSUME NEW m \in DOMAIN pool, m # n, NEW a \in ToSet(pool[m]),
                          <<m, a>> \notin ToSet(evictable)
                   PROVE  a \in ToSet(ev.pool[m])
      BY DEF Protects
    <2>2. a \in ToSet(acc.pool[m]) /\ a \in Articles
      BY <1>3, <2>1 DEF AllocationFacts, Protects
    <2>3. CASE m = out[1] /\ a = out[2]
      <3>1. out = <<m, a>>
        BY <1>2, <2>3
      <3>2. out \in ToSet(evictable) \/ out[1] = n
        BY <1>1 DEF AllocationFacts, Separates
      <3>3. QED BY <2>1, <2>3, <3>1, <3>2
    <2>4. CASE ~(m = out[1] /\ a = out[2])
      BY <1>1, <1>3, <2>2, <2>4
    <2>5. QED BY <2>3, <2>4
  <1>5. Separates(n, seen, ev)
    BY <1>1 DEF AllocationFacts, Separates
  <1>6. AllocationFacts(n, seen, ev)
    BY <1>1, <1>4, <1>5 DEF AllocationFacts
  <1>7. QED BY <1>1, <1>6 DEF ev

\* The candidate a is kept for slot n, and accepted or put with those that may be given up.
Take(room, n, a, accepts, atLimit) ==
    [room EXCEPT !.limited = room.limited \/ atLimit,
                 !.count = room.count + 1,
                 !.pooled = Append(room.pooled, a),
                 !.accepted = IF accepts THEN Append(room.accepted, a) ELSE room.accepted,
                 !.evictable = MayBeGivenUp(room, n, a, accepts)]

TakenFrom(room, n, a, accepts, atLimit, next) ==
    /\ next.pool = room.pool
    /\ next.evictable = MayBeGivenUp(room, n, a, accepts)
    /\ next.accepted = (IF accepts THEN Append(room.accepted, a) ELSE room.accepted)
    /\ next.pooled = Append(room.pooled, a)
    /\ next.limited = (room.limited \/ atLimit)

LEMMA TakeType ==
  ASSUME NEW n \in Nat, NEW room \in Allocation, NEW a \in Articles,
         NEW accepts \in BOOLEAN, NEW atLimit \in BOOLEAN
  PROVE  /\ Take(room, n, a, accepts, atLimit) \in Allocation
         /\ TakenFrom(room, n, a, accepts, atLimit, Take(room, n, a, accepts, atLimit))
  <1>1. /\ room.pool \in Seq(Seq(Articles)) /\ room.evictable \in Seq(Nat \X Articles)
        /\ room.count \in Int /\ room.limited \in BOOLEAN /\ room.pooled \in Seq(Articles)
        /\ room.accepted \in Seq(Articles) /\ room.closed \in BOOLEAN
    BY DEF Allocation
  <1>2. <<n, a>> \in Nat \X Articles
    OBVIOUS
  <1> DEFINE ev == MayBeGivenUp(room, n, a, accepts)
             ac == IF accepts THEN Append(room.accepted, a) ELSE room.accepted
             po == Append(room.pooled, a)
             li == room.limited \/ atLimit
  <1>3. ev \in Seq(Nat \X Articles) /\ ac \in Seq(Articles) /\ po \in Seq(Articles)
        /\ room.count + 1 \in Int /\ li \in BOOLEAN
    BY <1>1, <1>2 DEF MayBeGivenUp
  <1>4. Take(room, n, a, accepts, atLimit) = [room EXCEPT !.limited = li, !.count = room.count + 1,
                            !.pooled = po, !.accepted = ac, !.evictable = ev]
    BY DEF Take
  <1> HIDE DEF ev, ac, po, li
  <1>5. /\ Take(room, n, a, accepts, atLimit) \in Allocation
        /\ Take(room, n, a, accepts, atLimit).pool = room.pool /\ Take(room, n, a, accepts, atLimit).evictable = ev /\ Take(room, n, a, accepts, atLimit).accepted = ac /\ Take(room, n, a, accepts, atLimit).pooled = po
        /\ Take(room, n, a, accepts, atLimit).limited = li
    BY <1>3, <1>4 DEF Allocation
  <1>6. QED BY <1>5 DEF ev, ac, po, li, TakenFrom

LEMMA AllocateOneType ==
  ASSUME NEW n \in Nat, NEW acc \in Allocation, NEW a \in Articles, NEW satisfying
  PROVE  AllocateOne(acc, n, a, satisfying) \in Allocation
  <1> DEFINE atLimit == acc.count >= MaxCandidates
             gives == store[n].mandatory /\ acc.evictable # <<>>
             room == IF atLimit /\ gives THEN Evict(acc) ELSE acc
             accepts == a \in satisfying /\ Len(room.accepted) < MaxAccepted
             closing == [acc EXCEPT !.limited = TRUE, !.closed = TRUE]
             next == Take(room, n, a, accepts, atLimit)
  <1>1. atLimit \in BOOLEAN /\ accepts \in BOOLEAN
    OBVIOUS
  <1>2. room \in Allocation
    BY EvictType
  <1>3. next \in Allocation
    <2> HIDE DEF accepts, atLimit, next, room
    <2>1. QED BY <1>1, <1>2, TakeType DEF next
  <1>4. closing \in Allocation
    BY DEF Allocation
  <1>5. AllocateOne(acc, n, a, satisfying) =
           IF acc.closed THEN acc ELSE IF atLimit /\ ~gives THEN closing ELSE next
    BY DEF AllocateOne, Take
  <1> HIDE DEF next, closing, gives, atLimit
  <1>6. QED BY <1>3, <1>4, <1>5

LEMMA TakeFacts ==
  ASSUME PoolShape, NEW n \in DOMAIN store, NEW seen,
         NEW room \in Allocation, AllocationFacts(n, seen, room),
         NEW a \in Articles, a \notin seen, NEW accepts \in BOOLEAN, NEW atLimit \in BOOLEAN
  PROVE  /\ Take(room, n, a, accepts, atLimit) \in Allocation
         /\ AllocationFacts(n, seen \cup {a}, Take(room, n, a, accepts, atLimit))
  <1> DEFINE next == Take(room, n, a, accepts, atLimit)
  <1>1. /\ room.pool \in Seq(Seq(Articles)) /\ room.evictable \in Seq(Nat \X Articles)
        /\ room.count \in Int /\ room.limited \in BOOLEAN /\ room.pooled \in Seq(Articles)
        /\ room.accepted \in Seq(Articles) /\ room.closed \in BOOLEAN
    BY DEF Allocation
  <1>2. n \in Nat /\ <<n, a>> \in Nat \X Articles
    BY DEF PoolShape, Store
  <1> DEFINE ev == MayBeGivenUp(room, n, a, accepts)
             ac == IF accepts THEN Append(room.accepted, a) ELSE room.accepted
             po == Append(room.pooled, a)
  <1>3. /\ next \in Allocation
        /\ next.pool = room.pool /\ next.evictable = ev /\ next.accepted = ac /\ next.pooled = po
        /\ next.limited = (room.limited \/ atLimit)
    <2> HIDE DEF next
    <2>1. n \in Nat
      BY <1>2
    <2>2. next \in Allocation /\ TakenFrom(room, n, a, accepts, atLimit, next)
      BY <2>1, TakeType DEF next
    <2>3. QED BY <2>2 DEF TakenFrom
  <1>4. ToSet(po) = ToSet(room.pooled) \cup {a}
    BY <1>1, AppendSet
  <1>5. ToSet(ac) = IF accepts THEN ToSet(room.accepted) \cup {a} ELSE ToSet(room.accepted)
    <2>1. ToSet(Append(room.accepted, a)) = ToSet(room.accepted) \cup {a}
      BY <1>1, AppendSet
    <2>2. QED BY <2>1
  <1>6. ToSet(ev) = IF accepts THEN ToSet(room.evictable) ELSE ToSet(room.evictable) \cup {<<n, a>>}
    <2> DEFINE e == <<n, a>>
               X == Nat \X Articles
    <2>1. e \in X /\ room.evictable \in Seq(X)
      BY <1>1, <1>2
    <2> HIDE DEF e, X
    <2>2. ToSet(Append(room.evictable, e)) = ToSet(room.evictable) \cup {e}
      BY <2>1, AppendSet
    <2>3. QED BY <2>2 DEF MayBeGivenUp, e
  <1> HIDE DEF ev, ac, po, next
  <1>7. Separates(n, seen \cup {a}, next)
    <2>1. /\ ToSet(room.accepted) \subseteq ToSet(room.pooled) \cap seen
          /\ \A e \in ToSet(room.evictable) :
                e \in ToSet(evictable) \/ (e[1] = n /\ e[2] \in seen \ ToSet(room.accepted))
      BY DEF AllocationFacts, Separates
    <2>2. ToSet(ac) \subseteq ToSet(po) \cap (seen \cup {a})
      BY <1>4, <1>5, <2>1
    <2>3. ASSUME NEW e \in ToSet(ev)
          PROVE  e \in ToSet(evictable) \/ (e[1] = n /\ e[2] \in (seen \cup {a}) \ ToSet(ac))
      <3>1. CASE e \in ToSet(room.evictable)
        BY <1>5, <2>1, <3>1
      <3>2. CASE ~accepts /\ e = <<n, a>>
        <4>1. a \notin ToSet(ac)
          BY <1>5, <2>1, <3>2
        <4>2. QED BY <3>2, <4>1
      <3>3. QED BY <1>6, <3>1, <3>2
    <2>4. QED BY <1>3, <2>2, <2>3 DEF Separates
  <1>8. AllocationFacts(n, seen \cup {a}, next)
    BY <1>3, <1>7 DEF AllocationFacts, Protects
  <1>9. QED BY <1>3, <1>8 DEF next

\* What AllocateOne adds to a candidate that satisfies.
Served(acc) == acc.accepted # <<>> \/ acc.limited

LEMMA AllocateOneFacts ==
  ASSUME PoolShape, NEW n \in DOMAIN store, NEW seen,
         NEW acc \in Allocation, AllocationFacts(n, seen, acc),
         NEW a \in Articles, a \notin seen, NEW satisfying
  PROVE  /\ AllocateOne(acc, n, a, satisfying) \in Allocation
         /\ AllocationFacts(n, seen \cup {a}, AllocateOne(acc, n, a, satisfying))
         /\ Served(acc) => Served(AllocateOne(acc, n, a, satisfying))
         /\ acc.accepted = <<>> /\ ~acc.closed /\ a \in satisfying =>
               Served(AllocateOne(acc, n, a, satisfying))
  <1> DEFINE atLimit == acc.count >= MaxCandidates
             gives == store[n].mandatory /\ acc.evictable # <<>>
             room == IF atLimit /\ gives THEN Evict(acc) ELSE acc
             accepts == a \in satisfying /\ Len(room.accepted) < MaxAccepted
             closing == [acc EXCEPT !.limited = TRUE, !.closed = TRUE]
             next == Take(room, n, a, accepts, atLimit)
  <1>1. atLimit \in BOOLEAN /\ accepts \in BOOLEAN
    OBVIOUS
  <1>2. room \in Allocation /\ AllocationFacts(n, seen, room) /\ room.accepted = acc.accepted
        /\ room.limited = acc.limited
    <2>1. CASE atLimit /\ gives
      BY <2>1, EvictFacts, EvictType
    <2>2. CASE ~(atLimit /\ gives)
      BY <2>2
    <2>3. QED BY <2>1, <2>2
  <1> HIDE DEF room
  <1>3. next \in Allocation /\ AllocationFacts(n, seen \cup {a}, next)
    <2> HIDE DEF accepts, atLimit, next
    <2>1. QED BY <1>1, <1>2, TakeFacts DEF next
  <1>4. next.accepted = (IF accepts THEN Append(room.accepted, a) ELSE room.accepted)
        /\ next.limited = (room.limited \/ atLimit)
    <2> HIDE DEF accepts, atLimit
    <2>1. n \in Nat
      BY DEF PoolShape, Store
    <2>2. QED BY <1>1, <1>2, <2>1, TakeType DEF TakenFrom
  <1>5. room.accepted \in Seq(Articles) /\ Append(room.accepted, a) # <<>>
    <2>1. room.accepted \in Seq(Articles)
      BY <1>2 DEF Allocation
    <2>2. QED BY <2>1
  <1>6. closing \in Allocation /\ closing.limited = TRUE /\ closing.accepted = acc.accepted
        /\ AllocationFacts(n, seen \cup {a}, closing)
    BY DEF Allocation, AllocationFacts, Protects, Separates
  <1>7. AllocateOne(acc, n, a, satisfying) =
           IF acc.closed THEN acc ELSE IF atLimit /\ ~gives THEN closing ELSE next
    BY DEF AllocateOne, Take, room
  <1> HIDE DEF next, closing, gives, atLimit, accepts
  <1>8. CASE acc.closed
    BY <1>7, <1>8 DEF AllocationFacts, Protects, Separates
  <1>9. CASE ~acc.closed /\ atLimit /\ ~gives
    BY <1>6, <1>7, <1>9 DEF Served
  <1>10. CASE ~acc.closed /\ ~(atLimit /\ ~gives)
    <2>1. AllocateOne(acc, n, a, satisfying) = next
      BY <1>7, <1>10
    <2>2. Served(acc) => Served(next)
      BY <1>2, <1>4, <1>5 DEF Served
    <2>3. acc.accepted = <<>> /\ a \in satisfying => accepts
      <3>1. MaxAccepted \in Nat \ {0} /\ Len(<<>>) = 0
        BY SettingsAssumption
      <3>2. QED BY <1>2, <3>1 DEF accepts
    <2>4. acc.accepted = <<>> /\ a \in satisfying => Served(next)
      BY <1>4, <1>5, <2>3 DEF Served
    <2>5. QED BY <1>3, <2>1, <2>2, <2>4
  <1>11. QED BY <1>8, <1>9, <1>10

\* What allocate_candidates does for a slot: r is what it comes to.
AllocatedFor(n, first, satisfying, r) ==
    /\ r \in Allocation
    /\ Len(r.pool) = Len(pool)
    /\ Protects(n, r)
    /\ ToSet(r.accepted) \subseteq ToSet(r.pooled)
    /\ \A e \in ToSet(r.evictable) :
          e \in ToSet(evictable) \/ (e[1] = n /\ e[2] \notin ToSet(r.accepted))
    /\ limited => r.limited
    /\ first \in satisfying => Served(r)

LEMMA AllocateFacts ==
  ASSUME PoolShape, NEW n \in DOMAIN store, NEW satisfying,
         NEW order \in Seq(Articles), Distinct(order), order # <<>>
  PROVE  AllocatedFor(n, order[1], satisfying, AllocateCandidates(n, order, satisfying))
  <1> DEFINE cut == SubSeq(order, 1, Smaller(Len(order), MaxArticles))
             len == Len(cut)
             A  == Allocation
             B  == Articles
             op == [q \in A \X B |-> AllocateOne(q[1], n, q[2], satisfying)]
             Solves(h) == h = [T \in SUBSET (1..len) |->
                                 IF T = {} THEN Start ELSE AllocateOne(h[T \ {Max(T)}], n, cut[Max(T)], satisfying)]
             iter == CHOOSE h : Solves(h)
             Good(k, x) == /\ AllocationFacts(n, {cut[j] : j \in 1..k}, x)
                           /\ k = 0 => x.accepted = <<>> /\ ~x.closed
                           /\ k > 0 /\ cut[1] \in satisfying => Served(x)
             P == {q \in Nat \X A : Good(q[1], q[2])}
  <1>1. /\ cut \in Seq(Articles) /\ Len(cut) \in Nat /\ Len(cut) > 0
        /\ cut[1] = order[1] /\ \A i, j \in 1..Len(cut) : i # j => cut[i] # cut[j]
        /\ n \in Nat
    <2> DEFINE top == Smaller(Len(order), MaxArticles)
    <2>1. Len(order) \in Nat /\ Len(order) > 0 /\ DOMAIN order = 1..Len(order)
      OBVIOUS
    <2>2. top \in Nat /\ top > 0 /\ top <= Len(order)
      <3>1. MaxArticles \in Nat \ {0}
        BY SettingsAssumption
      <3>2. QED BY <2>1, <3>1 DEF Smaller
    <2> HIDE DEF top
    <2>3. cut = SubSeq(order, 1, top)
      BY DEF top
    <2> HIDE DEF cut
    <2>4. cut \in Seq(Articles) /\ Len(cut) = top /\ \A i \in 1..top : cut[i] = order[i]
      BY <2>1, <2>2, <2>3
    <2>5. n \in Nat
      BY DEF PoolShape, Store
    <2>6. \A i \in 1..top : i \in DOMAIN order
      BY <2>1, <2>2
    <2>7. QED BY <2>1, <2>2, <2>4, <2>5, <2>6 DEF Distinct
  <1> HIDE DEF cut
  <1>2. len \in Nat /\ DOMAIN cut = 1..len /\ \A k \in 1..len : cut[k] \in B
    BY <1>1
  <1>3. /\ op \in [A \X B -> A]
        /\ \A x \in A, y \in B : op[<<x, y>>] = AllocateOne(x, n, y, satisfying)
    <2>1. ASSUME NEW x \in A, NEW y \in B
          PROVE  AllocateOne(x, n, y, satisfying) \in A
      BY <1>1, AllocateOneType
    <2> HIDE DEF A, B
    <2>2. QED BY <2>1
  <1>4. Start \in A /\ Good(0, Start)
    BY <1>1 DEF PoolShape, Start, Allocation, AllocationFacts, Protects, Separates, ToSet
  <1>5. Start \in A /\ <<0, Start>> \in P
    <2> HIDE DEF A, Good
    <2>1. QED BY <1>4
  <1>6. FoldKeeps(A, op, cut, len, P)
    <2>1. ASSUME NEW k \in 1..len, NEW x \in A, Good(k - 1, x), cut[k] \in B
          PROVE  Good(k, AllocateOne(x, n, cut[k], satisfying))
      <3> DEFINE seen == {cut[j] : j \in 1..(k - 1)}
      <3>1. cut[k] \notin seen
        BY <1>1, <2>1 DEF Distinct
      <3>2. {cut[j] : j \in 1..k} = seen \cup {cut[k]}
        <4>1. 1..k = (1..(k - 1)) \cup {k}
          BY <1>2, <2>1
        <4>2. QED BY <4>1
      <3>3. k - 1 = 0 => k = 1
        BY <1>2, <2>1
      <3>4. AllocationFacts(n, seen, x)
        BY <2>1
      <3> DEFINE next == AllocateOne(x, n, cut[k], satisfying)
      <3> HIDE DEF seen
      <3>5. /\ next \in Allocation
            /\ AllocationFacts(n, seen \cup {cut[k]}, next)
            /\ Served(x) => Served(next)
            /\ x.accepted = <<>> /\ ~x.closed /\ cut[k] \in satisfying => Served(next)
        BY <2>1, <3>1, <3>4, AllocateOneFacts
      <3> HIDE DEF next
      <3>6. k > 0 /\ cut[1] \in satisfying => Served(next)
        <4>1. k \in Nat /\ (k = 1 \/ k - 1 > 0)
          BY <1>2, <2>1
        <4>2. CASE k = 1
          <5>1. x.accepted = <<>> /\ ~x.closed
            BY <2>1, <4>2
          <5>2. QED BY <3>5, <4>2, <5>1
        <4>3. CASE k - 1 > 0
          <5>1. cut[1] \in satisfying => Served(x)
            BY <2>1, <4>3
          <5>2. QED BY <3>5, <5>1
        <4>4. QED BY <4>1, <4>2, <4>3
      <3>7. AllocationFacts(n, {cut[j] : j \in 1..k}, next)
        BY <3>2, <3>5, Zenon
      <3>8. k # 0
        BY <1>2
      <3>9. QED BY <3>6, <3>7, <3>8 DEF next
    <2> HIDE DEF op, len, A, B, Good
    <2>2. ASSUME NEW k \in 1..len, NEW x \in A, <<k - 1, x>> \in P
          PROVE  <<k, op[<<x, cut[k]>>]>> \in P
      <3>1. cut[k] \in B /\ Good(k - 1, x) /\ k \in Nat
        BY <1>2, <2>2
      <3>2. op[<<x, cut[k]>>] \in A /\ op[<<x, cut[k]>>] = AllocateOne(x, n, cut[k], satisfying)
        BY <1>3, <3>1
      <3>3. Good(k, op[<<x, cut[k]>>])
        BY <2>1, <3>1, <3>2
      <3>4. QED BY <3>1, <3>2, <3>3
    <2>3. QED BY <2>2 DEF FoldKeeps
  <1>7. PICK g : FoldWhole(A, B, op, Start, cut, len, g)
    <2> HIDE DEF op, len, A, B, P, Good
    <2>1. QED BY <1>2, <1>3, <1>5, FoldSolved
  <1>8. Solves(iter)
    <2> HIDE DEF op, A, B, P, Good
    <2>1. \A T \in SUBSET (1..len) :
             g[T] = IF T = {} THEN Start ELSE AllocateOne(g[T \ {Max(T)}], n, cut[Max(T)], satisfying)
      BY <1>3, <1>7 DEF FoldWhole
    <2>2. Solves(g)
      BY <1>7, <2>1 DEF FoldWhole
    <2> HIDE DEF Solves
    <2>3. QED BY <2>2
  <1>9. AllocateCandidates(n, order, satisfying) = iter[1..len]
    BY <1>2 DEF AllocateCandidates, Start, cut, FoldLeft, MapThenFoldSet
  <1>10. FoldSteps(A, op, Start, cut, len, iter)
    <2> HIDE DEF iter, op, len, A, B, P, Good
    <2>1. \A T \in SUBSET (1..len) : T # {} => cut[Max(T)] \in B
      BY <1>7 DEF FoldWhole
    <2>2. QED BY <1>3, <1>8, <2>1 DEF FoldSteps
  <1>11. AllocateCandidates(n, order, satisfying) \in A /\ Good(len, AllocateCandidates(n, order, satisfying))
    <2> HIDE DEF op, iter, len, A, B, Good
    <2>1. FoldEnds(A, len, iter, P)
      <3> HIDE DEF P
      <3>1. QED BY <1>2, <1>3, <1>5, <1>6, <1>10, FoldInduction
    <2>2. QED BY <1>9, <2>1 DEF FoldEnds
  <1>12. QED
    <2> DEFINE r == AllocateCandidates(n, order, satisfying)
               seen == {cut[j] : j \in 1..len}
    <2>1. AllocationFacts(n, seen, r) /\ r \in Allocation
      BY <1>11
    <2>2. order[1] \in satisfying => Served(r)
      BY <1>1, <1>11
    <2> HIDE DEF r
    <2>3. QED BY <2>1, <2>2 DEF AllocatedFor, AllocationFacts, Separates, r

-----------------------------------------------------------------------------
(* The shape of the state.                                                 *)

RunShape ==
    /\ phase \in {"guidance", "pop", "search", "rerank", "allocate", "done"}
    /\ plan \in Plans
    /\ round \in 0..MaxRounds
    /\ children \in Seq(Children)
    /\ clock \in {"ample", "short"}
    /\ phase # "done" => stop \in Stops

\* Between the batches nothing of them is left; a batch is searched as a whole.
BatchShape ==
    /\ batch \in Seq(Nat) /\ ToSet(batch) \subseteq DOMAIN store /\ Distinct(batch)
    /\ rest \in Seq(Nat) /\ ToSet(rest) \subseteq ToSet(batch) /\ Distinct(rest)
    /\ phase \in {"guidance", "pop", "done"} => batch = <<>> /\ rest = <<>> /\ found = <<>>
    /\ phase = "search" => rest = batch /\ found = <<>>
    /\ phase = "rerank" => rest = batch /\ waiting \in Seq(ToSet(batch))
    /\ phase \in {"rerank", "allocate"} => found \in [ToSet(batch) -> SUBSET Articles]

\* A slot is being searched exactly while the batch has it still to do.
SlotShape(st, todo) ==
    \A n \in DOMAIN st :
        /\ st[n].status = "searching" <=> n \in ToSet(todo)
        /\ st[n].status \in {"unresolved", "searching"} => st[n].accepted = <<>>
        /\ st[n].status = "unresolved" /\ st[n].overBudget => st[n].reason # "none"

Shape == RunShape /\ PoolShape /\ BatchShape /\ SlotShape(store, rest)

LEMMA NoElements ==
  ASSUME NEW S
  PROVE  <<>> \in Seq(S) /\ ToSet(<<>>) = {} /\ Distinct(<<>>)
  <1>1. <<>> \in Seq(S)
    BY EmptySeq
  <1>2. DOMAIN <<>> = {}
    OBVIOUS
  <1>3. QED BY <1>1, <1>2 DEF ToSet, Distinct

LEMMA SeqWider ==
  ASSUME NEW S, NEW T, S \subseteq T, NEW s \in Seq(S)
  PROVE  s \in Seq(T)
  <1> DEFINE len == Len(s)
  <1>1. len \in Nat /\ s \in [1..len -> S]
    OBVIOUS
  <1>2. s \in [1..len -> T]
    BY <1>1
  <1> HIDE DEF len
  <1>3. QED BY <1>1, <1>2

LEMMA StorePlaces ==
  ASSUME NEW st \in Store
  PROVE  /\ Len(st) \in Nat /\ DOMAIN st = 1..Len(st) /\ DOMAIN st \subseteq Nat /\ IsFiniteSet(DOMAIN st)
         /\ \A n \in DOMAIN st : st[n] \in Requirement
  <1>1. Len(st) \in Nat /\ DOMAIN st = 1..Len(st) /\ \A n \in DOMAIN st : st[n] \in Requirement
    BY DEF Store
  <1>2. IsFiniteSet(1..Len(st))
    BY <1>1, FS_Interval
  <1>3. QED BY <1>1, <1>2

\* A store with the same places is a store if each slot of it is one.
LEMMA StoreOfSlots ==
  ASSUME NEW st \in Store, NEW x, DOMAIN x = DOMAIN st, x = [n \in DOMAIN x |-> x[n]],
         \A n \in DOMAIN st : x[n] \in Requirement
  PROVE  x \in Store /\ Len(x) = Len(st)
  <1> DEFINE len == Len(st)
  <1>1. len \in Nat /\ x \in [1..len -> Requirement]
    BY StorePlaces
  <1> HIDE DEF len
  <1>2. x \in Seq(Requirement) /\ Len(x) = len
    BY <1>1
  <1>3. QED BY <1>2 DEF Store, len

LEMMA SetSlot ==
  ASSUME NEW st \in Store, NEW n \in DOMAIN st, NEW r \in Requirement
  PROVE  /\ [st EXCEPT ![n] = r] \in Store /\ Len([st EXCEPT ![n] = r]) = Len(st)
         /\ \A m \in DOMAIN st : [st EXCEPT ![n] = r][m] = IF m = n THEN r ELSE st[m]
  <1> DEFINE x == [st EXCEPT ![n] = r]
  <1>1. DOMAIN x = DOMAIN st /\ x = [m \in DOMAIN x |-> x[m]]
    OBVIOUS
  <1>2. \A m \in DOMAIN st : x[m] = IF m = n THEN r ELSE st[m]
    BY StorePlaces
  <1>3. \A m \in DOMAIN st : x[m] \in Requirement
    BY <1>2, StorePlaces
  <1> HIDE DEF x
  <1>4. x \in Store /\ Len(x) = Len(st)
    BY <1>1, <1>3, StoreOfSlots
  <1>5. QED BY <1>2, <1>4 DEF x

LEMMA SeqsOfSet ==
  ASSUME NEW S, IsFiniteSet(S), NEW s \in SetToSeqs(S)
  PROVE  s \in Seq(S) /\ Distinct(s) /\ ToSet(s) = S /\ Len(s) = Cardinality(S)
  <1> DEFINE n == Cardinality(S)
  <1>1. n \in Nat
    BY FS_CardinalityType
  <1>2. s \in [1..n -> S] /\ \A i, j \in 1..n : i # j => s[i] # s[j]
    BY DEF SetToSeqs
  <1> HIDE DEF n
  <1>3. s \in Seq(S) /\ Len(s) = n /\ DOMAIN s = 1..n
    BY <1>1, <1>2
  <1>4. Distinct(s)
    BY <1>2, <1>3 DEF Distinct
  <1>5. s \in Injection(1..n, S)
    BY <1>2 DEF Injection, IsInjective
  <1>6. IsFiniteSet(1..n) /\ Cardinality(1..n) = n
    <2>1. 1 \in Int /\ n \in Int /\ (1 > n => n = 0)
      BY <1>1
    <2>2. QED BY <2>1, FS_Interval
  <1>7. s \in Surjection(1..n, S)
    BY <1>5, <1>6, FS_Injection DEF n
  <1>8. ToSet(s) = S
    BY <1>2, <1>3, <1>7 DEF Surjection, ToSet
  <1>9. QED BY <1>3, <1>4, <1>8 DEF n

LEMMA BatchesAreOpen ==
  ASSUME NEW st \in Store, NEW s \in PriorityBatches(st)
  PROVE  s \in Seq(Nat) /\ Distinct(s) /\ ToSet(s) \subseteq Pending(st) /\ Pending(st) \subseteq DOMAIN st
  <1>1. Pending(st) \subseteq DOMAIN st /\ ActivePending(st) \subseteq Pending(st)
    BY DEF Pending, ActivePending
  <1>2. IsFiniteSet(ActivePending(st))
    BY <1>1, StorePlaces, FS_Subset
  <1>3. s \in SetToSeqs(ActivePending(st))
    BY DEF PriorityBatches
  <1>4. s \in Seq(ActivePending(st)) /\ Distinct(s) /\ ToSet(s) = ActivePending(st)
    BY <1>2, <1>3, SeqsOfSet
  <1>5. s \in Seq(Nat)
    <2>1. ActivePending(st) \subseteq Nat
      BY <1>1, StorePlaces
    <2>2. QED BY <1>4, <2>1, SeqWider
  <1>6. QED BY <1>1, <1>4, <1>5

LEMMA ShapeInit ==
  ASSUME Init
  PROVE  Shape
  <1>1. plan \in Plans
    BY DEF Init
  <1>2. AssignGroups(InitialRequirements(plan)) \in Seq(Children)
    BY <1>1, InitialType
  <1>3. <<>> \in Store
    BY DEF Store
  <1>4. store \in Store /\ Grown(<<>>, store)
    BY <1>2, <1>3, AddAllGrown DEF Init
  <1>5. DOMAIN store = 1..Len(store) /\ Len(store) \in Nat /\ Len(<<>>) = 0
    BY <1>4, StorePlaces
  <1>6. PoolShape
    <2> DEFINE len == Len(store)
    <2>1. pool = [n \in 1..len |-> <<>>] /\ len \in Nat
      BY <1>5 DEF Init, NoneYet
    <2>2. pool \in Seq(Seq(Articles)) /\ Len(pool) = len
      <3> HIDE DEF len
      <3>1. QED BY <2>1
    <2>3. evictable = <<>> /\ count = 0 /\ limited = FALSE
      BY DEF Init
    <2>4. evictable \in Seq(Nat \X Articles) /\ count \in Int /\ limited \in BOOLEAN
      <3> DEFINE X == Nat \X Articles
      <3>1. <<>> \in Seq(X)
        BY NoElements
      <3>2. evictable \in Seq(X)
        <4> HIDE DEF X
        <4>1. QED BY <2>3, <3>1
      <3>3. 0 \in Int
        OBVIOUS
      <3> HIDE DEF X
      <3>4. QED BY <2>3, <3>2, <3>3 DEF X
    <2>5. QED BY <1>4, <2>2, <2>4 DEF PoolShape
  <1>7. RunShape
    <2>1. MaxRounds \in Nat
      BY SettingsAssumption
    <2>2. QED BY <1>1, <2>1 DEF RunShape, Init, Stops
  <1>8. BatchShape
    BY DEF BatchShape, Init, ToSet, Distinct
  <1>9. SlotShape(store, rest)
    <2>1. \A n \in DOMAIN store : Untouched(store[n]) /\ (store[n].overBudget => store[n].reason # "none")
      <3>1. \A n \in DOMAIN store : n > Len(<<>>)
        BY <1>5
      <3>2. QED BY <1>4, <3>1 DEF Grown
    <2>2. ToSet(rest) = {}
      BY DEF Init, ToSet
    <2>3. QED BY <2>1, <2>2 DEF SlotShape, Untouched
  <1>10. QED BY <1>6, <1>7, <1>8, <1>9 DEF Shape

LEMMA HeadMember ==
  ASSUME NEW X, NEW s \in Seq(X), s # <<>>
  PROVE  Head(s) \in ToSet(s)
  <1>1. 1 \in DOMAIN s /\ Head(s) = s[1]
    BY SMT
  <1>2. QED BY <1>1 DEF ToSet

LEMMA PopShape ==
  ASSUME Shape, Pop
  PROVE  Shape'
  <1>1. /\ phase = "pop" /\ batch' \in PriorityBatches(store) /\ rest' = batch'
        /\ store' = StartBatch(store, batch') /\ phase' = "search" /\ stop = "none"
        /\ UNCHANGED <<plan, round, found, children, clock, stop, pool, evictable, count, limited>>
    BY DEF Pop, poolVars
  <1>2. store \in Store
    BY DEF Shape, PoolShape
  <1> DEFINE b == batch'
             x == StartBatch(store, b)
  <1>3. b \in Seq(Nat) /\ Distinct(b) /\ ToSet(b) \subseteq Pending(store) /\ Pending(store) \subseteq DOMAIN store
    BY <1>1, <1>2, BatchesAreOpen
  <1> HIDE DEF b
  <1>4. /\ DOMAIN x = DOMAIN store /\ x = [n \in DOMAIN x |-> x[n]]
        /\ \A n \in DOMAIN store : x[n] = IF n \in ToSet(b) THEN [store[n] EXCEPT !.status = "searching"]
                                          ELSE store[n]
    BY DEF StartBatch
  <1>5. \A n \in DOMAIN store : store[n] \in Requirement
    BY <1>2, StorePlaces
  <1> HIDE DEF x
  <1>6. ASSUME NEW n \in DOMAIN store
        PROVE  /\ x[n] \in Requirement /\ x[n].accepted = store[n].accepted
               /\ x[n].overBudget = store[n].overBudget /\ x[n].reason = store[n].reason
               /\ x[n].status = IF n \in ToSet(b) THEN "searching" ELSE store[n].status
    <2>1. store[n] \in Requirement
      BY <1>5
    <2>2. QED BY <1>4, <2>1 DEF Requirement, Statuses
  <1>7. x \in Store /\ Len(x) = Len(store)
    BY <1>2, <1>4, <1>6, StoreOfSlots
  <1>8. SlotShape(x, b)
    <2>1. \A n \in DOMAIN store : store[n].status # "searching"
      <3>1. rest = <<>>
        BY <1>1 DEF Shape, BatchShape
      <3>2. ToSet(rest) = {}
        BY <3>1, NoElements
      <3>3. QED BY <3>2 DEF Shape, SlotShape
    <2>2. \A n \in ToSet(b) : store[n].status = "unresolved"
      BY <1>3 DEF Pending
    <2>3. QED BY <1>3, <1>4, <1>6, <2>1, <2>2 DEF Shape, SlotShape
  <1>9. PoolShape' /\ SlotShape(store, rest)'
    <2>1. store' = x /\ rest' = b
      BY <1>1 DEF x, b
    <2>2. QED BY <1>1, <1>7, <1>8, <2>1 DEF Shape, PoolShape, SlotShape
  <1>10. RunShape'
    BY <1>1 DEF Shape, RunShape
  <1>11. BatchShape'
    <2>1. b = batch' /\ rest' = b /\ DOMAIN store' = DOMAIN store
      BY <1>1, <1>4 DEF b, x
    <2>2. QED BY <1>1, <1>3, <2>1 DEF Shape, BatchShape
  <1>12. QED BY <1>9, <1>10, <1>11 DEF Shape

LEMMA SearchedShape ==
  ASSUME Shape, phase = "search", NEW results \in [ToSet(batch) -> SUBSET Articles],
         Searched(results), stop' \in Stops
  PROVE  Shape'
  <1>1. /\ found' = results /\ phase' = "rerank"
        /\ waiting' = Keep(batch, {n \in ToSet(batch) : Cardinality(results[n]) >= 2})
        /\ UNCHANGED <<plan, store, round, batch, rest, children, clock, pool, evictable, count, limited>>
    BY DEF Searched, poolVars
  <1>2. rest = batch /\ batch \in Seq(Nat)
    BY DEF Shape, BatchShape
  <1>3. waiting' \in Seq(ToSet(batch))
    <2>1. batch \in Seq(ToSet(batch))
      <3> DEFINE len == Len(batch)
      <3>1. len \in Nat /\ batch = [i \in 1..len |-> batch[i]] /\ DOMAIN batch = 1..len
        BY <1>2
      <3>2. \A i \in 1..len : batch[i] \in ToSet(batch)
        BY <3>1 DEF ToSet
      <3> HIDE DEF len
      <3>3. [i \in 1..len |-> batch[i]] \in Seq(ToSet(batch))
        BY <3>1, <3>2
      <3>4. QED BY <3>1, <3>3
    <2>2. QED BY <1>1, <2>1, KeepFacts
  <1>4. RunShape' /\ PoolShape' /\ SlotShape(store, rest)'
    BY <1>1 DEF Shape, RunShape, PoolShape, SlotShape
  <1>5. BatchShape'
    BY <1>1, <1>2, <1>3 DEF Shape, BatchShape
  <1>6. QED BY <1>4, <1>5 DEF Shape

LEMMA GraphDoneShape ==
  ASSUME Shape, NEW more \in Seq(Children), GraphDone(more), stop' \in Stops, clock' \in {"ample", "short"}
  PROVE  Shape'
  <1>1. /\ phase = "allocate" /\ rest = <<>> /\ children' = children \o more
        /\ batch' = <<>> /\ found' = <<>> /\ phase' = "pop"
        /\ UNCHANGED <<plan, store, round, rest, pool, evictable, count, limited>>
    BY DEF GraphDone, poolVars
  <1>2. children' \in Seq(Children)
    <2>1. children \in Seq(Children)
      BY DEF Shape, RunShape
    <2>2. QED BY <1>1, <2>1
  <1>3. RunShape'
    BY <1>1, <1>2 DEF Shape, RunShape
  <1>4. PoolShape' /\ SlotShape(store, rest)'
    BY <1>1 DEF Shape, PoolShape, SlotShape
  <1>5. BatchShape'
    <2>1. batch' \in Seq(Nat) /\ rest' \in Seq(Nat) /\ Distinct(batch') /\ Distinct(rest') /\ ToSet(batch') = {}
          /\ ToSet(rest') = {}
      BY <1>1, NoElements
    <2>2. QED BY <1>1, <2>1 DEF BatchShape
  <1>6. QED BY <1>3, <1>4, <1>5 DEF Shape

\* The slot at the head of the rest is decided.
LEMMA DecidedShape ==
  ASSUME Shape, phase = "allocate", rest # <<>>, rest' = Tail(rest),
         NEW r \in Requirement, store' = [store EXCEPT ![Head(rest)] = r],
         r.status \in {"resolved", "candidate_found", "exhausted"},
         UNCHANGED <<phase, plan, round, batch, found, clock, stop>>,
         children' \in Seq(Children),
         pool' \in Seq(Seq(Articles)), Len(pool') = Len(pool), evictable' \in Seq(Nat \X Articles),
         count' \in Int, limited' \in BOOLEAN
  PROVE  Shape'
  <1> DEFINE n == Head(rest)
  <1>1. store \in Store /\ rest \in Seq(Nat) /\ Distinct(rest) /\ ToSet(rest) \subseteq DOMAIN store
    BY DEF Shape, PoolShape, BatchShape
  <1>2. /\ n \in ToSet(rest) /\ Tail(rest) \in Seq(Nat) /\ Distinct(Tail(rest))
        /\ ToSet(Tail(rest)) = ToSet(rest) \ {n}
    <2>1. Len(rest) \in Nat /\ Len(rest) > 0 /\ DOMAIN rest = 1..Len(rest) /\ n = rest[1] /\ Tail(rest) \in Seq(Nat)
      BY <1>1
    <2>2. Len(Tail(rest)) = Len(rest) - 1 /\ DOMAIN Tail(rest) = 1..(Len(rest) - 1)
          /\ \A i \in 1..(Len(rest) - 1) : Tail(rest)[i] = rest[i + 1]
      BY <1>1, <2>1
    <2>3. Distinct(Tail(rest))
      BY <1>1, <2>1, <2>2 DEF Distinct
    <2>4. ToSet(Tail(rest)) \subseteq ToSet(rest) \ {n}
      <3>1. SUFFICES ASSUME NEW i \in 1..(Len(rest) - 1)
                     PROVE  Tail(rest)[i] \in ToSet(rest) \ {n}
        BY <2>2 DEF ToSet
      <3>2. i + 1 \in DOMAIN rest /\ 1 \in DOMAIN rest /\ i + 1 # 1 /\ Tail(rest)[i] = rest[i + 1]
        BY <2>1, <2>2
      <3>3. rest[i + 1] # n
        BY <1>1, <2>1, <3>2 DEF Distinct
      <3>4. QED BY <3>2, <3>3 DEF ToSet
    <2>5. ToSet(rest) \ {n} \subseteq ToSet(Tail(rest))
      <3>1. SUFFICES ASSUME NEW i \in 1..Len(rest), rest[i] # n
                     PROVE  rest[i] \in ToSet(Tail(rest))
        BY <2>1 DEF ToSet
      <3>2. i - 1 \in 1..(Len(rest) - 1) /\ (i - 1) + 1 = i
        BY <2>1, <3>1
      <3>3. QED BY <2>2, <3>2 DEF ToSet
    <2>6. 1 \in DOMAIN rest
      BY <2>1
    <2>7. n \in ToSet(rest)
      BY <2>1, <2>6 DEF ToSet
    <2> HIDE DEF n
    <2>8. QED BY <2>1, <2>3, <2>4, <2>5, <2>7
  <1>3. n \in DOMAIN store
    BY <1>1, <1>2
  <1>4. /\ store' \in Store /\ Len(store') = Len(store)
        /\ \A m \in DOMAIN store : store'[m] = IF m = n THEN r ELSE store[m]
    BY <1>1, <1>3, SetSlot
  <1> HIDE DEF n
  <1>5. DOMAIN store' = DOMAIN store
    BY <1>1, <1>4, StorePlaces
  <1>6. PoolShape' /\ RunShape'
    BY <1>4 DEF Shape, PoolShape, RunShape
  <1>7. BatchShape'
    BY <1>2, <1>5 DEF Shape, BatchShape
  <1>8. SlotShape(store, rest)'
    BY <1>2, <1>4, <1>5 DEF Shape, SlotShape
  <1>9. QED BY <1>6, <1>7, <1>8 DEF Shape

LEMMA NoCandidateShape ==
  ASSUME Shape, NoCandidate
  PROVE  Shape'
  <1> DEFINE n == Head(rest)
             r == [store[n] EXCEPT !.status = "exhausted", !.reason = "no_candidate_article"]
  <1>1. /\ phase = "allocate" /\ rest # <<>> /\ rest' = Tail(rest)
        /\ store' = [store EXCEPT ![n].status = "exhausted", ![n].reason = "no_candidate_article"]
        /\ UNCHANGED <<phase, plan, round, batch, found, clock, stop, children, pool, evictable, count, limited>>
    BY DEF NoCandidate, SetStatus, poolVars
  <1>2. rest \in Seq(Nat) /\ ToSet(rest) \subseteq DOMAIN store /\ store \in Store
    BY DEF Shape, PoolShape, BatchShape
  <1>3. n \in DOMAIN store
    BY <1>1, <1>2, HeadMember
  <1>4. store[n] \in Requirement
    BY <1>2, <1>3, StorePlaces
  <1>5. r \in Requirement /\ r.status = "exhausted"
    BY <1>4 DEF Requirement, Statuses, Reasons
  <1>6. store' = [store EXCEPT ![n] = r]
    BY <1>1
  <1> HIDE DEF r
  <1>7. /\ children' \in Seq(Children) /\ pool' \in Seq(Seq(Articles)) /\ Len(pool') = Len(pool)
        /\ evictable' \in Seq(Nat \X Articles) /\ count' \in Int /\ limited' \in BOOLEAN
    BY <1>1 DEF Shape, PoolShape, RunShape
  <1>8. QED BY <1>1, <1>5, <1>6, <1>7, DecidedShape

\* What the step Allocate does: an order of the candidates, what of them satisfies the slot,
\* and what the allocation comes to.
AllocatedTo(n, order, satisfying, r) ==
    /\ order \in Orders(n) /\ satisfying \in Satisfying(n)
    /\ r = AllocateCandidates(n, order, satisfying)
    /\ pool' = IF r.pooled = <<>> THEN r.pool ELSE [r.pool EXCEPT ![n] = r.pooled]
    /\ evictable' = r.evictable /\ count' = r.count /\ limited' = r.limited

Refused(n, r) ==
    LET reason == IF r.pooled = <<>> /\ r.limited THEN "article_candidate_budget_exhausted"
                  ELSE "no_satisfying_article"
    IN /\ r.accepted = <<>>
       /\ SetStatus(n, "candidate_found", reason)
       /\ UNCHANGED children

Resolved(n, r) == [store[n] EXCEPT !.status = "resolved", !.accepted = r.accepted]

Resolves(n, r) ==
    /\ r.accepted # <<>>
    /\ store' = [store EXCEPT ![n] = Resolved(n, r)]
    /\ children' = children \o FlattenSeq(
                      [k \in DOMAIN r.accepted |-> ChildrenFromText(Resolved(n, r), r.accepted[k])])

LEMMA AllocateDoes ==
  ASSUME Allocate
  PROVE  /\ phase = "allocate" /\ rest # <<>> /\ found[Head(rest)] # {}
         /\ rest' = Tail(rest)
         /\ UNCHANGED <<phase, plan, round, batch, found, clock, stop>>
         /\ \E order, satisfying, r :
               /\ AllocatedTo(Head(rest), order, satisfying, r)
               /\ Refused(Head(rest), r) \/ Resolves(Head(rest), r)
  <1>1. /\ phase = "allocate" /\ rest # <<>> /\ found[Head(rest)] # {}
        /\ rest' = Tail(rest)
        /\ UNCHANGED <<phase, plan, round, batch, found, clock, stop>>
    BY DEF Allocate
  <1>2. PICK order \in Orders(Head(rest)), satisfying \in Satisfying(Head(rest)) :
           LET n == Head(rest)
               r == AllocateCandidates(n, order, satisfying)
           IN AllocatedTo(n, order, satisfying, r) /\ (Refused(n, r) \/ Resolves(n, r))
    BY DEF Allocate, AllocatedTo, Refused, Resolves, Resolved
  <1>3. QED BY <1>1, <1>2

\* The order of the candidates of a slot that searches.
LEMMA OrderOf ==
  ASSUME Shape, phase = "allocate", NEW n \in ToSet(rest), found[n] # {}, NEW order \in Orders(n)
  PROVE  /\ n \in DOMAIN store /\ n \in DOMAIN found /\ found[n] \subseteq Articles
         /\ order \in Seq(Articles) /\ Distinct(order) /\ order # <<>> /\ ToSet(order) = found[n]
  <1>1. n \in DOMAIN store /\ n \in DOMAIN found /\ found[n] \subseteq Articles
    BY DEF Shape, BatchShape
  <1>2. IsFiniteSet(found[n])
    BY <1>1, SettingsAssumption, FS_Subset
  <1>3. order \in SetToSeqs(found[n])
    BY DEF Orders
  <1>4. order \in Seq(found[n]) /\ Distinct(order) /\ ToSet(order) = found[n]
    BY <1>2, <1>3, SeqsOfSet
  <1>5. order # <<>>
    BY <1>4, NoElements
  <1>6. order \in Seq(Articles)
    BY <1>1, <1>4, SeqWider
  <1>7. QED BY <1>1, <1>4, <1>5, <1>6

\* The slots that the texts of the accepted Articles add.
LEMMA TextsType ==
  ASSUME NEW r \in Requirement, NEW s \in Seq(Articles)
  PROVE  FlattenSeq([k \in DOMAIN s |-> ChildrenFromText(r, s[k])]) \in Seq(Children)
  <1> DEFINE len == Len(s)
             C   == Seq(Children)
             f   == [k \in 1..len |-> ChildrenFromText(r, s[k])]
  <1>1. len \in Nat /\ DOMAIN s = 1..len /\ \A k \in 1..len : s[k] \in Articles
    OBVIOUS
  <1>2. \A k \in 1..len : ChildrenFromText(r, s[k]) \in C
    BY <1>1, TextChildrenType
  <1>3. f \in Seq(C)
    <2> HIDE DEF len, C
    <2>1. f \in [1..len -> C]
      BY <1>2
    <2> HIDE DEF f
    <2>2. QED BY <1>1, <2>1
  <1>4. FlattenSeq(f) \in Seq(Children)
    <2> HIDE DEF f
    <2>1. QED BY <1>3, FlattenType
  <1>5. f = [k \in DOMAIN s |-> ChildrenFromText(r, s[k])]
    BY <1>1
  <1>6. QED
    <2> HIDE DEF f
    <2>1. QED BY <1>4, <1>5

LEMMA AllocateShape ==
  ASSUME Shape, Allocate
  PROVE  Shape'
  <1> DEFINE n == Head(rest)
  <1>1. /\ phase = "allocate" /\ rest # <<>> /\ found[n] # {}
        /\ rest' = Tail(rest)
        /\ UNCHANGED <<phase, plan, round, batch, found, clock, stop>>
    BY AllocateDoes
  <1>2. PICK order, satisfying, r :
           /\ AllocatedTo(n, order, satisfying, r)
           /\ Refused(n, r) \/ Resolves(n, r)
    BY AllocateDoes
  <1>3. n \in ToSet(rest)
    <2>1. rest \in Seq(Nat)
      BY DEF Shape, BatchShape
    <2>2. QED BY <1>1, <2>1, HeadMember
  <1> HIDE DEF n
  <1>4. PoolShape /\ n \in DOMAIN store /\ order \in Seq(Articles) /\ Distinct(order) /\ order # <<>>
    BY <1>1, <1>2, <1>3, OrderOf DEF AllocatedTo, Shape
  <1>5. AllocatedFor(n, order[1], satisfying, r)
    BY <1>2, <1>4, AllocateFacts DEF AllocatedTo
  <1>6. r \in Allocation /\ Len(r.pool) = Len(pool)
    BY <1>5 DEF AllocatedFor
  <1>7. /\ r.pool \in Seq(Seq(Articles)) /\ r.evictable \in Seq(Nat \X Articles) /\ r.count \in Int
        /\ r.limited \in BOOLEAN /\ r.pooled \in Seq(Articles) /\ r.accepted \in Seq(Articles)
    BY <1>6 DEF Allocation
  <1>8. pool' \in Seq(Seq(Articles)) /\ Len(pool') = Len(pool)
    <2> DEFINE A == Seq(Articles)
               x == r.pool
               p == [x EXCEPT ![n] = r.pooled]
    <2>1. x \in Seq(A) /\ r.pooled \in A /\ Len(x) = Len(pool)
      BY <1>6, <1>7
    <2>2. p \in Seq(A) /\ Len(p) = Len(x)
      <3> DEFINE len == Len(x)
      <3>1. len \in Nat /\ x \in [1..len -> A]
        <4> HIDE DEF A, x
        <4>1. QED BY <2>1
      <3>2. p \in [1..len -> A]
        <4> HIDE DEF A, x, len
        <4>1. QED BY <2>1, <3>1
      <3>3. QED
        <4> HIDE DEF A, p, len
        <4>1. p \in Seq(A) /\ Len(p) = len
          BY <3>1, <3>2
        <4>2. QED BY <4>1 DEF len
    <2>3. pool' = IF r.pooled = <<>> THEN x ELSE p
      BY <1>2 DEF AllocatedTo
    <2> HIDE DEF x, p
    <2>4. QED BY <2>1, <2>2, <2>3
  <1>9. evictable' \in Seq(Nat \X Articles) /\ count' \in Int /\ limited' \in BOOLEAN
    <2> DEFINE X == Seq(Nat \X Articles)
    <2>1. r.evictable \in X
      BY <1>7
    <2> HIDE DEF X
    <2>2. evictable' \in X /\ count' \in Int /\ limited' \in BOOLEAN
      BY <1>2, <1>7, <2>1 DEF AllocatedTo
    <2>3. QED BY <2>2 DEF X
  <1>10. store[n] \in Requirement
    BY <1>4, StorePlaces DEF PoolShape
  <1>11. CASE Refused(n, r)
    <2> DEFINE reason == IF r.pooled = <<>> /\ r.limited THEN "article_candidate_budget_exhausted"
                         ELSE "no_satisfying_article"
               q == [store[n] EXCEPT !.status = "candidate_found", !.reason = reason]
    <2>1. store' = [store EXCEPT ![n].status = "candidate_found", ![n].reason = reason]
          /\ children' = children
      BY <1>11 DEF Refused, SetStatus
    <2>2. q \in Requirement /\ q.status = "candidate_found"
      <3>1. reason \in Reasons
        BY DEF Reasons
      <3> HIDE DEF reason
      <3>2. QED BY <1>10, <3>1 DEF Requirement, Statuses
    <2>3. store' = [store EXCEPT ![n] = q]
      BY <2>1
    <2> HIDE DEF q
    <2>4. children' \in Seq(Children)
      BY <2>1 DEF Shape, RunShape
    <2>5. QED BY <1>1, <1>8, <1>9, <2>2, <2>3, <2>4, DecidedShape DEF n
  <1>12. CASE Resolves(n, r)
    <2> DEFINE q == Resolved(n, r)
    <2>1. q \in Requirement /\ q.status = "resolved"
      BY <1>7, <1>10 DEF Resolved, Requirement, Statuses
    <2>2. store' = [store EXCEPT ![n] = q]
      BY <1>12 DEF Resolves
    <2>3. children' \in Seq(Children)
      <3> DEFINE texts == FlattenSeq([k \in DOMAIN r.accepted |-> ChildrenFromText(q, r.accepted[k])])
      <3>1. children' = children \o texts
        BY <1>12 DEF Resolves
      <3>2. texts \in Seq(Children)
        <4> HIDE DEF q
        <4>1. QED BY <1>7, <2>1, TextsType
      <3>3. children \in Seq(Children)
        BY DEF Shape, RunShape
      <3> HIDE DEF texts
      <3>4. QED BY <3>1, <3>2, <3>3
    <2> HIDE DEF q
    <2>4. QED BY <1>1, <1>8, <1>9, <2>1, <2>2, <2>3, DecidedShape DEF n
  <1>13. QED BY <1>2, <1>11, <1>12

\* The slots that the relations of the accepted Articles of the batch add.
LEMMA EdgeChildrenType ==
  ASSUME NEW st \in Store, NEW b \in Seq(Nat), ToSet(b) \subseteq DOMAIN st
  PROVE  FlattenSeq([k \in DOMAIN b |-> ChildrenFromGraph(st[b[k]], st[b[k]].accepted)]) \in Seq(Children)
  <1> DEFINE len == Len(b)
             C   == Seq(Children)
             f   == [k \in 1..len |-> ChildrenFromGraph(st[b[k]], st[b[k]].accepted)]
  <1>1. len \in Nat /\ DOMAIN b = 1..len /\ \A k \in 1..len : b[k] \in ToSet(b)
    BY DEF ToSet
  <1>2. \A k \in 1..len : st[b[k]] \in Requirement
    BY <1>1, StorePlaces
  <1>3. \A k \in 1..len : st[b[k]].accepted \in Seq(Articles)
    BY <1>2 DEF Requirement
  <1>4. \A k \in 1..len : ChildrenFromGraph(st[b[k]], st[b[k]].accepted) \in C
    BY <1>2, <1>3, GraphChildrenType
  <1>5. f \in Seq(C)
    <2> HIDE DEF len, C
    <2>1. f \in [1..len -> C]
      BY <1>4
    <2> HIDE DEF f
    <2>2. QED BY <1>1, <2>1
  <1>6. FlattenSeq(f) \in Seq(Children)
    <2> HIDE DEF f
    <2>1. QED BY <1>5, FlattenType
  <1>7. f = [k \in DOMAIN b |-> ChildrenFromGraph(st[b[k]], st[b[k]].accepted)]
    BY <1>1
  <1>8. QED
    <2> HIDE DEF f
    <2>1. QED BY <1>6, <1>7

LEMMA StopType ==
  ASSUME Shape, phase # "done"
  PROVE  stop \in Stops /\ clock \in {"ample", "short"}
  <1>1. QED BY DEF Shape, RunShape

LEMMA SkipGraphShape ==
  ASSUME Shape, SkipGraph
  PROVE  Shape'
  <1>1. GraphDone(<<>>) /\ phase = "allocate"
    BY DEF SkipGraph, GraphDone
  <1>2. stop' \in Stops /\ clock' \in {"ample", "short"}
    <2>1. stop \in Stops /\ clock \in {"ample", "short"}
      BY <1>1, StopType
    <2>2. QED BY <2>1 DEF SkipGraph, Stops
  <1>3. <<>> \in Seq(Children)
    BY NoElements
  <1>4. QED BY <1>1, <1>2, <1>3, GraphDoneShape

LEMMA GraphShape ==
  ASSUME Shape, Graph
  PROVE  Shape'
  <1> DEFINE found_ == FlattenSeq([k \in DOMAIN batch |->
                          ChildrenFromGraph(store[batch[k]], store[batch[k]].accepted)])
  <1>1. PICK answered \in BOOLEAN : GraphDone(IF answered THEN found_ ELSE <<>>)
    BY DEF Graph
  <1>2. found_ \in Seq(Children)
    <2>1. store \in Store /\ batch \in Seq(Nat) /\ ToSet(batch) \subseteq DOMAIN store
      BY DEF Shape, PoolShape, BatchShape
    <2>2. QED BY <2>1, EdgeChildrenType
  <1> HIDE DEF found_
  <1> DEFINE more == IF answered THEN found_ ELSE <<>>
  <1>3. more \in Seq(Children) /\ GraphDone(more)
    BY <1>1, <1>2, NoElements
  <1>4. stop' \in Stops /\ clock' \in {"ample", "short"}
    <2>1. phase # "done" /\ stop' = stop /\ clock' = clock
      BY <1>1 DEF Graph, GraphDone
    <2>2. QED BY <2>1, StopType
  <1> HIDE DEF more
  <1>5. QED BY <1>3, <1>4, GraphDoneShape

LEMMA SkipSearchShape ==
  ASSUME Shape, SkipSearch
  PROVE  Shape'
  <1>1. phase = "search" /\ Searched(Nothing)
    BY DEF SkipSearch
  <1>2. Nothing \in [ToSet(batch) -> SUBSET Articles]
    BY DEF Nothing
  <1>3. stop' \in Stops
    <2>1. stop \in Stops
      BY <1>1, StopType
    <2>2. QED BY <2>1 DEF SkipSearch, Stops
  <1>4. QED BY <1>1, <1>2, <1>3, SearchedShape

LEMMA SearchShape ==
  ASSUME Shape, Search
  PROVE  Shape'
  <1>1. PICK results \in [ToSet(batch) -> SUBSET Articles] : Searched(results)
    BY DEF Search
  <1>2. phase = "search" /\ stop' = stop
    BY DEF Search
  <1>3. stop' \in Stops
    BY <1>2, StopType
  <1>4. QED BY <1>1, <1>2, <1>3, SearchedShape

-----------------------------------------------------------------------------
(* The other steps keep the shape.                                         *)

LEMMA NextRoundShape ==
  ASSUME Shape, NextRound
  PROVE  Shape'
  <1>1. /\ phase = "pop" /\ stop = "none" /\ round < MaxRounds /\ round' = round + 1
        /\ store' = AddAll(store, children)
        /\ pool' = pool \o [k \in 1..(Len(store') - Len(store)) |-> <<>>]
        /\ children' = <<>>
        /\ UNCHANGED <<phase, plan, clock, stop, batch, rest, found, evictable, count, limited>>
    BY DEF NextRound, batchVars
  <1>2. store \in Store /\ children \in Seq(Children) /\ pool \in Seq(Seq(Articles)) /\ Len(pool) = Len(store)
    BY DEF Shape, PoolShape, RunShape
  <1>3. store' \in Store /\ Grown(store, store')
    BY <1>1, <1>2, AddAllGrown
  <1>4. /\ Len(store) \in Nat /\ Len(store') \in Nat /\ Len(store) <= Len(store')
        /\ DOMAIN store = 1..Len(store) /\ DOMAIN store' = 1..Len(store')
    BY <1>2, <1>3, StorePlaces DEF Grown
  <1>5. pool' \in Seq(Seq(Articles)) /\ Len(pool') = Len(store')
    <2> DEFINE A == Seq(Articles)
               more == Len(store') - Len(store)
               e == [k \in 1..more |-> <<>>]
    <2>1. more \in Nat /\ <<>> \in A
      BY <1>4, NoElements
    <2>2. e \in Seq(A) /\ Len(e) = more
      <3> HIDE DEF A, more
      <3>1. e \in [1..more -> A]
        BY <2>1
      <3>2. DOMAIN e = 1..more
        OBVIOUS
      <3> HIDE DEF e
      <3>3. QED BY <2>1, <3>1, <3>2
    <2>3. pool \o e \in Seq(A) /\ Len(pool \o e) = Len(pool) + Len(e)
      <3> HIDE DEF A, e
      <3>1. pool \in Seq(A)
        BY <1>2 DEF A
      <3>2. QED BY <2>2, <3>1
    <2>4. pool' = pool \o e
      BY <1>1
    <2> HIDE DEF e
    <2>5. pool' \in Seq(A)
      BY <2>3, <2>4, Zenon
    <2>6. Len(pool') = Len(pool) + Len(e)
      BY <2>3, <2>4, Zenon
    <2>7. Len(pool') = Len(store')
      <3> HIDE DEF A
      <3>1. QED BY <1>2, <1>4, <2>2, <2>6
    <2>8. QED BY <2>5, <2>7 DEF A
  <1>6. PoolShape'
    BY <1>1, <1>3, <1>5 DEF Shape, PoolShape
  <1>7. RunShape'
    <2>1. round' \in 0..MaxRounds
      <3>1. MaxRounds \in Nat
        BY SettingsAssumption
      <3>2. round \in 0..MaxRounds
        BY DEF Shape, RunShape
      <3>3. QED BY <1>1, <3>1, <3>2
    <2>2. children' \in Seq(Children)
      BY <1>1, NoElements
    <2>3. QED BY <1>1, <2>1, <2>2 DEF Shape, RunShape
  <1>8. BatchShape'
    <2>1. batch = <<>> /\ rest = <<>> /\ found = <<>>
      BY <1>1 DEF Shape, BatchShape
    <2>2. QED BY <1>1, <2>1, NoElements DEF BatchShape
  <1>9. SlotShape(store, rest)'
    <2>1. \A n \in DOMAIN store : store'[n] = store[n] /\ n \in DOMAIN store'
      BY <1>3, <1>4 DEF Grown
    <2>2. \A n \in DOMAIN store' : n \notin DOMAIN store =>
             Untouched(store'[n]) /\ (store'[n].overBudget => store'[n].reason # "none")
      BY <1>3, <1>4 DEF Grown
    <2>3. ToSet(rest) \subseteq DOMAIN store /\ rest' = rest
      BY <1>1 DEF Shape, BatchShape
    <2>4. ASSUME NEW n \in DOMAIN store'
          PROVE  /\ store'[n].status = "searching" <=> n \in ToSet(rest)
                 /\ store'[n].status \in {"unresolved", "searching"} => store'[n].accepted = <<>>
                 /\ store'[n].status = "unresolved" /\ store'[n].overBudget => store'[n].reason # "none"
      <3>1. CASE n \in DOMAIN store
        BY <2>1, <3>1 DEF Shape, SlotShape
      <3>2. CASE n \notin DOMAIN store
        BY <2>2, <2>3, <3>2 DEF Untouched
      <3>3. QED BY <3>1, <3>2
    <2>5. QED BY <2>3, <2>4 DEF SlotShape
  <1>10. QED BY <1>6, <1>7, <1>8, <1>9 DEF Shape

\* What the stop writes to the slots that are pending.
LEMMA MarkedStore ==
  ASSUME NEW st \in Store, NEW reason \in Reasons
  PROVE  /\ MarkPendingUnresolved(st, reason) \in Store
         /\ Len(MarkPendingUnresolved(st, reason)) = Len(st)
         /\ \A n \in DOMAIN st :
               /\ MarkPendingUnresolved(st, reason)[n].status = st[n].status
               /\ MarkPendingUnresolved(st, reason)[n].accepted = st[n].accepted
               /\ MarkPendingUnresolved(st, reason)[n].overBudget = st[n].overBudget
               /\ MarkPendingUnresolved(st, reason)[n].target = st[n].target
               /\ MarkPendingUnresolved(st, reason)[n].reason =
                     IF n \in Pending(st) THEN reason ELSE st[n].reason
  <1> DEFINE x == MarkPendingUnresolved(st, reason)
  <1>1. /\ DOMAIN x = DOMAIN st /\ x = [n \in DOMAIN x |-> x[n]]
        /\ \A n \in DOMAIN st : x[n] = IF n \in Pending(st) THEN [st[n] EXCEPT !.reason = reason] ELSE st[n]
    BY DEF MarkPendingUnresolved
  <1> HIDE DEF x
  <1>2. ASSUME NEW n \in DOMAIN st
        PROVE  /\ x[n] \in Requirement /\ x[n].status = st[n].status /\ x[n].accepted = st[n].accepted
               /\ x[n].overBudget = st[n].overBudget /\ x[n].target = st[n].target
               /\ x[n].reason = IF n \in Pending(st) THEN reason ELSE st[n].reason
    <2>1. st[n] \in Requirement
      BY StorePlaces
    <2>2. QED BY <1>1, <2>1 DEF Requirement
  <1>3. x \in Store /\ Len(x) = Len(st)
    BY <1>1, <1>2, StoreOfSlots
  <1>4. QED BY <1>2, <1>3 DEF x

\* What the step Finish does to the slots.
LEMMA FinishDoes ==
  ASSUME Shape, Finish
  PROVE  /\ phase = "pop" /\ phase' = "done"
         /\ UNCHANGED <<plan, round, children, clock, batch, rest, found, pool, evictable, count, limited>>
         /\ \/ Pending(store) = {} /\ store' = store
            \/ \E reason \in Stops \ {"none"} : store' = MarkPendingUnresolved(store, reason)
  <1> DEFINE stopped == stop # "none" \/ Pending(store) # {}
             reason  == IF stop # "none" THEN stop ELSE "time_budget_exhausted"
  <1>1. /\ phase = "pop" /\ phase' = "done"
        /\ UNCHANGED <<plan, round, children, clock, batch, rest, found, pool, evictable, count, limited>>
        /\ store' = IF stopped THEN MarkPendingUnresolved(store, reason) ELSE store
    BY DEF Finish, batchVars, poolVars
  <1>2. reason \in Stops \ {"none"}
    BY <1>1, StopType DEF Stops
  <1>3. QED BY <1>1, <1>2

LEMMA FinishShape ==
  ASSUME Shape, Finish
  PROVE  Shape'
  <1>1. /\ phase = "pop" /\ phase' = "done"
        /\ UNCHANGED <<plan, round, children, clock, batch, rest, found, pool, evictable, count, limited>>
    BY FinishDoes
  <1>2. store \in Store
    BY DEF Shape, PoolShape
  <1>3. /\ store' \in Store /\ Len(store') = Len(store) /\ DOMAIN store' = DOMAIN store
        /\ \A n \in DOMAIN store :
              /\ store'[n].status = store[n].status /\ store'[n].accepted = store[n].accepted
              /\ store'[n].overBudget = store[n].overBudget
              /\ store[n].reason # "none" => store'[n].reason # "none"
    <2>1. CASE store' = store
      BY <1>2, <2>1
    <2>2. ASSUME NEW reason \in Stops \ {"none"}, store' = MarkPendingUnresolved(store, reason)
          PROVE  /\ store' \in Store /\ Len(store') = Len(store) /\ DOMAIN store' = DOMAIN store
                 /\ \A n \in DOMAIN store :
                       /\ store'[n].status = store[n].status /\ store'[n].accepted = store[n].accepted
                       /\ store'[n].overBudget = store[n].overBudget
                       /\ store[n].reason # "none" => store'[n].reason # "none"
      <3>1. reason \in Reasons /\ reason # "none"
        BY DEF Reasons, Stops
      <3>2. store' \in Store /\ Len(store') = Len(store)
        BY <1>2, <2>2, <3>1, MarkedStore
      <3>3. DOMAIN store' = DOMAIN store
        BY <1>2, <3>2, StorePlaces
      <3>4. QED BY <1>2, <2>2, <3>1, <3>2, <3>3, MarkedStore
    <2>3. QED BY <2>1, <2>2, FinishDoes
  <1>4. PoolShape' /\ RunShape' /\ BatchShape'
    BY <1>1, <1>3 DEF Shape, PoolShape, RunShape, BatchShape
  <1>5. SlotShape(store, rest)'
    BY <1>1, <1>3 DEF Shape, SlotShape
  <1>6. QED BY <1>4, <1>5 DEF Shape

LEMMA RerankShape ==
  ASSUME Shape, Rerank
  PROVE  Shape'
  <1> DEFINE k == Smaller(Len(waiting), IF MaxPairsPerCall \div 2 > 1 THEN MaxPairsPerCall \div 2 ELSE 1)
  <1>1. /\ phase = "rerank" /\ waiting # <<>> /\ waiting' = SubSeq(waiting, k + 1, Len(waiting))
        /\ UNCHANGED <<phase, plan, store, round, batch, rest, found, children, clock, stop,
                       pool, evictable, count, limited>>
    BY DEF Rerank, poolVars
  <1>2. waiting \in Seq(ToSet(batch)) /\ Len(waiting) \in Nat
    BY <1>1 DEF Shape, BatchShape
  <1>3. k \in Nat
    BY <1>2, SettingsAssumption DEF Smaller
  <1> HIDE DEF k
  <1>4. waiting' \in Seq(ToSet(batch))
    BY <1>1, <1>2, <1>3
  <1>5. RunShape' /\ PoolShape' /\ SlotShape(store, rest)'
    BY <1>1 DEF Shape, RunShape, PoolShape, SlotShape
  <1>6. BatchShape'
    BY <1>1, <1>4 DEF Shape, BatchShape
  <1>7. QED BY <1>5, <1>6 DEF Shape

LEMMA ShapeStep ==
  ASSUME Shape, [Next]_vars
  PROVE  Shape'
  <1>1. CASE TimeRunsOut
    <2>1. UNCHANGED <<phase, plan, store, round, batch, rest, found, waiting, children, stop,
                      pool, evictable, count, limited>> /\ clock' = "short"
      BY <1>1 DEF TimeRunsOut, batchVars, poolVars
    <2>2. RunShape' /\ PoolShape' /\ SlotShape(store, rest)' /\ BatchShape'
      BY <2>1 DEF Shape, RunShape, PoolShape, SlotShape, BatchShape
    <2>3. QED BY <2>2 DEF Shape
  <1>2. CASE Guidance
    <2>1. UNCHANGED <<plan, store, round, batch, rest, found, waiting, children, stop, clock,
                      pool, evictable, count, limited>> /\ phase = "guidance" /\ phase' = "pop"
      BY <1>2 DEF Guidance, batchVars, poolVars
    <2>2. RunShape' /\ PoolShape' /\ SlotShape(store, rest)' /\ BatchShape'
      BY <2>1 DEF Shape, RunShape, PoolShape, SlotShape, BatchShape
    <2>3. QED BY <2>2 DEF Shape
  <1>3. CASE EndRerank
    <2>1. UNCHANGED <<plan, store, round, batch, rest, found, children, stop, clock,
                      pool, evictable, count, limited>> /\ phase = "rerank" /\ phase' = "allocate"
      BY <1>3 DEF EndRerank, poolVars
    <2>2. RunShape' /\ PoolShape' /\ SlotShape(store, rest)' /\ BatchShape'
      BY <2>1 DEF Shape, RunShape, PoolShape, SlotShape, BatchShape
    <2>3. QED BY <2>2 DEF Shape
  <1>4. CASE UNCHANGED vars
    <2>1. UNCHANGED <<phase, plan, store, round, batch, rest, found, waiting, children, stop, clock,
                      pool, evictable, count, limited>>
      BY <1>4 DEF vars
    <2>2. RunShape' /\ PoolShape' /\ SlotShape(store, rest)' /\ BatchShape'
      BY <2>1 DEF Shape, RunShape, PoolShape, SlotShape, BatchShape
    <2>3. QED BY <2>2 DEF Shape
  <1>5. CASE Done
    BY <1>4, <1>5 DEF Done
  <1>6. QED
    BY <1>1, <1>2, <1>3, <1>4, <1>5, PopShape, SkipSearchShape, SearchShape, RerankShape,
       NoCandidateShape, AllocateShape, SkipGraphShape, GraphShape, NextRoundShape, FinishShape
       DEF Next

LEMMA ShapeAlways ==
  Spec => []Shape
  <1>1. Init => Shape
    BY ShapeInit
  <1>2. Shape /\ [Next]_vars => Shape'
    BY ShapeStep
  <1>3. QED BY <1>1, <1>2, PTL DEF Spec

-----------------------------------------------------------------------------
(* Types.                                                                  *)

LEMMA ShapeIsTyped ==
  ASSUME Shape
  PROVE  TypeOK
  <1>1. store \in Store /\ pool \in Seq(Seq(Articles)) /\ Len(pool) = Len(store)
    BY DEF Shape, PoolShape
  <1>2. DOMAIN pool = DOMAIN store
    BY <1>1, StorePlaces
  <1>3. ASSUME NEW n \in DOMAIN store
        PROVE  /\ store[n].status \in Statuses
               /\ ToSet(store[n].accepted) \subseteq Articles
               /\ ToSet(pool[n]) \subseteq Articles
    <2>1. store[n].status \in Statuses /\ store[n].accepted \in Seq(Articles)
      BY <1>1, StorePlaces DEF Requirement
    <2>2. pool[n] \in Seq(Articles)
      BY <1>1, <1>2
    <2>3. QED BY <2>1, <2>2 DEF ToSet
  <1>4. QED BY <1>2, <1>3 DEF TypeOK, Shape, RunShape, BatchShape

\* A retrieval is always in a state of its type, for every plan, corpus and setting.
THEOREM LayeredTypes ==
  Spec => []TypeOK
  <1>1. QED BY ShapeAlways, ShapeIsTyped, PTL

-----------------------------------------------------------------------------
(* The candidates that are kept, and the end.                              *)

\* What may be given up belongs to a slot that was decided without it.
OnlyTheRefused ==
    \A e \in ToSet(evictable) :
        /\ e[1] \in DOMAIN store /\ store[e[1]].status \in {"resolved", "candidate_found"}
        /\ e[2] \notin ToSet(store[e[1]].accepted)

Kept == AcceptedKeepTheirText /\ OnlyTheRefused /\ NamedIsAccepted /\ NothingLeftOpen

\* The slots have what they had, but for the statuses of slots that were undecided.
LEMMA SameSlots ==
  ASSUME Shape, Kept, phase' # "done", UNCHANGED <<pool, evictable, limited>>,
         DOMAIN store' = DOMAIN store,
         \A n \in DOMAIN store :
            /\ store'[n].accepted = store[n].accepted
            /\ store[n].status \in {"resolved", "candidate_found"} => store'[n].status = store[n].status,
         \A n \in DOMAIN found' : store'[n].status \notin {"candidate_found", "exhausted"}
  PROVE  Kept'
  <1>1. AcceptedKeepTheirText'
    BY DEF Kept, AcceptedKeepTheirText
  <1>2. OnlyTheRefused'
    BY DEF Kept, OnlyTheRefused
  <1>3. NamedIsAccepted'
    BY DEF NamedIsAccepted
  <1>4. NothingLeftOpen'
    BY DEF NothingLeftOpen
  <1>5. QED BY <1>1, <1>2, <1>3, <1>4 DEF Kept

LEMMA UntouchedKept ==
  ASSUME Kept, phase' # "done", UNCHANGED <<store, pool, evictable, limited>>,
         found' = found \/ found' = <<>>
  PROVE  Kept'
  <1>1. AcceptedKeepTheirText' /\ OnlyTheRefused' /\ NothingLeftOpen'
    BY DEF Kept, AcceptedKeepTheirText, OnlyTheRefused, NothingLeftOpen
  <1>2. NamedIsAccepted'
    BY DEF Kept, NamedIsAccepted
  <1>3. QED BY <1>1, <1>2 DEF Kept

LEMMA KeptInit ==
  ASSUME Init
  PROVE  Kept
  <1>1. Shape /\ phase = "guidance" /\ found = <<>> /\ evictable = <<>>
    BY ShapeInit DEF Init
  <1>2. \A n \in DOMAIN store : store[n].accepted = <<>>
    <2>1. rest = <<>> /\ plan \in Plans
      BY DEF Init
    <2>2. AssignGroups(InitialRequirements(plan)) \in Seq(Children) /\ <<>> \in Store
      BY <2>1, InitialType DEF Store
    <2>3. store \in Store /\ Grown(<<>>, store)
      BY <2>2, AddAllGrown DEF Init
    <2>4. DOMAIN store = 1..Len(store) /\ Len(store) \in Nat /\ Len(<<>>) = 0
      BY <2>3, StorePlaces
    <2>5. \A n \in DOMAIN store : n > Len(<<>>)
      BY <2>4
    <2>6. QED BY <2>3, <2>5 DEF Grown, Untouched
  <1>3. QED
    BY <1>1, <1>2 DEF Kept, AcceptedKeepTheirText, OnlyTheRefused, NamedIsAccepted, NothingLeftOpen, ToSet

LEMMA PopKept ==
  ASSUME Shape, Kept, Pop
  PROVE  Kept'
  <1>1. /\ phase = "pop" /\ batch' \in PriorityBatches(store) /\ store' = StartBatch(store, batch')
        /\ phase' = "search" /\ UNCHANGED <<pool, evictable, limited, found>>
    BY DEF Pop, poolVars
  <1>2. store \in Store /\ found = <<>>
    BY <1>1 DEF Shape, PoolShape, BatchShape
  <1> DEFINE b == batch'
  <1>3. ToSet(b) \subseteq Pending(store)
    BY <1>1, <1>2, BatchesAreOpen
  <1> HIDE DEF b
  <1>4. /\ DOMAIN store' = DOMAIN store
        /\ \A n \in DOMAIN store : store'[n] = IF n \in ToSet(b) THEN [store[n] EXCEPT !.status = "searching"]
                                               ELSE store[n]
    BY <1>1 DEF StartBatch, b
  <1>5. ASSUME NEW n \in DOMAIN store
        PROVE  /\ store'[n].accepted = store[n].accepted
               /\ store[n].status \in {"resolved", "candidate_found"} => store'[n].status = store[n].status
    <2>1. store[n] \in Requirement
      BY <1>2, StorePlaces
    <2>2. CASE n \in ToSet(b)
      <3>1. store[n].status = "unresolved"
        BY <1>3, <2>2 DEF Pending
      <3>2. store'[n].accepted = store[n].accepted
        BY <1>4, <2>1, <2>2 DEF Requirement
      <3>3. QED BY <3>1, <3>2
    <2>3. CASE n \notin ToSet(b)
      BY <1>4, <2>3
    <2>4. QED BY <2>2, <2>3
  <1>6. \A n \in DOMAIN found' : store'[n].status \notin {"candidate_found", "exhausted"}
    BY <1>1, <1>2
  <1>7. phase' # "done"
    BY <1>1
  <1>8. QED BY <1>1, <1>4, <1>5, <1>6, <1>7, SameSlots

\* A batch is searched before one of its slots is decided.
LEMMA SearchedKept ==
  ASSUME Shape, Kept, phase = "search", NEW results \in [ToSet(batch) -> SUBSET Articles], Searched(results)
  PROVE  Kept'
  <1>1. found' = results /\ phase' = "rerank" /\ UNCHANGED <<store, pool, evictable, limited>>
    BY DEF Searched, poolVars
  <1>2. DOMAIN found' = ToSet(rest) /\ ToSet(rest) \subseteq DOMAIN store
    BY <1>1 DEF Shape, BatchShape
  <1>3. \A n \in DOMAIN found' : store'[n].status = "searching"
    BY <1>1, <1>2 DEF Shape, SlotShape
  <1>4. QED BY <1>1, <1>3, SameSlots

\* The order puts the Article a slot names first, and only that one satisfies it.
LEMMA NamedIsFirst ==
  ASSUME Shape, phase = "allocate", NEW n \in ToSet(rest), store[n].target \in found[n],
         NEW order \in Orders(n), NEW satisfying \in Satisfying(n)
  PROVE  order[1] = store[n].target /\ order[1] \in satisfying
  <1> DEFINE a == store[n].target
  <1>1. /\ n \in DOMAIN store /\ found[n] \subseteq Articles
        /\ order \in Seq(Articles) /\ order # <<>> /\ ToSet(order) = found[n]
    BY OrderOf
  <1>2. a \in Articles /\ a # NoArticle
    BY <1>1, SettingsAssumption
  <1>3. Foremost(n) = {a}
    BY <1>2 DEF Foremost, Targets
  <1>4. DOMAIN order = 1..Len(order) /\ 1 \in DOMAIN order
    BY <1>1
  <1>5. PICK k \in DOMAIN order : order[k] = a
    BY <1>1 DEF ToSet
  <1>6. \A i, j \in DOMAIN order : order[i] \in Foremost(n) /\ order[j] \notin Foremost(n) => i < j
    BY DEF Orders
  <1>7. order[1] = a
    <2>1. SUFFICES ASSUME order[1] # a
                   PROVE  FALSE
      OBVIOUS
    <2>2. k < 1
      BY <1>3, <1>4, <1>5, <1>6, <2>1
    <2>3. QED BY <1>4, <2>2
  <1>8. satisfying = found[n] \cap {a}
    BY <1>2 DEF Satisfying
  <1>9. QED BY <1>7, <1>8

LEMMA NoCandidateKept ==
  ASSUME Shape, Kept, NoCandidate
  PROVE  Kept'
  <1> DEFINE n == Head(rest)
             r == [store[n] EXCEPT !.status = "exhausted", !.reason = "no_candidate_article"]
  <1>1. /\ phase = "allocate" /\ rest # <<>> /\ found[n] = {}
        /\ store' = [store EXCEPT ![n].status = "exhausted", ![n].reason = "no_candidate_article"]
        /\ UNCHANGED <<phase, batch, found, pool, evictable, limited>>
    BY DEF NoCandidate, SetStatus, poolVars
  <1>2. n \in ToSet(rest)
    <2>1. rest \in Seq(Nat)
      BY DEF Shape, BatchShape
    <2>2. QED BY <1>1, <2>1, HeadMember
  <1>3. store \in Store /\ n \in DOMAIN store /\ store[n].status = "searching" /\ DOMAIN found \subseteq DOMAIN store
    BY <1>1, <1>2 DEF Shape, PoolShape, BatchShape, SlotShape
  <1>4. store[n] \in Requirement
    BY <1>3, StorePlaces
  <1>5. r \in Requirement /\ r.accepted = store[n].accepted
    BY <1>4 DEF Requirement, Statuses, Reasons
  <1>6. store' = [store EXCEPT ![n] = r]
    BY <1>1
  <1> HIDE DEF n, r
  <1>7. Len(store') = Len(store) /\ store' \in Store /\ \A m \in DOMAIN store : store'[m] = IF m = n THEN r ELSE store[m]
    BY <1>3, <1>5, <1>6, SetSlot
  <1>8. DOMAIN store' = DOMAIN store
    BY <1>3, <1>7, StorePlaces
  <1>9. AcceptedKeepTheirText'
    BY <1>1, <1>5, <1>7, <1>8 DEF Kept, AcceptedKeepTheirText
  <1>10. OnlyTheRefused'
    BY <1>1, <1>3, <1>5, <1>7, <1>8 DEF Kept, OnlyTheRefused
  <1>11. NamedIsAccepted'
    <2>1. ASSUME NEW m \in DOMAIN found, store'[m].target \in found[m],
                 store'[m].status \in {"candidate_found", "exhausted"}
          PROVE  limited
      <3>1. m # n /\ m \in DOMAIN store
        BY <1>1, <1>3, <2>1
      <3>2. QED BY <1>7, <2>1, <3>1 DEF Kept, NamedIsAccepted
    <2>2. QED BY <1>1, <2>1 DEF NamedIsAccepted
  <1>12. NothingLeftOpen'
    BY <1>1 DEF NothingLeftOpen
  <1>13. QED BY <1>9, <1>10, <1>11, <1>12 DEF Kept

\* A slot is given its candidates: it keeps those it has accepted, and no other slot loses one
\* it has accepted, since only what was not accepted is given up.
LEMMA AllocateKept ==
  ASSUME Shape, Kept, Allocate
  PROVE  Kept'
  <1> DEFINE n == Head(rest)
  <1>1. phase = "allocate" /\ rest # <<>> /\ found[n] # {} /\ UNCHANGED <<phase, batch, found>>
    BY AllocateDoes
  <1>2. PICK order, satisfying, r :
           /\ AllocatedTo(n, order, satisfying, r)
           /\ Refused(n, r) \/ Resolves(n, r)
    BY AllocateDoes
  <1>3. n \in ToSet(rest)
    <2>1. rest \in Seq(Nat)
      BY DEF Shape, BatchShape
    <2>2. QED BY <1>1, <2>1, HeadMember
  <1> HIDE DEF n
  <1>4. order \in Orders(n) /\ satisfying \in Satisfying(n) /\ r = AllocateCandidates(n, order, satisfying)
    BY <1>2 DEF AllocatedTo
  <1>5. PoolShape /\ n \in DOMAIN store /\ order \in Seq(Articles) /\ Distinct(order) /\ order # <<>>
    BY <1>1, <1>3, <1>4, OrderOf DEF Shape
  <1>6. AllocatedFor(n, order[1], satisfying, r)
    BY <1>4, <1>5, AllocateFacts
  <1>7. /\ r \in Allocation /\ Len(r.pool) = Len(pool) /\ Protects(n, r)
        /\ ToSet(r.accepted) \subseteq ToSet(r.pooled)
        /\ \A e \in ToSet(r.evictable) :
              e \in ToSet(evictable) \/ (e[1] = n /\ e[2] \notin ToSet(r.accepted))
        /\ limited => r.limited
        /\ order[1] \in satisfying => Served(r)
    BY <1>6 DEF AllocatedFor
  <1>8. /\ r.pool \in Seq(Seq(Articles)) /\ r.pooled \in Seq(Articles) /\ r.accepted \in Seq(Articles)
        /\ r.limited \in BOOLEAN
    BY <1>7 DEF Allocation
  <1>9. /\ store \in Store /\ pool \in Seq(Seq(Articles)) /\ Len(pool) = Len(store)
        /\ DOMAIN pool = DOMAIN store /\ store[n].status = "searching" /\ store[n].accepted = <<>>
        /\ DOMAIN found \subseteq DOMAIN store
    <2>1. store \in Store /\ pool \in Seq(Seq(Articles)) /\ Len(pool) = Len(store)
      BY <1>5 DEF PoolShape
    <2>2. DOMAIN pool = DOMAIN store
      BY <2>1, StorePlaces
    <2>3. QED BY <1>1, <1>3, <1>5, <2>1, <2>2 DEF Shape, BatchShape, SlotShape
  <1>10. store[n] \in Requirement
    BY <1>5, <1>9, StorePlaces
  <1>11. /\ DOMAIN store' = DOMAIN store
         /\ \A m \in DOMAIN store : m # n => store'[m] = store[m]
         /\ store'[n].accepted = r.accepted
         /\ store'[n].status = (IF r.accepted = <<>> THEN "candidate_found" ELSE "resolved")
         /\ store'[n].target = store[n].target
    <2>1. CASE Refused(n, r)
      <3> DEFINE reason == IF r.pooled = <<>> /\ r.limited THEN "article_candidate_budget_exhausted"
                           ELSE "no_satisfying_article"
                 q == [store[n] EXCEPT !.status = "candidate_found", !.reason = reason]
      <3>1. store' = [store EXCEPT ![n].status = "candidate_found", ![n].reason = reason]
            /\ r.accepted = <<>>
        BY <2>1 DEF Refused, SetStatus
      <3>2. q.status = "candidate_found" /\ q.accepted = store[n].accepted /\ q.target = store[n].target
        <4> HIDE DEF reason
        <4>1. QED BY <1>10 DEF Requirement
      <3>3. store' = [store EXCEPT ![n] = q]
        BY <3>1
      <3> HIDE DEF q
      <3>4. DOMAIN store' = DOMAIN store /\ store'[n] = q /\ \A m \in DOMAIN store : m # n => store'[m] = store[m]
        BY <1>5, <3>3
      <3>5. QED BY <1>9, <3>1, <3>2, <3>4
    <2>2. CASE Resolves(n, r)
      <3> DEFINE q == Resolved(n, r)
      <3>1. store' = [store EXCEPT ![n] = q] /\ r.accepted # <<>>
        BY <2>2 DEF Resolves
      <3>2. q.status = "resolved" /\ q.accepted = r.accepted /\ q.target = store[n].target
        BY <1>10 DEF Resolved, Requirement
      <3> HIDE DEF q
      <3>3. DOMAIN store' = DOMAIN store /\ store'[n] = q /\ \A m \in DOMAIN store : m # n => store'[m] = store[m]
        BY <1>5, <3>1
      <3>4. QED BY <3>1, <3>2, <3>3
    <2>3. QED BY <1>2, <2>1, <2>2
  <1>12. /\ pool'[n] = (IF r.pooled = <<>> THEN r.pool[n] ELSE r.pooled)
         /\ \A m \in DOMAIN store : m # n => pool'[m] = r.pool[m]
    <2>1. n \in DOMAIN r.pool
      BY <1>5, <1>7, <1>8, <1>9
    <2>2. pool' = IF r.pooled = <<>> THEN r.pool ELSE [r.pool EXCEPT ![n] = r.pooled]
      BY <1>2 DEF AllocatedTo
    <2>3. QED BY <1>7, <1>8, <1>9, <2>1, <2>2
  <1>13. evictable' = r.evictable /\ limited' = r.limited
    BY <1>2 DEF AllocatedTo
  <1>14. \A e \in ToSet(evictable) : e[1] \in DOMAIN store /\ e[1] # n
    BY <1>9 DEF Kept, OnlyTheRefused
  <1>15. AcceptedKeepTheirText'
    <2>1. ASSUME NEW m \in DOMAIN store', NEW a \in ToSet(store'[m].accepted)
          PROVE  a \in ToSet(pool'[m])
      <3>1. CASE m = n
        <4>1. a \in ToSet(r.pooled)
          BY <1>7, <1>11, <2>1, <3>1
        <4>2. r.pooled # <<>>
          BY <4>1, NoElements
        <4>3. QED BY <1>12, <3>1, <4>1, <4>2
      <3>2. CASE m # n
        <4>1. m \in DOMAIN store /\ a \in ToSet(store[m].accepted)
          BY <1>11, <2>1, <3>2
        <4>2. a \in ToSet(pool[m])
          BY <4>1 DEF Kept, AcceptedKeepTheirText
        <4>3. <<m, a>> \notin ToSet(evictable)
          <5> DEFINE e == <<m, a>>
          <5>1. e[1] = m /\ e[2] = a
            OBVIOUS
          <5> HIDE DEF e
          <5>2. e \notin ToSet(evictable)
            BY <4>1, <5>1 DEF Kept, OnlyTheRefused
          <5>3. QED BY <5>2 DEF e
        <4>4. a \in ToSet(r.pool[m])
          BY <1>7, <1>9, <3>2, <4>1, <4>2, <4>3 DEF Protects
        <4>5. QED BY <1>12, <3>2, <4>1, <4>4
      <3>3. QED BY <3>1, <3>2
    <2>2. QED BY <2>1 DEF AcceptedKeepTheirText
  <1>16. OnlyTheRefused'
    <2>1. ASSUME NEW e \in ToSet(r.evictable)
          PROVE  /\ e[1] \in DOMAIN store' /\ store'[e[1]].status \in {"resolved", "candidate_found"}
                 /\ e[2] \notin ToSet(store'[e[1]].accepted)
      <3>1. CASE e \in ToSet(evictable)
        BY <1>11, <1>14, <3>1 DEF Kept, OnlyTheRefused
      <3>2. CASE e[1] = n /\ e[2] \notin ToSet(r.accepted)
        BY <1>5, <1>11, <3>2
      <3>3. QED BY <1>7, <2>1, <3>1, <3>2
    <2>2. QED BY <1>13, <2>1 DEF OnlyTheRefused
  <1>17. NamedIsAccepted'
    <2>1. ASSUME NEW m \in DOMAIN found, store'[m].target \in found[m],
                 store'[m].status \in {"candidate_found", "exhausted"}
          PROVE  r.limited
      <3>1. CASE m = n
        <4>1. store[n].target \in found[n] /\ r.accepted = <<>>
          BY <1>11, <2>1, <3>1
        <4>2. order[1] \in satisfying
          BY <1>1, <1>3, <1>4, <4>1, NamedIsFirst
        <4>3. QED BY <1>7, <4>1, <4>2 DEF Served
      <3>2. CASE m # n
        <4>1. m \in DOMAIN store /\ store'[m] = store[m]
          BY <1>9, <1>11, <3>2
        <4>2. QED BY <1>7, <2>1, <4>1 DEF Kept, NamedIsAccepted
      <3>3. QED BY <3>1, <3>2
    <2>2. QED BY <1>1, <1>13, <2>1 DEF NamedIsAccepted
  <1>18. NothingLeftOpen'
    BY <1>1 DEF NothingLeftOpen
  <1>19. QED BY <1>15, <1>16, <1>17, <1>18 DEF Kept

LEMMA NextRoundKept ==
  ASSUME Shape, Kept, NextRound
  PROVE  Kept'
  <1>1. /\ phase = "pop" /\ phase' = "pop" /\ store' = AddAll(store, children)
        /\ pool' = pool \o [k \in 1..(Len(store') - Len(store)) |-> <<>>]
        /\ UNCHANGED <<found, evictable, limited>>
    BY DEF NextRound, batchVars
  <1>2. store \in Store /\ children \in Seq(Children) /\ pool \in Seq(Seq(Articles)) /\ Len(pool) = Len(store)
    BY DEF Shape, PoolShape, RunShape
  <1>3. store' \in Store /\ Grown(store, store')
    BY <1>1, <1>2, AddAllGrown
  <1>4. /\ Len(store) \in Nat /\ Len(store') \in Nat /\ Len(store) <= Len(store')
        /\ DOMAIN store = 1..Len(store) /\ DOMAIN store' = 1..Len(store')
    BY <1>2, <1>3, StorePlaces DEF Grown
  <1>5. \A n \in DOMAIN store : n \in DOMAIN store' /\ store'[n] = store[n] /\ pool'[n] = pool[n]
    <2>1. \A n \in DOMAIN store : n \in DOMAIN store' /\ store'[n] = store[n]
      BY <1>3, <1>4 DEF Grown
    <2> DEFINE A == Seq(Articles)
               more == Len(store') - Len(store)
               e == [k \in 1..more |-> <<>>]
    <2>2. e \in Seq(A)
      <3>1. more \in Nat /\ <<>> \in A
        BY <1>4, NoElements
      <3> HIDE DEF A, more
      <3>2. e \in [1..more -> A]
        BY <3>1
      <3> HIDE DEF e
      <3>3. QED BY <3>1, <3>2
    <2>3. \A n \in 1..Len(pool) : (pool \o e)[n] = pool[n]
      <3> HIDE DEF A, e
      <3>1. pool \in Seq(A)
        BY <1>2 DEF A
      <3>2. QED BY <2>2, <3>1
    <2>4. \A n \in DOMAIN store : pool'[n] = pool[n]
      <3>1. pool' = pool \o e
        BY <1>1
      <3> HIDE DEF e
      <3>2. QED BY <1>2, <1>4, <2>3, <3>1
    <2>5. QED BY <2>1, <2>4
  <1>6. \A n \in DOMAIN store' : n \notin DOMAIN store => store'[n].accepted = <<>>
    BY <1>3, <1>4 DEF Grown, Untouched
  <1>7. AcceptedKeepTheirText'
    <2>1. ASSUME NEW n \in DOMAIN store'
          PROVE  ToSet(store'[n].accepted) \subseteq ToSet(pool'[n])
      <3>1. CASE n \in DOMAIN store
        BY <1>5, <3>1 DEF Kept, AcceptedKeepTheirText
      <3>2. CASE n \notin DOMAIN store
        BY <1>6, <3>2, NoElements
      <3>3. QED BY <3>1, <3>2
    <2>2. QED BY <2>1 DEF AcceptedKeepTheirText
  <1>8. OnlyTheRefused'
    BY <1>1, <1>5 DEF Kept, OnlyTheRefused
  <1>9. NamedIsAccepted'
    <2>1. DOMAIN found' = {}
      BY <1>1 DEF Shape, BatchShape
    <2>2. QED BY <2>1 DEF NamedIsAccepted
  <1>10. NothingLeftOpen'
    BY <1>1 DEF NothingLeftOpen
  <1>11. QED BY <1>7, <1>8, <1>9, <1>10 DEF Kept

\* At the end no batch is left, and what is pending gets the reason of the stop.
LEMMA FinishKept ==
  ASSUME Shape, Kept, Finish
  PROVE  Kept'
  <1>1. phase = "pop" /\ phase' = "done" /\ UNCHANGED <<found, rest, pool, evictable, limited>>
    BY FinishDoes
  <1>2. store \in Store /\ DOMAIN found' = {} /\ ToSet(rest) = {}
    <2>1. rest = <<>> /\ found = <<>>
      BY <1>1 DEF Shape, BatchShape
    <2>2. QED BY <1>1, <2>1, NoElements DEF Shape, PoolShape
  <1>3. \A n \in DOMAIN store :
           /\ store[n].status # "searching"
           /\ store[n].status = "unresolved" => n \in Pending(store) \/ store[n].reason # "none"
    BY <1>2 DEF Shape, SlotShape, Pending
  <1>4. /\ DOMAIN store' = DOMAIN store
        /\ \A n \in DOMAIN store :
              /\ store'[n].status = store[n].status /\ store'[n].accepted = store[n].accepted
              /\ store[n].status = "unresolved" => store'[n].reason # "none"
    <2>1. CASE Pending(store) = {} /\ store' = store
      BY <1>3, <2>1
    <2>2. ASSUME NEW reason \in Stops \ {"none"}, store' = MarkPendingUnresolved(store, reason)
          PROVE  /\ DOMAIN store' = DOMAIN store
                 /\ \A n \in DOMAIN store :
                       /\ store'[n].status = store[n].status /\ store'[n].accepted = store[n].accepted
                       /\ store[n].status = "unresolved" => store'[n].reason # "none"
      <3>1. reason \in Reasons /\ reason # "none"
        BY DEF Reasons, Stops
      <3>2. store' \in Store /\ Len(store') = Len(store)
        BY <1>2, <2>2, <3>1, MarkedStore
      <3>3. DOMAIN store' = DOMAIN store
        BY <1>2, <3>2, StorePlaces
      <3>4. QED BY <1>2, <1>3, <2>2, <3>1, <3>3, MarkedStore
    <2>3. QED BY <2>1, <2>2, FinishDoes
  <1>5. AcceptedKeepTheirText' /\ OnlyTheRefused'
    BY <1>1, <1>4 DEF Kept, AcceptedKeepTheirText, OnlyTheRefused
  <1>6. NamedIsAccepted'
    BY <1>2 DEF NamedIsAccepted
  <1>7. NothingLeftOpen'
    BY <1>3, <1>4 DEF NothingLeftOpen
  <1>8. QED BY <1>5, <1>6, <1>7 DEF Kept

LEMMA KeptStep ==
  ASSUME Shape, Kept, [Next]_vars
  PROVE  Kept'
  <1>1. CASE TimeRunsOut
    BY <1>1, UntouchedKept DEF TimeRunsOut, batchVars, poolVars
  <1>2. CASE Guidance
    <2>1. phase' = "pop" /\ UNCHANGED <<store, pool, evictable, limited, found>>
      BY <1>2 DEF Guidance, batchVars, poolVars
    <2>2. QED BY <2>1, UntouchedKept
  <1>3. CASE SkipSearch
    <2>1. phase = "search" /\ Searched(Nothing)
      BY <1>3 DEF SkipSearch
    <2>2. Nothing \in [ToSet(batch) -> SUBSET Articles]
      BY DEF Nothing
    <2>3. QED BY <2>1, <2>2, SearchedKept
  <1>4. CASE Search
    <2>1. PICK results \in [ToSet(batch) -> SUBSET Articles] : Searched(results)
      BY <1>4 DEF Search
    <2>2. phase = "search"
      BY <1>4 DEF Search
    <2>3. QED BY <2>1, <2>2, SearchedKept
  <1>5. CASE Rerank
    <2>1. phase = "rerank" /\ phase' = phase /\ UNCHANGED <<store, pool, evictable, limited, found>>
      BY <1>5 DEF Rerank, poolVars
    <2>2. QED BY <2>1, UntouchedKept
  <1>6. CASE EndRerank
    <2>1. phase' = "allocate" /\ UNCHANGED <<store, pool, evictable, limited, found>>
      BY <1>6 DEF EndRerank, poolVars
    <2>2. QED BY <2>1, UntouchedKept
  <1>7. CASE SkipGraph \/ Graph
    <2>1. PICK more : GraphDone(more)
      BY <1>7 DEF SkipGraph, Graph
    <2>2. phase' = "pop" /\ found' = <<>> /\ UNCHANGED <<store, pool, evictable, limited>>
      BY <2>1 DEF GraphDone, poolVars
    <2>3. QED BY <2>2, UntouchedKept
  <1>8. CASE UNCHANGED vars
    <2>1. UNCHANGED <<phase, store, pool, evictable, limited, found>>
      BY <1>8 DEF vars
    <2>2. QED
      BY <2>1 DEF Kept, AcceptedKeepTheirText, OnlyTheRefused, NamedIsAccepted, NothingLeftOpen
  <1>9. CASE Done
    BY <1>8, <1>9 DEF Done
  <1>10. QED
    BY <1>1, <1>2, <1>3, <1>4, <1>5, <1>6, <1>7, <1>8, <1>9, PopKept, NoCandidateKept, AllocateKept,
       NextRoundKept, FinishKept DEF Next

LEMMA KeptAlways ==
  Spec => []Kept
  <1>1. Init => Shape /\ Kept
    BY ShapeInit, KeptInit
  <1>2. Shape /\ Kept /\ [Next]_vars => Shape' /\ Kept'
    BY ShapeStep, KeptStep
  <1>3. QED BY <1>1, <1>2, PTL DEF Spec

\* An Article that was accepted for a slot is never given up for another one.
THEOREM AcceptedStay ==
  Spec => []AcceptedKeepTheirText
  <1>1. Kept => AcceptedKeepTheirText
    BY DEF Kept
  <1>2. QED BY <1>1, KeptAlways, PTL

\* An Article that a slot names and its search has found is accepted, unless the limit of all
\* candidates was reached.
THEOREM NamedAccepted ==
  Spec => []NamedIsAccepted
  <1>1. Kept => NamedIsAccepted
    BY DEF Kept
  <1>2. QED BY <1>1, KeptAlways, PTL

\* At the end each slot has been decided or carries the reason why not.
THEOREM EachIsAnswered ==
  Spec => []NothingLeftOpen
  <1>1. Kept => NothingLeftOpen
    BY DEF Kept
  <1>2. QED BY <1>1, KeptAlways, PTL

-----------------------------------------------------------------------------
(* Sums.                                                                   *)

Some(T)   == CHOOSE x \in T : TRUE
Sum(f, T) == MapThenSumSet(LAMBDA u : f[u], T)

\* g solves the recursion of MapThenSumSet on the sets of D.
Sums(f, D, g) == g = [T \in D |-> IF T = {} THEN 0 ELSE f[Some(T)] + g[T \ {Some(T)}]]

LEMMA WithoutOne ==
  ASSUME NEW T, IsFiniteSet(T), T # {}
  PROVE  /\ Some(T) \in T /\ IsFiniteSet(T \ {Some(T)})
         /\ Cardinality(T) \in Nat \ {0}
         /\ Cardinality(T \ {Some(T)}) = Cardinality(T) - 1
  <1>1. Some(T) \in T
    BY DEF Some
  <1>2. Cardinality(T) \in Nat /\ Cardinality(T) # 0
    BY FS_CardinalityType, FS_EmptySet
  <1>3. QED BY <1>1, <1>2, FS_RemoveElement

LEMMA SumsExist ==
  ASSUME NEW f, NEW S, IsFiniteSet(S)
  PROVE  \E g : Sums(f, SUBSET S, g)
  <1> DEFINE D(n) == {T \in SUBSET S : Cardinality(T) <= n}
             bad == {n \in Nat : \A g : ~Sums(f, D(n), g)}
  <1>1. \A T \in SUBSET S : IsFiniteSet(T) /\ Cardinality(T) \in Nat
    BY FS_Subset, FS_CardinalityType
  <1>2. bad = {}
    <2>1. SUFFICES ASSUME bad # {}
                   PROVE  FALSE
      OBVIOUS
    <2>2. PICK m \in bad : \A n \in bad : m <= n
      BY <2>1, LeastExists
    <2>3. CASE m = 0
      <3> DEFINE g == [T \in D(0) |-> 0]
      <3>1. \A T \in D(0) : T = {}
        BY <1>1, FS_EmptySet
      <3>2. Sums(f, D(0), g)
        BY <3>1 DEF Sums
      <3>3. QED BY <2>2, <2>3, <3>2
    <2>4. CASE m # 0
      <3>1. m - 1 \in Nat /\ m - 1 \notin bad
        BY <2>2, <2>4
      <3>2. PICK g : Sums(f, D(m - 1), g)
        BY <3>1
      <3> DEFINE h == [T \in D(m) |-> IF T = {} THEN 0
                                      ELSE f[Some(T)] + g[T \ {Some(T)}]]
      <3>3. ASSUME NEW T \in D(m), T # {}
            PROVE  T \ {Some(T)} \in D(m - 1) /\ T \ {Some(T)} \in D(m)
        BY <1>1, <3>3, WithoutOne
      <3>4. ASSUME NEW T \in D(m - 1), T \in D(m)
            PROVE  h[T] = g[T]
        BY <3>2, <3>4 DEF Sums
      <3>5. h = [T \in D(m) |-> IF T = {} THEN 0 ELSE f[Some(T)] + h[T \ {Some(T)}]]
        <4> HIDE DEF D
        <4>1. \A T \in D(m) : h[T] = IF T = {} THEN 0 ELSE f[Some(T)] + g[T \ {Some(T)}]
          OBVIOUS
        <4>2. \A T \in D(m) : T # {} => h[T \ {Some(T)}] = g[T \ {Some(T)}]
          BY <3>3, <3>4
        <4>3. QED BY <4>2
      <3>6. Sums(f, D(m), h)
        <4> HIDE DEF D, h
        <4>1. QED BY <3>5 DEF Sums
      <3>7. QED BY <2>2, <3>6
    <2>5. QED BY <2>3, <2>4
  <1>3. D(Cardinality(S)) = SUBSET S /\ Cardinality(S) \in Nat
    BY <1>1, FS_Subset
  <1>4. QED
    <2>1. \E g : Sums(f, D(Cardinality(S)), g)
      BY <1>2, <1>3
    <2>2. QED BY <1>3, <2>1

LEMMA SumsAgree ==
  ASSUME NEW f, NEW S, IsFiniteSet(S), NEW R \in SUBSET S, NEW g, NEW h,
         Sums(f, SUBSET S, g), Sums(f, SUBSET R, h)
  PROVE  \A T \in SUBSET R : g[T] = h[T]
  <1> DEFINE bad == {n \in Nat : \E T \in SUBSET R : Cardinality(T) = n /\ g[T] # h[T]}
  <1>1. \A T \in SUBSET R : IsFiniteSet(T) /\ Cardinality(T) \in Nat
    BY FS_Subset, FS_CardinalityType
  <1>2. bad = {}
    <2>1. SUFFICES ASSUME bad # {}
                   PROVE  FALSE
      OBVIOUS
    <2>2. PICK m \in bad : \A n \in bad : m <= n
      BY <2>1, LeastExists
    <2>3. PICK T \in SUBSET R : Cardinality(T) = m /\ g[T] # h[T]
      BY <2>2
    <2>4. T # {}
      BY <2>3 DEF Sums
    <2>5. T \ {Some(T)} \in SUBSET R /\ Cardinality(T \ {Some(T)}) \in Nat
          /\ Cardinality(T \ {Some(T)}) < m
      BY <1>1, <2>3, <2>4, WithoutOne
    <2>6. g[T \ {Some(T)}] = h[T \ {Some(T)}]
      BY <2>2, <2>5
    <2>7. g[T] = h[T]
      BY <2>4, <2>6 DEF Sums
    <2>8. QED BY <2>3, <2>7
  <1>3. QED BY <1>1, <1>2

LEMMA SumStep ==
  ASSUME NEW f, NEW S, IsFiniteSet(S)
  PROVE  Sum(f, S) = IF S = {} THEN 0 ELSE f[Some(S)] + Sum(f, S \ {Some(S)})
  <1> DEFINE sums(T) == CHOOSE g : Sums(f, SUBSET T, g)
             left == S \ {Some(S)}
  <1>1. Sum(f, S) = sums(S)[S] /\ Sum(f, left) = sums(left)[left]
    BY DEF Sum, MapThenSumSet, MapThenFoldSet, Sums, Some
  <1>2. Sums(f, SUBSET S, sums(S))
    BY SumsExist
  <1>3. CASE S = {}
    BY <1>1, <1>2, <1>3 DEF Sums
  <1>4. CASE S # {}
    <2>1. Sums(f, SUBSET left, sums(left))
      BY <1>4, WithoutOne, SumsExist
    <2>2. PICK g, h : Sums(f, SUBSET S, g) /\ Sums(f, SUBSET left, h) /\ g = sums(S) /\ h = sums(left)
      BY <1>2, <2>1
    <2>3. g[left] = h[left]
      <3>1. left \in SUBSET S /\ left \in SUBSET left
        OBVIOUS
      <3> HIDE DEF left, sums
      <3>2. QED BY <2>2, <3>1, SumsAgree
    <2>4. g[S] = f[Some(S)] + g[left]
      BY <1>4, <2>2 DEF Sums
    <2>5. QED BY <1>1, <1>4, <2>2, <2>3, <2>4
  <1>5. QED BY <1>3, <1>4

\* The sum of finitely many numbers is a number, and each of them counts once.
LEMMA SumCounts ==
  ASSUME NEW U, IsFiniteSet(U), NEW f, \A u \in U : f[u] \in Nat
  PROVE  \A S \in SUBSET U :
            /\ Sum(f, S) \in Nat
            /\ \A x \in S : Sum(f, S) = f[x] + Sum(f, S \ {x})
  <1> DEFINE Good(S) == /\ Sum(f, S) \in Nat
                        /\ \A x \in S : Sum(f, S) = f[x] + Sum(f, S \ {x})
             bad == {n \in Nat : \E S \in SUBSET U : Cardinality(S) = n /\ ~Good(S)}
  <1>1. \A S \in SUBSET U : IsFiniteSet(S) /\ Cardinality(S) \in Nat
    BY FS_Subset, FS_CardinalityType
  <1>2. bad = {}
    <2>1. SUFFICES ASSUME bad # {}
                   PROVE  FALSE
      OBVIOUS
    <2>2. PICK m \in bad : \A n \in bad : m <= n
      BY <2>1, LeastExists
    <2>3. PICK S \in SUBSET U : Cardinality(S) = m /\ ~Good(S)
      BY <2>2
    <2>4. \A T \in SUBSET U : Cardinality(T) < m => Good(T)
      <3> HIDE DEF Good
      <3> QED BY <1>1, <2>2
    <2>5. S # {}
      BY <2>3, SumStep, FS_EmptySet
    <2> DEFINE y == Some(S)
    <2>6. /\ y \in S /\ Sum(f, S) = f[y] + Sum(f, S \ {y})
          /\ m \in Nat \ {0} /\ Cardinality(S \ {y}) = m - 1
      BY <1>1, <2>3, <2>5, SumStep, WithoutOne
    <2> HIDE DEF y
    <2>7. Good(S \ {y})
      <3> HIDE DEF Good
      <3> QED BY <2>4, <2>6
    <2>8. ASSUME NEW x \in S
          PROVE  Sum(f, S) = f[x] + Sum(f, S \ {x})
      <3>1. CASE x = y
        BY <2>6, <3>1
      <3>2. CASE x # y
        <4>1. Cardinality(S \ {x}) = m - 1
          BY <1>1, <2>3, FS_RemoveElement
        <4>2. Good(S \ {x})
          <5> HIDE DEF Good
          <5> QED BY <2>4, <2>6, <4>1
        <4>3. Sum(f, S \ {y}) = f[x] + Sum(f, (S \ {y}) \ {x})
          BY <2>7, <3>2
        <4>4. Sum(f, S \ {x}) = f[y] + Sum(f, (S \ {x}) \ {y})
          BY <2>6, <3>2, <4>2
        <4>5. Sum(f, (S \ {y}) \ {x}) = Sum(f, (S \ {x}) \ {y})
          <5>1. (S \ {y}) \ {x} = (S \ {x}) \ {y}
            OBVIOUS
          <5>2. QED BY <5>1
        <4>6. Sum(f, (S \ {y}) \ {x}) \in Nat
          <5>1. (S \ {y}) \ {x} \in SUBSET U /\ Cardinality((S \ {y}) \ {x}) < m
            <6>1. x \in S \ {y} /\ IsFiniteSet(S \ {y})
              BY <1>1, <3>2
            <6>2. Cardinality((S \ {y}) \ {x}) = Cardinality(S \ {y}) - 1
              BY <6>1, FS_RemoveElement
            <6>3. QED BY <2>6, <6>2
          <5>2. QED BY <2>4, <5>1
        <4>7. f[x] \in Nat /\ f[y] \in Nat
          BY <2>6
        <4>8. QED BY <2>6, <4>3, <4>4, <4>5, <4>6, <4>7
      <3>3. QED BY <3>1, <3>2
    <2>9. Sum(f, S) \in Nat
      <3>1. f[y] \in Nat
        BY <2>6
      <3>2. QED BY <2>6, <2>7, <3>1
    <2>10. QED BY <2>3, <2>8, <2>9
  <1>3. QED
    <2> HIDE DEF Good
    <2>1. \A S \in SUBSET U : Good(S)
      BY <1>1, <1>2
    <2>2. QED BY <2>1 DEF Good

LEMMA SumSame ==
  ASSUME NEW U, IsFiniteSet(U), NEW f, NEW g, \A u \in U : f[u] \in Nat /\ f[u] = g[u]
  PROVE  Sum(f, U) = Sum(g, U)
  <1> DEFINE Good(S) == Sum(f, S) = Sum(g, S)
             bad == {n \in Nat : \E S \in SUBSET U : Cardinality(S) = n /\ ~Good(S)}
  <1>1. \A S \in SUBSET U : IsFiniteSet(S) /\ Cardinality(S) \in Nat
    BY FS_Subset, FS_CardinalityType
  <1>2. bad = {}
    <2>1. SUFFICES ASSUME bad # {}
                   PROVE  FALSE
      OBVIOUS
    <2>2. PICK m \in bad : \A n \in bad : m <= n
      BY <2>1, LeastExists
    <2>3. PICK S \in SUBSET U : Cardinality(S) = m /\ ~Good(S)
      BY <2>2
    <2>4. S # {}
      <3>1. SUFFICES ASSUME S = {} PROVE FALSE
        OBVIOUS
      <3>2. Sum(f, S) = 0 /\ Sum(g, S) = 0
        BY <3>1, SumStep, FS_EmptySet
      <3>3. QED BY <2>3, <3>2
    <2> DEFINE y == Some(S)
    <2>5. /\ y \in S /\ Sum(f, S) = f[y] + Sum(f, S \ {y}) /\ Sum(g, S) = g[y] + Sum(g, S \ {y})
          /\ m \in Nat \ {0} /\ Cardinality(S \ {y}) = m - 1
      BY <1>1, <2>3, <2>4, SumStep, WithoutOne
    <2> HIDE DEF y
    <2>6. Good(S \ {y})
      <3>1. S \ {y} \in SUBSET U /\ m - 1 \notin bad /\ m - 1 \in Nat
        BY <2>2, <2>5
      <3> HIDE DEF Good
      <3>2. QED BY <2>5, <3>1
    <2>7. f[y] = g[y]
      BY <2>5
    <2>8. QED BY <2>3, <2>5, <2>6, <2>7
  <1>3. QED
    <2> HIDE DEF Good
    <2>1. Good(U)
      BY <1>1, <1>2
    <2>2. QED BY <2>1 DEF Good

-----------------------------------------------------------------------------
(* The pairs for the reranker.                                             *)

GiveTwo(acc, n) == IF acc.left < 2 THEN acc
                   ELSE [given |-> [m \in DOMAIN acc.given \cup {n} |->
                                      IF m \in DOMAIN acc.given THEN acc.given[m] ELSE 2],
                         left |-> acc.left - 2]
GiveOne(acc, n) == IF /\ acc.left > 0 /\ n \in DOMAIN acc.given
                      /\ acc.given[n] < Cardinality(found[n])
                   THEN [given |-> [acc.given EXCEPT ![n] = @ + 1], left |-> acc.left - 1] ELSE acc

\* What was given out and what is left are together no more than there was.
Counts(X, limit) ==
    {acc \in [given : UNION {[S -> Nat] : S \in SUBSET X}, left : Nat] :
        /\ IsFiniteSet(DOMAIN acc.given)
        /\ SumOf(acc.given) + acc.left <= limit}

LEMMA CountsOf ==
  ASSUME NEW X, NEW limit, NEW acc \in Counts(X, limit)
  PROVE  /\ acc = [given |-> acc.given, left |-> acc.left]
         /\ acc.left \in Nat /\ DOMAIN acc.given \in SUBSET X
         /\ acc.given \in [DOMAIN acc.given -> Nat]
         /\ IsFiniteSet(DOMAIN acc.given)
         /\ SumOf(acc.given) = Sum(acc.given, DOMAIN acc.given) /\ SumOf(acc.given) \in Nat
         /\ SumOf(acc.given) + acc.left <= limit
  <1>1. acc \in [given : UNION {[S -> Nat] : S \in SUBSET X}, left : Nat]
        /\ IsFiniteSet(DOMAIN acc.given) /\ SumOf(acc.given) + acc.left <= limit
    BY DEF Counts
  <1>2. acc = [given |-> acc.given, left |-> acc.left] /\ acc.left \in Nat
    BY <1>1
  <1>3. PICK S \in SUBSET X : acc.given \in [S -> Nat]
    BY <1>1
  <1>4. DOMAIN acc.given = S
    BY <1>3
  <1>5. SumOf(acc.given) = Sum(acc.given, DOMAIN acc.given)
    BY DEF SumOf, Sum
  <1>6. Sum(acc.given, DOMAIN acc.given) \in Nat
    BY <1>1, <1>3, <1>4, SumCounts
  <1>7. QED BY <1>1, <1>2, <1>3, <1>4, <1>5, <1>6

LEMMA CountsMade ==
  ASSUME NEW X, NEW limit, NEW S \in SUBSET X, IsFiniteSet(S), NEW g \in [S -> Nat], NEW left \in Nat,
         Sum(g, S) + left <= limit
  PROVE  [given |-> g, left |-> left] \in Counts(X, limit)
  <1>1. DOMAIN g = S /\ g \in UNION {[T -> Nat] : T \in SUBSET X}
    OBVIOUS
  <1>2. SumOf(g) = Sum(g, S)
    BY <1>1 DEF SumOf, Sum
  <1>3. QED BY <1>1, <1>2 DEF Counts

LEMMA GiveTwoType ==
  ASSUME NEW X, NEW limit \in Nat, NEW acc \in Counts(X, limit), NEW n \in X
  PROVE  GiveTwo(acc, n) \in Counts(X, limit)
  <1> DEFINE f == acc.given
             D == DOMAIN f
             g == [m \in D \cup {n} |-> IF m \in D THEN f[m] ELSE 2]
  <1>1. /\ acc = [given |-> f, left |-> acc.left] /\ acc.left \in Nat /\ D \in SUBSET X
        /\ f \in [D -> Nat] /\ IsFiniteSet(D) /\ SumOf(f) = Sum(f, D) /\ SumOf(f) \in Nat
        /\ SumOf(f) + acc.left <= limit
    BY CountsOf
  <1>2. g = [x \in D \cup {n} |-> IF x \in D THEN f[x] ELSE 2]
    OBVIOUS
  <1> HIDE DEF f, g
  <1>3. g \in [D \cup {n} -> Nat] /\ D \cup {n} \in SUBSET X /\ IsFiniteSet(D \cup {n})
    BY <1>1, <1>2, FS_AddElement
  <1>4. Sum(g, D) = Sum(f, D)
    BY <1>1, <1>2, SumSame
  <1>5. Sum(g, D \cup {n}) <= Sum(f, D) + 2
    <2>1. CASE n \in D
      <3>1. D \cup {n} = D
        BY <2>1
      <3>2. QED BY <1>1, <1>4, <3>1
    <2>2. CASE n \notin D
      <3>1. (D \cup {n}) \ {n} = D /\ n \in D \cup {n} /\ g[n] = 2
        BY <1>2, <2>2
      <3>2. \A x \in D \cup {n} : g[x] \in Nat
        BY <1>3
      <3>3. Sum(g, D \cup {n}) = g[n] + Sum(g, (D \cup {n}) \ {n})
        BY <1>3, <3>1, <3>2, SumCounts
      <3>4. Sum(g, D \cup {n}) = 2 + Sum(f, D)
        BY <1>4, <3>1, <3>3
      <3>5. QED BY <1>1, <3>4
    <2>3. QED BY <2>1, <2>2
  <1>6. CASE acc.left < 2
    BY <1>6 DEF GiveTwo
  <1>7. CASE ~(acc.left < 2)
    <2>1. acc.left - 2 \in Nat
      BY <1>1, <1>7
    <2>2. Sum(g, D \cup {n}) \in Nat
      BY <1>3, SumCounts
    <2>3. Sum(g, D \cup {n}) + (acc.left - 2) <= limit
      BY <1>1, <1>5, <2>1, <2>2
    <2>4. [given |-> g, left |-> acc.left - 2] \in Counts(X, limit)
      BY <1>3, <2>1, <2>3, CountsMade
    <2>5. QED BY <1>7, <2>4 DEF GiveTwo, g, f
  <1>8. QED BY <1>6, <1>7

LEMMA GiveOneType ==
  ASSUME NEW X, NEW limit \in Nat, NEW acc \in Counts(X, limit), NEW n \in X
  PROVE  GiveOne(acc, n) \in Counts(X, limit)
  <1> DEFINE f == acc.given
             D == DOMAIN f
             g == [f EXCEPT ![n] = @ + 1]
             gives == acc.left > 0 /\ n \in D /\ f[n] < Cardinality(found[n])
  <1>1. /\ acc = [given |-> f, left |-> acc.left] /\ acc.left \in Nat /\ D \in SUBSET X
        /\ f \in [D -> Nat] /\ IsFiniteSet(D) /\ SumOf(f) = Sum(f, D) /\ SumOf(f) \in Nat
        /\ SumOf(f) + acc.left <= limit
    BY CountsOf
  <1>2. CASE gives
    <2>1. n \in D /\ acc.left - 1 \in Nat
      BY <1>1, <1>2
    <2> HIDE DEF f
    <2>2. g \in [D -> Nat] /\ g[n] = f[n] + 1 /\ \A x \in D \ {n} : g[x] = f[x]
      BY <1>1, <2>1
    <2> HIDE DEF g
    <2>3. Sum(f, D \ {n}) = Sum(g, D \ {n})
      <3>1. IsFiniteSet(D \ {n})
        BY <1>1, FS_Subset
      <3>2. QED BY <1>1, <2>2, <3>1, SumSame
    <2>4. Sum(f, D) = f[n] + Sum(f, D \ {n}) /\ Sum(f, D \ {n}) \in Nat
      <3>1. \A x \in D : f[x] \in Nat
        BY <1>1
      <3>2. QED BY <1>1, <2>1, <3>1, SumCounts
    <2>5. Sum(g, D) = g[n] + Sum(g, D \ {n})
      <3>1. \A x \in D : g[x] \in Nat
        BY <2>2
      <3>2. QED BY <1>1, <2>1, <3>1, SumCounts
    <2>6. f[n] \in Nat
      BY <1>1, <2>1
    <2>7. Sum(g, D) + (acc.left - 1) <= limit
      BY <1>1, <2>1, <2>2, <2>3, <2>4, <2>5, <2>6
    <2>8. [given |-> g, left |-> acc.left - 1] \in Counts(X, limit)
      BY <1>1, <2>1, <2>2, <2>7, CountsMade
    <2>9. QED BY <1>2, <2>8 DEF GiveOne, g, f
  <1>3. CASE ~gives
    BY <1>3 DEF GiveOne
  <1>4. QED BY <1>2, <1>3

LEMMA FirstCounts ==
  ASSUME NEW X, NEW limit \in Nat, NEW slots \in Seq(X)
  PROVE  FoldLeft(GiveTwo, [given |-> <<>>, left |-> limit], slots) \in Counts(X, limit)
  <1> DEFINE len == Len(slots)
             A  == Counts(X, limit)
             B  == X
             op == [q \in A \X B |-> GiveTwo(q[1], q[2])]
             Solves(h) == h = [T \in SUBSET (1..len) |->
                                 IF T = {} THEN [given |-> <<>>, left |-> limit] ELSE GiveTwo(h[T \ {Max(T)}], slots[Max(T)])]
             iter == CHOOSE h : Solves(h)
             Good(k, x) == TRUE
             P == {q \in Nat \X A : Good(q[1], q[2])}
  <1>1. len \in Nat /\ DOMAIN slots = 1..len /\ \A k \in 1..len : slots[k] \in B
    OBVIOUS
  <1>2. /\ op \in [A \X B -> A]
        /\ \A x \in A, y \in B : op[<<x, y>>] = GiveTwo(x, y)
    <2>1. ASSUME NEW x \in A, NEW y \in B
          PROVE  GiveTwo(x, y) \in A
      BY GiveTwoType
    <2> HIDE DEF A, B
    <2>2. QED BY <2>1
  <1>3. [given |-> <<>>, left |-> limit] \in A /\ Good(0, [given |-> <<>>, left |-> limit])
    <2>1. DOMAIN <<>> = {} /\ <<>> \in [{} -> Nat] /\ IsFiniteSet({})
      BY FS_EmptySet
    <2> DEFINE e == <<>>
    <2>2. Sum(e, {}) = 0
      BY SumStep, FS_EmptySet
    <2>3. [given |-> e, left |-> limit] \in A
      <3> HIDE DEF e
      <3>1. e \in [{} -> Nat]
        BY <2>1 DEF e
      <3>2. Sum(e, {}) + limit <= limit
        BY <2>2
      <3>3. QED BY <2>1, <3>1, <3>2, CountsMade
    <2>4. QED BY <2>3
  <1>4. [given |-> <<>>, left |-> limit] \in A /\ <<0, [given |-> <<>>, left |-> limit]>> \in P
    <2> HIDE DEF A, Good
    <2>1. QED BY <1>3
  <1>5. FoldKeeps(A, op, slots, len, P)
    <2>1. ASSUME NEW k \in 1..len, NEW x \in A, Good(k - 1, x), slots[k] \in B
          PROVE  Good(k, GiveTwo(x, slots[k]))
      OBVIOUS
    <2> HIDE DEF op, len, A, B, Good
    <2>2. ASSUME NEW k \in 1..len, NEW x \in A, <<k - 1, x>> \in P
          PROVE  <<k, op[<<x, slots[k]>>]>> \in P
      <3>1. slots[k] \in B /\ Good(k - 1, x) /\ k \in Nat
        BY <1>1, <2>2
      <3>2. op[<<x, slots[k]>>] \in A /\ op[<<x, slots[k]>>] = GiveTwo(x, slots[k])
        BY <1>2, <3>1
      <3>3. Good(k, op[<<x, slots[k]>>])
        BY <2>1, <3>1, <3>2
      <3>4. QED BY <3>1, <3>2, <3>3
    <2>3. QED BY <2>2 DEF FoldKeeps
  <1>6. PICK g : FoldWhole(A, B, op, [given |-> <<>>, left |-> limit], slots, len, g)
    <2> HIDE DEF op, len, A, B, P, Good
    <2>1. QED BY <1>1, <1>2, <1>4, FoldSolved
  <1>7. Solves(iter)
    <2> HIDE DEF op, A, B, P, Good
    <2>1. \A T \in SUBSET (1..len) :
             g[T] = IF T = {} THEN [given |-> <<>>, left |-> limit] ELSE GiveTwo(g[T \ {Max(T)}], slots[Max(T)])
      BY <1>2, <1>6 DEF FoldWhole
    <2>2. Solves(g)
      BY <1>6, <2>1 DEF FoldWhole
    <2> HIDE DEF Solves
    <2>3. QED BY <2>2
  <1>8. FoldLeft(GiveTwo, [given |-> <<>>, left |-> limit], slots) = iter[1..len]
    BY <1>1 DEF FoldLeft, MapThenFoldSet
  <1>9. FoldSteps(A, op, [given |-> <<>>, left |-> limit], slots, len, iter)
    <2> HIDE DEF iter, op, len, A, B, P, Good
    <2>1. \A T \in SUBSET (1..len) : T # {} => slots[Max(T)] \in B
      BY <1>6 DEF FoldWhole
    <2>2. QED BY <1>2, <1>7, <2>1 DEF FoldSteps
  <1>10. FoldLeft(GiveTwo, [given |-> <<>>, left |-> limit], slots) \in A /\ Good(len, FoldLeft(GiveTwo, [given |-> <<>>, left |-> limit], slots))
    <2> HIDE DEF op, iter, len, A, B, Good
    <2>1. FoldEnds(A, len, iter, P)
      <3> HIDE DEF P
      <3>1. QED BY <1>1, <1>2, <1>4, <1>5, <1>9, FoldInduction
    <2>2. QED BY <1>8, <2>1 DEF FoldEnds
  <1>11. QED
    BY <1>10

LEMMA RoundCounts ==
  ASSUME NEW X, NEW limit \in Nat, NEW slots \in Seq(X), NEW acc \in Counts(X, limit)
  PROVE  FoldLeft(GiveOne, acc, slots) \in Counts(X, limit)
  <1> DEFINE len == Len(slots)
             A  == Counts(X, limit)
             B  == X
             op == [q \in A \X B |-> GiveOne(q[1], q[2])]
             Solves(h) == h = [T \in SUBSET (1..len) |->
                                 IF T = {} THEN acc ELSE GiveOne(h[T \ {Max(T)}], slots[Max(T)])]
             iter == CHOOSE h : Solves(h)
             Good(k, x) == TRUE
             P == {q \in Nat \X A : Good(q[1], q[2])}
  <1>1. len \in Nat /\ DOMAIN slots = 1..len /\ \A k \in 1..len : slots[k] \in B
    OBVIOUS
  <1>2. /\ op \in [A \X B -> A]
        /\ \A x \in A, y \in B : op[<<x, y>>] = GiveOne(x, y)
    <2>1. ASSUME NEW x \in A, NEW y \in B
          PROVE  GiveOne(x, y) \in A
      BY GiveOneType
    <2> HIDE DEF A, B
    <2>2. QED BY <2>1
  <1>3. acc \in A /\ Good(0, acc)
    OBVIOUS
  <1>4. acc \in A /\ <<0, acc>> \in P
    <2> HIDE DEF A, Good
    <2>1. QED BY <1>3
  <1>5. FoldKeeps(A, op, slots, len, P)
    <2>1. ASSUME NEW k \in 1..len, NEW x \in A, Good(k - 1, x), slots[k] \in B
          PROVE  Good(k, GiveOne(x, slots[k]))
      OBVIOUS
    <2> HIDE DEF op, len, A, B, Good
    <2>2. ASSUME NEW k \in 1..len, NEW x \in A, <<k - 1, x>> \in P
          PROVE  <<k, op[<<x, slots[k]>>]>> \in P
      <3>1. slots[k] \in B /\ Good(k - 1, x) /\ k \in Nat
        BY <1>1, <2>2
      <3>2. op[<<x, slots[k]>>] \in A /\ op[<<x, slots[k]>>] = GiveOne(x, slots[k])
        BY <1>2, <3>1
      <3>3. Good(k, op[<<x, slots[k]>>])
        BY <2>1, <3>1, <3>2
      <3>4. QED BY <3>1, <3>2, <3>3
    <2>3. QED BY <2>2 DEF FoldKeeps
  <1>6. PICK g : FoldWhole(A, B, op, acc, slots, len, g)
    <2> HIDE DEF op, len, A, B, P, Good
    <2>1. QED BY <1>1, <1>2, <1>4, FoldSolved
  <1>7. Solves(iter)
    <2> HIDE DEF op, A, B, P, Good
    <2>1. \A T \in SUBSET (1..len) :
             g[T] = IF T = {} THEN acc ELSE GiveOne(g[T \ {Max(T)}], slots[Max(T)])
      BY <1>2, <1>6 DEF FoldWhole
    <2>2. Solves(g)
      BY <1>6, <2>1 DEF FoldWhole
    <2> HIDE DEF Solves
    <2>3. QED BY <2>2
  <1>8. FoldLeft(GiveOne, acc, slots) = iter[1..len]
    BY <1>1 DEF FoldLeft, MapThenFoldSet
  <1>9. FoldSteps(A, op, acc, slots, len, iter)
    <2> HIDE DEF iter, op, len, A, B, P, Good
    <2>1. \A T \in SUBSET (1..len) : T # {} => slots[Max(T)] \in B
      BY <1>6 DEF FoldWhole
    <2>2. QED BY <1>2, <1>7, <2>1 DEF FoldSteps
  <1>10. FoldLeft(GiveOne, acc, slots) \in A /\ Good(len, FoldLeft(GiveOne, acc, slots))
    <2> HIDE DEF op, iter, len, A, B, Good
    <2>1. FoldEnds(A, len, iter, P)
      <3> HIDE DEF P
      <3>1. QED BY <1>1, <1>2, <1>4, <1>5, <1>9, FoldInduction
    <2>2. QED BY <1>8, <2>1 DEF FoldEnds
  <1>11. QED
    BY <1>10

\* No more pairs are given out than there are.
LEMMA PairsGiven ==
  ASSUME NEW X, NEW limit \in Nat, NEW slots \in Seq(X)
  PROVE  SumOf(PairCounts(slots, limit)) \in Nat /\ SumOf(PairCounts(slots, limit)) <= limit
  <1> DEFINE A == Counts(X, limit)
             first == FoldLeft(GiveTwo, [given |-> <<>>, left |-> limit], slots)
             op == [q \in Nat \X A |-> FoldLeft(GiveOne, q[2], slots)]
             Solves(h) == h = [k \in 0..limit |-> IF k = 0 THEN first ELSE FoldLeft(GiveOne, h[k - 1], slots)]
             rounds == CHOOSE h : Solves(h)
             T == {k \in Nat : k <= limit => rounds[k] \in A}
  <1>1. first \in A
    BY FirstCounts
  <1>2. op \in [Nat \X A -> A] /\ \A k \in Nat, x \in A : op[<<k, x>>] = FoldLeft(GiveOne, x, slots)
    <2>1. \A x \in A : FoldLeft(GiveOne, x, slots) \in A
      BY RoundCounts
    <2> HIDE DEF A
    <2>2. QED BY <2>1
  <1>3. Solves(rounds)
    <2> HIDE DEF op, A, first
    <2>1. PICK g \in [0..limit -> A] : Iter(op, first, limit, g)
      BY <1>1, <1>2, IterExists
    <2>2. \A k \in 0..limit : g[k] = IF k = 0 THEN first ELSE FoldLeft(GiveOne, g[k - 1], slots)
      <3>1. ASSUME NEW k \in 0..limit, k # 0
            PROVE  g[k] = FoldLeft(GiveOne, g[k - 1], slots)
        <4>1. k - 1 \in 0..limit /\ k \in Nat
          BY <3>1
        <4>2. g[k] = op[<<k, g[k - 1]>>] /\ g[k - 1] \in A
          BY <2>1, <3>1, <4>1 DEF Iter
        <4>3. QED BY <1>2, <4>1, <4>2
      <3>2. g[0] = first
        BY <2>1 DEF Iter
      <3>3. QED BY <3>1, <3>2
    <2>3. Solves(g)
      <3>1. g = [k \in 0..limit |-> g[k]]
        BY <2>1
      <3>2. QED BY <2>2, <3>1
    <2> HIDE DEF Solves
    <2>4. QED BY <2>3
  <1>4. PairCounts(slots, limit) = rounds[limit].given
    BY DEF PairCounts, GiveTwo, GiveOne
  <1>5. \A k \in Nat : k \in T
    <2> HIDE DEF rounds, A, first
    <2>1. rounds[0] = first /\ \A k \in 1..limit : rounds[k] = FoldLeft(GiveOne, rounds[k - 1], slots)
      <3>1. 0 \in 0..limit
        OBVIOUS
      <3>2. rounds = [k \in 0..limit |-> IF k = 0 THEN first ELSE FoldLeft(GiveOne, rounds[k - 1], slots)]
        BY <1>3
      <3>3. QED BY <3>1, <3>2
    <2>2. 0 \in T
      BY <1>1, <2>1
    <2>3. ASSUME NEW k \in Nat, k \in T
          PROVE  k + 1 \in T
      <3>1. SUFFICES ASSUME k + 1 <= limit
                     PROVE  rounds[k + 1] \in A
        OBVIOUS
      <3>2. rounds[k] \in A /\ k + 1 \in 1..limit /\ (k + 1) - 1 = k
        BY <2>3, <3>1
      <3>3. rounds[k + 1] = FoldLeft(GiveOne, rounds[k], slots)
        BY <2>1, <3>2
      <3>4. FoldLeft(GiveOne, rounds[k], slots) \in A
        BY <3>2, RoundCounts DEF A
      <3>5. QED BY <3>3, <3>4
    <2> HIDE DEF T
    <2>4. QED BY <2>2, <2>3, Induction
  <1>6. rounds[limit] \in Counts(X, limit)
    <2>1. limit \in T
      BY <1>5
    <2> HIDE DEF rounds
    <2>2. QED BY <2>1
  <1> HIDE DEF rounds
  <1>7. QED BY <1>4, <1>6, CountsOf

-----------------------------------------------------------------------------
(* The calls.                                                              *)

Zeros == [search |-> 0, graph |-> 0, rerank |-> 0, pairs |-> 0,
          roundSearch |-> 0, roundGraph |-> 0, roundRerank |-> 0]

\* Of the calls made, at most one was not counted; no count is above its limit.
Counting ==
    /\ used \in [search : Nat, graph : Nat, rerank : Nat, pairs : Nat,
                 roundSearch : Nat, roundGraph : Nat, roundRerank : Nat]
    /\ made \in [search : Nat, graph : Nat, lost : 0..1]
    /\ phase = "guidance" => used = Zeros
    /\ used.search <= made.search /\ used.graph <= made.graph
    /\ made.search + made.graph = used.search + used.graph + made.lost
    /\ used.search <= MaxSearches /\ used.graph <= MaxGraphCalls
    /\ used.roundSearch <= MaxRoundSearches /\ used.roundGraph <= MaxRoundGraphCalls
    /\ used.rerank <= MaxReranks /\ used.roundRerank <= MaxRoundReranks
    /\ used.pairs <= MaxPairs

LEMMA LimitsAreNumbers ==
  /\ MaxSearches \in Nat \ {0} /\ MaxRoundSearches \in Nat \ {0} /\ MaxPairs \in Nat \ {0}
  /\ MaxPairsPerCall \in Nat \ {0}
  /\ MaxGraphCalls \in Nat /\ MaxRoundGraphCalls \in Nat /\ MaxReranks \in Nat /\ MaxRoundReranks \in Nat
  BY SettingsAssumption

LEMMA CountingBounds ==
  ASSUME Counting
  PROVE  CallsWithinLimits
  <1>1. made.search \in Nat /\ made.graph \in Nat /\ made.lost \in 0..1
        /\ used.search \in Nat /\ used.graph \in Nat
    BY DEF Counting
  <1>2. made.search <= MaxSearches + made.lost /\ made.graph <= MaxGraphCalls + made.lost /\ made.lost <= 1
    BY <1>1, LimitsAreNumbers DEF Counting
  <1>3. QED BY <1>2 DEF Counting, CallsWithinLimits

LEMMA CountingInit ==
  ASSUME Init
  PROVE  Counting
  <1>1. used = Zeros /\ made = [search |-> 0, graph |-> 0, lost |-> 0]
    BY DEF Init, Zeros
  <1>2. QED BY <1>1, LimitsAreNumbers DEF Counting, Zeros

\* What the step Guidance calls and counts.
GuidanceCalls(ok, raised) ==
    LET searches == IF CanInvoke(used.search, MaxSearches) THEN 1 ELSE 0
        finds    == searches = 1 /\ ok >= 1
        graphs   == IF finds /\ CanInvoke(used.graph, MaxGraphCalls) THEN 1 ELSE 0
        explains == graphs = 1 /\ ok >= 2
        asserts  == IF explains /\ CanInvoke(used.graph + 1, MaxGraphCalls) THEN 1 ELSE 0
        lost(step, call) == IF raised /\ ok = step THEN call ELSE 0
    IN /\ made' = [search |-> searches, graph |-> graphs + asserts,
                   lost |-> lost(0, searches) + lost(1, graphs) + lost(2, asserts)]
       /\ used' = [used EXCEPT !.search = searches - lost(0, searches),
                               !.graph = graphs + asserts - lost(1, graphs) - lost(2, asserts)]

\* The guidelines are looked for when nothing has been called yet.
LEMMA GuidanceCounts ==
  ASSUME Counting, Guidance
  PROVE  Counting'
  <1>1. PICK ok \in 0..3, raised \in BOOLEAN : GuidanceCalls(ok, raised)
    <2>1. PICK ok \in 0..3, raised \in BOOLEAN, g \in Guides, i \in DOMAIN plan, a \in Articles :
             LET searches == IF CanInvoke(used.search, MaxSearches) THEN 1 ELSE 0
                 finds    == searches = 1 /\ ok >= 1
                 graphs   == IF finds /\ CanInvoke(used.graph, MaxGraphCalls) THEN 1 ELSE 0
                 explains == graphs = 1 /\ ok >= 2
                 asserts  == IF explains /\ CanInvoke(used.graph + 1, MaxGraphCalls) THEN 1 ELSE 0
                 lost(step, call) == IF raised /\ ok = step THEN call ELSE 0
             IN /\ findings' = IF finds THEN <<g>> ELSE <<>>
                /\ explained' = [explained EXCEPT ![i] = IF explains THEN {a} ELSE {}]
                /\ made' = [search |-> searches, graph |-> graphs + asserts,
                            lost |-> lost(0, searches) + lost(1, graphs) + lost(2, asserts)]
                /\ used' = [used EXCEPT !.search = searches - lost(0, searches),
                                        !.graph = graphs + asserts - lost(1, graphs) - lost(2, asserts)]
      BY Zenon DEF Guidance
    <2>2. GuidanceCalls(ok, raised)
      BY <2>1, Zenon DEF GuidanceCalls
    <2>3. QED BY <2>2
  <1> DEFINE searches == IF CanInvoke(used.search, MaxSearches) THEN 1 ELSE 0
             finds    == searches = 1 /\ ok >= 1
             graphs   == IF finds /\ CanInvoke(used.graph, MaxGraphCalls) THEN 1 ELSE 0
             explains == graphs = 1 /\ ok >= 2
             asserts  == IF explains /\ CanInvoke(used.graph + 1, MaxGraphCalls) THEN 1 ELSE 0
             lost(step, call) == IF raised /\ ok = step THEN call ELSE 0
             l0 == lost(0, searches)
             l1 == lost(1, graphs)
             l2 == lost(2, asserts)
  <1>2. /\ made' = [search |-> searches, graph |-> graphs + asserts, lost |-> l0 + l1 + l2]
        /\ used' = [used EXCEPT !.search = searches - l0, !.graph = graphs + asserts - l1 - l2]
    BY <1>1 DEF GuidanceCalls
  <1>3. used = Zeros /\ phase' = "pop"
    BY DEF Guidance, Counting
  <1>4. used.search = 0 /\ used.graph = 0
    BY <1>3 DEF Zeros
  <1>5. searches \in 0..1 /\ searches <= MaxSearches
    BY <1>4, LimitsAreNumbers DEF CanInvoke
  <1>6. graphs \in 0..1 /\ asserts \in 0..1 /\ (asserts = 1 => graphs = 1) /\ graphs + asserts <= MaxGraphCalls
    BY <1>4, LimitsAreNumbers DEF CanInvoke
  <1>7. (graphs = 1 => ok >= 1 /\ searches = 1) /\ (asserts = 1 => ok >= 2)
    OBVIOUS
  <1> HIDE DEF searches, graphs, asserts
  <1>8. l0 \in 0..1 /\ l1 \in 0..1 /\ l2 \in 0..1 /\ l0 + l1 + l2 <= 1 /\ l0 <= searches /\ l1 <= graphs /\ l2 <= asserts
    BY <1>5, <1>6
  <1> HIDE DEF l0, l1, l2
  <1>9. /\ used' = [Zeros EXCEPT !.search = searches - l0, !.graph = graphs + asserts - l1 - l2]
        /\ searches - l0 \in Nat /\ graphs + asserts - l1 - l2 \in Nat
    BY <1>2, <1>3, <1>5, <1>6, <1>8
  <1>10. /\ used'.search = searches - l0 /\ used'.graph = graphs + asserts - l1 - l2
         /\ used'.rerank = 0 /\ used'.pairs = 0 /\ used'.roundSearch = 0 /\ used'.roundGraph = 0 /\ used'.roundRerank = 0
         /\ used' \in [search : Nat, graph : Nat, rerank : Nat, pairs : Nat,
                       roundSearch : Nat, roundGraph : Nat, roundRerank : Nat]
    BY <1>9 DEF Zeros
  <1>11. /\ made'.search = searches /\ made'.graph = graphs + asserts /\ made'.lost = l0 + l1 + l2
         /\ made' \in [search : Nat, graph : Nat, lost : 0..1]
    BY <1>2, <1>5, <1>6, <1>8
  <1>12. QED BY <1>3, <1>5, <1>6, <1>8, <1>10, <1>11, LimitsAreNumbers DEF Counting

LEMMA SearchCounts ==
  ASSUME Counting, Search
  PROVE  Counting'
  <1>1. /\ used.roundSearch < MaxRoundSearches /\ used.search < MaxSearches
        /\ used' = [used EXCEPT !.search = used.search + 1, !.roundSearch = used.roundSearch + 1]
        /\ made' = [made EXCEPT !.search = made.search + 1]
        /\ phase' = "rerank"
    BY DEF Search, CanInvoke, Searched
  <1>2. /\ used \in [search : Nat, graph : Nat, rerank : Nat, pairs : Nat,
                     roundSearch : Nat, roundGraph : Nat, roundRerank : Nat]
        /\ made \in [search : Nat, graph : Nat, lost : 0..1]
    BY DEF Counting
  <1>3. /\ used'.search = used.search + 1 /\ used'.graph = used.graph /\ used'.rerank = used.rerank /\ used'.pairs = used.pairs
        /\ used'.roundSearch = used.roundSearch + 1 /\ used'.roundGraph = used.roundGraph /\ used'.roundRerank = used.roundRerank
        /\ used' \in [search : Nat, graph : Nat, rerank : Nat, pairs : Nat,
                     roundSearch : Nat, roundGraph : Nat, roundRerank : Nat]
    <2>1. used' = [search |-> used.search + 1, graph |-> used.graph, rerank |-> used.rerank, pairs |-> used.pairs,
                   roundSearch |-> used.roundSearch + 1, roundGraph |-> used.roundGraph, roundRerank |-> used.roundRerank]
      BY <1>1, <1>2
    <2>2. /\ used.search \in Nat /\ used.graph \in Nat /\ used.rerank \in Nat /\ used.pairs \in Nat
          /\ used.roundSearch \in Nat /\ used.roundGraph \in Nat /\ used.roundRerank \in Nat
      BY <1>1, <1>2
    <2>3. QED BY <2>1, <2>2
  <1>4. /\ made'.search = made.search + 1 /\ made'.graph = made.graph /\ made'.lost = made.lost
        /\ made' \in [search : Nat, graph : Nat, lost : 0..1]
    BY <1>1, <1>2
  <1>5. QED BY <1>1, <1>2, <1>3, <1>4, LimitsAreNumbers DEF Counting

LEMMA GraphCounts ==
  ASSUME Counting, Graph
  PROVE  Counting'
  <1>1. /\ used.roundGraph < MaxRoundGraphCalls /\ used.graph < MaxGraphCalls
        /\ used' = [used EXCEPT !.graph = used.graph + 1, !.roundGraph = used.roundGraph + 1]
        /\ made' = [made EXCEPT !.graph = made.graph + 1]
        /\ phase' = "pop"
    BY DEF Graph, GraphWanted, CanInvoke, GraphDone
  <1>2. /\ used \in [search : Nat, graph : Nat, rerank : Nat, pairs : Nat,
                     roundSearch : Nat, roundGraph : Nat, roundRerank : Nat]
        /\ made \in [search : Nat, graph : Nat, lost : 0..1]
    BY DEF Counting
  <1>3. /\ used'.search = used.search /\ used'.graph = used.graph + 1 /\ used'.rerank = used.rerank /\ used'.pairs = used.pairs
        /\ used'.roundSearch = used.roundSearch /\ used'.roundGraph = used.roundGraph + 1 /\ used'.roundRerank = used.roundRerank
        /\ used' \in [search : Nat, graph : Nat, rerank : Nat, pairs : Nat,
                     roundSearch : Nat, roundGraph : Nat, roundRerank : Nat]
    <2>1. used' = [search |-> used.search, graph |-> used.graph + 1, rerank |-> used.rerank, pairs |-> used.pairs,
                   roundSearch |-> used.roundSearch, roundGraph |-> used.roundGraph + 1, roundRerank |-> used.roundRerank]
      BY <1>1, <1>2
    <2>2. /\ used.search \in Nat /\ used.graph \in Nat /\ used.rerank \in Nat /\ used.pairs \in Nat
          /\ used.roundSearch \in Nat /\ used.roundGraph \in Nat /\ used.roundRerank \in Nat
      BY <1>1, <1>2
    <2>3. QED BY <2>1, <2>2
  <1>4. /\ made'.search = made.search /\ made'.graph = made.graph + 1 /\ made'.lost = made.lost
        /\ made' \in [search : Nat, graph : Nat, lost : 0..1]
    BY <1>1, <1>2
  <1>5. QED BY <1>1, <1>2, <1>3, <1>4, LimitsAreNumbers DEF Counting

\* One call of the reranker takes no more pairs than a call and the run have left.
LEMMA RerankCounts ==
  ASSUME Shape, Counting, Rerank
  PROVE  Counting'
  <1> DEFINE n == Smaller(Len(waiting), IF MaxPairsPerCall \div 2 > 1 THEN MaxPairsPerCall \div 2 ELSE 1)
             current == SubSeq(waiting, 1, n)
             wanted == SumOf([m \in ToSet(current) |-> Cardinality(found[m])])
             allowed == Smaller(wanted, Smaller(MaxPairsPerCall, MaxPairs - used.pairs))
             pairs == SumOf(PairCounts(current, allowed))
  <1>1. /\ phase = "rerank" /\ waiting # <<>> /\ used.roundRerank < MaxRoundReranks
        /\ UNCHANGED <<phase, made>>
        /\ IF CanInvoke(used.rerank, MaxReranks) /\ allowed >= 2
           THEN used' = [used EXCEPT !.rerank = used.rerank + 1, !.roundRerank = used.roundRerank + 1,
                                     !.pairs = used.pairs + pairs]
           ELSE UNCHANGED used
    BY DEF Rerank
  <1>2. waiting \in Seq(ToSet(batch)) /\ Len(waiting) \in Nat /\ Len(waiting) > 0
        /\ found \in [ToSet(batch) -> SUBSET Articles]
    BY <1>1 DEF Shape, BatchShape
  <1>3. n \in Nat /\ n <= Len(waiting)
    BY <1>2, LimitsAreNumbers DEF Smaller
  <1> HIDE DEF n
  <1>4. current \in Seq(ToSet(batch))
    BY <1>2, <1>3
  <1> HIDE DEF current
  <1>5. wanted \in Nat
    <2> DEFINE f == [m \in ToSet(current) |-> Cardinality(found[m])]
    <2>1. IsFiniteSet(ToSet(current))
      BY <1>4, FiniteSeqSet
    <2>2. ToSet(current) \subseteq ToSet(batch)
      BY <1>4 DEF ToSet
    <2>3. \A m \in ToSet(current) : IsFiniteSet(found[m])
      BY <1>2, <2>2, SettingsAssumption, FS_Subset
    <2>4. \A m \in ToSet(current) : f[m] \in Nat
      BY <2>3, FS_CardinalityType
    <2>5. DOMAIN f = ToSet(current)
      OBVIOUS
    <2> HIDE DEF f
    <2>6. Sum(f, ToSet(current)) \in Nat
      BY <2>1, <2>4, SumCounts
    <2>7. SumOf(f) = Sum(f, ToSet(current))
      BY <2>5 DEF SumOf, Sum
    <2>8. QED BY <2>6, <2>7 DEF f
  <1> HIDE DEF wanted
  <1>6. /\ used \in [search : Nat, graph : Nat, rerank : Nat, pairs : Nat,
                     roundSearch : Nat, roundGraph : Nat, roundRerank : Nat]
        /\ made \in [search : Nat, graph : Nat, lost : 0..1]
    BY DEF Counting
  <1>7. CASE CanInvoke(used.rerank, MaxReranks) /\ allowed >= 2
    <2>1. allowed \in Nat /\ allowed <= MaxPairs - used.pairs
      BY <1>5, <1>6, <1>7, LimitsAreNumbers DEF Smaller
    <2>2. used.rerank < MaxReranks
      BY <1>7 DEF CanInvoke
    <2> HIDE DEF allowed
    <2>3. pairs \in Nat /\ pairs <= allowed
      BY <1>4, <2>1, PairsGiven
    <2>4. used' = [used EXCEPT !.rerank = used.rerank + 1, !.roundRerank = used.roundRerank + 1,
                               !.pairs = used.pairs + pairs]
      BY <1>1, <1>7
    <2> HIDE DEF pairs
    <2>5. used.pairs + pairs \in Nat /\ used.pairs + pairs <= MaxPairs
      BY <1>6, <2>1, <2>3, LimitsAreNumbers
    <2>6. /\ used'.search = used.search /\ used'.graph = used.graph /\ used'.rerank = used.rerank + 1 /\ used'.pairs = used.pairs + pairs
          /\ used'.roundSearch = used.roundSearch /\ used'.roundGraph = used.roundGraph /\ used'.roundRerank = used.roundRerank + 1
          /\ used' \in [search : Nat, graph : Nat, rerank : Nat, pairs : Nat,
                       roundSearch : Nat, roundGraph : Nat, roundRerank : Nat]
      <3>1. used' = [search |-> used.search, graph |-> used.graph, rerank |-> used.rerank + 1, pairs |-> used.pairs + pairs,
                     roundSearch |-> used.roundSearch, roundGraph |-> used.roundGraph, roundRerank |-> used.roundRerank + 1]
        BY <1>6, <2>4, <2>5
      <3>2. /\ used.search \in Nat /\ used.graph \in Nat /\ used.rerank \in Nat /\ used.pairs \in Nat
            /\ used.roundSearch \in Nat /\ used.roundGraph \in Nat /\ used.roundRerank \in Nat
        BY <1>6, <2>4, <2>5
      <3>3. QED BY <3>1, <3>2, <2>5
    <2>7. UNCHANGED <<phase, made>> /\ phase = "rerank" /\ used.roundRerank < MaxRoundReranks
      BY <1>1
    <2>8. used.rerank \in Nat /\ used.roundRerank \in Nat
      BY <1>6
    <2>9. used'.rerank <= MaxReranks /\ used'.roundRerank <= MaxRoundReranks /\ used'.pairs <= MaxPairs
      BY <2>2, <2>5, <2>6, <2>7, <2>8, LimitsAreNumbers
    <2>10. QED BY <1>6, <2>6, <2>7, <2>9 DEF Counting
  <1>8. CASE ~(CanInvoke(used.rerank, MaxReranks) /\ allowed >= 2)
    <2>1. UNCHANGED <<used, made, phase>>
      BY <1>1, <1>8
    <2>2. QED BY <2>1 DEF Counting
  <1>9. QED BY <1>7, <1>8

LEMMA NextRoundCounts ==
  ASSUME Counting, NextRound
  PROVE  Counting'
  <1>1. /\ used' = [used EXCEPT !.roundSearch = 0, !.roundGraph = 0, !.roundRerank = 0]
        /\ UNCHANGED <<made, phase>> /\ phase = "pop"
    BY DEF NextRound
  <1>2. used \in [search : Nat, graph : Nat, rerank : Nat, pairs : Nat,
                  roundSearch : Nat, roundGraph : Nat, roundRerank : Nat]
    BY DEF Counting
  <1>3. /\ used'.search = used.search /\ used'.graph = used.graph /\ used'.rerank = used.rerank /\ used'.pairs = used.pairs
        /\ used'.roundSearch = 0 /\ used'.roundGraph = 0 /\ used'.roundRerank = 0
        /\ used' \in [search : Nat, graph : Nat, rerank : Nat, pairs : Nat,
                     roundSearch : Nat, roundGraph : Nat, roundRerank : Nat]
    <2>1. used' = [search |-> used.search, graph |-> used.graph, rerank |-> used.rerank, pairs |-> used.pairs,
                   roundSearch |-> 0, roundGraph |-> 0, roundRerank |-> 0]
      BY <1>1, <1>2
    <2>2. /\ used.search \in Nat /\ used.graph \in Nat /\ used.rerank \in Nat /\ used.pairs \in Nat
          /\ used.roundSearch \in Nat /\ used.roundGraph \in Nat /\ used.roundRerank \in Nat
      BY <1>1, <1>2
    <2>3. QED BY <2>1, <2>2
  <1>4. QED BY <1>1, <1>2, <1>3, LimitsAreNumbers DEF Counting

LEMMA CountingStep ==
  ASSUME Shape, Counting, [Next]_vars
  PROVE  Counting'
  <1>1. ASSUME UNCHANGED <<used, made>>, phase' = "guidance" => phase = "guidance"
        PROVE  Counting'
    BY <1>1 DEF Counting
  <1>2. CASE TimeRunsOut \/ Pop \/ SkipSearch \/ EndRerank \/ NoCandidate \/ Allocate \/ Finish \/ Done
    <2>1. UNCHANGED <<used, made>>
      BY <1>2 DEF TimeRunsOut, Pop, SkipSearch, EndRerank, NoCandidate, Allocate, Finish, Done, vars
    <2>2. phase' = "guidance" => phase = "guidance"
      BY <1>2 DEF TimeRunsOut, Pop, SkipSearch, Searched, EndRerank, NoCandidate, Allocate, Finish, Done, vars
    <2>3. QED BY <1>1, <2>1, <2>2
  <1>3. CASE SkipGraph
    <2>1. UNCHANGED <<used, made>> /\ phase' = "pop"
      BY <1>3 DEF SkipGraph, GraphDone
    <2>2. QED BY <1>1, <2>1
  <1>4. CASE UNCHANGED vars
    BY <1>1, <1>4 DEF vars
  <1>5. QED
    BY <1>2, <1>3, <1>4, GuidanceCounts, SearchCounts, RerankCounts, GraphCounts, NextRoundCounts DEF Next

\* The guideline lane and the rounds keep the limits of the calls: at most one call, one that
\* raised, is made beyond them.
THEOREM CallsLimited ==
  Spec => []CallsWithinLimits
  <1>1. Init => Shape /\ Counting
    BY ShapeInit, CountingInit
  <1>2. Shape /\ Counting /\ [Next]_vars => Shape' /\ Counting'
    BY ShapeStep, CountingStep
  <1>3. Counting => CallsWithinLimits
    BY CountingBounds
  <1>4. QED BY <1>1, <1>2, <1>3, PTL DEF Spec

-----------------------------------------------------------------------------
(* Keys.                                                                   *)

LEMMA LessTransitive ==
  ASSUME NEW len \in Nat, NEW s \in [1..len -> Int], NEW t \in [1..len -> Int], NEW u \in [1..len -> Int],
         Less(s, t), Less(t, u)
  PROVE  Less(s, u)
  <1>1. DOMAIN s = 1..len /\ DOMAIN t = 1..len
    OBVIOUS
  <1>2. PICK i \in 1..len : s[i] < t[i] /\ \A m \in 1..(i - 1) : s[m] = t[m]
    BY <1>1 DEF Less
  <1>3. PICK j \in 1..len : t[j] < u[j] /\ \A m \in 1..(j - 1) : t[m] = u[m]
    BY <1>1 DEF Less
  <1>4. \A m \in 1..len : s[m] \in Int /\ t[m] \in Int /\ u[m] \in Int
    OBVIOUS
  <1>5. CASE i < j
    <2>1. i \in 1..(j - 1) /\ \A m \in 1..(i - 1) : m \in 1..(j - 1)
      BY <1>5
    <2>2. s[i] < u[i] /\ \A m \in 1..(i - 1) : s[m] = u[m]
      BY <1>2, <1>3, <2>1
    <2>3. QED BY <1>1, <2>2 DEF Less
  <1>6. CASE ~(i < j)
    <2>1. (i = j \/ j \in 1..(i - 1)) /\ \A m \in 1..(j - 1) : m \in 1..(i - 1)
      BY <1>6
    <2>2. s[j] < u[j]
      BY <1>2, <1>3, <1>4, <2>1
    <2>3. \A m \in 1..(j - 1) : s[m] = u[m]
      BY <1>2, <1>3, <2>1
    <2>4. QED BY <1>1, <2>2, <2>3 DEF Less
  <1>7. QED BY <1>5, <1>6

LEMMA LessIrreflexive ==
  ASSUME NEW len \in Nat, NEW s \in [1..len -> Int]
  PROVE  ~Less(s, s)
  <1>1. \A i \in DOMAIN s : ~(s[i] < s[i])
    OBVIOUS
  <1>2. QED BY <1>1 DEF Less

\* In a finite set some member comes first.
LEMMA FirstExists ==
  ASSUME NEW S, IsFiniteSet(S), S # {}, NEW key, NEW len \in Nat, \A x \in S : key[x] \in [1..len -> Int]
  PROVE  FirstBy(S, key) \in S
  <1> DEFINE First(T, x) == x \in T /\ \A y \in T : ~Less(key[y], key[x])
             bad == {n \in Nat : \E T \in SUBSET S : T # {} /\ Cardinality(T) = n /\ ~\E x : First(T, x)}
  <1>1. \A T \in SUBSET S : IsFiniteSet(T) /\ Cardinality(T) \in Nat
    BY FS_Subset, FS_CardinalityType
  <1>2. bad = {}
    <2>1. SUFFICES ASSUME bad # {}
                   PROVE  FALSE
      OBVIOUS
    <2>2. PICK m \in bad : \A n \in bad : m <= n
      BY <2>1, LeastExists
    <2>3. PICK T \in SUBSET S : T # {} /\ Cardinality(T) = m /\ ~\E x : First(T, x)
      BY <2>2
    <2>4. PICK x \in T : TRUE
      BY <2>3
    <2> DEFINE R == T \ {x}
    <2>5. \A y \in T : key[y] \in [1..len -> Int]
      BY <2>3
    <2>6. ~Less(key[x], key[x])
      BY <2>4, <2>5, LessIrreflexive
    <2>7. CASE R = {}
      <3>1. First(T, x)
        BY <2>4, <2>6, <2>7
      <3>2. QED BY <2>3, <3>1
    <2>8. CASE R # {}
      <3>1. IsFiniteSet(T) /\ m \in Nat /\ R \in SUBSET S
        BY <1>1, <2>3
      <3>2. Cardinality(R) = m - 1 /\ Cardinality(R) \in Nat
        BY <1>1, <2>3, <2>4, <3>1, FS_RemoveElement
      <3>3. m - 1 \notin bad
        <4> HIDE DEF bad
        <4>1. ~(m <= m - 1)
          BY <3>1
        <4>2. QED BY <2>2, <4>1
      <3>4. PICK z : First(R, z)
        <4> HIDE DEF First, R
        <4>1. QED BY <2>8, <3>1, <3>2, <3>3
      <3>5. z \in T /\ \A y \in R : ~Less(key[y], key[z])
        BY <3>4
      <3>6. CASE Less(key[x], key[z])
        <4>1. ASSUME NEW y \in R, Less(key[y], key[x])
              PROVE  FALSE
          <5>1. Less(key[y], key[z])
            BY <2>4, <2>5, <3>5, <3>6, <4>1, LessTransitive
          <5>2. QED BY <3>5, <4>1, <5>1
        <4>2. First(T, x)
          BY <2>4, <2>6, <4>1
        <4>3. QED BY <2>3, <4>2
      <3>7. CASE ~Less(key[x], key[z])
        <4>1. First(T, z)
          BY <3>5, <3>7
        <4>2. QED BY <2>3, <4>1
      <3>8. QED BY <3>6, <3>7
    <2>9. QED BY <2>7, <2>8
  <1>3. \E x : First(S, x)
    <2> HIDE DEF First
    <2>1. S \in SUBSET S /\ Cardinality(S) \in Nat
      BY <1>1
    <2>2. QED BY <1>2, <2>1
  <1>4. QED BY <1>3 DEF FirstBy

LEMMA Key3 ==
  ASSUME NEW a \in Int, NEW b \in Int, NEW c \in Int
  PROVE  <<a, b, c>> \in [1..3 -> Int]
  <1> DEFINE t == <<a, b, c>>
  <1>1. t \in Seq(Int) /\ Len(t) = 3
    OBVIOUS
  <1> HIDE DEF t
  <1>2. t \in [1..Len(t) -> Int]
    <2>1. \A s \in Seq(Int) : s \in [1..Len(s) -> Int]
      OBVIOUS
    <2>2. QED BY <1>1, <2>1
  <1>3. t \in [1..3 -> Int]
    BY <1>1, <1>2
  <1>4. QED BY <1>3 DEF t

LEMMA Key5 ==
  ASSUME NEW a \in Int, NEW b \in Int, NEW c \in Int, NEW d \in Int, NEW e \in Int
  PROVE  <<a, b, c, d, e>> \in [1..5 -> Int]
  <1> DEFINE t == <<a, b, c, d, e>>
  <1>1. t \in Seq(Int) /\ Len(t) = 5
    OBVIOUS
  <1> HIDE DEF t
  <1>2. t \in [1..Len(t) -> Int]
    <2>1. \A s \in Seq(Int) : s \in [1..Len(s) -> Int]
      OBVIOUS
    <2>2. QED BY <1>1, <2>1
  <1>3. t \in [1..5 -> Int]
    BY <1>1, <1>2
  <1>4. QED BY <1>3 DEF t

-----------------------------------------------------------------------------
(* The groups.                                                             *)

LEMMA MinOf ==
  ASSUME NEW S \in SUBSET Nat, S # {}
  PROVE  Min(S) \in S
  <1>1. \E m \in S : \A n \in S : m <= n
    BY LeastExists
  <1>2. QED BY <1>1 DEF Min

LEMMA PriorityType ==
  ASSUME NEW r \in Requirement
  PROVE  Priority(r) \in 0..5
  <1>1. r.explicit \in BOOLEAN /\ r.direct \in BOOLEAN
    BY DEF Requirement
  <1>2. QED BY <1>1 DEF Priority

MandatoryOf(st, g) == {n \in DOMAIN st : g \in st[n].groups /\ st[n].mandatory}

LEMMA GroupType ==
  ASSUME NEW st \in Store, NEW g \in ConclusionGroups(st)
  PROVE  /\ g = ConclusionGroup(g.id, st)
         /\ g.mandatory = MandatoryOf(st, g.id) /\ g.mandatory \subseteq DOMAIN st /\ IsFiniteSet(g.mandatory)
         /\ g.priority \in Int
  <1>1. PICK i \in UNION {st[n].groups : n \in DOMAIN st} : g = ConclusionGroup(i, st)
    BY DEF ConclusionGroups
  <1> DEFINE members   == {n \in DOMAIN st : i \in st[n].groups}
             mandatory == {n \in members : st[n].mandatory}
             ranked    == IF mandatory # {} THEN mandatory ELSE members
             ranks     == {Priority(st[n]) : n \in ranked}
  <1>2. g.id = i /\ g.mandatory = mandatory /\ g.priority = Min(ranks)
    BY <1>1 DEF ConclusionGroup
  <1>3. mandatory = MandatoryOf(st, i)
    BY DEF MandatoryOf
  <1>4. IsFiniteSet(mandatory)
    BY StorePlaces, FS_Subset
  <1>5. ranks \in SUBSET Nat /\ ranks # {}
    <2>1. ranked # {} /\ ranked \subseteq DOMAIN st
      BY <1>1
    <2>2. \A n \in ranked : Priority(st[n]) \in 0..5
      BY <2>1, StorePlaces, PriorityType
    <2> HIDE DEF ranked
    <2>3. QED BY <2>1, <2>2
  <1>6. g.priority \in Int
    <2> HIDE DEF ranks
    <2>1. Min(ranks) \in ranks
      BY <1>5, MinOf
    <2>2. Min(ranks) \in Nat
      BY <1>5, <2>1
    <2>3. g.priority = Min(ranks)
      BY <1>2
    <2>4. QED BY <2>2, <2>3
  <1> HIDE DEF mandatory
  <1>7. mandatory \subseteq DOMAIN st
    BY <1>3 DEF MandatoryOf
  <1>8. QED BY <1>1, <1>2, <1>3, <1>4, <1>6, <1>7

LEMMA GroupsFinite ==
  ASSUME NEW st \in Store
  PROVE  IsFiniteSet(ConclusionGroups(st))
  <1> DEFINE f == [n \in DOMAIN st |-> st[n].groups]
             ids == UNION {f[n] : n \in DOMAIN st}
             h == [g \in ids |-> ConclusionGroup(g, st)]
  <1>1. \A n \in DOMAIN st : IsFiniteSet(f[n])
    <2>1. \A n \in DOMAIN st : st[n] \in Requirement
      BY StorePlaces
    <2>2. QED BY <2>1 DEF Requirement
  <1>2. DOMAIN f = DOMAIN st
    OBVIOUS
  <1> HIDE DEF f
  <1>3. IsFiniteSet({f[n] : n \in DOMAIN st})
    BY <1>2, StorePlaces, FiniteRange
  <1>4. IsFiniteSet(ids)
    BY <1>1, <1>3, FS_UNION
  <1>5. ConclusionGroups(st) = {ConclusionGroup(g, st) : g \in ids}
    <2>1. ids = UNION {st[n].groups : n \in DOMAIN st}
      BY DEF f
    <2> HIDE DEF ids
    <2>2. QED BY <2>1 DEF ConclusionGroups
  <1> HIDE DEF ids
  <1>6. DOMAIN h = ids /\ {h[g] : g \in ids} = {ConclusionGroup(g, st) : g \in ids}
    OBVIOUS
  <1> HIDE DEF h
  <1>7. QED BY <1>4, <1>5, <1>6, FiniteRange

-----------------------------------------------------------------------------
(* The passages.                                                           *)

\* A law passage covers only slots that have accepted its Article.
Passage(st, c) ==
    /\ c.law \in BOOLEAN /\ c.explicit \in BOOLEAN /\ c.rank \in Nat /\ IsFiniteSet(c.covers)
    /\ c.law => \A n \in c.covers : n \in DOMAIN st /\ c.article \in ToSet(st[n].accepted)

Passages(st, chunks) == IsFiniteSet(chunks) /\ \A c \in chunks : Passage(st, c)

LawOf(group, chunks) == {c \in chunks : c.law /\ c.covers \cap group.mandatory # {}}
CoveredBy(taken)     == UNION {c.covers : c \in taken}

CoverKey(useful, open) ==
    [c \in useful |-> <<0 - Cardinality(c.covers \cap open), Number(~c.explicit), c.rank>>]

\* One passage more, one that covers most of what is open.
CoverMore(group, law, taken) ==
    LET open == group.mandatory \ CoveredBy(taken)
        useful == {c \in law : c.covers \cap open # {}}
    IN IF useful = {} THEN taken ELSE taken \cup {FirstBy(useful, CoverKey(useful, open))}

LEMMA CoversMore ==
  ASSUME NEW st, NEW chunks, Passages(st, chunks), NEW group, IsFiniteSet(group.mandatory),
         NEW law \in SUBSET chunks, group.mandatory \subseteq CoveredBy(law),
         NEW taken \in SUBSET law
  PROVE  /\ CoverMore(group, law, taken) \in SUBSET law
         /\ LET open == group.mandatory \ CoveredBy(taken)
                left == group.mandatory \ CoveredBy(CoverMore(group, law, taken))
            IN left \subseteq open /\ (open # {} => Cardinality(left) < Cardinality(open))
  <1> DEFINE open == group.mandatory \ CoveredBy(taken)
             useful == {c \in law : c.covers \cap open # {}}
             next == CoverMore(group, law, taken)
             left == group.mandatory \ CoveredBy(next)
             first == FirstBy(useful, CoverKey(useful, open))
  <1>1. next = IF useful = {} THEN taken ELSE taken \cup {first}
    BY DEF CoverMore
  <1>2. IsFiniteSet(open) /\ Cardinality(open) \in Nat
    BY FS_Difference, FS_CardinalityType
  <1>3. CASE useful = {}
    <2>1. open = {}
      <3>1. SUFFICES ASSUME NEW n \in open
                     PROVE  FALSE
        OBVIOUS
      <3>2. PICK c \in law : n \in c.covers
        BY <3>1 DEF CoveredBy
      <3>3. QED BY <1>3, <3>1, <3>2
    <2>2. QED BY <1>1, <1>3, <2>1
  <1>4. CASE useful # {}
    <2>1. first \in useful
      <3>1. IsFiniteSet(useful)
        BY FS_Subset DEF Passages
      <3>2. \A c \in useful : CoverKey(useful, open)[c] \in [1..3 -> Int]
        <4>1. SUFFICES ASSUME NEW c \in useful
                       PROVE  <<0 - Cardinality(c.covers \cap open), Number(~c.explicit), c.rank>> \in [1..3 -> Int]
          BY DEF CoverKey
        <4>2. Passage(st, c)
          BY <4>1 DEF Passages
        <4>3. Cardinality(c.covers \cap open) \in Nat
          BY <1>2, FS_Intersection, FS_CardinalityType
        <4>4. Number(~c.explicit) \in Int /\ c.rank \in Int
          BY <4>2 DEF Passage, Number
        <4>5. 0 - Cardinality(c.covers \cap open) \in Int
          BY <4>3
        <4>6. QED BY <4>4, <4>5, Key3
      <3> HIDE DEF useful, open
      <3>3. QED BY <1>4, <3>1, <3>2, FirstExists
    <2> HIDE DEF first
    <2>2. next = taken \cup {first} /\ first \in law /\ first.covers \cap open # {}
      BY <1>1, <1>4, <2>1
    <2> HIDE DEF next
    <2>3. CoveredBy(next) = CoveredBy(taken) \cup first.covers
      BY <2>2 DEF CoveredBy
    <2>4. left = open \ first.covers
      BY <2>3
    <2>5. Cardinality(left) < Cardinality(open)
      <3> HIDE DEF left, open
      <3>1. left \in SUBSET open /\ left # open
        BY <2>2, <2>4
      <3>2. Cardinality(left) \in Nat /\ Cardinality(left) <= Cardinality(open) /\ Cardinality(left) # Cardinality(open)
        BY <1>2, <3>1, FS_Subset, FS_CardinalityType
      <3>3. QED BY <1>2, <3>2
    <2>6. next \in SUBSET law
      BY <2>2
    <2>7. left \subseteq open
      BY <2>4
    <2> HIDE DEF left, open
    <2>8. next \in SUBSET law /\ left \subseteq open /\ (open # {} => Cardinality(left) < Cardinality(open))
      BY <2>5, <2>6, <2>7
    <2>9. QED BY <2>8 DEF left, open, next
  <1>5. QED BY <1>3, <1>4

\* What the bundle of a group is: passages of the law, which cover the group if there are any.
BundleFor(group, chunks, bundle) ==
    /\ bundle \subseteq {c \in chunks : c.law}
    /\ bundle # {} => group.mandatory \subseteq CoveredBy(bundle)

LEMMA BundleCovers ==
  ASSUME NEW st, NEW chunks, Passages(st, chunks), NEW group, IsFiniteSet(group.mandatory)
  PROVE  BundleFor(group, chunks, MinimumBundle(group, chunks))
  <1> DEFINE targets == group.mandatory
             law == LawOf(group, chunks)
             n == Cardinality(targets)
             A == SUBSET law
             op == [q \in Nat \X A |-> CoverMore(group, law, q[2])]
             Solves(h) == h = [k \in 0..n |-> IF k = 0 THEN {} ELSE CoverMore(group, law, h[k - 1])]
             cover == CHOOSE h : Solves(h)
             Open(k) == targets \ CoveredBy(cover[k])
             T == {k \in Nat : k <= n => /\ cover[k] \in A
                                         /\ Open(k) = {} \/ Cardinality(Open(k)) <= n - k}
  <1>1. n \in Nat /\ law \in SUBSET chunks
    BY FS_CardinalityType DEF LawOf
  <1>2. MinimumBundle(group, chunks) =
          IF targets = {} \/ ~(targets \subseteq CoveredBy(law)) THEN {} ELSE cover[n]
    BY DEF MinimumBundle, CoverMore, CoveredBy, LawOf, CoverKey
  <1>3. CASE targets = {} \/ ~(targets \subseteq CoveredBy(law))
    BY <1>2, <1>3 DEF BundleFor
  <1>4. CASE ~(targets = {} \/ ~(targets \subseteq CoveredBy(law)))
    <2>1. \A x \in A : CoverMore(group, law, x) \in A
      <3> HIDE DEF law
      <3>1. QED BY <1>1, <1>4, CoversMore
    <2>2. op \in [Nat \X A -> A] /\ \A k \in Nat, x \in A : op[<<k, x>>] = CoverMore(group, law, x)
      <3> HIDE DEF A, law
      <3>1. QED BY <2>1
    <2>3. Solves(cover)
      <3> HIDE DEF op, law, n
      <3>0. {} \in A
        OBVIOUS
      <3> HIDE DEF A
      <3>1. PICK g \in [0..n -> A] : Iter(op, {}, n, g)
        BY <1>1, <2>2, <3>0, IterExists
      <3>2. \A k \in 0..n : g[k] = IF k = 0 THEN {} ELSE CoverMore(group, law, g[k - 1])
        <4>1. ASSUME NEW k \in 0..n, k # 0
              PROVE  g[k] = CoverMore(group, law, g[k - 1])
          <5>1. k - 1 \in 0..n /\ k \in Nat
            BY <1>1, <4>1
          <5>2. g[k] = op[<<k, g[k - 1]>>] /\ g[k - 1] \in A
            BY <3>1, <4>1, <5>1 DEF Iter
          <5>3. QED BY <2>2, <5>1, <5>2
        <4>2. g[0] = {}
          BY <1>1, <3>1 DEF Iter
        <4>3. QED BY <4>1, <4>2
      <3>3. Solves(g)
        <4>1. g = [k \in 0..n |-> g[k]]
          BY <3>1
        <4>2. QED BY <3>2, <4>1
      <3> HIDE DEF Solves
      <3>4. QED BY <3>3
    <2>4. cover[0] = {} /\ \A k \in 1..n : cover[k] = CoverMore(group, law, cover[k - 1])
      <3> HIDE DEF cover, law, n
      <3>1. 0 \in 0..n
        BY <1>1
      <3>2. cover = [k \in 0..n |-> IF k = 0 THEN {} ELSE CoverMore(group, law, cover[k - 1])]
        BY <2>3, Zenon
      <3>3. cover[0] = {}
        BY <3>1, <3>2
      <3>4. ASSUME NEW k \in 1..n
            PROVE  cover[k] = CoverMore(group, law, cover[k - 1])
        <4>1. k \in 0..n /\ k # 0
          BY <1>1
        <4>2. QED BY <3>2, <4>1
      <3>5. QED BY <3>3, <3>4
    <2> HIDE DEF cover
    <2>5. 0 \in T
      <3>1. Open(0) = targets
        BY <2>4 DEF CoveredBy
      <3>2. Cardinality(Open(0)) <= n - 0
        <4>1. Cardinality(Open(0)) = n
          BY <3>1
        <4> HIDE DEF Open, n
        <4>2. QED BY <1>1, <4>1
      <3>3. QED BY <2>4, <3>2
    <2>6. ASSUME NEW k \in Nat, k \in T
          PROVE  k + 1 \in T
      <3>1. SUFFICES ASSUME k + 1 <= n
                     PROVE  /\ cover[k + 1] \in A
                            /\ Open(k + 1) = {} \/ Cardinality(Open(k + 1)) <= n - (k + 1)
        OBVIOUS
      <3>2. /\ cover[k] \in A /\ (Open(k) = {} \/ Cardinality(Open(k)) <= n - k)
            /\ k + 1 \in 1..n /\ (k + 1) - 1 = k
        <4> HIDE DEF Open, A, n
        <4>1. QED BY <1>1, <2>6, <3>1
      <3>3. cover[k + 1] = CoverMore(group, law, cover[k])
        <4> HIDE DEF law, n
        <4>1. QED BY <2>4, <3>2
      <3>4. /\ cover[k + 1] \in A
            /\ Open(k + 1) \subseteq Open(k)
            /\ Open(k) # {} => Cardinality(Open(k + 1)) < Cardinality(Open(k))
        <4> HIDE DEF law
        <4> DEFINE next == CoverMore(group, law, cover[k])
        <4>1. /\ next \in SUBSET law
              /\ targets \ CoveredBy(next) \subseteq Open(k)
              /\ Open(k) # {} => Cardinality(targets \ CoveredBy(next)) < Cardinality(Open(k))
          BY <1>1, <1>4, <3>2, CoversMore
        <4> HIDE DEF next
        <4>2. cover[k + 1] = next
          BY <3>3 DEF next
        <4>3. QED BY <4>1, <4>2
      <3>5. Cardinality(Open(k)) \in Nat /\ Cardinality(Open(k + 1)) \in Nat
        BY FS_Difference, FS_CardinalityType
      <3> HIDE DEF Open, A, n
      <3>6. QED BY <1>1, <3>2, <3>4, <3>5
    <2>7. n \in T
      <3> HIDE DEF T
      <3>1. \A k \in Nat : k \in T
        BY <2>5, <2>6, Induction
      <3>2. QED BY <1>1, <3>1
    <2>8. cover[n] \in A /\ Open(n) = {}
      <3>1. cover[n] \in A /\ (Open(n) = {} \/ Cardinality(Open(n)) <= n - n)
        <4> HIDE DEF Open, A, n
        <4>1. QED BY <1>1, <2>7
      <3>2. IsFiniteSet(Open(n)) /\ Cardinality(Open(n)) \in Nat
        BY FS_Difference, FS_CardinalityType
      <3> HIDE DEF Open, A, n
      <3>3. Open(n) = {} \/ Cardinality(Open(n)) = 0
        BY <1>1, <3>1, <3>2
      <3>4. QED BY <3>1, <3>2, <3>3, FS_EmptySet
    <2>9. MinimumBundle(group, chunks) = cover[n]
      BY <1>2, <1>4
    <2>10. cover[n] \subseteq {c \in chunks : c.law} /\ targets \subseteq CoveredBy(cover[n])
      <3> HIDE DEF n
      <3>1. QED BY <2>8 DEF LawOf
    <2>11. QED
      <3> HIDE DEF n
      <3>1. QED BY <2>9, <2>10 DEF BundleFor
  <1>5. QED BY <1>3, <1>4

-----------------------------------------------------------------------------
(* The groups that are taken.                                              *)

Increment(g, chunks, t) == MinimumBundle(g, chunks) \ t.chunks

Eligible(groups, chunks, t) ==
    {g \in groups \ t.groups :
       /\ MinimumBundle(g, chunks) # {}
       /\ Cardinality(t.chunks) + Cardinality(Increment(g, chunks, t)) <= MaxChunks}

RankIn(g, chunks, t) == IF Increment(g, chunks, t) = {} THEN 0
                        ELSE Min({c.rank : c \in Increment(g, chunks, t)})

GroupKey(groups, chunks, t) ==
    [g \in Eligible(groups, chunks, t) |->
       <<Number(~g.primary), g.priority, 0 - Cardinality(g.mandatory),
         Cardinality(Increment(g, chunks, t)), RankIn(g, chunks, t)>>]

NextGroup(groups, chunks, t) == FirstBy(Eligible(groups, chunks, t), GroupKey(groups, chunks, t))

TakeMore(groups, chunks, t) ==
    IF Eligible(groups, chunks, t) = {} \/ Cardinality(t.chunks) >= MaxChunks THEN t
    ELSE [groups |-> t.groups \cup {NextGroup(groups, chunks, t)},
          chunks |-> t.chunks \cup Increment(NextGroup(groups, chunks, t), chunks, t)]

\* The groups taken have their bundles among the passages taken, which keep their limit.
Takings(groups, chunks) ==
    {t \in [groups : SUBSET groups, chunks : SUBSET chunks] :
        /\ Cardinality(t.chunks) <= MaxChunks
        /\ \A g \in t.groups : MinimumBundle(g, chunks) # {} /\ MinimumBundle(g, chunks) \subseteq t.chunks}

\* The groups of a store, or some of them.
Groups(groups) ==
    /\ IsFiniteSet(groups)
    /\ \A g \in groups : IsFiniteSet(g.mandatory) /\ g.priority \in Int

LEMMA TakesMore ==
  ASSUME NEW st, NEW chunks, Passages(st, chunks), NEW groups, Groups(groups), NEW t \in Takings(groups, chunks)
  PROVE  TakeMore(groups, chunks, t) \in Takings(groups, chunks)
  <1> DEFINE E == Eligible(groups, chunks, t)
             next == NextGroup(groups, chunks, t)
             more == Increment(next, chunks, t)
  <1>1. t.groups \in SUBSET groups /\ t.chunks \in SUBSET chunks
        /\ Cardinality(t.chunks) <= MaxChunks
        /\ \A g \in t.groups : MinimumBundle(g, chunks) # {} /\ MinimumBundle(g, chunks) \subseteq t.chunks
    BY DEF Takings
  <1>2. \A g \in groups : /\ MinimumBundle(g, chunks) \subseteq chunks
                          /\ IsFiniteSet(Increment(g, chunks, t)) /\ Cardinality(Increment(g, chunks, t)) \in Nat
    <2>1. SUFFICES ASSUME NEW g \in groups
                   PROVE  /\ MinimumBundle(g, chunks) \subseteq chunks
                          /\ IsFiniteSet(Increment(g, chunks, t)) /\ Cardinality(Increment(g, chunks, t)) \in Nat
      OBVIOUS
    <2>2. BundleFor(g, chunks, MinimumBundle(g, chunks))
      BY BundleCovers DEF Groups
    <2>3. MinimumBundle(g, chunks) \subseteq chunks
      BY <2>2 DEF BundleFor
    <2>4. Increment(g, chunks, t) \in SUBSET chunks
      BY <2>3 DEF Increment
    <2>5. QED BY <2>3, <2>4, FS_Subset, FS_CardinalityType DEF Passages
  <1>3. CASE E = {} \/ Cardinality(t.chunks) >= MaxChunks
    BY <1>3 DEF TakeMore
  <1>4. CASE ~(E = {} \/ Cardinality(t.chunks) >= MaxChunks)
    <2>1. next \in E
      <3>1. IsFiniteSet(E) /\ E # {}
        <4>1. E \in SUBSET groups
          BY DEF Eligible
        <4>2. QED BY <1>4, <4>1, FS_Subset DEF Groups
      <3>2. \A g \in E : GroupKey(groups, chunks, t)[g] \in [1..5 -> Int]
        <4>1. SUFFICES ASSUME NEW g \in E
                       PROVE  <<Number(~g.primary), g.priority, 0 - Cardinality(g.mandatory),
                                Cardinality(Increment(g, chunks, t)), RankIn(g, chunks, t)>> \in [1..5 -> Int]
          BY DEF GroupKey
        <4>2. g \in groups
          BY DEF Eligible
        <4>3. Number(~g.primary) \in Int
          BY DEF Number
        <4>4. g.priority \in Int /\ IsFiniteSet(g.mandatory)
          BY <4>2 DEF Groups
        <4>5. 0 - Cardinality(g.mandatory) \in Int
          <5>1. Cardinality(g.mandatory) \in Nat
            BY <4>4, FS_CardinalityType
          <5>2. QED BY <5>1
        <4>6. Cardinality(Increment(g, chunks, t)) \in Int
          BY <1>2, <4>2
        <4>7. RankIn(g, chunks, t) \in Int
          <5> DEFINE I == Increment(g, chunks, t)
                     R == {c.rank : c \in I}
          <5>1. I \subseteq chunks
            BY <1>2, <4>2 DEF Increment
          <5>2. \A c \in I : c.rank \in Nat
            BY <5>1 DEF Passages, Passage
          <5> HIDE DEF I
          <5>3. CASE I = {}
            BY <5>3 DEF RankIn, I
          <5>4. CASE I # {}
            <6>1. R \in SUBSET Nat /\ R # {}
              BY <5>2, <5>4
            <6>2. RankIn(g, chunks, t) = Min(R)
              BY <5>4 DEF RankIn, I
            <6> HIDE DEF R
            <6>3. Min(R) \in R
              BY <6>1, MinOf
            <6>4. Min(R) \in Nat
              BY <6>1, <6>3
            <6>5. QED BY <6>2, <6>4
          <5>5. QED BY <5>3, <5>4
        <4>8. QED BY <4>3, <4>4, <4>5, <4>6, <4>7, Key5
      <3> HIDE DEF E
      <3>3. FirstBy(E, GroupKey(groups, chunks, t)) \in E
        BY <3>1, <3>2, FirstExists
      <3>4. QED BY <3>3 DEF E, NextGroup
    <2>2. /\ next \in groups /\ MinimumBundle(next, chunks) # {}
          /\ Cardinality(t.chunks) + Cardinality(more) <= MaxChunks
      BY <2>1 DEF Eligible
    <2>3. TakeMore(groups, chunks, t) = [groups |-> t.groups \cup {next}, chunks |-> t.chunks \cup more]
      BY <1>4 DEF TakeMore
    <2>4. more = MinimumBundle(next, chunks) \ t.chunks /\ more \subseteq chunks /\ IsFiniteSet(more)
      BY <1>2, <2>2 DEF Increment
    <2> HIDE DEF next, more
    <2> DEFINE both == t.chunks \cup more
    <2>5. Cardinality(both) <= MaxChunks
      <3>1. IsFiniteSet(t.chunks)
        BY <1>1, FS_Subset DEF Passages
      <3>2. Cardinality(both) = Cardinality(t.chunks) + Cardinality(more) - Cardinality(t.chunks \cap more)
        BY <2>4, <3>1, FS_Union
      <3>3. Cardinality(t.chunks \cap more) = 0
        <4>1. t.chunks \cap more = {}
          BY <2>4
        <4>2. QED BY <4>1, FS_EmptySet
      <3>4. Cardinality(t.chunks) \in Nat /\ Cardinality(more) \in Nat
        BY <2>4, <3>1, FS_CardinalityType
      <3>5. QED BY <2>2, <3>2, <3>3, <3>4
    <2>6. both \in SUBSET chunks /\ t.chunks \subseteq both /\ MinimumBundle(next, chunks) \subseteq both
      BY <1>1, <2>4
    <2> HIDE DEF both
    <2>7. [groups |-> t.groups \cup {next}, chunks |-> both] \in Takings(groups, chunks)
      <3> DEFINE gs == t.groups \cup {next}
      <3>1. gs \in SUBSET groups
        BY <1>1, <2>2
      <3>2. \A g \in gs : MinimumBundle(g, chunks) # {} /\ MinimumBundle(g, chunks) \subseteq both
        BY <1>1, <2>2, <2>6
      <3> HIDE DEF gs
      <3>3. [groups |-> gs, chunks |-> both] \in Takings(groups, chunks)
        BY <2>5, <2>6, <3>1, <3>2 DEF Takings
      <3>4. QED BY <3>3 DEF gs
    <2>8. QED BY <2>3, <2>7 DEF both
  <1>5. QED BY <1>3, <1>4

LEMMA GroupsTaken ==
  ASSUME NEW st, NEW chunks, Passages(st, chunks), NEW groups, Groups(groups)
  PROVE  TakeGroups(groups, chunks) \in Takings(groups, chunks)
  <1> DEFINE n == Cardinality(groups)
             A == Takings(groups, chunks)
             none == [groups |-> {}, chunks |-> {}]
             op == [q \in Nat \X A |-> TakeMore(groups, chunks, q[2])]
             Solves(h) == h = [k \in 0..n |-> IF k = 0 THEN none ELSE TakeMore(groups, chunks, h[k - 1])]
             taken == CHOOSE h : Solves(h)
             T == {k \in Nat : k <= n => taken[k] \in A}
  <1>1. n \in Nat
    BY FS_CardinalityType DEF Groups
  <1>2. TakeGroups(groups, chunks) = taken[n]
    BY DEF TakeGroups, TakeMore, Eligible, Increment, NextGroup, GroupKey, RankIn
  <1>3. none \in A
    <2>1. Cardinality({}) <= MaxChunks
      BY FS_EmptySet, SettingsAssumption
    <2>2. QED BY <2>1 DEF Takings
  <1>4. op \in [Nat \X A -> A] /\ \A k \in Nat, x \in A : op[<<k, x>>] = TakeMore(groups, chunks, x)
    <2>1. \A x \in A : TakeMore(groups, chunks, x) \in A
      BY TakesMore
    <2> HIDE DEF A
    <2>2. QED BY <2>1
  <1>5. Solves(taken)
    <2> HIDE DEF op, n, none, A
    <2>1. PICK g \in [0..n -> A] : Iter(op, none, n, g)
      BY <1>1, <1>3, <1>4, IterExists
    <2>2. \A k \in 0..n : g[k] = IF k = 0 THEN none ELSE TakeMore(groups, chunks, g[k - 1])
      <3>1. ASSUME NEW k \in 0..n, k # 0
            PROVE  g[k] = TakeMore(groups, chunks, g[k - 1])
        <4>1. k - 1 \in 0..n /\ k \in Nat
          BY <1>1, <3>1
        <4>2. g[k] = op[<<k, g[k - 1]>>] /\ g[k - 1] \in A
          BY <2>1, <3>1, <4>1 DEF Iter
        <4>3. QED BY <1>4, <4>1, <4>2
      <3>2. g[0] = none
        BY <1>1, <2>1 DEF Iter
      <3>3. QED BY <3>1, <3>2
    <2>3. Solves(g)
      <3>1. g = [k \in 0..n |-> g[k]]
        BY <2>1
      <3>2. QED BY <2>2, <3>1
    <2> HIDE DEF Solves
    <2>4. QED BY <2>3
  <1>6. taken[0] = none /\ \A k \in 1..n : taken[k] = TakeMore(groups, chunks, taken[k - 1])
    <2> HIDE DEF taken, n, none
    <2>1. 0 \in 0..n
      BY <1>1
    <2>2. taken = [k \in 0..n |-> IF k = 0 THEN none ELSE TakeMore(groups, chunks, taken[k - 1])]
      BY <1>5, Zenon
    <2>3. taken[0] = none
      BY <2>1, <2>2
    <2>4. ASSUME NEW k \in 1..n
          PROVE  taken[k] = TakeMore(groups, chunks, taken[k - 1])
      <3>1. k \in 0..n /\ k # 0
        BY <1>1
      <3>2. QED BY <2>2, <3>1
    <2>5. QED BY <2>3, <2>4
  <1> HIDE DEF taken
  <1>7. 0 \in T
    <2> HIDE DEF A, none
    <2>1. QED BY <1>3, <1>6
  <1>8. ASSUME NEW k \in Nat, k \in T
        PROVE  k + 1 \in T
    <2>1. SUFFICES ASSUME k + 1 <= n
                   PROVE  taken[k + 1] \in A
      OBVIOUS
    <2>2. taken[k] \in A /\ k + 1 \in 1..n /\ (k + 1) - 1 = k
      <3> HIDE DEF A, n
      <3>1. QED BY <1>1, <1>8, <2>1
    <2>3. taken[k + 1] = TakeMore(groups, chunks, taken[k])
      <3> HIDE DEF n
      <3>1. QED BY <1>6, <2>2
    <2>4. TakeMore(groups, chunks, taken[k]) \in A
      BY <2>2, TakesMore
    <2>5. QED BY <2>3, <2>4
  <1>9. n \in T
    <2> HIDE DEF T
    <2>1. \A k \in Nat : k \in T
      BY <1>7, <1>8, Induction
    <2>2. QED BY <1>1, <2>1
  <1>10. taken[n] \in A
    <2> HIDE DEF A, n
    <2>1. QED BY <1>1, <1>9
  <1>11. QED BY <1>2, <1>10

-----------------------------------------------------------------------------
(* The passages that fill what is left.                                    *)

CanBeAdded(sel, c) == /\ Cardinality(sel) < MaxChunks
                      /\ c \notin sel
                      /\ Cardinality({d \in sel : d.article = c.article}) < MaxChunksPerArticle

AddMore(taken, sel, c) == IF c.law /\ c.article \in {d.article : d \in taken} /\ CanBeAdded(sel, c)
                          THEN sel \cup {c} ELSE sel

AddExtra(st, acc, c) ==
    IF /\ acc.extra < MaxAuxiliaryChunks
       /\ Cardinality(acc.sel) < MaxChunks
       /\ c \notin acc.sel
       /\ (~c.law \/ \A n \in c.covers : ~st[n].mandatory)
       /\ c.law => CanBeAdded(acc.sel, c)
    THEN [sel |-> acc.sel \cup {c}, extra |-> acc.extra + 1] ELSE acc

ExtraFilled(st, first, ordered) ==
    FoldLeft(LAMBDA acc, c : AddExtra(st, acc, c), [sel |-> first, extra |-> 0], ordered)

\* What was taken is kept, and the limit as well.
Filled(taken, chunks) == {X \in SUBSET chunks : taken \subseteq X /\ Cardinality(X) <= MaxChunks}

LEMMA FilledMore ==
  ASSUME NEW chunks, IsFiniteSet(chunks), NEW taken, NEW X \in Filled(taken, chunks), NEW c \in chunks,
         Cardinality(X) < MaxChunks
  PROVE  X \cup {c} \in Filled(taken, chunks)
  <1>1. X \in SUBSET chunks /\ taken \subseteq X
    BY DEF Filled
  <1>2. IsFiniteSet(X) /\ Cardinality(X) \in Nat
    BY <1>1, FS_Subset, FS_CardinalityType
  <1>3. Cardinality(X \cup {c}) <= Cardinality(X) + 1
    <2>1. Cardinality(X \cup {c}) = IF c \in X THEN Cardinality(X) ELSE Cardinality(X) + 1
      BY <1>2, FS_AddElement
    <2>2. QED BY <1>2, <2>1
  <1>4. Cardinality(X \cup {c}) <= MaxChunks
    <2>1. MaxChunks \in Nat
      BY SettingsAssumption
    <2>2. Cardinality(X \cup {c}) \in Nat
      BY <1>2, FS_AddElement, FS_CardinalityType
    <2>3. QED BY <1>2, <1>3, <2>1, <2>2
  <1>5. QED BY <1>1, <1>4 DEF Filled

LEMMA FilledUp ==
  ASSUME NEW chunks, IsFiniteSet(chunks), NEW ordered \in Seq(chunks), NEW taken \in SUBSET chunks,
         Cardinality(taken) <= MaxChunks
  PROVE  FoldLeft(LAMBDA sel, c : AddMore(taken, sel, c), taken, ordered) \in Filled(taken, chunks)
  <1> DEFINE len == Len(ordered)
             A  == Filled(taken, chunks)
             B  == chunks
             op == [q \in A \X B |-> AddMore(taken, q[1], q[2])]
             Solves(h) == h = [T \in SUBSET (1..len) |->
                                 IF T = {} THEN taken ELSE AddMore(taken, h[T \ {Max(T)}], ordered[Max(T)])]
             iter == CHOOSE h : Solves(h)
             Good(k, x) == TRUE
             P == {q \in Nat \X A : Good(q[1], q[2])}
  <1>1. len \in Nat /\ DOMAIN ordered = 1..len /\ \A k \in 1..len : ordered[k] \in B
    OBVIOUS
  <1>2. /\ op \in [A \X B -> A]
        /\ \A x \in A, y \in B : op[<<x, y>>] = AddMore(taken, x, y)
    <2>1. ASSUME NEW x \in A, NEW y \in B
          PROVE  AddMore(taken, x, y) \in A
      BY FilledMore DEF AddMore, CanBeAdded
    <2> HIDE DEF A, B
    <2>2. QED BY <2>1
  <1>3. taken \in A /\ Good(0, taken)
    BY DEF Filled
  <1>4. taken \in A /\ <<0, taken>> \in P
    <2> HIDE DEF A, Good
    <2>1. QED BY <1>3
  <1>5. FoldKeeps(A, op, ordered, len, P)
    <2>1. ASSUME NEW k \in 1..len, NEW x \in A, Good(k - 1, x), ordered[k] \in B
          PROVE  Good(k, AddMore(taken, x, ordered[k]))
      OBVIOUS
    <2> HIDE DEF op, len, A, B, Good
    <2>2. ASSUME NEW k \in 1..len, NEW x \in A, <<k - 1, x>> \in P
          PROVE  <<k, op[<<x, ordered[k]>>]>> \in P
      <3>1. ordered[k] \in B /\ Good(k - 1, x) /\ k \in Nat
        BY <1>1, <2>2
      <3>2. op[<<x, ordered[k]>>] \in A /\ op[<<x, ordered[k]>>] = AddMore(taken, x, ordered[k])
        BY <1>2, <3>1
      <3>3. Good(k, op[<<x, ordered[k]>>])
        BY <2>1, <3>1, <3>2
      <3>4. QED BY <3>1, <3>2, <3>3
    <2>3. QED BY <2>2 DEF FoldKeeps
  <1>6. PICK g : FoldWhole(A, B, op, taken, ordered, len, g)
    <2> HIDE DEF op, len, A, B, P, Good
    <2>1. QED BY <1>1, <1>2, <1>4, FoldSolved
  <1>7. Solves(iter)
    <2> HIDE DEF op, A, B, P, Good
    <2>1. \A T \in SUBSET (1..len) :
             g[T] = IF T = {} THEN taken ELSE AddMore(taken, g[T \ {Max(T)}], ordered[Max(T)])
      BY <1>2, <1>6 DEF FoldWhole
    <2>2. Solves(g)
      BY <1>6, <2>1 DEF FoldWhole
    <2> HIDE DEF Solves
    <2>3. QED BY <2>2
  <1>8. FoldLeft(LAMBDA sel, c : AddMore(taken, sel, c), taken, ordered) = iter[1..len]
    BY <1>1 DEF FoldLeft, MapThenFoldSet
  <1>9. FoldSteps(A, op, taken, ordered, len, iter)
    <2> HIDE DEF iter, op, len, A, B, P, Good
    <2>1. \A T \in SUBSET (1..len) : T # {} => ordered[Max(T)] \in B
      BY <1>6 DEF FoldWhole
    <2>2. QED BY <1>2, <1>7, <2>1 DEF FoldSteps
  <1>10. FoldLeft(LAMBDA sel, c : AddMore(taken, sel, c), taken, ordered) \in A /\ Good(len, FoldLeft(LAMBDA sel, c : AddMore(taken, sel, c), taken, ordered))
    <2> HIDE DEF op, iter, len, A, B, Good
    <2>1. FoldEnds(A, len, iter, P)
      <3> HIDE DEF P
      <3>1. QED BY <1>1, <1>2, <1>4, <1>5, <1>9, FoldInduction
    <2>2. QED BY <1>8, <2>1 DEF FoldEnds
  <1>11. QED
    BY <1>10

LEMMA FilledExtra ==
  ASSUME NEW st, NEW chunks, IsFiniteSet(chunks), NEW ordered \in Seq(chunks), NEW taken,
         NEW first \in Filled(taken, chunks)
  PROVE  ExtraFilled(st, first, ordered).sel \in Filled(taken, chunks)
  <1> DEFINE len == Len(ordered)
             A  == [sel : Filled(taken, chunks), extra : Nat]
             B  == chunks
             op == [q \in A \X B |-> AddExtra(st, q[1], q[2])]
             Solves(h) == h = [T \in SUBSET (1..len) |->
                                 IF T = {} THEN [sel |-> first, extra |-> 0] ELSE AddExtra(st, h[T \ {Max(T)}], ordered[Max(T)])]
             iter == CHOOSE h : Solves(h)
             Good(k, x) == TRUE
             P == {q \in Nat \X A : Good(q[1], q[2])}
  <1>1. len \in Nat /\ DOMAIN ordered = 1..len /\ \A k \in 1..len : ordered[k] \in B
    OBVIOUS
  <1>2. /\ op \in [A \X B -> A]
        /\ \A x \in A, y \in B : op[<<x, y>>] = AddExtra(st, x, y)
    <2>1. ASSUME NEW x \in A, NEW y \in B
          PROVE  AddExtra(st, x, y) \in A
      <3>1. x.sel \in Filled(taken, chunks) /\ x.extra \in Nat
        BY <2>1
      <3>2. Cardinality(x.sel) < MaxChunks => x.sel \cup {y} \in Filled(taken, chunks)
        BY <2>1, <3>1, FilledMore
      <3>3. QED BY <2>1, <3>1, <3>2 DEF AddExtra
    <2> HIDE DEF A, B
    <2>2. QED BY <2>1
  <1>3. [sel |-> first, extra |-> 0] \in A /\ Good(0, [sel |-> first, extra |-> 0])
    OBVIOUS
  <1>4. [sel |-> first, extra |-> 0] \in A /\ <<0, [sel |-> first, extra |-> 0]>> \in P
    <2> HIDE DEF A, Good
    <2>1. QED BY <1>3
  <1>5. FoldKeeps(A, op, ordered, len, P)
    <2>1. ASSUME NEW k \in 1..len, NEW x \in A, Good(k - 1, x), ordered[k] \in B
          PROVE  Good(k, AddExtra(st, x, ordered[k]))
      OBVIOUS
    <2> HIDE DEF op, len, A, B, Good
    <2>2. ASSUME NEW k \in 1..len, NEW x \in A, <<k - 1, x>> \in P
          PROVE  <<k, op[<<x, ordered[k]>>]>> \in P
      <3>1. ordered[k] \in B /\ Good(k - 1, x) /\ k \in Nat
        BY <1>1, <2>2
      <3>2. op[<<x, ordered[k]>>] \in A /\ op[<<x, ordered[k]>>] = AddExtra(st, x, ordered[k])
        BY <1>2, <3>1
      <3>3. Good(k, op[<<x, ordered[k]>>])
        BY <2>1, <3>1, <3>2
      <3>4. QED BY <3>1, <3>2, <3>3
    <2>3. QED BY <2>2 DEF FoldKeeps
  <1>6. PICK g : FoldWhole(A, B, op, [sel |-> first, extra |-> 0], ordered, len, g)
    <2> HIDE DEF op, len, A, B, P, Good
    <2>1. QED BY <1>1, <1>2, <1>4, FoldSolved
  <1>7. Solves(iter)
    <2> HIDE DEF op, A, B, P, Good
    <2>1. \A T \in SUBSET (1..len) :
             g[T] = IF T = {} THEN [sel |-> first, extra |-> 0] ELSE AddExtra(st, g[T \ {Max(T)}], ordered[Max(T)])
      BY <1>2, <1>6 DEF FoldWhole
    <2>2. Solves(g)
      BY <1>6, <2>1 DEF FoldWhole
    <2> HIDE DEF Solves
    <2>3. QED BY <2>2
  <1>8. ExtraFilled(st, first, ordered) = iter[1..len]
    BY <1>1 DEF ExtraFilled, FoldLeft, MapThenFoldSet
  <1>9. FoldSteps(A, op, [sel |-> first, extra |-> 0], ordered, len, iter)
    <2> HIDE DEF iter, op, len, A, B, P, Good
    <2>1. \A T \in SUBSET (1..len) : T # {} => ordered[Max(T)] \in B
      BY <1>6 DEF FoldWhole
    <2>2. QED BY <1>2, <1>7, <2>1 DEF FoldSteps
  <1>10. ExtraFilled(st, first, ordered) \in A /\ Good(len, ExtraFilled(st, first, ordered))
    <2> HIDE DEF op, iter, len, A, B, Good
    <2>1. FoldEnds(A, len, iter, P)
      <3> HIDE DEF P
      <3>1. QED BY <1>1, <1>2, <1>4, <1>5, <1>9, FoldInduction
    <2>2. QED BY <1>8, <2>1 DEF FoldEnds
  <1>11. QED
    BY <1>10

LEMMA FillsUp ==
  ASSUME NEW st, NEW chunks, IsFiniteSet(chunks), NEW ordered \in Seq(chunks), NEW taken \in SUBSET chunks,
         Cardinality(taken) <= MaxChunks
  PROVE  FillRemaining(taken, ordered, st) \in Filled(taken, chunks)
  <1> DEFINE first == FoldLeft(LAMBDA sel, c : AddMore(taken, sel, c), taken, ordered)
  <1>1. first \in Filled(taken, chunks)
    BY FilledUp
  <1>2. FillRemaining(taken, ordered, st) =
ExtraFilled(st, first, ordered).sel
    BY DEF FillRemaining, AddMore, AddExtra, CanBeAdded, ExtraFilled
  <1> HIDE DEF first
  <1>3. QED BY <1>1, <1>2, FilledExtra

-----------------------------------------------------------------------------
(* The passages of the Articles that were accepted.                        *)

Acceptors(st, a) == {n \in DOMAIN st : a \in ToSet(st[n].accepted)}

SeenArticles(st, pl) ==
    FoldLeft(LAMBDA seen, a : IF a \in ToSet(seen) \/ Acceptors(st, a) = {} THEN seen ELSE Append(seen, a),
             <<>>, FlattenSeq(pl))

LEMMA SeenType ==
  ASSUME NEW st, NEW pl \in Seq(Seq(Articles))
  PROVE  SeenArticles(st, pl) \in Seq(Articles)
  <1> DEFINE flat == FlattenSeq(pl)
             len == Len(flat)
             A  == Seq(Articles)
             B  == Articles
             op == [q \in A \X B |-> (IF q[2] \in ToSet(q[1]) \/ Acceptors(st, q[2]) = {} THEN q[1] ELSE Append(q[1], q[2]))]
             Solves(h) == h = [T \in SUBSET (1..len) |->
                                 IF T = {} THEN <<>> ELSE (IF flat[Max(T)] \in ToSet(h[T \ {Max(T)}]) \/ Acceptors(st, flat[Max(T)]) = {} THEN h[T \ {Max(T)}] ELSE Append(h[T \ {Max(T)}], flat[Max(T)]))]
             iter == CHOOSE h : Solves(h)
             Good(k, x) == TRUE
             P == {q \in Nat \X A : Good(q[1], q[2])}
  <1> HIDE DEF flat
  <1>1. len \in Nat /\ DOMAIN flat = 1..len /\ \A k \in 1..len : flat[k] \in B
    <2>1. flat \in Seq(Articles)
      BY FlattenType DEF flat
    <2>2. QED BY <2>1
  <1>2. /\ op \in [A \X B -> A]
        /\ \A x \in A, y \in B : op[<<x, y>>] = (IF y \in ToSet(x) \/ Acceptors(st, y) = {} THEN x ELSE Append(x, y))
    <2>1. ASSUME NEW x \in A, NEW y \in B
          PROVE  (IF y \in ToSet(x) \/ Acceptors(st, y) = {} THEN x ELSE Append(x, y)) \in A
      BY <2>1
    <2> HIDE DEF A, B
    <2>2. QED BY <2>1
  <1>3. <<>> \in A /\ Good(0, <<>>)
    BY NoElements
  <1>4. <<>> \in A /\ <<0, <<>>>> \in P
    <2> HIDE DEF A, Good
    <2>1. QED BY <1>3
  <1>5. FoldKeeps(A, op, flat, len, P)
    <2>1. ASSUME NEW k \in 1..len, NEW x \in A, Good(k - 1, x), flat[k] \in B
          PROVE  Good(k, (IF flat[k] \in ToSet(x) \/ Acceptors(st, flat[k]) = {} THEN x ELSE Append(x, flat[k])))
      OBVIOUS
    <2> HIDE DEF op, len, A, B, Good
    <2>2. ASSUME NEW k \in 1..len, NEW x \in A, <<k - 1, x>> \in P
          PROVE  <<k, op[<<x, flat[k]>>]>> \in P
      <3>1. flat[k] \in B /\ Good(k - 1, x) /\ k \in Nat
        BY <1>1, <2>2
      <3>2. op[<<x, flat[k]>>] \in A /\ op[<<x, flat[k]>>] = (IF flat[k] \in ToSet(x) \/ Acceptors(st, flat[k]) = {} THEN x ELSE Append(x, flat[k]))
        BY <1>2, <3>1
      <3>3. Good(k, op[<<x, flat[k]>>])
        BY <2>1, <3>1, <3>2
      <3>4. QED BY <3>1, <3>2, <3>3
    <2>3. QED BY <2>2 DEF FoldKeeps
  <1>6. PICK g : FoldWhole(A, B, op, <<>>, flat, len, g)
    <2> HIDE DEF op, len, A, B, P, Good
    <2>1. QED BY <1>1, <1>2, <1>4, FoldSolved
  <1>7. Solves(iter)
    <2> HIDE DEF op, A, B, P, Good
    <2>1. \A T \in SUBSET (1..len) :
             g[T] = IF T = {} THEN <<>> ELSE (IF flat[Max(T)] \in ToSet(g[T \ {Max(T)}]) \/ Acceptors(st, flat[Max(T)]) = {} THEN g[T \ {Max(T)}] ELSE Append(g[T \ {Max(T)}], flat[Max(T)]))
      BY <1>2, <1>6 DEF FoldWhole
    <2>2. Solves(g)
      BY <1>6, <2>1 DEF FoldWhole
    <2> HIDE DEF Solves
    <2>3. QED BY <2>2
  <1>8. SeenArticles(st, pl) = iter[1..len]
    BY <1>1 DEF SeenArticles, flat, FoldLeft, MapThenFoldSet
  <1>9. FoldSteps(A, op, <<>>, flat, len, iter)
    <2> HIDE DEF iter, op, len, A, B, P, Good
    <2>1. \A T \in SUBSET (1..len) : T # {} => flat[Max(T)] \in B
      BY <1>6 DEF FoldWhole
    <2>2. QED BY <1>2, <1>7, <2>1 DEF FoldSteps
  <1>10. SeenArticles(st, pl) \in A /\ Good(len, SeenArticles(st, pl))
    <2> HIDE DEF op, iter, len, A, B, Good
    <2>1. FoldEnds(A, len, iter, P)
      <3> HIDE DEF P
      <3>1. QED BY <1>1, <1>2, <1>4, <1>5, <1>9, FoldInduction
    <2>2. QED BY <1>8, <2>1 DEF FoldEnds
  <1>11. QED
    BY <1>10

UnitsTaken(a) == SubSeq(Units[a], 1, IF Len(Units[a]) < MaxChunksPerArticle
                                     THEN Len(Units[a]) ELSE MaxChunksPerArticle)

UnitOrder(articles) ==
    FlattenSeq([k \in DOMAIN articles |->
       [j \in DOMAIN UnitsTaken(articles[k]) |-> <<articles[k], UnitsTaken(articles[k])[j]>>]])

LEMMA UnitOrderType ==
  ASSUME NEW articles \in Seq(Articles)
  PROVE  DOMAIN UnitOrder(articles) \in SUBSET Nat /\ IsFiniteSet(DOMAIN UnitOrder(articles))
  <1> DEFINE X == Articles \X UNION {ToSet(Units[a]) : a \in Articles}
             S == Seq(X)
             Of(a) == [j \in DOMAIN UnitsTaken(a) |-> <<a, UnitsTaken(a)[j]>>]
             len == Len(articles)
             f == [k \in 1..len |-> Of(articles[k])]
  <1>1. len \in Nat /\ DOMAIN articles = 1..len /\ \A k \in 1..len : articles[k] \in Articles
    OBVIOUS
  <1>2. ASSUME NEW a \in Articles
        PROVE  Of(a) \in S
    <2> DEFINE U == ToSet(Units[a])
               u == UnitsTaken(a)
               m == Len(u)
    <2>1. Units[a] \in Seq(U)
      BY SettingsAssumption
    <2>2. u \in Seq(U)
      <3>1. MaxChunksPerArticle \in Nat
        BY SettingsAssumption
      <3> HIDE DEF U
      <3>2. Len(Units[a]) \in Nat
        BY <2>1
      <3>3. QED BY <2>1, <3>1, <3>2 DEF UnitsTaken
    <2>3. m \in Nat /\ DOMAIN u = 1..m /\ \A j \in 1..m : u[j] \in U
      <3> HIDE DEF u, U
      <3>1. QED BY <2>2
    <2>4. \A j \in 1..m : <<a, u[j]>> \in X
      <3>1. \A j \in 1..m : u[j] \in UNION {ToSet(Units[b]) : b \in Articles}
        BY <2>3
      <3> HIDE DEF u, m
      <3>2. QED BY <3>1
    <2>5. Of(a) = [j \in 1..m |-> <<a, u[j]>>]
      BY <2>3
    <2> HIDE DEF u, m, X, Of
    <2>6. Of(a) \in [1..m -> X]
      BY <2>4, <2>5
    <2>7. QED BY <2>3, <2>6
  <1>3. f \in Seq(S)
    <2> HIDE DEF Of, S, len
    <2>1. f \in [1..len -> S]
      BY <1>1, <1>2
    <2> HIDE DEF f
    <2>2. QED BY <1>1, <2>1
  <1>4. UnitOrder(articles) = FlattenSeq(f)
    <2>1. f = [k \in DOMAIN articles |-> Of(articles[k])]
      BY <1>1
    <2> HIDE DEF f
    <2>2. QED BY <2>1 DEF UnitOrder
  <1>5. FlattenSeq(f) \in Seq(X)
    <2> HIDE DEF f, X
    <2>1. QED BY <1>3, FlattenType
  <1>6. QED
    <2> HIDE DEF f, X
    <2> DEFINE s == UnitOrder(articles)
    <2>1. s \in Seq(X)
      BY <1>4, <1>5
    <2> HIDE DEF s
    <2> DEFINE m == Len(s)
    <2>2. m \in Nat /\ DOMAIN s = 1..m
      BY <2>1
    <2> HIDE DEF m
    <2>3. IsFiniteSet(1..m)
      BY <2>2, FS_Interval
    <2>4. DOMAIN s \in SUBSET Nat /\ IsFiniteSet(DOMAIN s)
      BY <2>2, <2>3
    <2>5. QED BY <2>4 DEF s

LEMMA LawPassages ==
  ASSUME NEW st \in Store, NEW pl \in Seq(Seq(Articles))
  PROVE  Passages(st, ChunkCandidates(st, pl))
  <1> DEFINE order == UnitOrder(SeenArticles(st, pl))
             chunk(k) == [unit |-> order[k][2], article |-> order[k][1],
                          covers |-> Acceptors(st, order[k][1]), law |-> TRUE, rank |-> k,
                          explicit |-> \E n \in Acceptors(st, order[k][1]) : st[n].explicit]
             f == [k \in DOMAIN order |-> chunk(k)]
  <1>1. DOMAIN order \in SUBSET Nat /\ IsFiniteSet(DOMAIN order)
    BY SeenType, UnitOrderType
  <1>2. ChunkCandidates(st, pl) = {chunk(k) : k \in DOMAIN order}
    BY DEF ChunkCandidates, UnitOrder, UnitsTaken, SeenArticles, Acceptors
  <1> HIDE DEF order
  <1>3. IsFiniteSet({chunk(k) : k \in DOMAIN order})
    <2>1. DOMAIN f = DOMAIN order /\ {f[k] : k \in DOMAIN order} = {chunk(k) : k \in DOMAIN order}
      BY Zenon
    <2>2. IsFiniteSet({f[k] : k \in DOMAIN order})
      <3> HIDE DEF f
      <3>1. QED BY <1>1, <2>1, FiniteRange
    <2>3. QED BY <2>1, <2>2
  <1>4. ASSUME NEW k \in DOMAIN order
        PROVE  Passage(st, chunk(k))
    <2> DEFINE a == order[k][1]
    <2>1. Acceptors(st, a) \subseteq DOMAIN st /\ \A n \in Acceptors(st, a) : a \in ToSet(st[n].accepted)
      BY DEF Acceptors
    <2>2. IsFiniteSet(Acceptors(st, a))
      BY <2>1, StorePlaces, FS_Subset
    <2>3. k \in Nat /\ (\E n \in Acceptors(st, a) : st[n].explicit) \in BOOLEAN
      BY <1>1
    <2>4. /\ chunk(k).article = a /\ chunk(k).covers = Acceptors(st, a) /\ chunk(k).law = TRUE
          /\ chunk(k).rank = k /\ chunk(k).explicit = \E n \in Acceptors(st, a) : st[n].explicit
      OBVIOUS
    <2> HIDE DEF a, chunk
    <2>5. QED BY <2>1, <2>2, <2>3, <2>4 DEF Passage
  <1>5. QED BY <1>2, <1>3, <1>4 DEF Passages

LEMMA GuidePassages ==
  ASSUME NEW st, NEW s \in Seq(Guides)
  PROVE  Passages(st, GuidanceCandidates(s))
  <1> DEFINE len == Len(s)
             chunk(k) == [unit |-> s[k], article |-> s[k], covers |-> {}, law |-> FALSE, rank |-> k,
                          explicit |-> FALSE]
             f == [k \in 1..len |-> chunk(k)]
  <1>1. len \in Nat /\ DOMAIN s = 1..len
    OBVIOUS
  <1>2. GuidanceCandidates(s) = {chunk(k) : k \in 1..len}
    BY <1>1 DEF GuidanceCandidates
  <1> HIDE DEF len
  <1>3. IsFiniteSet({chunk(k) : k \in 1..len})
    <2>1. DOMAIN f = 1..len /\ {f[k] : k \in 1..len} = {chunk(k) : k \in 1..len}
      BY Zenon
    <2>2. IsFiniteSet(1..len)
      BY <1>1, FS_Interval
    <2> DEFINE D == 1..len
    <2>3. IsFiniteSet(D) /\ DOMAIN f = D
      BY <2>1, <2>2
    <2>4. IsFiniteSet({f[k] : k \in D})
      <3> HIDE DEF f, D
      <3>1. QED BY <2>3, FiniteRange
    <2>5. QED BY <2>1, <2>4
  <1>4. ASSUME NEW k \in 1..len
        PROVE  Passage(st, chunk(k))
    BY <1>1, FS_EmptySet DEF Passage
  <1>5. QED BY <1>2, <1>3, <1>4 DEF Passages

-----------------------------------------------------------------------------
(* The answer's passages.                                                  *)

\* IncludedIsCovered of the choice ctx over the slots st.
CoversIncluded(st, ctx) ==
    LET law == {c \in ctx.selected : c.law}
        Covered(n) == \E c \in law : n \in c.covers /\ c.article \in ToSet(st[n].accepted)
        groups == {g \in ConclusionGroups(st) : g.mandatory # {}}
    IN /\ Cardinality(ctx.selected) <= MaxChunks
       /\ \A g \in groups : g.id \in ctx.included => \A n \in g.mandatory : Covered(n)
       /\ ctx.status = "complete" => \A g \in groups : g.primary => \A n \in g.mandatory : Covered(n)

LEMMA AssembledCovers ==
  ASSUME NEW st \in Store, NEW chunks, Passages(st, chunks),
         NEW ordered \in Seq(chunks), ToSet(ordered) = chunks
  PROVE  CoversIncluded(st, AssembleContext(ordered, st))
  <1> DEFINE groups == {g \in ConclusionGroups(st) : g.mandatory # {}}
             primary == {g \in groups : g.primary}
             taken == TakeGroups(groups, chunks)
             status == IF primary = {} \/ primary \cap taken.groups = {}
                       THEN "insufficient_primary_evidence"
                       ELSE IF primary \subseteq taken.groups THEN "complete"
                       ELSE "partial_primary_evidence"
             selected == IF status = "insufficient_primary_evidence" THEN taken.chunks
                         ELSE FillRemaining(taken.chunks, ordered, st)
             ctx == AssembleContext(ordered, st)
  <1>1. ctx.status = status /\ ctx.selected = selected /\ ctx.included = {g.id : g \in taken.groups}
    BY DEF AssembleContext
  <1>2. Groups(groups)
    <2>1. IsFiniteSet(groups)
      BY GroupsFinite, FS_Subset
    <2>2. QED BY <2>1, GroupType DEF Groups
  <1>3. taken \in Takings(groups, chunks)
    <2> HIDE DEF groups
    <2>1. QED BY <1>2, GroupsTaken
  <1> HIDE DEF taken
  <1>4. /\ taken.groups \subseteq groups /\ taken.chunks \in SUBSET chunks
        /\ Cardinality(taken.chunks) <= MaxChunks
        /\ \A g \in taken.groups : MinimumBundle(g, chunks) # {} /\ MinimumBundle(g, chunks) \subseteq taken.chunks
    <2> HIDE DEF groups
    <2>1. QED BY <1>3 DEF Takings
  <1>5. selected \in SUBSET chunks /\ taken.chunks \subseteq selected /\ Cardinality(selected) <= MaxChunks
    <2>1. FillRemaining(taken.chunks, ordered, st) \in Filled(taken.chunks, chunks)
      BY <1>4, FillsUp DEF Passages
    <2> HIDE DEF status
    <2>2. QED BY <1>4, <2>1 DEF Filled
  <1>6. ASSUME NEW g \in taken.groups, NEW n \in g.mandatory
        PROVE  \E c \in {c \in selected : c.law} : n \in c.covers /\ c.article \in ToSet(st[n].accepted)
    <2> HIDE DEF selected
    <2>1. g \in ConclusionGroups(st)
      BY <1>4
    <2>2. BundleFor(g, chunks, MinimumBundle(g, chunks))
      BY <2>1, GroupType, BundleCovers
    <2>3. n \in CoveredBy(MinimumBundle(g, chunks))
      BY <1>4, <2>2 DEF BundleFor
    <2>4. PICK c \in MinimumBundle(g, chunks) : n \in c.covers
      BY <2>3 DEF CoveredBy
    <2>5. c \in selected /\ c \in chunks /\ c.law
      BY <1>4, <1>5, <2>2, <2>4 DEF BundleFor
    <2>6. c.article \in ToSet(st[n].accepted)
      BY <2>4, <2>5 DEF Passages, Passage
    <2>7. QED BY <2>4, <2>5, <2>6
  <1>7. ASSUME NEW g \in groups, g.id \in {h.id : h \in taken.groups}
        PROVE  g \in taken.groups
    <2>1. PICK h \in taken.groups : h.id = g.id
      BY <1>7
    <2>2. g = ConclusionGroup(g.id, st) /\ h = ConclusionGroup(h.id, st)
      BY <1>4, GroupType
    <2>3. g = h
      BY <2>1, <2>2
    <2>4. QED BY <2>1, <2>3
  <1>8. ASSUME status = "complete", NEW g \in groups, g.primary
        PROVE  g \in taken.groups
    BY <1>8
  <1> HIDE DEF ctx, status, selected
  <1>9. \A g \in groups : g.id \in ctx.included =>
           \A n \in g.mandatory : \E c \in {c \in ctx.selected : c.law} :
              n \in c.covers /\ c.article \in ToSet(st[n].accepted)
    <2> HIDE DEF groups
    <2>1. QED BY <1>1, <1>6, <1>7
  <1>10. ctx.status = "complete" => \A g \in groups : g.primary =>
           \A n \in g.mandatory : \E c \in {c \in ctx.selected : c.law} :
              n \in c.covers /\ c.article \in ToSet(st[n].accepted)
    <2> HIDE DEF groups
    <2>1. QED BY <1>1, <1>6, <1>8
  <1>11. Cardinality(ctx.selected) <= MaxChunks
    BY <1>1, <1>5
  <1>12. CoversIncluded(st, ctx)
    BY <1>9, <1>10, <1>11 DEF CoversIncluded
  <1>13. QED BY <1>12 DEF ctx

LEMMA FinishCovers ==
  ASSUME Shape, findings \in Seq(Guides), Finish
  PROVE  IncludedIsCovered'
  <1>1. Shape' /\ UNCHANGED <<pool, findings>>
    BY FinishShape DEF Finish, poolVars
  <1> DEFINE law == ChunkCandidates(store', pool)
             guides == GuidanceCandidates(findings)
             chunks == law \cup guides
  <1>2. PICK ordered \in InOrder(chunks) : context' = AssembleContext(ordered, store')
    BY DEF Finish
  <1>3. store' \in Store /\ pool \in Seq(Seq(Articles))
    BY <1>1 DEF Shape, PoolShape
  <1>4. Passages(store', law) /\ Passages(store', guides)
    BY <1>3, LawPassages, GuidePassages
  <1> HIDE DEF law, guides
  <1>5. Passages(store', chunks)
    BY <1>4, FS_Union DEF Passages
  <1> HIDE DEF chunks
  <1>6. ordered \in SetToSeqs(chunks) /\ IsFiniteSet(chunks)
    BY <1>5 DEF InOrder, Passages
  <1>7. ordered \in Seq(chunks) /\ ToSet(ordered) = chunks
    BY <1>6, SeqsOfSet
  <1> DEFINE st == store'
  <1>8. st \in Store /\ Passages(st, chunks) /\ context' = AssembleContext(ordered, st)
    BY <1>2, <1>3, <1>5
  <1> HIDE DEF st
  <1>9. CoversIncluded(st, context')
    BY <1>7, <1>8, AssembledCovers
  <1>10. CoversIncluded(store', context')
    BY <1>9 DEF st
  <1>11. QED BY <1>10 DEF IncludedIsCovered, CoversIncluded

\* The passages found and the choice made.
Chosen == findings \in Seq(Guides) /\ IncludedIsCovered

LEMMA ChosenStep ==
  ASSUME Shape, Chosen, [Next]_vars
  PROVE  Chosen'
  <1>1. CASE Finish
    <2>1. findings' = findings
      BY <1>1 DEF Finish
    <2>2. QED BY <1>1, <2>1, FinishCovers DEF Chosen
  <1>2. CASE Guidance
    <2>1. phase' = "pop" /\ (findings' = <<>> \/ \E g \in Guides : findings' = <<g>>)
      BY <1>2 DEF Guidance
    <2>2. findings' \in Seq(Guides)
      <3>1. CASE findings' = <<>>
        BY <3>1, NoElements
      <3>2. CASE \E g \in Guides : findings' = <<g>>
        <4>1. PICK g \in Guides : findings' = <<g>>
          BY <3>2
        <4>2. <<g>> \in Seq(Guides)
          OBVIOUS
        <4>3. QED BY <4>1, <4>2
      <3>3. QED BY <2>1, <3>1, <3>2
    <2>3. QED BY <2>1, <2>2 DEF Chosen, IncludedIsCovered
  <1>3. CASE Done \/ UNCHANGED vars
    <2>1. UNCHANGED <<phase, findings, store, context>>
      BY <1>3 DEF Done, vars
    <2>2. QED BY <2>1 DEF Chosen, IncludedIsCovered
  <1>4. CASE TimeRunsOut \/ Pop \/ SkipSearch \/ Search \/ Rerank \/ EndRerank
             \/ NoCandidate \/ Allocate \/ SkipGraph \/ Graph \/ NextRound
    <2>1. phase' # "done" /\ findings' = findings
      BY <1>4 DEF TimeRunsOut, Pop, SkipSearch, Search, Searched, Rerank, EndRerank, NoCandidate, Allocate,
                  SkipGraph, Graph, GraphDone, NextRound
    <2>2. QED BY <2>1 DEF Chosen, IncludedIsCovered
  <1>5. QED BY <1>1, <1>2, <1>3, <1>4 DEF Next

\* A group counts as included only if a passage of the law among those chosen supports each of its
\* mandatory slots, a complete answer has this for all primary groups, and the passages keep their
\* limit.
THEOREM IncludedCovered ==
  Spec => []IncludedIsCovered
  <1>1. Init => Shape /\ Chosen
    <2>1. ASSUME Init
          PROVE  Chosen
      <3>1. phase # "done" /\ findings = <<>>
        BY <2>1 DEF Init
      <3>2. QED BY <3>1, NoElements DEF Chosen, IncludedIsCovered
    <2>2. QED BY <2>1, ShapeInit
  <1>2. Shape /\ Chosen /\ [Next]_vars => Shape' /\ Chosen'
    BY ShapeStep, ChosenStep
  <1>3. Chosen => IncludedIsCovered
    BY DEF Chosen
  <1>4. QED BY <1>1, <1>2, <1>3, PTL DEF Spec

=============================================================================
