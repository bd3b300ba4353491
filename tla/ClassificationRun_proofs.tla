---------------------- MODULE ClassificationRun_proofs ----------------------
(***************************************************************************)
(* Theorems about a classification run.  They hold for any number of       *)
(* candidates, predicates, importers and starts, with one classification   *)
(* job: two jobs may both repeat a failed candidate and count it twice.    *)
(***************************************************************************)
EXTENDS ClassificationRun, FiniteSetTheorems, WellFoundedInduction, TLAPS

OneJob == \A a, b \in Jobs : a = b

Stored == Decisions \union {Failed, None}

\* A process works on the run it found or created.
Entered(a) == pc[a] \notin {"idle", "lookup", "create"}

Counters == [phase : {"none", "building", "published", "failed"},
             contract : {"none", "job", "import"},
             processed : Int, count : [Outcomes -> Int], assertion : Int]
Copies == [run : Records, checkpoint : [Candidates -> Results],
           assertions : SUBSET AssertionKeys]

\* The shape of the graph, before the counters are known to stay in range, and
\* of the processes.
GraphShape ==
    /\ run \in Counters
    /\ checkpoint \in [Candidates -> Stored]
    /\ assertions \subseteq AssertionKeys

ProcessShape ==
    /\ pc \in [Processes -> Places]
    /\ publish \in [Processes -> BOOLEAN]
    /\ todo \in [Processes -> SUBSET Candidates]
    /\ answer \in [Processes -> [Candidates -> Stored]]
    /\ fresh \in [Processes -> BOOLEAN]
    /\ copy \in [Processes -> Copies]

\* Nothing is stored before the run exists, only a job stores failures, and a
\* run is published when nothing is missing.
ResultsInv ==
    /\ run.phase = "none" => run = NoRun /\ \A c \in Candidates : checkpoint[c] = None
    /\ run.contract = "import" => \A c \in Candidates : checkpoint[c] # Failed
    /\ run.phase = "published" => \A c \in Candidates : checkpoint[c] # None

\* Who works on the run is of its kind, has an answer for what it stores, and
\* repeats a candidate only if it has failed and nobody else can store it.
Work(a) ==
    /\ Entered(a) => run.phase # "none" /\ run.contract = Contract(a)
    /\ pc[a] = "load" => a \in Jobs
    /\ a \in Importers => \A c \in todo[a] : answer[a][c] \in Decisions
    /\ pc[a] \in {"save", "commit"} =>
          todo[a] # {} /\ answer[a][Min(todo[a])] \in Decisions \union {Failed}
    /\ pc[a] = "commit" /\ ~fresh[a] =>
          a \in Jobs /\ run.phase = "building" /\ checkpoint[Min(todo[a])] = Failed

WorkInv == \A a \in Processes : Work(a)

GraphInv == GraphShape /\ RecordsAgree /\ ResultsInv

IInv == GraphInv /\ ProcessShape /\ WorkInv /\ starts \in Nat

-----------------------------------------------------------------------------
(* Candidates, decisions and counts                                        *)

LEMMA LeastExists ==
  ASSUME NEW S \in SUBSET Nat, S # {}
  PROVE  \E m \in S : \A n \in S : m <= n
  <1>1. PICK m \in S : \A n \in S : ~ (<<n, m>> \in OpToRel(<, Nat))
    BY NatLessThanWellFounded, WFMin
  <1>2. \A n \in S : ~ (n < m)
    BY <1>1 DEF OpToRel
  <1>3. QED BY <1>2

\* The candidate that is stored next is one of those still to store.
LEMMA MinIsMember ==
  ASSUME NEW S \in SUBSET Candidates, S # {}
  PROVE  Min(S) \in S
  <1>1. S \in SUBSET Nat
    BY ClassificationAssumption DEF Candidates
  <1>2. QED BY <1>1, LeastExists DEF Min

LEMMA DecisionFacts ==
  /\ \A d \in Decisions : /\ d.asserted \in SUBSET Predicates
                          /\ d.outcome \in Outcomes \ {"failed"}
                          /\ d.outcome # "none"
  /\ \A d \in Decisions \union {Failed} : d.outcome \in Outcomes /\ d # None
  /\ \A d \in Stored : d \in Results
  /\ \A d \in Stored : d.outcome \notin {"none", "failed"} <=> d \in Decisions
  /\ Failed \notin Decisions /\ None \notin Decisions /\ Failed # None
  /\ \A d \in Stored : d.outcome = "none" <=> d = None
  <1>1. ASSUME NEW d \in Decisions
        PROVE  /\ d.asserted \in SUBSET Predicates
               /\ d.outcome \in Outcomes \ {"failed"} /\ d.outcome # "none"
               /\ d \in Results
    <2>1. PICK f \in [Predicates -> Findings] : d = Decide(f)
      BY DEF Decisions
    <2>2. QED BY <2>1 DEF Decide, Outcomes, Results
  <1>2. Failed.outcome = "failed" /\ None.outcome = "none" /\ Failed \in Results /\ None \in Results
    BY DEF Failed, None, Results, Outcomes
  <1>3. QED BY <1>1, <1>2 DEF Stored, Outcomes

LEMMA CandidatesFinite ==
  /\ IsFiniteSet(Candidates) /\ Cardinality(Candidates) = NumCandidates
  /\ \A S \in SUBSET Candidates : /\ IsFiniteSet(S)
                                  /\ Cardinality(S) \in 0 .. NumCandidates
                                  /\ Cardinality(S) = NumCandidates => S = Candidates
  <1>1. IsFiniteSet(Candidates) /\ Cardinality(Candidates) = NumCandidates
    BY ClassificationAssumption, FS_Interval DEF Candidates
  <1>2. ASSUME NEW S \in SUBSET Candidates
        PROVE  /\ IsFiniteSet(S) /\ Cardinality(S) \in 0 .. NumCandidates
               /\ Cardinality(S) = NumCandidates => S = Candidates
    BY <1>1, FS_Subset, FS_CardinalityType, ClassificationAssumption
  <1>3. QED BY <1>1, <1>2

\* One more and one less: how a set of candidates counts after one of them.
LEMMA CountsWithOne ==
  ASSUME NEW S \in SUBSET Candidates, NEW c \in Candidates
  PROVE  /\ Cardinality(S \union {c}) = Cardinality(S) + (IF c \in S THEN 0 ELSE 1)
         /\ Cardinality(S \ {c}) = Cardinality(S) - (IF c \in S THEN 1 ELSE 0)
         /\ Cardinality(S) \in Nat
  <1>1. IsFiniteSet(S) /\ Cardinality(S) \in Nat
    BY CandidatesFinite
  <1>2. Cardinality(S \union {c}) = IF c \in S THEN Cardinality(S) ELSE Cardinality(S) + 1
    BY <1>1, FS_AddElement
  <1>3. Cardinality(S \ {c}) = IF c \in S THEN Cardinality(S) - 1 ELSE Cardinality(S)
    BY <1>1, FS_RemoveElement
  <1>4. CASE c \in S
    BY <1>1, <1>2, <1>3, <1>4
  <1>5. CASE c \notin S
    BY <1>1, <1>2, <1>3, <1>5
  <1>6. QED BY <1>4, <1>5

\* Two processes of the run are the same process unless both are importers.
LEMMA JobAlone ==
  ASSUME OneJob, WorkInv, NEW a \in Jobs, NEW b \in Processes, Entered(a), Entered(b)
  PROVE  a = b
  <1>1. a \in Processes /\ Contract(a) = "job"
    BY DEF Processes, Contract
  <1>2. Contract(b) = "job"
    BY <1>1 DEF WorkInv, Work
  <1>3. b \in Jobs
    BY <1>2 DEF Contract
  <1>4. QED BY <1>3 DEF OneJob

-----------------------------------------------------------------------------
(* What a step does to the graph                                           *)

\* A result of one candidate that had none, or had failed, with its
\* assertions and the counters.
Stores(a, c) ==
    /\ c = Min(todo[a]) /\ c \in todo[a] /\ c \in Candidates
    /\ answer[a][c] \in Decisions \union {Failed}
    /\ run.contract = "import" => answer[a][c] \in Decisions
    /\ run.phase \in {"building", "failed"}
    /\ IF fresh[a] THEN checkpoint[c] = None ELSE checkpoint[c] = Failed
    /\ Entered(a)
    /\ checkpoint' = [checkpoint EXCEPT ![c] = answer[a][c]]
    /\ assertions' = assertions \union ({c} \X answer[a][c].asserted)
    /\ run' = Counted(a, c)

Creates(a) ==
    /\ run.phase = "none" /\ run' = NewRun(Contract(a))
    /\ UNCHANGED <<checkpoint, assertions>>

Closes(a, phase) ==
    /\ run.phase = "building" /\ run' = [run EXCEPT !.phase = phase]
    /\ phase = "published" => run.processed = NumCandidates
    /\ Entered(a)
    /\ UNCHANGED <<checkpoint, assertions>>

ProcessStep(a) ==
    \/ Start(a) \/ Lookup(a) \/ Create(a) \/ Load(a)
    \/ Classify(a) \/ NextImport(a)
    \/ ReadCheckpoint(a) \/ WriteCheckpoint(a) \/ SaveFails(a)
    \/ AllStored(a) \/ ReadRun(a) \/ ReadCheckpoints(a) \/ ReadAssertions(a)
    \/ Audit(a) \/ Publish(a) \/ Fail(a) \/ Crash(a)

GraphStep(a) ==
    \/ UNCHANGED graph
    \/ Creates(a)
    \/ \E c \in Candidates : Stores(a, c)
    \/ \E phase \in {"published", "failed"} : Closes(a, phase)

\* A transaction that commits finds the candidate as it read it, or the unique
\* constraint would have refused it: nothing final is overwritten.
LEMMA CommitStores ==
  ASSUME IInv, NEW a \in Processes, WriteCheckpoint(a)
  PROVE  UNCHANGED graph \/ Stores(a, Min(todo[a]))
  <1> DEFINE c == Min(todo[a])
  <1>1. /\ pc[a] = "commit" /\ todo[a] \in SUBSET Candidates /\ todo[a] # {}
        /\ answer[a][c] \in Decisions \union {Failed}
    BY DEF WriteCheckpoint, IInv, GraphInv, GraphShape, ProcessShape, WorkInv, Work
  <1>2. c \in todo[a] /\ c \in Candidates
    BY <1>1, MinIsMember
  <1>3. Entered(a) /\ run.phase # "none" /\ run.contract = Contract(a)
    BY <1>1 DEF Entered, IInv, GraphInv, WorkInv, Work
  <1>4. run.contract = "import" => answer[a][c] \in Decisions
    <2>1. SUFFICES ASSUME run.contract = "import" PROVE answer[a][c] \in Decisions
      OBVIOUS
    <2>2. a \in Importers
      BY <1>3, <2>1 DEF Contract, Processes
    <2>3. QED BY <1>2, <2>2 DEF IInv, GraphInv, WorkInv, Work
  <1> HIDE DEF c
  <1>5. CASE Duplicate(a, c)
    BY <1>5 DEF WriteCheckpoint, c
  <1>6. CASE ~Duplicate(a, c)
    <2>1. /\ checkpoint' = [checkpoint EXCEPT ![c] = answer[a][c]]
          /\ assertions' = assertions \union ({c} \X answer[a][c].asserted)
          /\ run' = Counted(a, c)
      BY <1>6 DEF WriteCheckpoint, c
    <2>2. run.phase \in {"none", "building", "published", "failed"}
      BY DEF IInv, GraphInv, GraphShape, ProcessShape, Counters
    <2>3. CASE fresh[a]
      <3>1. checkpoint[c] = None
        BY <1>6, <2>3 DEF Duplicate
      <3>2. run.phase # "published"
        BY <1>2, <3>1 DEF IInv, GraphInv, ResultsInv
      <3>3. QED BY <1>1, <1>2, <1>3, <1>4, <2>1, <2>2, <2>3, <3>1, <3>2 DEF Stores, c
    <2>4. CASE ~fresh[a]
      <3>1. run.phase = "building" /\ checkpoint[c] = Failed
        BY <1>1, <2>4 DEF IInv, GraphInv, WorkInv, Work, c
      <3>2. QED BY <1>1, <1>2, <1>3, <1>4, <2>1, <2>4, <3>1 DEF Stores, c
    <2>5. QED BY <2>3, <2>4
  <1>7. QED BY <1>5, <1>6 DEF c

LEMMA GraphSteps ==
  ASSUME IInv, NEW a \in Processes, ProcessStep(a)
  PROVE  GraphStep(a)
  <1>1. CASE \/ Start(a) \/ Lookup(a) \/ Load(a) \/ Classify(a) \/ NextImport(a)
             \/ ReadCheckpoint(a) \/ SaveFails(a) \/ AllStored(a) \/ ReadRun(a)
             \/ ReadCheckpoints(a) \/ ReadAssertions(a) \/ Audit(a) \/ Crash(a)
    <2>1. UNCHANGED graph
      BY <1>1 DEF Start, Lookup, Load, Classify, NextImport, ReadCheckpoint, SaveFails,
                  AllStored, ReadRun, ReadCheckpoints, ReadAssertions, Audit, Crash, graph
    <2>2. QED BY <2>1 DEF GraphStep
  <1>3. CASE Create(a)
    BY <1>3 DEF Create, GraphStep, Creates, graph
  <1>4. CASE WriteCheckpoint(a)
    BY <1>4, CommitStores DEF GraphStep, Stores
  <1>5. CASE Publish(a)
    <2>1. pc[a] = "publish" /\ UNCHANGED <<checkpoint, assertions>>
      BY <1>5 DEF Publish
    <2>2. Entered(a)
      BY <2>1 DEF Entered
    <2>3. CASE run.phase = "building" /\ run.processed = NumCandidates
      BY <1>5, <2>1, <2>2, <2>3 DEF Publish, GraphStep, Closes
    <2>4. CASE ~(run.phase = "building" /\ run.processed = NumCandidates)
      BY <1>5, <2>1, <2>4 DEF Publish, GraphStep, graph
    <2>5. QED BY <2>3, <2>4
  <1>6. CASE Fail(a)
    <2>1. pc[a] = "fail" /\ UNCHANGED <<checkpoint, assertions>>
      BY <1>6 DEF Fail
    <2>2. Entered(a)
      BY <2>1 DEF Entered
    <2>3. CASE run.phase = "building"
      BY <1>6, <2>1, <2>2, <2>3 DEF Fail, GraphStep, Closes
    <2>4. CASE run.phase # "building"
      BY <1>6, <2>1, <2>4 DEF Fail, GraphStep, graph
    <2>5. QED BY <2>3, <2>4
  <1>7. QED BY <1>1, <1>3, <1>4, <1>5, <1>6 DEF ProcessStep

-----------------------------------------------------------------------------
(* The three records of the run                                            *)

LEMMA StoredAssertions ==
  ASSUME IInv, NEW a \in Processes, NEW c \in Candidates, Stores(a, c)
  PROVE  /\ assertions' \subseteq AssertionKeys
         /\ AssertionsOfCheckpoints'
         /\ Cardinality(assertions') = Cardinality(assertions) + Cardinality(answer[a][c].asserted)
         /\ Cardinality(assertions) \in Int /\ Cardinality(answer[a][c].asserted) \in Int
  <1> DEFINE A == answer[a][c].asserted
             N == {c} \X A
  <1>1. A \in SUBSET Predicates /\ checkpoint[c].asserted = {}
    <2>1. A \in SUBSET Predicates
      BY DecisionFacts DEF Stores, Failed
    <2>2. checkpoint[c].asserted = {}
      BY DEF Stores, None, Failed
    <2>3. QED BY <2>1, <2>2
  <1>2. /\ assertions = {k \in AssertionKeys : k[2] \in checkpoint[k[1]].asserted}
        /\ checkpoint \in [Candidates -> Stored]
        /\ assertions \subseteq AssertionKeys
    BY DEF IInv, GraphInv, RecordsAgree, AssertionsOfCheckpoints, GraphShape, ProcessShape
  <1>3. /\ checkpoint' = [checkpoint EXCEPT ![c] = answer[a][c]]
        /\ assertions' = assertions \union N
    BY DEF Stores
  <1>4. N \subseteq AssertionKeys
    BY <1>1 DEF AssertionKeys
  <1>5. \A k \in AssertionKeys : k \in N <=> k[1] = c /\ k[2] \in A
    BY DEF AssertionKeys
  <1>6. \A k \in AssertionKeys : k[1] \in Candidates /\ k[2] \in Predicates
    BY DEF AssertionKeys
  <1> HIDE DEF N
  <1>7. assertions' = {k \in AssertionKeys : k[2] \in checkpoint'[k[1]].asserted}
    <2>1. ASSUME NEW k \in AssertionKeys
          PROVE  k \in assertions' <=> k[2] \in checkpoint'[k[1]].asserted
      <3>1. CASE k[1] = c
        <4>1. checkpoint'[k[1]].asserted = A
          BY <1>2, <1>3, <3>1
        <4>2. k \notin assertions
          BY <1>1, <1>2, <3>1
        <4>3. QED BY <1>3, <1>5, <3>1, <4>1, <4>2
      <3>2. CASE k[1] # c
        <4>1. checkpoint'[k[1]] = checkpoint[k[1]]
          BY <1>2, <1>3, <1>6, <3>2
        <4>2. QED BY <1>2, <1>3, <1>5, <3>2, <4>1
      <3>3. QED BY <3>1, <3>2
    <2>2. QED BY <1>2, <1>3, <1>4, <2>1
  <1>8. assertions \intersect N = {}
    BY <1>1, <1>2, <1>5
  <1>9. IsFiniteSet(AssertionKeys) /\ IsFiniteSet(A) /\ IsFiniteSet({c}) /\ Cardinality({c}) = 1
    BY <1>1, ClassificationAssumption, CandidatesFinite, FS_Product, FS_Subset, FS_Singleton
       DEF AssertionKeys
  <1>10. IsFiniteSet(N) /\ Cardinality(N) = Cardinality(A) /\ Cardinality(A) \in Nat
    <2>1. Cardinality(N) = 1 * Cardinality(A) /\ IsFiniteSet(N)
      BY <1>9, FS_Product DEF N
    <2>2. Cardinality(A) \in Nat
      BY <1>9, FS_CardinalityType
    <2>3. QED BY <2>1, <2>2
  <1>11. IsFiniteSet(assertions) /\ Cardinality(assertions) \in Nat
    BY <1>2, <1>9, FS_Subset, FS_CardinalityType
  <1>12. Cardinality(assertions') = Cardinality(assertions) + Cardinality(N) - 0
    <2>1. Cardinality(assertions \union N) = Cardinality(assertions) + Cardinality(N)
                                               - Cardinality(assertions \intersect N)
      BY <1>10, <1>11, FS_Union
    <2>2. QED BY <1>3, <1>8, <2>1, FS_EmptySet
  <1>13. QED BY <1>2, <1>3, <1>4, <1>7, <1>10, <1>11, <1>12 DEF AssertionsOfCheckpoints

LEMMA CountersFit ==
  ASSUME NEW r \in Counters, NEW p \in Int, NEW n \in Int, NEW count \in [Outcomes -> Int],
         NEW s, \/ s = [r EXCEPT !.processed = p, !.count = count, !.assertion = n]
                \/ s = [r EXCEPT !.count = count, !.assertion = n]
  PROVE  s \in Counters
  BY DEF Counters

\* The counters after a result is stored.
LEMMA CountersAfter ==
  ASSUME run \in Counters, NEW a \in Processes, NEW c \in Candidates,
         answer[a][c].outcome \in Outcomes,
         NEW n \in Int, n = Cardinality(answer[a][c].asserted)
  PROVE  LET new == answer[a][c]
             after == Counted(a, c)
         IN /\ after \in Counters
            /\ after.phase = run.phase /\ after.contract = run.contract
            /\ fresh[a] => /\ after.processed = run.processed + 1
                           /\ after.assertion = run.assertion + n
                           /\ \A o \in Outcomes : after.count[o] =
                                run.count[o] + (IF new.outcome = o THEN 1 ELSE 0)
            /\ ~fresh[a] /\ new.outcome = "failed" => after = run
            /\ ~fresh[a] /\ new.outcome # "failed" =>
                           /\ after.processed = run.processed
                           /\ after.assertion = run.assertion + n
                           /\ \A o \in Outcomes : after.count[o] =
                                run.count[o] + (IF new.outcome = o THEN 1 ELSE 0)
                                             - (IF "failed" = o THEN 1 ELSE 0)
  <1> DEFINE out == answer[a][c].outcome
             once == [run.count EXCEPT ![out] = @ + 1]
             moved == [run.count EXCEPT !["failed"] = @ - 1, ![out] = @ + 1]
  <1>1. /\ run.processed \in Int /\ run.assertion \in Int /\ run.count \in [Outcomes -> Int]
        /\ out \in Outcomes /\ "failed" \in Outcomes
    BY DEF Counters, Outcomes
  <1>2. /\ once \in [Outcomes -> Int]
        /\ \A o \in Outcomes : once[o] = run.count[o] + (IF out = o THEN 1 ELSE 0)
    BY <1>1
  <1>3. /\ moved \in [Outcomes -> Int]
        /\ out # "failed" => \A o \in Outcomes :
             moved[o] = run.count[o] + (IF out = o THEN 1 ELSE 0) - (IF "failed" = o THEN 1 ELSE 0)
    BY <1>1
  <1>4. CASE fresh[a]
    <2>1. Counted(a, c) = [run EXCEPT !.processed = @ + 1, !.count = once, !.assertion = @ + n]
      BY <1>4 DEF Counted
    <2> HIDE DEF out, once
    <2>2. /\ Counted(a, c).processed = run.processed + 1
          /\ Counted(a, c).assertion = run.assertion + n
          /\ Counted(a, c).count = once
          /\ Counted(a, c).phase = run.phase
          /\ Counted(a, c).contract = run.contract
      BY <2>1 DEF Counters
    <2>3. Counted(a, c) \in Counters
      <3> DEFINE p == run.processed + 1
                 q == run.assertion + n
      <3>1. p \in Int /\ q \in Int /\ Counted(a, c) =
              [run EXCEPT !.processed = p, !.count = once, !.assertion = q]
        BY <1>1, <2>1
      <3> HIDE DEF p, q
      <3>2. QED BY <1>2, <3>1, CountersFit
    <2>4. \A o \in Outcomes : Counted(a, c).count[o] = run.count[o] + (IF out = o THEN 1 ELSE 0)
      BY <1>2, <2>2
    <2>5. QED BY <1>4, <2>2, <2>3, <2>4 DEF out
  <1>5. CASE ~fresh[a] /\ out = "failed"
    BY <1>5 DEF Counted
  <1>6. CASE ~fresh[a] /\ out # "failed"
    <2>1. Counted(a, c) = [run EXCEPT !.count = moved, !.assertion = @ + n]
      BY <1>1, <1>6 DEF Counted, Counters
    <2> HIDE DEF out, moved
    <2>2. /\ Counted(a, c).processed = run.processed
          /\ Counted(a, c).assertion = run.assertion + n
          /\ Counted(a, c).count = moved
          /\ Counted(a, c).phase = run.phase
          /\ Counted(a, c).contract = run.contract
      BY <2>1 DEF Counters
    <2>3. Counted(a, c) \in Counters
      <3> DEFINE q == run.assertion + n
      <3>1. q \in Int /\ Counted(a, c) = [run EXCEPT !.count = moved, !.assertion = q]
        BY <1>1, <2>1
      <3> HIDE DEF q
      <3>2. QED BY <1>3, <3>1, CountersFit
    <2>4. \A o \in Outcomes : Counted(a, c).count[o] =
             run.count[o] + (IF out = o THEN 1 ELSE 0) - (IF "failed" = o THEN 1 ELSE 0)
      BY <1>3, <1>6, <2>2
    <2>5. QED BY <1>6, <2>2, <2>3, <2>4 DEF out
  <1>7. QED BY <1>4, <1>5, <1>6

\* How many candidates have a result, before and after one of them gets it.
LEMMA ResultsCount ==
  ASSUME NEW cp \in [Candidates -> Stored], NEW c \in Candidates, NEW d \in Stored, d # None
  PROVE  LET new == [cp EXCEPT ![c] = d]
             old == {x \in Candidates : cp[x] # None}
         IN /\ Cardinality({x \in Candidates : new[x] # None}) =
                 Cardinality(old) + (IF cp[c] = None THEN 1 ELSE 0)
            /\ Cardinality(old) \in Int
  <1> DEFINE new == [cp EXCEPT ![c] = d]
             old == {x \in Candidates : cp[x] # None}
  <1>1. {x \in Candidates : new[x] # None} = old \union {c}
    OBVIOUS
  <1>2. c \in old <=> cp[c] # None
    OBVIOUS
  <1>3. old \in SUBSET Candidates
    OBVIOUS
  <1> HIDE DEF old
  <1>4. /\ Cardinality(old \union {c}) = Cardinality(old) + (IF c \in old THEN 0 ELSE 1)
        /\ Cardinality(old) \in Nat
    BY <1>3, CountsWithOne
  <1>5. QED BY <1>1, <1>2, <1>4 DEF old

LEMMA StoresKeeps ==
  ASSUME IInv, NEW a \in Processes, NEW c \in Candidates, Stores(a, c)
  PROVE  GraphInv'
  <1> DEFINE d == answer[a][c]
             n == Cardinality(d.asserted)
  <1>1. /\ run \in Counters /\ checkpoint \in [Candidates -> Stored]
        /\ CountersTellCheckpoints /\ AssertionsOfCheckpoints /\ ResultsInv
    BY DEF IInv, GraphInv, GraphShape, ProcessShape, RecordsAgree
  <1>2. /\ d \in Stored /\ d.outcome \in Outcomes /\ d # None
    BY DecisionFacts DEF Stores, Stored
  <1>3. /\ checkpoint' = [checkpoint EXCEPT ![c] = d]
        /\ run' = Counted(a, c)
        /\ run.phase \in {"building", "failed"}
        /\ IF fresh[a] THEN checkpoint[c] = None ELSE checkpoint[c] = Failed
    BY DEF Stores
  <1>4. n \in Int /\ Cardinality(assertions') = Cardinality(assertions) + n
    BY StoredAssertions
  <1>5. /\ run' \in Counters /\ run'.phase = run.phase /\ run'.contract = run.contract
        /\ fresh[a] => /\ run'.processed = run.processed + 1
                       /\ run'.assertion = run.assertion + n
                       /\ \A o \in Outcomes : run'.count[o] =
                            run.count[o] + (IF d.outcome = o THEN 1 ELSE 0)
        /\ ~fresh[a] /\ d.outcome = "failed" => run' = run
        /\ ~fresh[a] /\ d.outcome # "failed" =>
                       /\ run'.processed = run.processed
                       /\ run'.assertion = run.assertion + n
                       /\ \A o \in Outcomes : run'.count[o] =
                            run.count[o] + (IF d.outcome = o THEN 1 ELSE 0)
                                         - (IF "failed" = o THEN 1 ELSE 0)
    <2>1. d.outcome \in Outcomes /\ n \in Int
      BY <1>2, <1>4
    <2> HIDE DEF n
    <2>2. QED BY <1>1, <1>3, <2>1, CountersAfter DEF n
  <1> HIDE DEF d, n
  <1>6. checkpoint' \in [Candidates -> Stored]
    BY <1>1, <1>2, <1>3
  <1>7. /\ \A o \in Outcomes : run.count[o] = Cardinality(With(checkpoint, o))
        /\ run.processed = Cardinality({x \in Candidates : checkpoint[x] # None})
        /\ run.assertion = Cardinality(assertions)
    BY <1>1, <1>3 DEF CountersTellCheckpoints
  <1>8. ASSUME NEW o
        PROVE  Cardinality(With(checkpoint', o)) =
                  Cardinality(With(checkpoint, o)) + (IF d.outcome = o THEN 1 ELSE 0)
                     - (IF checkpoint[c].outcome = o THEN 1 ELSE 0)
    <2> DEFINE old == With(checkpoint, o)
               new == With(checkpoint', o)
    <2>1. old \in SUBSET Candidates /\ (c \in old <=> checkpoint[c].outcome = o)
      BY DEF With
    <2>2. new = IF d.outcome = o THEN old \union {c} ELSE old \ {c}
      BY <1>1, <1>3 DEF With
    <2> HIDE DEF old, new
    <2>3. /\ Cardinality(old \union {c}) = Cardinality(old) + (IF c \in old THEN 0 ELSE 1)
          /\ Cardinality(old \ {c}) = Cardinality(old) - (IF c \in old THEN 1 ELSE 0)
          /\ Cardinality(old) \in Nat
      BY <2>1, CountsWithOne
    <2>4. CASE c \in old
      <3>1. Cardinality(new) = Cardinality(old) + (IF d.outcome = o THEN 1 ELSE 0) - 1
        BY <2>2, <2>3, <2>4
      <3>2. QED BY <2>1, <2>4, <3>1 DEF old, new
    <2>5. CASE c \notin old
      <3>1. Cardinality(new) = Cardinality(old) + (IF d.outcome = o THEN 1 ELSE 0) - 0
        BY <2>2, <2>3, <2>5
      <3>2. QED BY <2>1, <2>5, <3>1 DEF old, new
    <2>6. QED BY <2>4, <2>5
  <1>9. Cardinality({x \in Candidates : checkpoint'[x] # None}) =
                  run.processed + (IF checkpoint[c] = None THEN 1 ELSE 0)
    BY <1>1, <1>2, <1>3, <1>7, ResultsCount
  <1>10. ASSUME NEW o \in Outcomes
         PROVE  run'.count[o] = Cardinality(With(checkpoint', o))
    <2>1. run.count[o] \in Int /\ run.count[o] = Cardinality(With(checkpoint, o))
      BY <1>1, <1>7 DEF Counters
    <2>2. Cardinality(With(checkpoint', o)) =
             run.count[o] + (IF d.outcome = o THEN 1 ELSE 0)
                - (IF checkpoint[c].outcome = o THEN 1 ELSE 0)
      BY <1>8, <2>1
    <2>3. CASE fresh[a]
      <3>1. checkpoint[c].outcome = "none" /\ o # "none"
        BY <1>3, <2>3 DEF None, Outcomes
      <3>2. QED BY <1>5, <2>1, <2>2, <2>3, <3>1
    <2>4. CASE ~fresh[a]
      <3>1. checkpoint[c].outcome = "failed"
        BY <1>3, <2>4 DEF Failed
      <3>2. CASE d.outcome = "failed"
        BY <1>5, <2>1, <2>2, <2>4, <3>1, <3>2
      <3>3. CASE d.outcome # "failed"
        BY <1>5, <2>1, <2>2, <2>4, <3>1, <3>3
      <3>4. QED BY <3>2, <3>3
    <2>5. QED BY <2>3, <2>4
  <1>11. run'.processed = Cardinality({x \in Candidates : checkpoint'[x] # None})
    <2>1. run.processed \in Int
      BY <1>1 DEF Counters
    <2>2. CASE fresh[a]
      BY <1>3, <1>5, <1>9, <2>2
    <2>3. CASE ~fresh[a]
      BY <1>3, <1>5, <1>9, <2>1, <2>3, DecisionFacts
    <2>4. QED BY <2>2, <2>3
  <1>12. run'.assertion = Cardinality(assertions')
    <2>1. run.assertion \in Int
      BY <1>1 DEF Counters
    <2>2. CASE ~fresh[a] /\ d.outcome = "failed"
      <3>1. d = Failed
        BY <1>2, <2>2, DecisionFacts DEF Stored
      <3>2. n = 0
        BY <3>1, FS_EmptySet DEF Failed, n
      <3>3. QED BY <1>4, <1>5, <1>7, <2>1, <2>2, <3>2
    <2>3. CASE ~(~fresh[a] /\ d.outcome = "failed")
      BY <1>4, <1>5, <1>7, <2>3
    <2>4. QED BY <2>2, <2>3
  <1>13. CountersTellCheckpoints'
    BY <1>10, <1>11, <1>12 DEF CountersTellCheckpoints, With
  <1>14. ResultsInv'
    <2>1. run'.phase \notin {"none", "published"}
      BY <1>3, <1>5
    <2>2. run.contract = "import" => d # Failed
      BY DecisionFacts DEF Stores, d
    <2>3. QED BY <1>1, <1>3, <1>5, <2>1, <2>2 DEF ResultsInv
  <1>15. QED BY <1>5, <1>6, <1>13, <1>14, StoredAssertions DEF GraphInv, GraphShape, RecordsAgree

\* A run that counts every candidate has a result for each.
LEMMA CompleteWhenProcessed ==
  ASSUME IInv, run.phase # "none", run.processed = NumCandidates
  PROVE  \A c \in Candidates : checkpoint[c] # None
  <1> DEFINE S == {c \in Candidates : checkpoint[c] # None}
  <1>1. Cardinality(S) = NumCandidates
    BY DEF IInv, GraphInv, RecordsAgree, CountersTellCheckpoints
  <1>2. S = Candidates
    BY <1>1, CandidatesFinite
  <1>3. QED BY <1>2

LEMMA GraphKeeps ==
  ASSUME IInv, NEW p \in Processes, GraphStep(p)
  PROVE  GraphInv'
  <1>1. GraphInv
    BY DEF IInv, GraphInv, GraphShape, ProcessShape
  <1>2. CASE UNCHANGED graph
    BY <1>1, <1>2 DEF graph, GraphInv, GraphShape, RecordsAgree, CountersTellCheckpoints,
                      AssertionsOfCheckpoints, ResultsInv, With
  <1>3. ASSUME NEW a \in Processes, Creates(a)
        PROVE  GraphInv'
    <2>1. /\ \A c \in Candidates : checkpoint[c] = None
          /\ checkpoint' = checkpoint /\ assertions' = assertions
          /\ run' = NewRun(Contract(a))
      BY <1>1, <1>3 DEF Creates, GraphInv, GraphShape, ResultsInv
    <2>2. /\ run' \in Counters /\ run'.phase = "building"
          /\ run'.processed = 0 /\ run'.assertion = 0
          /\ \A o \in Outcomes : run'.count[o] = 0
      BY <2>1 DEF NewRun, Counters, Contract
    <2>3. assertions' = {}
      BY <1>1, <2>1 DEF GraphInv, GraphShape, RecordsAgree, AssertionsOfCheckpoints, AssertionKeys, None
    <2>4. \A o \in Outcomes : With(checkpoint', o) = {}
      BY <2>1 DEF With, None, Outcomes
    <2>5. {c \in Candidates : checkpoint'[c] # None} = {}
      BY <2>1
    <2>6. CountersTellCheckpoints'
      BY <2>2, <2>3, <2>4, <2>5, FS_EmptySet DEF CountersTellCheckpoints, With
    <2>7. ResultsInv'
      BY <2>1, <2>2, DecisionFacts DEF ResultsInv
    <2>8. QED BY <1>1, <2>1, <2>2, <2>6, <2>7 DEF GraphInv, GraphShape, RecordsAgree, AssertionsOfCheckpoints
  <1>4. ASSUME NEW a \in Processes, NEW phase \in {"published", "failed"}, Closes(a, phase)
        PROVE  GraphInv'
    <2>1. /\ checkpoint' = checkpoint /\ assertions' = assertions
          /\ run' = [run EXCEPT !.phase = phase]
          /\ run.phase = "building" /\ run \in Counters
      BY <1>1, <1>4 DEF Closes, GraphInv, GraphShape
    <2>2. /\ run' \in Counters /\ run'.phase = phase
          /\ run'.processed = run.processed /\ run'.assertion = run.assertion
          /\ run'.count = run.count /\ run'.contract = run.contract
      BY <2>1 DEF Counters
    <2>3. CountersTellCheckpoints'
      BY <1>1, <2>1, <2>2 DEF GraphInv, RecordsAgree, CountersTellCheckpoints, With
    <2>4. phase = "published" => \A c \in Candidates : checkpoint[c] # None
      BY <1>4, <2>1, CompleteWhenProcessed DEF Closes
    <2>5. ResultsInv'
      BY <1>1, <2>1, <2>2, <2>4 DEF GraphInv, ResultsInv
    <2>6. QED BY <1>1, <2>1, <2>2, <2>3, <2>5 DEF GraphInv, GraphShape, RecordsAgree, AssertionsOfCheckpoints
  <1>5. QED BY <1>2, <1>3, <1>4, StoresKeeps DEF GraphStep

-----------------------------------------------------------------------------
(* What the processes hold                                                 *)

\* The counters of a run are in range once they tell its checkpoints.
LEMMA RunIsRecord ==
  ASSUME GraphInv
  PROVE  run \in Records
  <1>1. run \in Counters /\ ResultsInv /\ CountersTellCheckpoints /\ assertions \subseteq AssertionKeys
    BY DEF GraphInv, GraphShape, RecordsAgree
  <1>2. CASE run.phase = "none"
    <2>1. run = NoRun
      BY <1>1, <1>2 DEF ResultsInv
    <2>2. NoRun \in Records
      BY ClassificationAssumption DEF NoRun, NewRun, Records
    <2>3. QED BY <2>1, <2>2
  <1>3. CASE run.phase # "none"
    <2>1. \A o \in Outcomes : run.count[o] \in 0 .. NumCandidates
      <3>1. \A o \in Outcomes : With(checkpoint, o) \in SUBSET Candidates
        BY DEF With
      <3>2. QED BY <1>1, <1>3, <3>1, CandidatesFinite DEF CountersTellCheckpoints
    <2>2. run.processed \in 0 .. NumCandidates
      <3>1. {c \in Candidates : checkpoint[c] # None} \in SUBSET Candidates
        OBVIOUS
      <3>2. QED BY <1>1, <1>3, <3>1, CandidatesFinite DEF CountersTellCheckpoints
    <2>3. run.assertion \in Nat
      <3>1. IsFiniteSet(AssertionKeys)
        BY ClassificationAssumption, CandidatesFinite, FS_Product DEF AssertionKeys
      <3>2. QED BY <1>1, <1>3, <3>1, FS_Subset, FS_CardinalityType DEF CountersTellCheckpoints
    <2>4. run.count \in [Outcomes -> 0 .. NumCandidates]
      BY <1>1, <2>1 DEF Counters
    <2>5. QED BY <1>1, <2>2, <2>3, <2>4 DEF Counters, Records
  <1>4. QED BY <1>2, <1>3

\* Only the process that takes the step changes what it holds.
OnlyOf(a) ==
    \A b \in Processes \ {a} : /\ pc'[b] = pc[b] /\ todo'[b] = todo[b]
                               /\ answer'[b] = answer[b] /\ fresh'[b] = fresh[b]

Keeps(a) == ProcessShape' /\ OnlyOf(a) /\ Work(a)'

\* A process that left the run holds nothing.
LEMMA ExitKeeps ==
  ASSUME IInv, NEW a \in Processes, Exit(a)
  PROVE  Keeps(a)
  <1>1. NoCopy \in Copies
    <2>1. NoRun \in Records
      BY ClassificationAssumption DEF NoRun, NewRun, Records
    <2>2. None \in Results
      BY DecisionFacts DEF Stored
    <2>3. QED BY <2>1, <2>2 DEF NoCopy, Copies
  <1>2. "idle" \in Places /\ None \in Stored
    BY DEF Places, Stored
  <1>3. ProcessShape'
    BY <1>1, <1>2 DEF IInv, ProcessShape, Exit, Goto
  <1>4. OnlyOf(a)
    BY DEF IInv, ProcessShape, Exit, Goto, OnlyOf
  <1>5. pc'[a] = "idle" /\ todo'[a] = {}
    BY DEF IInv, ProcessShape, Exit, Goto
  <1>6. Work(a)'
    BY <1>5 DEF Work, Entered
  <1>7. QED BY <1>3, <1>4, <1>6 DEF Keeps

\* Going to another place.
LEMMA GotoKeeps ==
  ASSUME IInv, NEW a \in Processes, NEW place \in Places, Goto(a, place), UNCHANGED process
  PROVE  ProcessShape' /\ OnlyOf(a) /\ pc'[a] = place /\ UNCHANGED <<todo, answer, fresh>>
  BY DEF IInv, ProcessShape, Goto, OnlyOf, process

\* Between its transactions a process only needs to be on the run.
Waits(place) == place \notin {"save", "commit"}

LEMMA WaitsKeeps ==
  ASSUME IInv, NEW a \in Processes, NEW place \in Places, Goto(a, place), UNCHANGED process,
         Waits(place), place = "load" => a \in Jobs,
         \/ place \in {"idle", "lookup", "create"}
         \/ run'.phase # "none" /\ run'.contract = Contract(a)
  PROVE  Keeps(a)
  <1>1. ProcessShape' /\ OnlyOf(a) /\ pc'[a] = place /\ UNCHANGED <<todo, answer, fresh>>
    BY GotoKeeps
  <1>2. Work(a)
    BY DEF IInv, WorkInv
  <1>3. Work(a)'
    BY <1>1, <1>2 DEF Work, Entered, Waits
  <1>4. QED BY <1>1, <1>3 DEF Keeps

LEMMA EnterKeeps ==
  ASSUME IInv, NEW a \in Processes, NEW record, Enter(a, record), run' = record
  PROVE  Keeps(a)
  <1>1. CASE ~Accepts(a, record)
    BY <1>1, ExitKeeps DEF Enter
  <1>2. CASE Accepts(a, record)
    <2>1. run'.phase # "none" /\ run'.contract = Contract(a) /\ UNCHANGED process
      BY <1>2 DEF Accepts, Enter
    <2>2. (a \in Jobs /\ Goto(a, "load")) \/ Goto(a, "next")
      BY <1>2 DEF Enter
    <2>3. "load" \in Places /\ "next" \in Places /\ Waits("load") /\ Waits("next")
      BY DEF Places, Waits
    <2>4. QED BY <2>1, <2>2, <2>3, WaitsKeeps
  <1>3. QED BY <1>1, <1>2

\* Who is on the run when a step begins, while the step leaves the graph alone.
LEMMA OnRun ==
  ASSUME IInv, NEW a \in Processes, Entered(a), run' = run
  PROVE  run'.phase # "none" /\ run'.contract = Contract(a)
  BY DEF IInv, WorkInv, Work

LEMMA StartKeeps ==
  ASSUME IInv, NEW a \in Processes, Start(a)
  PROVE  Keeps(a)
  <1>1. PICK wanted \in BOOLEAN : publish' = [publish EXCEPT ![a] = wanted]
    BY DEF Start
  <1>2. /\ pc[a] = "idle" /\ pc' = [pc EXCEPT ![a] = "lookup"] /\ "lookup" \in Places
        /\ fresh' = fresh /\ copy' = copy
    BY DEF Start, Goto, Places
  <1>3. CASE a \in Jobs
    <2>1. todo' = todo /\ answer' = answer /\ a \notin Importers
      BY <1>3, ClassificationAssumption DEF Start
    <2>2. QED BY <1>1, <1>2, <2>1 DEF Keeps, IInv, ProcessShape, OnlyOf, Work, Entered
  <1>4. CASE a \notin Jobs
    <2>0. PICK batch \in SUBSET Candidates :
             \E decided \in [batch -> Decisions] :
                /\ todo' = [todo EXCEPT ![a] = batch]
                /\ answer' = [answer EXCEPT ![a] =
                     [c \in Candidates |-> IF c \in batch THEN decided[c] ELSE None]]
      BY <1>4 DEF Start
    <2>1. PICK decided \in [batch -> Decisions] :
             /\ todo' = [todo EXCEPT ![a] = batch]
             /\ answer' = [answer EXCEPT ![a] =
                  [c \in Candidates |-> IF c \in batch THEN decided[c] ELSE None]]
      BY <2>0
    <2> DEFINE brought == [c \in Candidates |-> IF c \in batch THEN decided[c] ELSE None]
    <2>2. brought \in [Candidates -> Stored] /\ \A c \in batch : brought[c] \in Decisions
      BY DEF Stored
    <2>3. answer' = [answer EXCEPT ![a] = brought]
      BY <2>1
    <2> HIDE DEF brought
    <2>4. ProcessShape' /\ OnlyOf(a)
      BY <1>1, <1>2, <2>1, <2>2, <2>3 DEF IInv, ProcessShape, OnlyOf
    <2>5. todo'[a] = batch /\ answer'[a] = brought /\ pc'[a] = "lookup"
      BY <1>2, <2>1, <2>3 DEF IInv, ProcessShape
    <2>6. Work(a)'
      BY <2>2, <2>5 DEF Work, Entered
    <2>7. QED BY <2>4, <2>6 DEF Keeps
  <1>5. QED BY <1>3, <1>4

LEMMA LookupKeeps ==
  ASSUME IInv, NEW a \in Processes, Lookup(a)
  PROVE  Keeps(a)
  <1>1. run' = run
    BY DEF Lookup, graph
  <1>2. CASE run.phase = "none"
    <2>1. Goto(a, "create") /\ UNCHANGED process
      BY <1>2 DEF Lookup
    <2>2. "create" \in Places /\ Waits("create")
      BY DEF Places, Waits
    <2>3. QED BY <2>1, <2>2, WaitsKeeps
  <1>3. CASE run.phase # "none"
    BY <1>1, <1>3, EnterKeeps DEF Lookup
  <1>4. QED BY <1>2, <1>3

LEMMA CreateKeeps ==
  ASSUME IInv, NEW a \in Processes, Create(a)
  PROVE  Keeps(a)
  <1>1. CASE run.phase # "none"
    BY <1>1, ExitKeeps DEF Create
  <1>2. CASE run.phase = "none"
    BY <1>2, EnterKeeps DEF Create
  <1>3. QED BY <1>1, <1>2

LEMMA LoadKeeps ==
  ASSUME IInv, NEW a \in Processes, Load(a)
  PROVE  Keeps(a)
  <1> DEFINE open == {c \in Candidates : ~IsFinal(c)}
  <1>1. /\ pc[a] = "load" /\ pc' = [pc EXCEPT ![a] = "next"] /\ "next" \in Places
        /\ todo' = [todo EXCEPT ![a] = open] /\ open \in SUBSET Candidates
        /\ publish' = publish /\ answer' = answer /\ fresh' = fresh /\ copy' = copy
        /\ run' = run
    BY DEF Load, Goto, Places, graph
  <1> HIDE DEF open
  <1>2. ProcessShape' /\ OnlyOf(a)
    BY <1>1 DEF IInv, ProcessShape, OnlyOf
  <1>3. pc'[a] = "next"
    BY <1>1 DEF IInv, ProcessShape
  <1>4. run'.phase # "none" /\ run'.contract = Contract(a)
    BY <1>1, OnRun DEF Entered
  <1>5. a \notin Importers
    BY <1>1, ClassificationAssumption DEF IInv, WorkInv, Work
  <1>6. QED BY <1>2, <1>3, <1>4, <1>5 DEF Keeps, Work

LEMMA ClassifyKeeps ==
  ASSUME IInv, NEW a \in Processes, Classify(a)
  PROVE  Keeps(a)
  <1> DEFINE c == Min(todo[a])
  <1>1. PICK result \in Decisions \union {Failed} : answer' = [answer EXCEPT ![a][c] = result]
    BY DEF Classify
  <1>2. /\ a \in Jobs /\ pc[a] = "next" /\ pc' = [pc EXCEPT ![a] = "save"] /\ "save" \in Places
        /\ todo[a] # {} /\ todo' = todo /\ publish' = publish /\ fresh' = fresh
        /\ copy' = copy /\ run' = run /\ todo[a] \in SUBSET Candidates
    BY DEF Classify, Goto, Places, graph, IInv, ProcessShape
  <1>3. c \in Candidates
    BY <1>2, MinIsMember
  <1>4. c = Min(todo'[a])
    BY <1>2
  <1>5. a \notin Importers
    BY <1>2, ClassificationAssumption
  <1> HIDE DEF c
  <1>6. ProcessShape' /\ OnlyOf(a)
    BY <1>1, <1>2, <1>3 DEF IInv, ProcessShape, OnlyOf, Stored
  <1>7. answer'[a][c] = result /\ pc'[a] = "save" /\ todo'[a] # {}
    BY <1>1, <1>2, <1>3 DEF IInv, ProcessShape
  <1>8. run'.phase # "none" /\ run'.contract = Contract(a)
    BY <1>2, OnRun DEF Entered
  <1>9. Work(a)'
    BY <1>4, <1>5, <1>7, <1>8 DEF Work
  <1>10. QED BY <1>6, <1>9 DEF Keeps

LEMMA NextImportKeeps ==
  ASSUME IInv, NEW a \in Processes, NextImport(a)
  PROVE  Keeps(a)
  <1>1. /\ a \in Importers /\ pc[a] = "next" /\ Goto(a, "save") /\ "save" \in Places
        /\ todo[a] # {} /\ UNCHANGED process /\ run' = run /\ todo[a] \in SUBSET Candidates
    BY DEF NextImport, Places, graph, IInv, ProcessShape
  <1>2. /\ ProcessShape' /\ OnlyOf(a) /\ pc'[a] = "save"
        /\ todo' = todo /\ answer' = answer /\ fresh' = fresh
    BY <1>1, GotoKeeps
  <1>3. Min(todo[a]) \in todo[a]
    BY <1>1, MinIsMember
  <1>4. run'.phase # "none" /\ run'.contract = Contract(a)
    BY <1>1, OnRun DEF Entered
  <1>5. Work(a)
    BY DEF IInv, WorkInv
  <1>6. Work(a)'
    BY <1>1, <1>2, <1>3, <1>4, <1>5 DEF Work
  <1>7. QED BY <1>2, <1>6 DEF Keeps

\* What is stored is no longer to be stored.
LEMMA SavedKeeps ==
  ASSUME IInv, NEW a \in Processes, Saved(a), UNCHANGED <<publish, answer, fresh, copy>>,
         run'.phase # "none", run'.contract = Contract(a)
  PROVE  Keeps(a)
  <1> DEFINE rest == todo[a] \ {Min(todo[a])}
  <1>1. /\ pc' = [pc EXCEPT ![a] = "next"] /\ "next" \in Places
        /\ todo' = [todo EXCEPT ![a] = rest]
    BY DEF Saved, Goto, Places
  <1>2. rest \in SUBSET Candidates /\ rest \subseteq todo[a]
    BY DEF IInv, ProcessShape
  <1> HIDE DEF rest
  <1>3. ProcessShape' /\ OnlyOf(a)
    BY <1>1, <1>2 DEF IInv, ProcessShape, OnlyOf
  <1>4. pc'[a] = "next" /\ todo'[a] = rest
    BY <1>1 DEF IInv, ProcessShape
  <1>5. a \in Importers => \A c \in rest : answer'[a][c] \in Decisions
    BY <1>2 DEF IInv, WorkInv, Work
  <1>6. QED BY <1>3, <1>4, <1>5 DEF Keeps, Work

LEMMA ReadCheckpointKeeps ==
  ASSUME IInv, NEW a \in Processes, ReadCheckpoint(a)
  PROVE  Keeps(a)
  <1> DEFINE c == Min(todo[a])
  <1>1. /\ pc[a] = "save" /\ run' = run /\ checkpoint' = checkpoint
        /\ run'.phase # "none" /\ run'.contract = Contract(a)
    BY OnRun DEF ReadCheckpoint, graph, Entered
  <1>2. todo[a] \in SUBSET Candidates /\ todo[a] # {} /\ c \in Candidates
    BY <1>1, MinIsMember DEF IInv, ProcessShape, WorkInv, Work
  <1>3. CASE Exit(a)
    BY <1>3, ExitKeeps
  <1>4. CASE Goto(a, "fail") /\ UNCHANGED process
    <2>1. "fail" \in Places /\ Waits("fail")
      BY DEF Places, Waits
    <2>2. QED BY <1>1, <1>4, <2>1, WaitsKeeps
  <1>5. CASE Saved(a) /\ UNCHANGED <<publish, answer, fresh, copy>>
    BY <1>1, <1>5, SavedKeeps
  <1>6. CASE /\ run.phase = "building" /\ ~IsFinal(c)
             /\ fresh' = [fresh EXCEPT ![a] = checkpoint[c] = None]
             /\ Goto(a, "commit") /\ UNCHANGED <<publish, todo, answer, copy>>
    <2>1. pc' = [pc EXCEPT ![a] = "commit"] /\ "commit" \in Places
      BY <1>6 DEF Goto, Places
    <2>2. ProcessShape' /\ OnlyOf(a)
      BY <1>6, <2>1 DEF IInv, ProcessShape, OnlyOf
    <2>3. pc'[a] = "commit" /\ (fresh'[a] <=> checkpoint[c] = None)
      BY <1>6, <2>1 DEF IInv, ProcessShape
    <2>4. checkpoint[c] # None => checkpoint[c] = Failed
      <3>1. checkpoint[c] \in Stored
        BY <1>2 DEF IInv, GraphInv, GraphShape
      <3>2. QED BY <1>6, <3>1, DecisionFacts DEF IsFinal, Stored
    <2>5. checkpoint[c] # None => a \in Jobs
      <3>1. checkpoint[c] = Failed => run.contract # "import"
        BY <1>2 DEF IInv, GraphInv, ResultsInv
      <3>2. QED BY <1>1, <2>4, <3>1 DEF Contract
    <2>6. Work(a)
      BY DEF IInv, WorkInv
    <2> HIDE DEF c
    <2>7. todo' = todo /\ answer' = answer /\ c = Min(todo[a])
      BY <1>6 DEF c
    <2>8. Work(a)'
      BY <1>1, <1>6, <2>3, <2>4, <2>5, <2>6, <2>7 DEF Work
    <2>9. QED BY <2>2, <2>8 DEF Keeps
  <1>7. QED BY <1>1, <1>3, <1>4, <1>5, <1>6 DEF ReadCheckpoint, Conflicts

LEMMA WriteCheckpointKeeps ==
  ASSUME IInv, NEW a \in Processes, WriteCheckpoint(a)
  PROVE  Keeps(a)
  <1>1. pc[a] = "commit" /\ run.phase # "none" /\ run.contract = Contract(a)
    BY DEF WriteCheckpoint, IInv, WorkInv, Work, Entered
  <1>2. CASE Exit(a)
    BY <1>2, ExitKeeps
  <1>3. CASE ~Exit(a)
    <2> DEFINE c == Min(todo[a])
    <2>1. \/ Saved(a) /\ UNCHANGED <<publish, answer, fresh, copy>>
          \/ Goto(a, "save") /\ UNCHANGED process
      BY <1>3 DEF WriteCheckpoint
    <2>2. run'.phase # "none" /\ run'.contract = Contract(a)
      <3>1. CASE UNCHANGED graph
        BY <1>1, <3>1 DEF graph
      <3>2. CASE Stores(a, c)
        <4>1. answer[a][c].outcome \in Outcomes /\ run' = Counted(a, c) /\ c \in Candidates
          BY <3>2, DecisionFacts DEF Stores
        <4>2. Cardinality(answer[a][c].asserted) \in Int
          BY <3>2, <4>1, StoredAssertions
        <4>3. run \in Counters
          BY DEF IInv, GraphInv, GraphShape
        <4> HIDE DEF c
        <4>4. QED BY <1>1, <4>1, <4>2, <4>3, CountersAfter
      <3>3. QED BY <3>1, <3>2, CommitStores
    <2>3. CASE Saved(a) /\ UNCHANGED <<publish, answer, fresh, copy>>
      BY <2>2, <2>3, SavedKeeps
    <2>4. CASE Goto(a, "save") /\ UNCHANGED process
      <3>1. "save" \in Places
        BY DEF Places
      <3>2. ProcessShape' /\ OnlyOf(a) /\ pc'[a] = "save" /\ UNCHANGED <<todo, answer, fresh>>
        BY <2>4, <3>1, GotoKeeps
      <3>3. Work(a)
        BY DEF IInv, WorkInv
      <3>4. Work(a)'
        BY <1>1, <2>2, <3>2, <3>3 DEF Work
      <3>5. QED BY <3>2, <3>4 DEF Keeps
    <2>5. QED BY <2>1, <2>3, <2>4
  <1>4. QED BY <1>2, <1>3

\* The audit reads and decides; it stores nothing.
LEMMA AuditKeeps ==
  ASSUME IInv, NEW a \in Processes,
         \/ AllStored(a) \/ ReadRun(a) \/ ReadCheckpoints(a) \/ ReadAssertions(a) \/ Audit(a)
  PROVE  Keeps(a)
  <1>1. pc[a] \in {"next", "readRun", "readCheckpoints", "readAssertions", "audit"} /\ UNCHANGED graph
    BY DEF AllStored, ReadRun, ReadCheckpoints, ReadAssertions, Audit
  <1>2. run'.phase # "none" /\ run'.contract = Contract(a)
    BY <1>1, OnRun DEF Entered, graph
  <1>3. /\ {"readRun", "publish", "fail"} \subseteq Places
        /\ Waits("readRun") /\ Waits("publish") /\ Waits("fail")
    BY DEF Places, Waits
  <1>4. CASE AllStored(a) \/ Audit(a)
    <2>1. \/ Exit(a)
          \/ UNCHANGED process /\ (Goto(a, "readRun") \/ Goto(a, "publish") \/ Goto(a, "fail"))
      BY <1>4 DEF AllStored, Audit
    <2>2. QED BY <1>2, <1>3, <2>1, ExitKeeps, WaitsKeeps
  <1>5. CASE ReadRun(a) \/ ReadCheckpoints(a) \/ ReadAssertions(a)
    <2>1. PICK place \in {"readCheckpoints", "readAssertions", "audit"} : Goto(a, place)
      BY <1>5 DEF ReadRun, ReadCheckpoints, ReadAssertions
    <2>2. UNCHANGED <<publish, todo, answer, fresh>>
      BY <1>5 DEF ReadRun, ReadCheckpoints, ReadAssertions
    <2>3. pc' = [pc EXCEPT ![a] = place] /\ place \in Places
      BY <2>1 DEF Goto, Places
    <2>4. copy' \in [Processes -> Copies]
      <3>1. copy \in [Processes -> Copies] /\ run \in Records
        BY RunIsRecord DEF IInv, ProcessShape
      <3>2. checkpoint \in [Candidates -> Results] /\ assertions \in SUBSET AssertionKeys
        BY DecisionFacts DEF IInv, GraphInv, GraphShape
      <3>3. \/ copy' = [copy EXCEPT ![a].run = run]
            \/ copy' = [copy EXCEPT ![a].checkpoint = checkpoint]
            \/ copy' = [copy EXCEPT ![a].assertions = assertions]
        BY <1>5 DEF ReadRun, ReadCheckpoints, ReadAssertions
      <3>4. QED BY <3>1, <3>2, <3>3 DEF Copies
    <2>5. ProcessShape' /\ OnlyOf(a)
      BY <2>2, <2>3, <2>4 DEF IInv, ProcessShape, OnlyOf
    <2>6. pc'[a] = place /\ Work(a)
      BY <2>3 DEF IInv, ProcessShape, WorkInv
    <2>7. Work(a)'
      BY <1>2, <2>2, <2>6 DEF Work
    <2>8. QED BY <2>5, <2>7 DEF Keeps
  <1>6. QED BY <1>4, <1>5

-----------------------------------------------------------------------------
(* The invariant                                                           *)

\* A step does not disturb what another process relies on: only the job
\* relies on a candidate staying failed, and while it does nobody else is on
\* the run.
LEMMA OthersKeep ==
  ASSUME OneJob, IInv, NEW a \in Processes, GraphStep(a), OnlyOf(a),
         NEW b \in Processes \ {a}
  PROVE  Work(b)'
  <1>1. Work(b)
    BY DEF IInv, WorkInv
  <1>2. pc'[b] = pc[b] /\ todo'[b] = todo[b] /\ answer'[b] = answer[b] /\ fresh'[b] = fresh[b]
    BY DEF OnlyOf
  <1>3. CASE UNCHANGED graph
    BY <1>1, <1>2, <1>3 DEF Work, Entered, graph
  <1>4. CASE Creates(a)
    <2>1. ~Entered(b)
      BY <1>1, <1>4 DEF Work, Creates
    <2>2. QED BY <1>1, <1>2, <2>1 DEF Work, Entered
  <1>5. CASE (\E c \in Candidates : Stores(a, c))
             \/ \E phase \in {"published", "failed"} : Closes(a, phase)
    <2>1. Entered(a)
      BY <1>5 DEF Stores, Closes
    <2>2. run'.phase # "none" /\ run'.contract = run.contract
      <3>1. ASSUME NEW c \in Candidates, Stores(a, c)
            PROVE  run'.phase # "none" /\ run'.contract = run.contract
        <4>1. answer[a][c].outcome \in Outcomes /\ run' = Counted(a, c) /\ run.phase # "none"
          BY <3>1, DecisionFacts DEF Stores
        <4>2. Cardinality(answer[a][c].asserted) \in Int
          BY <3>1, StoredAssertions
        <4>3. run \in Counters
          BY DEF IInv, GraphInv, GraphShape
        <4>4. QED BY <4>1, <4>2, <4>3, CountersAfter
      <3>2. ASSUME NEW phase \in {"published", "failed"}, Closes(a, phase)
            PROVE  run'.phase # "none" /\ run'.contract = run.contract
        BY <3>2 DEF Closes, IInv, GraphInv, GraphShape, Counters
      <3>3. QED BY <1>5, <3>1, <3>2
    <2>3. ~(pc[b] = "commit" /\ ~fresh[b])
      <3>1. SUFFICES ASSUME pc[b] = "commit", ~fresh[b] PROVE FALSE
        OBVIOUS
      <3>2. b \in Jobs /\ Entered(b)
        BY <1>1, <3>1 DEF Work, Entered
      <3>3. QED BY <2>1, <3>2, JobAlone DEF IInv
    <2>4. QED BY <1>1, <1>2, <2>2, <2>3 DEF Work, Entered
  <1>6. QED BY <1>3, <1>4, <1>5 DEF GraphStep

LEMMA StepKeeps ==
  ASSUME IInv, NEW a \in Processes, ProcessStep(a)
  PROVE  Keeps(a) /\ starts' \in Nat
  <1>1. starts' \in Nat
    BY DEF IInv, ProcessStep, Start, Lookup, Create, Load, Classify, NextImport, ReadCheckpoint,
           WriteCheckpoint, SaveFails, AllStored, ReadRun, ReadCheckpoints, ReadAssertions, Audit,
           Publish, Fail, Crash
  <1>2. CASE SaveFails(a) \/ Publish(a) \/ Fail(a) \/ Crash(a)
    <2>1. Exit(a)
      BY <1>2 DEF SaveFails, Publish, Fail, Crash
    <2>2. QED BY <1>1, <2>1, ExitKeeps
  <1>3. QED BY <1>1, <1>2, StartKeeps, LookupKeeps, CreateKeeps, LoadKeeps, ClassifyKeeps,
               NextImportKeeps, ReadCheckpointKeeps, WriteCheckpointKeeps, AuditKeeps
            DEF ProcessStep

LEMMA Inductive ==
  ASSUME OneJob
  PROVE  Spec => []IInv
  <1>1. Init => IInv
    <2> SUFFICES ASSUME Init PROVE IInv
      OBVIOUS
    <2>1. NoRun \in Counters /\ NoRun \in Records /\ NoRun.phase = "none" /\ NoRun.contract = "none"
      BY ClassificationAssumption DEF NoRun, NewRun, Counters, Records
    <2>2. NoCopy \in Copies /\ None \in Stored
      BY <2>1, DecisionFacts DEF NoCopy, Copies, Stored
    <2>3. GraphShape /\ ResultsInv
      BY <2>1, <2>2 DEF Init, GraphShape, ResultsInv
    <2>4. RecordsAgree
      BY <2>1 DEF Init, RecordsAgree, CountersTellCheckpoints, AssertionsOfCheckpoints,
                  AssertionKeys, None
    <2>5. ProcessShape
      BY <2>2 DEF Init, ProcessShape, Places
    <2>6. WorkInv /\ starts \in Nat
      BY DEF Init, WorkInv, Work, Entered, Processes
    <2>7. QED BY <2>3, <2>4, <2>5, <2>6 DEF IInv, GraphInv
  <1>2. IInv /\ [Next]_vars => IInv'
    <2> SUFFICES ASSUME IInv, [Next]_vars PROVE IInv'
      OBVIOUS
    <2>1. CASE UNCHANGED vars
      <3>1. UNCHANGED <<graph, process, pc, starts>>
        BY <2>1 DEF vars
      <3>2. GraphShape' /\ ResultsInv'
        BY <3>1 DEF graph, IInv, GraphInv, GraphShape, ResultsInv
      <3>3. RecordsAgree'
        BY <3>1 DEF graph, IInv, GraphInv, RecordsAgree, CountersTellCheckpoints,
                    AssertionsOfCheckpoints, With
      <3>4. ProcessShape'
        BY <3>1 DEF process, IInv, ProcessShape
      <3>5. WorkInv'
        BY <3>1 DEF graph, process, IInv, WorkInv, Work, Entered
      <3>6. QED BY <3>1, <3>2, <3>3, <3>4, <3>5 DEF IInv, GraphInv
    <2>2. ASSUME NEW a \in Processes, ProcessStep(a)
          PROVE  IInv'
      <3>1. GraphStep(a)
        BY <2>2, GraphSteps
      <3>2. Keeps(a) /\ starts' \in Nat
        BY <2>2, StepKeeps
      <3>3. GraphInv'
        BY <3>1, GraphKeeps
      <3>4. \A b \in Processes : Work(b)'
        BY <3>1, <3>2, OthersKeep DEF Keeps
      <3>5. WorkInv'
        BY <3>4 DEF WorkInv
      <3>6. QED BY <3>2, <3>3, <3>5 DEF IInv, Keeps
    <2>3. QED BY <2>1, <2>2 DEF Next, ProcessStep
  <1>3. QED BY <1>1, <1>2, PTL DEF Spec

-----------------------------------------------------------------------------
(* The theorems                                                            *)

\* Every variable keeps its shape, and the counters of the run and of every
\* copy that an audit reads stay between zero and the number of candidates:
\* no retry, lost acknowledgement or second importer counts one too many.
THEOREM TypeCorrect ==
  OneJob => (Spec => []TypeOK)
  <1> SUFFICES ASSUME OneJob PROVE Spec => []TypeOK
    OBVIOUS
  <1>2. IInv => TypeOK
    <2> SUFFICES ASSUME IInv PROVE TypeOK
      OBVIOUS
    <2>1. run \in Records
      BY RunIsRecord DEF IInv
    <2>3. checkpoint \in [Candidates -> Results]
      BY DecisionFacts DEF IInv, GraphInv, GraphShape
    <2>4. answer \in [Processes -> [Candidates -> Results]]
      BY DecisionFacts DEF IInv, ProcessShape
    <2>5. QED BY <2>1, <2>3, <2>4 DEF IInv, GraphInv, GraphShape, ProcessShape, TypeOK, Copies
  <1>3. QED BY <1>2, Inductive, PTL

\* Whatever is lost, refused, repeated or cut off, and however many importers
\* work beside each other: the counters of the run tell its checkpoints, and
\* its assertions are those of its checkpoints (save_classification_checkpoint).
THEOREM RecordsAlwaysAgree ==
  OneJob => (Spec => []RecordsAgree)
  <1> SUFFICES ASSUME OneJob PROVE Spec => []RecordsAgree
    OBVIOUS
  <1>1. IInv => RecordsAgree
    BY DEF IInv, GraphInv
  <1>2. QED BY <1>1, Inductive, PTL

\* What the graph promises of the results: a candidate gets its final result
\* once, only a failed one is replaced, and a run is published complete and not
\* touched any more by a client that was still in a transaction.
THEOREM Implementation ==
  OneJob => (Spec => ImplementsResults)
  <1> SUFFICES ASSUME OneJob PROVE Spec => ImplementsResults
    OBVIOUS
  <1>1. Init => Promise!Init
    BY DEF Init, Promise!Init, NoRun, NewRun
  <1>2. IInv /\ [Next]_vars => [Promise!Next]_(Promise!vars)
    <2> SUFFICES ASSUME IInv, [Next]_vars PROVE [Promise!Next]_(Promise!vars)
      OBVIOUS
    <2>1. CASE UNCHANGED graph
      BY <2>1 DEF graph, Promise!vars
    <2>2. ASSUME NEW a \in Processes, Creates(a)
          PROVE  Promise!Create
      BY <2>2 DEF Creates, NewRun, Promise!Create
    <2>3. ASSUME NEW a \in Processes, NEW c \in Candidates, Stores(a, c)
          PROVE  Promise!Store(c)
      <3>1. /\ answer[a][c] \in Decisions \union {Failed}
            /\ answer[a][c].outcome \in Outcomes
            /\ run.phase \in {"building", "failed"}
            /\ checkpoint[c] \in {None, Failed}
            /\ checkpoint' = [checkpoint EXCEPT ![c] = answer[a][c]]
            /\ run' = Counted(a, c)
        BY <2>3, DecisionFacts DEF Stores
      <3>2. Cardinality(answer[a][c].asserted) \in Int /\ run \in Counters
        BY <2>3, StoredAssertions DEF IInv, GraphInv, GraphShape
      <3>3. run'.phase = run.phase
        BY <3>1, <3>2, CountersAfter
      <3>4. QED BY <3>1, <3>3 DEF Promise!Store
    <2>4. ASSUME NEW a \in Processes, NEW phase \in {"published", "failed"}, Closes(a, phase)
          PROVE  Promise!Publish \/ Promise!GiveUp
      <3>1. run.phase = "building" /\ run'.phase = phase /\ checkpoint' = checkpoint
        BY <2>4 DEF Closes, IInv, GraphInv, GraphShape, Counters
      <3>2. phase = "published" => \A c \in Candidates : checkpoint[c] # None
        BY <2>4, <3>1, CompleteWhenProcessed DEF Closes
      <3>3. QED BY <3>1, <3>2 DEF Promise!Publish, Promise!GiveUp
    <2>5. UNCHANGED graph \/ \E a \in Processes : GraphStep(a)
      <3>1. CASE UNCHANGED vars
        BY <3>1 DEF vars, graph
      <3>2. CASE \E a \in Processes : ProcessStep(a)
        BY <3>2, GraphSteps
      <3>3. QED BY <3>1, <3>2 DEF Next, ProcessStep
    <2>6. QED BY <2>1, <2>2, <2>3, <2>4, <2>5 DEF GraphStep, Promise!Next
  <1>3. QED BY <1>1, <1>2, Inductive, PTL DEF Spec, ImplementsResults, Promise!Spec
=============================================================================
