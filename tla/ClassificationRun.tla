-------------------------- MODULE ClassificationRun --------------------------
(***************************************************************************)
(* One ClassificationRun of the graph and the programs that build it:      *)
(* legal_relation_classification_job.py asks the models about each         *)
(* candidate and stores the answer; legal_adjudication_importer.py stores  *)
(* decisions that were reviewed before.  Both go through graph_client.py,  *)
(* whose checkpoint transaction reads first and writes later: between the  *)
(* two another client may commit, and only the unique constraints of the   *)
(* schema stand in the way.  A commit whose acknowledgement is lost makes  *)
(* the driver run the transaction again.                                   *)
(***************************************************************************)
EXTENDS Integers, FiniteSets, FiniteSetsExt

CONSTANTS
    NumCandidates,   \* inputCount: the candidates of the scope, in key order
    Predicates,      \* ProposedPredicate
    Jobs,            \* processes of the classification job
    Importers,       \* processes of the importer
    MaxStarts        \* bound: how often a process is started

ASSUME ClassificationAssumption ==
    /\ NumCandidates \in Nat
    /\ IsFiniteSet(Predicates)
    /\ Jobs \intersect Importers = {}
    /\ MaxStarts \in Nat

VARIABLES
    run,          \* the ClassificationRun node
    checkpoint,   \* ClassificationCheckpoint of each candidate
    assertions,   \* RelationAssertion nodes, by their dedupe key
    pc,           \* where a process is
    publish,      \* --publish
    todo,         \* candidates a process has still to store
    answer,       \* decisions a process holds for them
    fresh,        \* its transaction found no checkpoint
    copy,         \* the materialization it audits
    starts        \* history: processes started so far

graph == <<run, checkpoint, assertions>>
process == <<publish, todo, answer, fresh, copy>>
vars == <<graph, pc, process, starts>>

Candidates == 1 .. NumCandidates
Processes == Jobs \union Importers

Findings == {"established", "not_established", "uncertain"}
Outcomes == {"classified", "reference_only", "uncertain", "failed"}

Decide(findings) ==
    LET established == {p \in Predicates : findings[p] = "established"}
    IN [asserted |-> established,
        outcome  |-> IF established # {} THEN "classified"
                     ELSE IF \E p \in Predicates : findings[p] = "uncertain"
                          THEN "uncertain" ELSE "reference_only"]

Decisions == {Decide(findings) : findings \in [Predicates -> Findings]}
Failed == [asserted |-> {}, outcome |-> "failed"]
None == [asserted |-> {}, outcome |-> "none"]

IsFinal(c) == checkpoint[c].outcome \notin {"none", "failed"}

NewRun(contract) ==
    [phase |-> "building", contract |-> contract, processed |-> 0,
     count |-> [o \in Outcomes |-> 0], assertion |-> 0]

NoRun == [NewRun("none") EXCEPT !.phase = "none"]
NoCopy == [run |-> NoRun, checkpoint |-> [c \in Candidates |-> None], assertions |-> {}]

Contract(a) == IF a \in Jobs THEN "job" ELSE "import"

Init ==
    /\ run = NoRun
    /\ checkpoint = [c \in Candidates |-> None]
    /\ assertions = {}
    /\ pc = [a \in Processes |-> "idle"]
    /\ publish = [a \in Processes |-> FALSE]
    /\ todo = [a \in Processes |-> {}]
    /\ answer = [a \in Processes |-> [c \in Candidates |-> None]]
    /\ fresh = [a \in Processes |-> FALSE]
    /\ copy = [a \in Processes |-> NoCopy]
    /\ starts = 0

Goto(a, place) == pc' = [pc EXCEPT ![a] = place]

\* The process ends, with a report or an exception.
Exit(a) ==
    /\ Goto(a, "idle")
    /\ publish' = [publish EXCEPT ![a] = FALSE]
    /\ todo' = [todo EXCEPT ![a] = {}]
    /\ answer' = [answer EXCEPT ![a] = [c \in Candidates |-> None]]
    /\ fresh' = [fresh EXCEPT ![a] = FALSE]
    /\ copy' = [copy EXCEPT ![a] = NoCopy]

-----------------------------------------------------------------------------
\* Start, with or without --publish.  An importer brings the decisions of a
\* part of the scope; those of another review of the same part may differ.
Start(a) ==
    /\ pc[a] = "idle"
    /\ starts < MaxStarts
    /\ starts' = starts + 1
    /\ Goto(a, "lookup")
    /\ \E wanted \in BOOLEAN : publish' = [publish EXCEPT ![a] = wanted]
    /\ IF a \in Jobs
       THEN UNCHANGED <<todo, answer>>
       ELSE \E batch \in SUBSET Candidates \ {{}} :
            \E decided \in [batch -> Decisions] :
               /\ todo' = [todo EXCEPT ![a] = batch]
               /\ answer' = [answer EXCEPT ![a] =
                    [c \in Candidates |-> IF c \in batch THEN decided[c] ELSE None]]
    /\ UNCHANGED <<graph, fresh, copy>>

\* The run belongs to this kind of process and can take its results.  For a
\* published run the job only audits and reports.
Accepts(a, record) == record.contract = Contract(a) /\ record.phase = "building"

Enter(a, record) ==
    IF ~Accepts(a, record)
    THEN Exit(a)
    ELSE /\ Goto(a, IF a \in Jobs THEN "load" ELSE "next")
         /\ UNCHANGED process

Lookup(a) ==
    /\ pc[a] = "lookup"
    /\ IF run.phase = "none"
       THEN Goto(a, "create") /\ UNCHANGED process
       ELSE Enter(a, run)
    /\ UNCHANGED <<graph, starts>>

\* The unique constraint refuses a second node of the same run id.
Create(a) ==
    /\ pc[a] = "create"
    /\ IF run.phase # "none"
       THEN Exit(a) /\ UNCHANGED graph
       ELSE /\ run' = NewRun(Contract(a))
            /\ Enter(a, NewRun(Contract(a)))
            /\ UNCHANGED <<checkpoint, assertions>>
    /\ UNCHANGED starts

\* The candidates without a final checkpoint, read once before the loop.
Load(a) ==
    /\ pc[a] = "load"
    /\ todo' = [todo EXCEPT ![a] = {c \in Candidates : ~IsFinal(c)}]
    /\ Goto(a, "next")
    /\ UNCHANGED <<graph, publish, answer, fresh, copy, starts>>

\* The models answer, with reviews and repairs, or the candidate fails.
Classify(a) ==
    /\ a \in Jobs
    /\ pc[a] = "next"
    /\ todo[a] # {}
    /\ \E result \in Decisions \union {Failed} :
          answer' = [answer EXCEPT ![a][Min(todo[a])] = result]
    /\ Goto(a, "save")
    /\ UNCHANGED <<graph, publish, todo, fresh, copy, starts>>

NextImport(a) ==
    /\ a \in Importers
    /\ pc[a] = "next"
    /\ todo[a] # {}
    /\ Goto(a, "save")
    /\ UNCHANGED <<graph, process, starts>>

-----------------------------------------------------------------------------
(* save_classification_checkpoint *)

Saved(a) ==
    /\ todo' = [todo EXCEPT ![a] = @ \ {Min(@)}]
    /\ Goto(a, "next")

Conflicts(a, c) == IsFinal(c) /\ checkpoint[c] # answer[a][c]

\* The reads of the transaction.
ReadCheckpoint(a) ==
    /\ pc[a] = "save"
    /\ LET c == Min(todo[a])
       IN CASE run.phase # "building" -> Exit(a)
            [] run.phase = "building" /\ Conflicts(a, c) ->
                 IF a \in Importers
                 THEN Goto(a, "fail") /\ UNCHANGED process
                 ELSE Exit(a)
            [] run.phase = "building" /\ IsFinal(c) /\ ~Conflicts(a, c) ->
                 Saved(a) /\ UNCHANGED <<publish, answer, fresh, copy>>
            [] OTHER ->
                 /\ fresh' = [fresh EXCEPT ![a] = checkpoint[c] = None]
                 /\ Goto(a, "commit")
                 /\ UNCHANGED <<publish, todo, answer, copy>>
    /\ UNCHANGED <<graph, starts>>

\* CREATE of a checkpoint or of an assertion that another client created.
DuplicateAssertion(a, c) == \E p \in answer[a][c].asserted : <<c, p>> \in assertions

Duplicate(a, c) ==
    \/ fresh[a] /\ checkpoint[c] # None
    \/ DuplicateAssertion(a, c)

\* Fault: the retry of a failed candidate does not take back its failure.
CountedAgain(a, c) ==
    LET new == answer[a][c]
    IN [run EXCEPT !.processed = IF fresh[a] THEN @ + 1 ELSE @,
                   !.count[new.outcome] = @ + 1,
                   !.assertion = @ + Cardinality(new.asserted)]

Counted(a, c) ==
    LET new == answer[a][c]
        added == Cardinality(new.asserted)
    IN IF fresh[a]
       THEN [run EXCEPT !.processed = @ + 1,
                        !.count[new.outcome] = @ + 1,
                        !.assertion = @ + added]
       ELSE IF new.outcome = "failed"
            THEN run
            ELSE [run EXCEPT !.count["failed"] = @ - 1,
                             !.count[new.outcome] = @ + 1,
                             !.assertion = @ + added]

\* The writes and the commit.  When the acknowledgement is lost the driver
\* runs the transaction again from its first read.
WriteCheckpoint(a) ==
    /\ pc[a] = "commit"
    /\ LET c == Min(todo[a])
       IN IF Duplicate(a, c)
          THEN Exit(a) /\ UNCHANGED graph
          ELSE /\ checkpoint' = [checkpoint EXCEPT ![c] = answer[a][c]]
               /\ assertions' = assertions \union ({c} \X answer[a][c].asserted)
               /\ run' = Counted(a, c)
               /\ \/ Saved(a) /\ UNCHANGED <<publish, answer, fresh, copy>>
                  \/ Goto(a, "save") /\ UNCHANGED process
    /\ UNCHANGED starts

\* The database, an end point or the basis edge is not available.
SaveFails(a) ==
    /\ pc[a] \in {"save", "commit"}
    /\ Exit(a)
    /\ UNCHANGED <<graph, starts>>

-----------------------------------------------------------------------------
(* Audit and publication *)

AllStored(a) ==
    /\ pc[a] = "next"
    /\ todo[a] = {}
    /\ IF a \in Jobs \/ publish[a]
       THEN Goto(a, "readRun") /\ UNCHANGED process
       ELSE Exit(a)
    /\ UNCHANGED <<graph, starts>>

\* classification_run_materialization: three queries, one after the other.
ReadRun(a) ==
    /\ pc[a] = "readRun"
    /\ copy' = [copy EXCEPT ![a].run = run]
    /\ Goto(a, "readCheckpoints")
    /\ UNCHANGED <<graph, publish, todo, answer, fresh, starts>>

ReadCheckpoints(a) ==
    /\ pc[a] = "readCheckpoints"
    /\ copy' = [copy EXCEPT ![a].checkpoint = checkpoint]
    /\ Goto(a, "readAssertions")
    /\ UNCHANGED <<graph, publish, todo, answer, fresh, starts>>

ReadAssertions(a) ==
    /\ pc[a] = "readAssertions"
    /\ copy' = [copy EXCEPT ![a].assertions = assertions]
    /\ Goto(a, "audit")
    /\ UNCHANGED <<graph, publish, todo, answer, fresh, starts>>

With(points, o) == {c \in Candidates : points[c].outcome = o}

AuditPasses(m) ==
    /\ With(m.checkpoint, "none") = {}
    /\ \A c \in Candidates :
          Cardinality({a \in m.assertions : a[1] = c}) = Cardinality(m.checkpoint[c].asserted)
    /\ m.run.processed = NumCandidates
    /\ \A o \in Outcomes : m.run.count[o] = Cardinality(With(m.checkpoint, o))
    /\ m.run.assertion = Cardinality(m.assertions)

\* The importer also refuses to publish failed checkpoints; the job does not.
Audit(a) ==
    /\ pc[a] = "audit"
    /\ LET passes == AuditPasses(copy[a])
           clean == a \in Jobs \/ copy[a].run.count["failed"] = 0
       IN CASE a \in Jobs /\ ~passes -> Goto(a, "fail") /\ UNCHANGED process
            [] passes /\ clean /\ publish[a] -> Goto(a, "publish") /\ UNCHANGED process
            [] OTHER -> Exit(a)
    /\ UNCHANGED <<graph, starts>>

\* One query; the record of a run it published with failed checkpoints is
\* refused only afterwards.
Publish(a) ==
    /\ pc[a] = "publish"
    /\ run' = IF run.phase = "building" /\ run.processed = NumCandidates
              THEN [run EXCEPT !.phase = "published"] ELSE run
    /\ Exit(a)
    /\ UNCHANGED <<checkpoint, assertions, starts>>

Fail(a) ==
    /\ pc[a] = "fail"
    /\ run' = IF run.phase = "building" THEN [run EXCEPT !.phase = "failed"] ELSE run
    /\ Exit(a)
    /\ UNCHANGED <<checkpoint, assertions, starts>>

\* The process dies between two queries; an open transaction is rolled back.
Crash(a) ==
    /\ pc[a] # "idle"
    /\ Exit(a)
    /\ UNCHANGED <<graph, starts>>

Next ==
    \E a \in Processes :
       \/ Start(a) \/ Lookup(a) \/ Create(a) \/ Load(a)
       \/ Classify(a) \/ NextImport(a)
       \/ ReadCheckpoint(a) \/ WriteCheckpoint(a) \/ SaveFails(a)
       \/ AllStored(a) \/ ReadRun(a) \/ ReadCheckpoints(a) \/ ReadAssertions(a)
       \/ Audit(a) \/ Publish(a) \/ Fail(a) \/ Crash(a)

Spec == Init /\ [][Next]_vars

-----------------------------------------------------------------------------
(* Properties *)

Places == {"idle", "lookup", "create", "load", "next", "save", "commit", "readRun",
           "readCheckpoints", "readAssertions", "audit", "publish", "fail"}
Records == [phase : {"none", "building", "published", "failed"},
            contract : {"none", "job", "import"},
            processed : 0 .. NumCandidates,
            count : [Outcomes -> 0 .. NumCandidates], assertion : Nat]
Results == [asserted : SUBSET Predicates, outcome : Outcomes \union {"none"}]
AssertionKeys == Candidates \X Predicates

\* Every variable keeps the shape the graph and the programs give it.
TypeOK ==
    /\ run \in Records
    /\ checkpoint \in [Candidates -> Results]
    /\ assertions \subseteq AssertionKeys
    /\ pc \in [Processes -> Places]
    /\ publish \in [Processes -> BOOLEAN]
    /\ todo \in [Processes -> SUBSET Candidates]
    /\ answer \in [Processes -> [Candidates -> Results]]
    /\ fresh \in [Processes -> BOOLEAN]
    /\ copy \in [Processes -> [run : Records, checkpoint : [Candidates -> Results],
                               assertions : SUBSET AssertionKeys]]
    /\ starts \in Nat

\* The counters of the run always tell its checkpoints: neither a lost
\* acknowledgement, nor a crash, nor importers beside a single job count a
\* candidate twice or leave one out (save_classification_checkpoint).
CountersTellCheckpoints ==
    run.phase # "none" =>
       /\ \A o \in Outcomes : run.count[o] = Cardinality(With(checkpoint, o))
       /\ run.processed = Cardinality({c \in Candidates : checkpoint[c] # None})
       /\ run.assertion = Cardinality(assertions)

\* The assertions of the graph are those of the checkpoints, so that the search
\* never finds one that no stored decision supports.
AssertionsOfCheckpoints ==
    assertions = {k \in AssertionKeys : k[2] \in checkpoint[k[1]].asserted}

\* The three records that the graph keeps of a run, its counters, its checkpoints
\* and its assertions, tell the same after every step of every process.
RecordsAgree == CountersTellCheckpoints /\ AssertionsOfCheckpoints

\* Each candidate gets its final result once (RUNBOOK: another payload does not
\* overwrite it), a run is published complete, and what the search may have read
\* does not change any more, whoever was still in a transaction at that time.
Promise == INSTANCE RelationResults WITH
    Scope <- Candidates, Decision <- Decisions, Failure <- Failed, Missing <- None,
    result <- checkpoint, phase <- run.phase

ImplementsResults == Promise!Spec

\* ClassificationRunRecord: a published run has no failed checkpoints.
PublishedHasNoFailures ==
    run.phase = "published" => \A c \in Candidates : checkpoint[c].outcome # "failed"
=============================================================================
