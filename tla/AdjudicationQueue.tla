-------------------------- MODULE AdjudicationQueue --------------------------
(***************************************************************************)
(* run_relation_adjudication_codex_queue.py: a restartable queue that has  *)
(* each shard answered by a Worker session, reviewed by a Reviewer         *)
(* session, revised once, merged and imported into the graph.  The shard's *)
(* files, the state file and the graph survive a crash; what a run of the  *)
(* program holds in memory does not.  The scripts replace their outputs    *)
(* atomically; the queue itself writes the answers of the sessions in      *)
(* place, so that a crash can leave such a file half written.              *)
(* A shard stands for one of its candidates.                               *)
(***************************************************************************)
EXTENDS Naturals, FiniteSets

CONSTANTS
    NumShards,     \* shards of the manifest, in its order
    Sessions,      \* --max-active-sessions
    MaxFailures,   \* --max-consecutive-failures
    MaxRuns        \* bound: runs of the program

ASSUME QueueAssumption ==
    /\ NumShards \in Nat \ {0}
    /\ Sessions \in Nat \ {0}
    /\ MaxFailures \in Nat \ {0}
    /\ MaxRuns \in Nat

VARIABLES
    files,      \* artifacts of each shard
    threads,    \* workerThreadId and reviewerThreadId of each shard are saved
    repairs,    \* contract repairs of each shard that the state file counts
    imported,   \* shards whose saved stage is "imported"
    graph,      \* decision of each shard's checkpoint in the graph
    runs,       \* runs of the program so far
    running,
    apply,      \* --apply of this run
    queue,      \* shards no consumer has taken
    stop,
    failures,   \* consecutive_failures
    step,       \* where the consumer of a shard is
    kind,       \* the session it asks, or whose answer it handles
    reply       \* the answer being written

stored   == <<files, threads, repairs, imported, graph>>
volatile == <<running, apply, queue, stop, failures, step, kind, reply>>
vars     == <<stored, runs, volatile>>

Shards == 1 .. NumShards

Repair == [worker |-> "workerRepair", review |-> "reviewRepair", revision |-> "revisedRepair"]
Repairs == {"workerRepair", "reviewRepair", "revisedRepair"}
Reviewing == {"review", "reviewRepair", "final"}
Kinds == {"worker", "review", "revision", "final"} \union Repairs

\* The file that takes the answer of a session; a repair replaces the answer.
Target == [worker   |-> "workerRaw",  workerRepair  |-> "workerRaw",
           review   |-> "review",     reviewRepair  |-> "review",
           revision |-> "revisedRaw", revisedRepair |-> "revisedRaw",
           final    |-> "final"]

\* The file that takes the answer of a Worker once its ids are bound.
Bound == [worker   |-> "worker",  workerRepair  |-> "worker",
          revision |-> "revised", revisedRepair |-> "revised"]

\* `flawed`: the ids can be bound, but the decision breaks the rest of its contract.
Bindable == {"flawed", "valid"}
Reviews  == {"approve", "change"}
Replies(k) == {"invalid"} \union (IF k \in Reviewing THEN Reviews ELSE Bindable)
Decisions == {"approved", "unresolved"}

Raw      == {"absent", "partial", "invalid"} \union Bindable
Reviewed == {"absent", "partial", "invalid"} \union Reviews
Artifacts == [workerRaw : Raw, worker : {"absent"} \union Bindable,
              review : Reviewed, revisedRaw : Raw, revised : {"absent"} \union Bindable,
              final : Reviewed, approved : {"absent"} \union Decisions,
              unresolved : {"absent"} \union Decisions]

Steps == {"idle", "begin", "ask", "wait", "write", "save", "bind", "prepare", "merge",
          "mergeRest", "import", "mark"}

TypeOK ==
    /\ files \in [Shards -> Artifacts]
    /\ threads \in [Shards -> SUBSET {"worker", "reviewer"}]
    /\ repairs \in [Shards -> SUBSET Repairs]
    /\ imported \subseteq Shards
    /\ graph \in [Shards -> {"none"} \union Decisions]
    /\ runs \in 0 .. MaxRuns
    /\ running \in BOOLEAN /\ apply \in BOOLEAN /\ stop \in BOOLEAN
    /\ queue \subseteq Shards
    /\ failures \in Nat
    /\ step \in [Shards -> Steps]
    /\ kind \in [Shards -> Kinds]
    /\ reply \in [Shards -> {"none", "invalid"} \union Bindable \union Reviews]

NoFiles == [workerRaw |-> "absent", worker |-> "absent", review |-> "absent",
            revisedRaw |-> "absent", revised |-> "absent", final |-> "absent",
            approved |-> "absent", unresolved |-> "absent"]

Init ==
    /\ files = [s \in Shards |-> NoFiles]
    /\ threads = [s \in Shards |-> {}]
    /\ repairs = [s \in Shards |-> {}]
    /\ imported = {}
    /\ graph = [s \in Shards |-> "none"]
    /\ runs = 0
    /\ running = FALSE /\ apply = FALSE /\ stop = FALSE
    /\ queue = {}
    /\ failures = 0
    /\ step = [s \in Shards |-> "idle"]
    /\ kind = [s \in Shards |-> "worker"]
    /\ reply = [s \in Shards |-> "none"]

Active == {s \in Shards : step[s] # "idle"}

-----------------------------------------------------------------------------
(* Runs of the program and their consumers.                                *)

\* Shards without both outputs, and, with --apply, those not imported yet.
Complete(s) == files[s].approved # "absent" /\ files[s].unresolved # "absent"
Pending(a) == {s \in Shards : ~(Complete(s) /\ (~a \/ s \in imported))}

\* --max-shards takes the first of them.
StartRun ==
    /\ ~running /\ runs < MaxRuns
    /\ runs' = runs + 1
    /\ running' = TRUE /\ stop' = FALSE /\ failures' = 0
    /\ apply' \in BOOLEAN
    /\ queue' \in SUBSET Pending(apply') \ {{}}
    /\ \A s \in queue', t \in Pending(apply') \ queue' : s < t
    /\ UNCHANGED <<stored, step, kind, reply>>

EndRun ==
    /\ running /\ Active = {} /\ (queue = {} \/ stop)
    /\ running' = FALSE
    /\ UNCHANGED <<stored, runs, apply, queue, stop, failures, step, kind, reply>>

Crash ==
    /\ running
    /\ running' = FALSE /\ apply' = FALSE /\ stop' = FALSE
    /\ queue' = {} /\ failures' = 0
    /\ step' = [s \in Shards |-> "idle"]
    /\ kind' = [s \in Shards |-> "worker"]
    /\ reply' = [s \in Shards |-> "none"]
    /\ UNCHANGED <<stored, runs>>

\* Fault: a consumer goes on after the queue has been stopped.
TakeAfterStop(s) ==
    /\ running
    /\ s \in queue /\ \A t \in queue : s <= t
    /\ Cardinality(Active) < Sessions
    /\ queue' = queue \ {s}
    /\ step' = [step EXCEPT ![s] = "begin"]
    /\ UNCHANGED <<stored, runs, running, apply, stop, failures, kind, reply>>

Take(s) ==
    /\ running /\ ~stop
    /\ s \in queue /\ \A t \in queue : s <= t
    /\ Cardinality(Active) < Sessions
    /\ queue' = queue \ {s}
    /\ step' = [step EXCEPT ![s] = "begin"]
    /\ UNCHANGED <<stored, runs, running, apply, stop, failures, kind, reply>>

\* What a consumer of one shard leaves alone in any step.
RunFrame  == UNCHANGED <<runs, running, apply, queue>>
QueueGoes == RunFrame /\ UNCHANGED <<stop, failures>>

Go(s, place, k) ==
    /\ step' = [step EXCEPT ![s] = place]
    /\ kind' = [kind EXCEPT ![s] = k]
    /\ reply' = [reply EXCEPT ![s] = "none"]
    /\ QueueGoes

Succeed(s) ==
    /\ step' = [step EXCEPT ![s] = "idle"]
    /\ kind' = [kind EXCEPT ![s] = "worker"]
    /\ reply' = [reply EXCEPT ![s] = "none"]
    /\ failures' = 0
    /\ RunFrame /\ UNCHANGED stop

\* The exception ends in guarded(), which saves the stage "failed".
Fail(s) ==
    /\ step' = [step EXCEPT ![s] = "idle"]
    /\ kind' = [kind EXCEPT ![s] = "worker"]
    /\ reply' = [reply EXCEPT ![s] = "none"]
    /\ failures' = failures + 1
    /\ stop' = (stop \/ failures' >= MaxFailures)
    /\ imported' = imported \ {s}
    /\ RunFrame

-----------------------------------------------------------------------------
(* _process_shard: a file that exists is never asked for again.            *)

AfterWorker(s) ==
    IF files[s].review = "absent" THEN Go(s, "ask", "review") ELSE Go(s, "prepare", "review")

\* A session can be resumed only when its id has been saved.
Resume(s, session, k) ==
    IF session \in threads[s] THEN Go(s, "ask", k) /\ UNCHANGED imported ELSE Fail(s)

\* Fault: the final review is asked for again in each run.
AfterRevisionAsking(s) == Resume(s, "reviewer", "final")

AfterRevision(s) ==
    IF files[s].final = "absent" THEN Resume(s, "reviewer", "final")
    ELSE Go(s, "merge", "final") /\ UNCHANGED imported

\* Fault: the Worker is asked anew whatever a former run has left.
BeginAfresh(s) ==
    /\ step[s] = "begin"
    /\ imported' = imported \ {s}
    /\ Go(s, "ask", "worker")
    /\ UNCHANGED <<files, threads, repairs, graph>>

Begin(s) ==
    /\ step[s] = "begin"
    /\ imported' = imported \ {s}
    /\ IF files[s].worker # "absent" THEN AfterWorker(s)
       ELSE IF files[s].workerRaw # "absent" THEN Go(s, "bind", "worker")
       ELSE Go(s, "ask", "worker")
    /\ UNCHANGED <<files, threads, repairs, graph>>

\* The prompt goes out; a new session reports its thread before it answers.
Ask(s) ==
    /\ step[s] = "ask"
    /\ threads' = [threads EXCEPT ![s] =
                     @ \union (CASE kind[s] = "worker" -> {"worker"}
                                 [] kind[s] = "review" -> {"reviewer"}
                                 [] OTHER -> {})]
    /\ Go(s, "wait", kind[s])
    /\ UNCHANGED <<files, repairs, imported, graph>>

\* The answer arrives, and its file is opened for writing.
Answer(s) ==
    /\ step[s] = "wait"
    /\ \E r \in Replies(kind[s]) : reply' = [reply EXCEPT ![s] = r]
    /\ files' = [files EXCEPT ![s][Target[kind[s]]] = "partial"]
    /\ step' = [step EXCEPT ![s] = "write"]
    /\ QueueGoes
    /\ UNCHANGED <<threads, repairs, imported, graph, kind>>

SessionFails(s) ==
    /\ step[s] \in {"ask", "wait"}
    /\ Fail(s)
    /\ UNCHANGED <<files, threads, repairs, graph>>

Handle(s) ==
    CASE kind[s] \in DOMAIN Bound                -> Go(s, "bind", kind[s])
      [] kind[s] \in {"review", "reviewRepair"}  -> Go(s, "prepare", kind[s])
      [] kind[s] = "final"                       -> Go(s, "merge", kind[s])

Written(s) ==
    /\ step[s] = "write"
    /\ files' = [files EXCEPT ![s][Target[kind[s]]] = reply[s]]
    /\ IF kind[s] \in Repairs THEN Go(s, "save", kind[s]) ELSE Handle(s)
    /\ UNCHANGED <<threads, repairs, imported, graph>>

\* A repair is counted only after its answer has replaced the first one.
Save(s) ==
    /\ step[s] = "save"
    /\ repairs' = [repairs EXCEPT ![s] = @ \union {kind[s]}]
    /\ Handle(s)
    /\ UNCHANGED <<files, threads, imported, graph>>

\* The session that gave the first answer may repair it, once.
Retry(s) ==
    IF kind[s] \in DOMAIN Repair /\ Repair[kind[s]] \notin repairs[s]
    THEN Resume(s, IF kind[s] \in Reviewing THEN "reviewer" ELSE "worker", Repair[kind[s]])
    ELSE Fail(s)

\* bind_single_occurrence_ids.py
Bind(s) ==
    LET raw == files[s][Target[kind[s]]]
    IN  /\ step[s] = "bind"
        /\ IF raw \in Bindable
           THEN /\ files' = [files EXCEPT ![s][Bound[kind[s]]] = raw]
                /\ IF Bound[kind[s]] = "worker" THEN AfterWorker(s) /\ UNCHANGED imported
                   ELSE AfterRevision(s)
           ELSE Retry(s) /\ UNCHANGED files
        /\ UNCHANGED <<threads, repairs, graph>>

\* prepare_revision_packet.py; only a request for a change needs the Worker again.
Accepted(f) == f.worker = "valid" /\ f.review \in Reviews

Prepare(s) ==
    /\ step[s] = "prepare"
    /\ IF ~Accepted(files[s]) THEN Retry(s)
       ELSE IF files[s].review = "approve" THEN Go(s, "merge", kind[s]) /\ UNCHANGED imported
       ELSE IF files[s].revised # "absent" THEN AfterRevision(s)
       ELSE Resume(s, "worker", "revision")
    /\ UNCHANGED <<files, threads, repairs, graph>>

-----------------------------------------------------------------------------
(* merge_reviewed_results.py and the import.                               *)

\* Fault: the final review is not validated before its decision is merged.
MergeableUnchecked(f) == Accepted(f)

Mergeable(f) ==
    /\ Accepted(f)
    /\ f.review = "change" => f.revised = "valid" /\ f.final \in Reviews

Verdict(f) == IF "approve" \in {f.review, f.final} THEN "approved" ELSE "unresolved"

\* The two outputs are replaced one after the other.
Merge(s) ==
    /\ step[s] = "merge"
    /\ IF Mergeable(files[s])
       THEN /\ files' = [files EXCEPT ![s].approved = Verdict(files[s])]
            /\ Go(s, "mergeRest", kind[s])
            /\ UNCHANGED imported
       ELSE Fail(s) /\ UNCHANGED files
    /\ UNCHANGED <<threads, repairs, graph>>

MergeRest(s) ==
    /\ step[s] = "mergeRest"
    /\ files' = [files EXCEPT ![s].unresolved = Verdict(files[s])]
    /\ IF apply THEN Go(s, "import", kind[s]) ELSE Succeed(s)
    /\ UNCHANGED <<threads, repairs, imported, graph>>

\* LegalAdjudicationImporter: a checkpoint that exists must say the same.
Import(s) ==
    /\ step[s] = "import"
    /\ IF graph[s] \in {"none", files[s].approved}
       THEN /\ graph' = [graph EXCEPT ![s] = files[s].approved]
            /\ Go(s, "mark", kind[s])
            /\ UNCHANGED imported
       ELSE Fail(s) /\ UNCHANGED graph
    /\ UNCHANGED <<files, threads, repairs>>

ImportFails(s) ==
    /\ step[s] = "import"
    /\ Fail(s)
    /\ UNCHANGED <<files, threads, repairs, graph>>

Mark(s) ==
    /\ step[s] = "mark"
    /\ imported' = imported \union {s}
    /\ Succeed(s)
    /\ UNCHANGED <<files, threads, repairs, graph>>

Process(s) ==
    \/ Begin(s) \/ Ask(s) \/ Answer(s) \/ SessionFails(s) \/ Written(s) \/ Save(s)
    \/ Bind(s) \/ Prepare(s) \/ Merge(s) \/ MergeRest(s)
    \/ Import(s) \/ ImportFails(s) \/ Mark(s)

Next == StartRun \/ EndRun \/ Crash \/ \E s \in Shards : Take(s) \/ Process(s)

Spec == Init /\ [][Next]_vars

-----------------------------------------------------------------------------
(* Properties.                                                             *)

\* When shards fail in a row, the queue leaves the rest alone (consume()): the
\* failures stay below the limit plus the shards that were already being
\* processed by then.
FailuresStopQueue == failures + Cardinality(Active) < MaxFailures + Sessions

\* A shard that has both its outputs costs no further session in any run, also
\* when only its import is missing (_process_shard).
DoneShardsAreReused == \A s \in Shards : step[s] = "ask" => ~Complete(s)

\* The graph holds as approved only a decision whose contract is met and which
\* its own review approves, and as unresolved only one that was revised and
\* reviewed again; the two outputs of a shard come from the same answers.
ApprovedAtOnce(f)   == f.worker = "valid" /\ f.review = "approve"
RevisedReviewed(f)  == f.worker = "valid" /\ f.review = "change" /\ f.revised = "valid"
OnlyReviewedRecorded ==
    \A s \in Shards :
        LET f == files[s]
        IN  /\ graph[s] = "approved" =>
                   ApprovedAtOnce(f) \/ (RevisedReviewed(f) /\ f.final = "approve")
            /\ graph[s] = "unresolved" => RevisedReviewed(f) /\ f.final = "change"
            /\ Complete(s) => f.approved = f.unresolved

\* A decision that has a review is not replaced: the review that is merged in a
\* later run was made of the decision it is merged with.
ReviewedDecisionIsKept ==
    [][\A s \in Shards :
         /\ files[s].review # "absent" => files'[s].worker = files[s].worker
         /\ files[s].final # "absent" => files'[s].revised = files[s].revised]_vars

\* Whatever crashes, failures and restarts come between, the queue implements
\* the ledger of its outputs: decided once, recorded once as decided, and
\* marked only when recorded.
Ledger == INSTANCE ShardLedger WITH
              decision <- [s \in Shards |-> files[s].approved],
              recorded <- graph,
              marked   <- imported
ImplementsLedger == Ledger!Spec
=============================================================================
