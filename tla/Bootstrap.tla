------------------------------ MODULE Bootstrap ------------------------------
(***************************************************************************)
(* bootstrap_aws_data.py --apply: an exported artifact is loaded into      *)
(* OpenSearch Serverless, which gives each document an id of its own and   *)
(* counts what it holds with a delay, and then into Neptune.  A checkpoint *)
(* of the documents loaded is kept beside the task and in S3.  Tasks can   *)
(* stop anywhere and be started again, also while another still runs       *)
(* (run-bootstrap-task.sh leaves a task alone that it waits for too long). *)
(***************************************************************************)
EXTENDS Naturals, FiniteSets, FiniteSetsExt

CONSTANTS
    Units,          \* content units, in the order of opensearch-documents.jsonl
    Tasks,
    BulkSize,       \* BULK_SIZE
    MaxTasks,       \* bound: starts of a task
    None

VARIABLES
    artifact,       \* documents, nodes and links of the artifact, or None; own: links of its snapshot
    remote,         \* copies of each document in the remote index
    seen,           \* documents that _count has got to know
    saved,          \* checkpoint in S3
    local,          \* checkpoint file of each task's host, or None
    step,           \* where each task is
    completed,      \* documents it knows to be loaded
    remoteNodes, remoteLinks,   \* nodes and edges in Neptune
    finished,       \* a task has reported success
    starts,
    misread,        \* history: a task went on though the count lagged behind
    overlapped      \* history: a task was started while another was running

index     == <<remote, seen>>
tasks     == <<local, step, completed>>
graph     == <<remoteNodes, remoteLinks>>
vars == <<artifact, index, saved, tasks, graph, finished, starts, misread, overlapped>>

Total == MapThenSumSet(LAMBDA u : remote[u], Units)

\* A task that verifies or loads the graph knows every document to be loaded.
TypeOK ==
    /\ remote \in [Units -> 0 .. MaxTasks]
    /\ seen \in 0 .. Total
    /\ saved \subseteq Units
    /\ local \in [Tasks -> (SUBSET Units) \union {None}]
    /\ step \in [Tasks -> {"idle", "check", "bulk", "save", "upload", "verify", "graph"}]
    /\ completed \in [Tasks -> SUBSET Units]
    /\ \A t \in Tasks : step[t] \in {"verify", "graph"} => artifact.docs \subseteq completed[t]

Init ==
    /\ artifact = None
    /\ remote = [u \in Units |-> 0] /\ seen = 0
    /\ saved = {}
    /\ local = [t \in Tasks |-> None]
    /\ step = [t \in Tasks |-> "idle"]
    /\ completed = [t \in Tasks |-> {}]
    /\ remoteNodes = {} /\ remoteLinks = {}
    /\ finished = FALSE
    /\ starts = 0
    /\ misread = FALSE /\ overlapped = FALSE

-----------------------------------------------------------------------------
(* A task.                                                                 *)

Goto(t, s) == step' = [step EXCEPT ![t] = s]

\* The file beside the task is used when there is one; a new container has none
\* and takes the checkpoint from S3 (_restore_s3_checkpoint, _load_checkpoint).
Start(t) ==
    /\ artifact # None
    /\ step[t] = "idle"
    /\ starts < MaxTasks
    /\ \E kept \in {local[t], None} :
        LET found == IF kept = None THEN saved ELSE kept IN
        /\ local' = [local EXCEPT ![t] = found]
        /\ completed' = [completed EXCEPT ![t] = found]
    /\ Goto(t, "check")
    /\ starts' = starts + 1
    /\ overlapped' = (overlapped \/ \E s \in Tasks : step[s] # "idle")
    /\ UNCHANGED <<artifact, index, saved, graph, finished, misread>>

\* Fault: an index that holds more than the checkpoint says is taken as it is.
CheckAtLeast(t) ==
    /\ step[t] = "check"
    /\ seen >= Cardinality(completed[t])
    /\ Goto(t, "bulk")
    /\ misread' = (misread \/ seen < Total)
    /\ UNCHANGED <<artifact, index, saved, local, completed, graph, finished, starts,
                   overlapped>>

\* The count has to meet the checkpoint, at once or while the task waits for it;
\* otherwise the task gives up (Stop).  The count taken before the checkpoint is restored
\* is one that lags.  With one index for one artifact the count over all snapshots and the
\* checkpoint of another manifest never stop a task.
Check(t) ==
    /\ step[t] = "check"
    /\ seen = Cardinality(completed[t])
    /\ Goto(t, "bulk")
    /\ misread' = (misread \/ seen < Total)
    /\ UNCHANGED <<artifact, index, saved, local, completed, graph, finished, starts,
                   overlapped>>

Pending(t) == artifact.docs \ completed[t]
Batch(t)   == {u \in Pending(t) : Cardinality({v \in Pending(t) : v < u}) < BulkSize}

Written(us) == remote' = [u \in Units |-> IF u \in us THEN remote[u] + 1 ELSE remote[u]]

Bulk(t) ==
    /\ step[t] = "bulk"
    /\ IF Pending(t) = {}
       THEN Goto(t, "verify") /\ UNCHANGED <<remote, completed>>
       ELSE /\ Written(Batch(t))
            /\ completed' = [completed EXCEPT ![t] = @ \union Batch(t)]
            /\ Goto(t, "save")
    /\ UNCHANGED <<artifact, seen, saved, local, graph, finished, starts, misread,
                   overlapped>>

\* Only part of a batch is accepted, or its answer is lost: the task ends with
\* documents in the index that no checkpoint names.
BulkFails(t) ==
    /\ step[t] = "bulk"
    /\ Pending(t) # {}
    /\ \E part \in SUBSET Batch(t) : Written(part)
    /\ Goto(t, "idle")
    /\ UNCHANGED <<artifact, seen, saved, local, completed, graph, finished, starts,
                   misread, overlapped>>

\* Fault: the checkpoint is written ahead, with the next batch.
SaveAhead(t) ==
    /\ step[t] = "save"
    /\ local' = [local EXCEPT ![t] = completed[t] \union Batch(t)]
    /\ Goto(t, "upload")
    /\ UNCHANGED <<artifact, index, saved, completed, graph, finished, starts, misread,
                   overlapped>>

Save(t) ==
    /\ step[t] = "save"
    /\ local' = [local EXCEPT ![t] = completed[t]]
    /\ Goto(t, "upload")
    /\ UNCHANGED <<artifact, index, saved, completed, graph, finished, starts, misread,
                   overlapped>>

Upload(t) ==
    /\ step[t] = "upload"
    /\ saved' = local[t]
    /\ Goto(t, "bulk")
    /\ UNCHANGED <<artifact, index, local, completed, graph, finished, starts, misread,
                   overlapped>>

Verify(t) ==
    /\ step[t] = "verify"
    /\ seen = Cardinality(artifact.docs)
    /\ Goto(t, "graph")
    /\ UNCHANGED <<artifact, index, saved, local, completed, graph, finished, starts,
                   misread, overlapped>>

\* Fault: the edges of the snapshot are not counted at the end.
LoadUncounted(t) ==
    /\ step[t] = "graph"
    /\ artifact.nodes # {}
    /\ remoteNodes' = remoteNodes \union artifact.nodes
    /\ remoteLinks' = remoteLinks \union artifact.links
    /\ Cardinality(remoteNodes') = Cardinality(artifact.nodes)
    /\ finished' = TRUE
    /\ Goto(t, "idle")
    /\ UNCHANGED <<artifact, index, saved, local, completed, starts, misread, overlapped>>

\* Nodes and edges are merged by their ids; at the end those of the snapshot are
\* counted, so that an edge of another one keeps the load from success.  The snapshot
\* is taken from the first node, which there has to be (_load_graph).
LoadGraph(t) ==
    /\ step[t] = "graph"
    /\ artifact.nodes # {}
    /\ remoteNodes' = remoteNodes \union artifact.nodes
    /\ remoteLinks' = remoteLinks \union artifact.links
    /\ Cardinality(remoteNodes') = Cardinality(artifact.nodes)
    /\ Cardinality(remoteLinks' \intersect artifact.own) = Cardinality(artifact.links)
    /\ finished' = TRUE
    /\ Goto(t, "idle")
    /\ UNCHANGED <<artifact, index, saved, local, completed, starts, misread, overlapped>>

\* A call raises, a wait runs out or the task is killed, with the graph loaded
\* up to some batch.
Stop(t) ==
    /\ step[t] # "idle"
    /\ IF step[t] = "graph"
       THEN \/ /\ \E part \in SUBSET artifact.nodes : remoteNodes' = remoteNodes \union part
               /\ UNCHANGED remoteLinks
            \/ /\ remoteNodes' = remoteNodes \union artifact.nodes
               /\ \E part \in SUBSET artifact.links : remoteLinks' = remoteLinks \union part
       ELSE UNCHANGED graph
    /\ Goto(t, "idle")
    /\ UNCHANGED <<artifact, index, saved, local, completed, finished, starts, misread,
                   overlapped>>

\* The count catches up in its own time.
Converge ==
    /\ seen < Total
    /\ seen' = seen + 1
    /\ UNCHANGED <<artifact, remote, saved, tasks, graph, finished, starts, misread,
                   overlapped>>

Next ==
    \/ \E t \in Tasks :
        \/ Start(t) \/ Check(t) \/ Bulk(t) \/ BulkFails(t) \/ Save(t) \/ Upload(t)
        \/ Verify(t) \/ LoadGraph(t) \/ Stop(t)
    \/ Converge

-----------------------------------------------------------------------------
(* Properties.                                                             *)

\* A task reports success only when each document of the artifact is in the
\* index and the whole graph is in Neptune, whatever earlier and other tasks did.
FinishedIsWhole ==
    finished =>
        /\ \A u \in artifact.docs : remote[u] > 0
        /\ remoteNodes = artifact.nodes /\ remoteLinks = artifact.links

\* Without an overlap, and as long as the count was right when a task relied on
\* it, no document is loaded twice (infra/aws/README.md:95), however often tasks
\* are cut off between a batch and its checkpoint.
LoadedOnce ==
    ~misread /\ ~overlapped => \A u \in Units : remote[u] <= 1

=============================================================================
