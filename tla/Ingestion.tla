------------------------------ MODULE Ingestion ------------------------------
(***************************************************************************)
(* From a seed to AWS: the local stores are seeded (Seeding), the graph is *)
(* classified, index and graph are exported to an artifact                 *)
(* (export-existing-bootstrap-data.py), and the artifact is loaded into    *)
(* the AWS stores (Bootstrap).  The export is told one snapshot for the    *)
(* index and one for the graph, which may differ, and reads the stores in  *)
(* four steps, between which requests may go on seeding.  The local stores *)
(* are given up with the export: nothing that follows depends on them.     *)
(***************************************************************************)
EXTENDS Naturals, FiniteSets

CONSTANTS
    Corpora, Docs, Links, Scenarios, Requests, MaxSeeds, MaxReads,
    Tasks, BulkSize, MaxTasks,
    Law,            \* documentId of each unit
    Run,            \* stands for the nodes of a published ClassificationRun
    None

VARIABLES
    exists, index, visible, nodes, edges, objects, pc, corpus, todo, titles, reading, seeds,
    reads, episode,
    artifact, remote, seen, saved, local, step, completed, remoteNodes, remoteLinks,
    finished, starts, misread, overlapped,
    published,      \* corpus of the published ClassificationRun in the graph
    stage,          \* last read of an export that is under way
    packed,         \* its two snapshots, and the documents and nodes it has read
    rested          \* history: each of its reads fell in a pause after a success

Seed == INSTANCE Seeding
Load == INSTANCE Bootstrap WITH Units <- UNION {Docs[c] : c \in Corpora}

GraphNodes == Seed!Units \union {Run}
Artifacts  == [search : Corpora, graph : Corpora, docs : SUBSET Seed!Units,
               nodes : SUBSET GraphNodes,
               links : SUBSET Seed!AllLinks, own : SUBSET Seed!AllLinks]

\* The graph of a corpus is audited before anything is seeded: its edges have their ends.
\* None, "failed" and the run are names apart.
ASSUME CorpusAssumption ==
    /\ IsFiniteSet(Seed!Units)
    /\ \A c \in Corpora : Docs[c] \subseteq Nat /\ Links[c] \subseteq Docs[c] \X Docs[c]
    /\ None \notin Corpora /\ "failed" \notin Corpora /\ None \notin Artifacts
    /\ Run \notin Seed!Units

seedVars   == <<exists, index, visible, nodes, edges, objects, pc, corpus, todo, titles,
                reading, seeds, reads, episode>>
loadVars   == <<artifact, remote, seen, saved, local, step, completed, remoteNodes,
                remoteLinks, finished, starts, misread, overlapped>>
exportVars == <<published, stage, packed, rested>>
vars       == <<seedVars, loadVars, exportVars>>

\* An artifact has the ends of its edges, and the parts keep their types.
TypeOK ==
    /\ Seed!TypeOK /\ Load!TypeOK
    /\ published \in Corpora \union {None}
    /\ stage \in {"none", "index", "run", "nodes"}
    /\ packed # None => packed.docs \subseteq Docs[packed.search]
    /\ artifact # None =>
        \A l \in artifact.links : {l[1], l[2]} \subseteq artifact.nodes

Init ==
    /\ Seed!Init /\ Load!Init
    /\ published = None /\ stage = "none" /\ packed = None /\ rested = FALSE

\* Clearing the graph removes the ClassificationRun with everything else.
SeedStep ==
    /\ artifact = None
    /\ Seed!Next
    /\ published' = IF nodes' = Seed!Empty THEN None ELSE published
    /\ UNCHANGED <<loadVars, stage, packed, rested>>

\* A classification run is published for a graph whose Articles share one
\* snapshot (classification_source_state), whether or not all are there.  That their
\* REFERENCES share it too is not asked for here: more runs are published than are.
Classify ==
    /\ artifact = None
    /\ \E c \in Corpora :
        /\ {nodes[u] : u \in Seed!Named(nodes)} = {c}
        /\ published # c
        /\ published' = c
    /\ UNCHANGED <<seedVars, loadVars, stage, packed, rested>>

-----------------------------------------------------------------------------
(* The export.                                                             *)

\* The stores hold one corpus and nothing is being written.
Seeded(c) == Seed!Busy = {} /\ episode = {c}
\* And the graph is classified.
Ready(c)  == Seeded(c) /\ published = c

DocsOf(c) == {u \in Seed!Units : visible[u] = c}
Laws(us)  == {Law[u] : u \in us}

\* Documents of the search snapshot are read, in one scroll; their laws have to be
\* those of the manifest, which is a third argument.
ExportIndex ==
    /\ artifact = None
    /\ exists
    /\ \E s, g \in Corpora :
        /\ DocsOf(s) # {} /\ \E m \in Corpora : Laws(DocsOf(s)) = Laws(Docs[m])
        /\ packed' = [search |-> s, graph |-> g, docs |-> DocsOf(s), nodes |-> {}]
        /\ rested' = Seeded(s)
    /\ stage' = "index"
    /\ UNCHANGED <<seedVars, loadVars, published>>

\* The ClassificationRun has to be published and to belong to the graph snapshot.
CheckRun ==
    /\ stage = "index"
    /\ published = packed.graph
    /\ stage' = "run"
    /\ UNCHANGED <<seedVars, loadVars, published, packed, rested>>

NodesOf(c) == {u \in Seed!Units : nodes[u] = c} \union (IF published = c THEN {Run} ELSE {})

ExportNodes ==
    /\ stage = "run"
    /\ packed' = [packed EXCEPT !.nodes = NodesOf(packed.graph)]
    /\ rested' = (rested /\ Ready(packed.graph))
    /\ stage' = "nodes"
    /\ UNCHANGED <<seedVars, loadVars, published>>

\* Edges between nodes of a snapshot, whatever snapshot they are from.
LinksOf(c) == {l \in Seed!Named(edges) : nodes[l[1]] = c /\ nodes[l[2]] = c}

\* An edge whose ends are not among the nodes read before fails the export.
ExportEdges ==
    /\ stage = "nodes"
    /\ \A l \in LinksOf(packed.graph) : {l[1], l[2]} \subseteq packed.nodes
    /\ artifact' = [search |-> packed.search, graph |-> packed.graph,
                    docs |-> packed.docs, nodes |-> packed.nodes,
                    links |-> LinksOf(packed.graph),
                    own |-> {l \in LinksOf(packed.graph) : edges[l] = packed.graph}]
    /\ rested' = (rested /\ Ready(packed.graph))
    /\ stage' = "none" /\ packed' = None
    /\ Seed!Discard
    /\ UNCHANGED <<remote, seen, saved, local, step, completed, remoteNodes, remoteLinks,
                   finished, starts, misread, overlapped, published>>

Export   == ExportIndex \/ CheckRun \/ ExportNodes \/ ExportEdges
LoadStep == Load!Next /\ UNCHANGED <<seedVars, exportVars>>

Next == SeedStep \/ Classify \/ Export \/ LoadStep

Spec == Init /\ [][Next]_vars

-----------------------------------------------------------------------------
(* Properties.                                                             *)

\* The local stores hold what a successful seed was asked for.
SuccessIsWhole  == Seed!SuccessIsWhole

\* A finished load has everything of the artifact, and nothing is loaded twice while
\* the counts that tasks rely on are right (bootstrap_aws_data.py, its checkpoints).
LoadIsExact == Load!FinishedIsWhole /\ Load!LoadedOnce

\* However seeds, failures and crashes fall between the reads of an export, a finished
\* load serves no document, node or edge that the two snapshots do not have, and no
\* edge without its ends: what the export mixed is refused by it or by the load.
ServedIsNamed ==
    finished =>
        /\ \A u \in Seed!Units : remote[u] > 0 => u \in Docs[artifact.search]
        /\ remoteNodes \subseteq Docs[artifact.graph] \union {Run}
        /\ remoteLinks \subseteq Links[artifact.graph]
        /\ \A l \in remoteLinks : {l[1], l[2]} \subseteq remoteNodes

\* When each read of the export fell in a pause after successful seeds of the snapshot
\* it asked for, and the graph was classified, a finished load serves both snapshots
\* as a whole, also when they differ or the stores were seeded between the reads.
ServedInFull ==
    finished /\ rested =>
        /\ {u \in Seed!Units : remote[u] > 0} = Docs[artifact.search]
        /\ remoteNodes = Docs[artifact.graph] \union {Run}
        /\ remoteLinks = Links[artifact.graph]

\* AWS serves nothing but what was seeded under the names of an export, and all of it if
\* the export read it whole (export-existing-bootstrap-data.py, bootstrap_aws_data.py).
ServedIsSeeded == ServedIsNamed /\ ServedInFull
=============================================================================
