------------------------------- MODULE Seeding -------------------------------
(***************************************************************************)
(* POST /admin/seed (seed.py, seed_all): the index, the graph and the      *)
(* object store are rebuilt one after the other from one corpus.  The      *)
(* handler is synchronous, so that requests may overlap; each write can    *)
(* fail, and the server may stop at any point.  A corpus stands for its    *)
(* sourceSnapshotId: a stored record is named by the corpus it came from.  *)
(***************************************************************************)
EXTENDS Naturals, FiniteSets

CONSTANTS
    Corpora,        \* the inputs that seed_all can be configured with
    Docs,           \* content units of each corpus; numbers give their order
    Links,          \* edges of each corpus, pairs of its units
    Scenarios,      \* corpora given by SEED_SCENARIO_MANIFEST
    Requests,       \* threads that serve /admin/seed
    MaxSeeds,       \* bound: requests in all
    MaxReads,       \* bound: reads of law_titles in all
    None

VARIABLES
    exists,         \* the index exists
    index,          \* corpus of each document in the index
    visible,        \* what a search sees of it
    nodes,          \* corpus of each node
    edges,          \* corpus of each edge
    objects,        \* corpus of each vector object in MinIO
    pc, corpus, todo,   \* of each request: its step, its input, what the step has left
    titles,         \* _law_titles_cache: the documents it names
    reading,        \* an answer to law_titles that is not in the cache yet
    seeds, reads,
    episode         \* history: corpora and failures of the requests since the last pause

stores  == <<exists, index, visible, nodes, edges, objects>>
cache   == <<titles, reading, reads>>
vars    == <<stores, pc, corpus, todo, cache, seeds, episode>>

Units   == UNION {Docs[c] : c \in Corpora}
AllLinks == UNION {Links[c] : c \in Corpora}
Empty   == [u \in Units |-> None]
NoEdges == [l \in AllLinks |-> None]
Named(f) == {u \in DOMAIN f : f[u] # None}
First(s) == CHOOSE u \in s : \A v \in s : u <= v

Busy == {r \in Requests : pc[r] # "idle"}

Steps == {"idle", "delete", "create", "index", "refresh", "clear", "nodes", "edges",
          "prune", "objects"}

\* A request works on its corpus, step by step, and has only units of it left.
TypeOK ==
    /\ exists \in BOOLEAN
    /\ {index, visible, nodes, objects} \subseteq [Units -> Corpora \union {None}]
    /\ edges \in [AllLinks -> Corpora \union {None}]
    /\ pc \in [Requests -> Steps]
    /\ corpus \in [Requests -> Corpora \union {None}]
    /\ \A r \in Requests :
        /\ pc[r] # "idle" => corpus[r] # None
        /\ pc[r] \in {"index", "nodes", "objects"} => todo[r] \subseteq Docs[corpus[r]]
        /\ pc[r] = "edges" => todo[r] \subseteq Links[corpus[r]]
        /\ pc[r] \notin {"index", "nodes", "edges", "objects"} => todo[r] = {}
    /\ titles \in (SUBSET Units) \union {None}
    /\ reading \in (SUBSET Units) \union {None}

Init ==
    /\ exists = FALSE
    /\ index = Empty /\ visible = Empty /\ nodes = Empty /\ objects = Empty
    /\ edges = NoEdges
    /\ pc = [r \in Requests |-> "idle"]
    /\ corpus = [r \in Requests |-> None]
    /\ todo = [r \in Requests |-> {}]
    /\ titles = None /\ reading = None
    /\ seeds = 0 /\ reads = 0
    /\ episode = {}

-----------------------------------------------------------------------------
(* A request.                                                              *)

\* The sources are read and the graph is audited before anything is destroyed.
Begin(r) ==
    /\ pc[r] = "idle"
    /\ seeds < MaxSeeds
    /\ \E c \in Corpora :
        /\ corpus' = [corpus EXCEPT ![r] = c]
        /\ episode' = (IF Busy = {} THEN {} ELSE episode) \union {c}
    /\ pc' = [pc EXCEPT ![r] = "delete"]
    /\ seeds' = seeds + 1
    /\ UNCHANGED <<stores, todo, cache>>

Goto(r, step, work) ==
    /\ pc' = [pc EXCEPT ![r] = step]
    /\ todo' = [todo EXCEPT ![r] = work]
    /\ UNCHANGED <<corpus, seeds, episode>>

\* The status of the DELETE is not looked at.
DeleteIndex(r) ==
    /\ pc[r] = "delete"
    /\ \/ exists' = FALSE /\ index' = Empty /\ visible' = Empty
       \/ UNCHANGED <<exists, index, visible>>
    /\ Goto(r, "create", {})
    /\ UNCHANGED <<nodes, edges, objects, cache>>

\* An index of that name is refused, and the request fails.  The caches are
\* cleared here, before the documents are written.
CreateIndex(r) ==
    /\ pc[r] = "create"
    /\ ~exists
    /\ exists' = TRUE
    /\ titles' = None
    /\ Goto(r, "index", Docs[corpus[r]])
    /\ UNCHANGED <<index, visible, nodes, edges, objects, reading, reads>>

\* One PUT for each document; the store creates a missing index on the way.
IndexDocument(r) ==
    /\ pc[r] = "index"
    /\ IF todo[r] = {}
       THEN Goto(r, "refresh", {}) /\ UNCHANGED <<exists, index>>
       ELSE LET u == First(todo[r]) IN
            /\ exists' = TRUE
            /\ index' = [index EXCEPT ![u] = corpus[r]]
            /\ Goto(r, "index", todo[r] \ {u})
    /\ UNCHANGED <<visible, nodes, edges, objects, cache>>

\* Fault: the request goes on without the refresh.
ForgetRefresh(r) ==
    /\ pc[r] = "refresh"
    /\ exists
    /\ Goto(r, "clear", {})
    /\ UNCHANGED <<stores, cache>>

Refresh(r) ==
    /\ pc[r] = "refresh"
    /\ exists
    /\ visible' = index
    /\ Goto(r, "clear", {})
    /\ UNCHANGED <<exists, index, nodes, edges, objects, cache>>

\* Fault: the old graph is merged into.
KeepGraph(r) ==
    /\ pc[r] = "clear"
    /\ Goto(r, "nodes", Docs[corpus[r]])
    /\ UNCHANGED <<stores, cache>>

ClearGraph(r) ==
    /\ pc[r] = "clear"
    /\ nodes' = Empty /\ edges' = NoEdges
    /\ Goto(r, "nodes", Docs[corpus[r]])
    /\ UNCHANGED <<exists, index, visible, objects, cache>>

\* MERGE by graphNodeId, a batch at a time.
SeedNodes(r) ==
    /\ pc[r] = "nodes"
    /\ IF todo[r] = {}
       THEN Goto(r, "edges", Links[corpus[r]]) /\ UNCHANGED nodes
       ELSE LET u == First(todo[r]) IN
            /\ nodes' = [nodes EXCEPT ![u] = corpus[r]]
            /\ Goto(r, "nodes", todo[r] \ {u})
    /\ UNCHANGED <<exists, index, visible, edges, objects, cache>>

\* An edge one of whose ends is gone is left out without an error (MATCH).
SeedEdges(r) ==
    /\ pc[r] = "edges"
    /\ IF todo[r] = {}
       THEN Goto(r, "prune", {}) /\ UNCHANGED edges
       ELSE \E l \in todo[r] :
            /\ edges' = IF {l[1], l[2]} \subseteq Named(nodes)
                        THEN [edges EXCEPT ![l] = corpus[r]] ELSE edges
            /\ Goto(r, "edges", todo[r] \ {l})
    /\ UNCHANGED <<exists, index, visible, nodes, objects, cache>>

Stale(c) == IF c \in Scenarios THEN {} ELSE Named(objects) \ Docs[c]

\* Vector objects of other corpora go, except before a scenario.  A removal that
\* fails on one object fails the request after the others.
Prune(r) ==
    /\ pc[r] = "prune"
    /\ objects' = [u \in Units |-> IF u \in Stale(corpus[r]) THEN None ELSE objects[u]]
    /\ Goto(r, "objects", Docs[corpus[r]])
    /\ UNCHANGED <<exists, index, visible, nodes, edges, cache>>

PutObject(r) ==
    /\ pc[r] = "objects"
    /\ IF todo[r] = {}
       THEN Goto(r, "idle", {}) /\ UNCHANGED objects
       ELSE LET u == First(todo[r]) IN
            /\ objects' = [objects EXCEPT ![u] = corpus[r]]
            /\ Goto(r, "objects", todo[r] \ {u})
    /\ UNCHANGED <<exists, index, visible, nodes, edges, cache>>

\* A call raises: the request answers 500 and leaves what it has written.  A
\* removal of several objects may have removed some of them.
Fail(r) ==
    /\ pc[r] # "idle"
    /\ \E gone \in SUBSET (IF pc[r] = "prune" THEN Stale(corpus[r]) ELSE {}) :
        objects' = [u \in Units |-> IF u \in gone THEN None ELSE objects[u]]
    /\ pc' = [pc EXCEPT ![r] = "idle"]
    /\ todo' = [todo EXCEPT ![r] = {}]
    /\ episode' = episode \union {"failed"}
    /\ UNCHANGED <<exists, index, visible, nodes, edges, corpus, cache, seeds>>

\* The server stops: its requests and its caches are gone, the stores stay.
Crash ==
    /\ Busy # {}
    /\ pc' = [r \in Requests |-> "idle"]
    /\ todo' = [r \in Requests |-> {}]
    /\ titles' = None /\ reading' = None
    /\ episode' = episode \union {"failed"}
    /\ UNCHANGED <<stores, corpus, seeds, reads>>

-----------------------------------------------------------------------------
(* What happens beside it.                                                 *)

\* OpenSearch makes written documents searchable in its own time.
AutoRefresh ==
    /\ exists /\ visible # index
    /\ visible' = index
    /\ UNCHANGED <<exists, index, nodes, edges, objects, pc, corpus, todo, cache, seeds,
                   episode>>

\* law_titles: a search asks for the titles when the cache is empty,
ReadTitles ==
    /\ exists
    /\ titles = None /\ reading = None
    /\ reads < MaxReads
    /\ reading' = Named(visible)
    /\ reads' = reads + 1
    /\ UNCHANGED <<stores, pc, corpus, todo, titles, seeds, episode>>

\* and keeps the answer, whatever has happened to the index meanwhile.
KeepTitles ==
    /\ reading # None
    /\ titles' = reading
    /\ reading' = None
    /\ UNCHANGED <<stores, pc, corpus, todo, reads, seeds, episode>>

\* The local stack is taken down with its volumes (used by Ingestion).
Discard ==
    /\ exists' = FALSE
    /\ index' = Empty /\ visible' = Empty /\ nodes' = Empty /\ objects' = Empty
    /\ edges' = NoEdges
    /\ pc' = [r \in Requests |-> "idle"]
    /\ corpus' = [r \in Requests |-> None]
    /\ todo' = [r \in Requests |-> {}]
    /\ titles' = None /\ reading' = None
    /\ seeds' = 0 /\ reads' = 0
    /\ episode' = {}

Step(r) ==
    \/ Begin(r) \/ DeleteIndex(r) \/ CreateIndex(r) \/ IndexDocument(r) \/ Refresh(r)
    \/ ClearGraph(r) \/ SeedNodes(r) \/ SeedEdges(r) \/ Prune(r) \/ PutObject(r)
    \/ Fail(r)

Next ==
    \/ \E r \in Requests : Step(r)
    \/ Crash \/ AutoRefresh \/ ReadTitles \/ KeepTitles

Spec == Init /\ [][Next]_vars

-----------------------------------------------------------------------------
(* Properties.                                                             *)

Of(c, s) == [u \in Units |-> IF u \in s THEN c ELSE None]

\* The stores hold the corpus c: nothing is missing and nothing older is left.
\* A scenario does not touch the objects of other corpora.
Holds(c) ==
    /\ exists
    /\ visible = Of(c, Docs[c]) /\ index = visible
    /\ nodes = Of(c, Docs[c])
    /\ edges = [l \in AllLinks |-> IF l \in Links[c] THEN c ELSE None]
    /\ \A u \in Docs[c] : objects[u] = c
    /\ c \notin Scenarios => Named(objects) = Docs[c]

\* When every request since the last pause was answered with success and asked
\* for the same corpus, also if they overlapped, the stores hold that corpus, and
\* nothing is left of requests that failed or were cut off before (seed_all).
SuccessIsWhole ==
    \A c \in Corpora : Busy = {} /\ episode = {c} => Holds(c)
=============================================================================
