------------------------------ MODULE CaseState ------------------------------
(***************************************************************************)
(* The persisted case of the agent framework (state.py) and the facts the  *)
(* loop derives from it (context.py, loop.py).  One WorkItem with one      *)
(* active Hypothesis stands for the work tree: `work` is its stage and     *)
(* `generation` counts the Hypothesis versions a revision has replaced.    *)
(* Tool requests and results are records, a fetch with the number of the   *)
(* Articles it asks for.  The texts of one fetch are shown and cited as    *)
(* one, under the id of its request, and take one unit of prompt room.     *)
(***************************************************************************)
EXTENDS Naturals, FiniteSets, FiniteSetsExt



CONSTANTS
    MaxCycles,         \* limits.max_research_cycles
    MaxSets,           \* limits.max_exploration_sets_per_hypothesis
    FetchCapacity,     \* limits.max_fetched_resources_per_cycle
    MaterialCapacity,  \* limits.max_material_evidence_chars, in fetches
    MaxRequests        \* bound: tool requests of one run

ASSUME LimitsAssumption ==
    /\ MaxCycles \in Nat \ {0}
    /\ MaxSets \in Nat \ {0}
    /\ FetchCapacity \in Nat \ {0}
    /\ MaterialCapacity \in Nat
    /\ MaxRequests \in Nat

VARIABLES
    runStatus,      \* run_status
    cycles,         \* research_cycle_count
    stepTimeout,    \* cycle_step_timeout
    stopReason,     \* stop_reason
    answer,         \* final_answer: absent, complete, or limited to what is known
    verdict,        \* verdict of the stored review
    work,           \* stage of the WorkItem
    generation,     \* version of the active Hypothesis
    contradicted,   \* cycle of the text that contradicts it, 0 if none
    revised,        \* hypothesis_revision_cycles
    adopted,        \* texts the active Hypothesis cites
    requests,       \* tool_requests
    results,        \* tool_results
    integrated,     \* integrated_tool_result_request_ids
    reviewed        \* requests named by stored search and graph reviews

caseVars == <<runStatus, cycles, stepTimeout, stopReason, answer, verdict, work,
              generation, contradicted, revised, adopted, requests, results,
              integrated, reviewed>>

Explorations == {"legal_search", "legal_graph_neighbors"}
\* graph_review_fetch: a fetch_articles request whose id has the Graph Review prefix.
Fetches      == {"fetch_articles", "graph_review_fetch"}
Tools        == Explorations \union Fetches
\* open_settled: the WorkItem is open and its Hypothesis needs no follow-up.
Works        == {"undecomposed", "no_hypothesis", "open", "open_settled", "resolved"}
RequestIds   == 1 .. MaxRequests
StopReasons  == {"none", "max_research_cycles", "finalization_reserve",
                 "cycle_step_timeout", "exploration_limit_reached", "max_wall_time",
                 "review_failed", "model_timeout", "protocol_error", "provider_error",
                 "context_capacity_exceeded"}

Request == [id : RequestIds, tool : Tools, hypothesis : Nat, articles : Nat]
\* `yields`: a search or graph result holds candidates, a fetch holds citable text.
Outcomes == {o \in [status : {"succeeded", "failed"}, yields : BOOLEAN] :
                 o.yields => o.status = "succeeded"}
Result  == [id : RequestIds, tool : Tools, hypothesis : Nat, articles : Nat, cycle : Nat,
            status : {"succeeded", "failed"}, yields : BOOLEAN]

CaseTypeOK ==
    /\ runStatus \in {"running", "completed", "failed"}
    /\ cycles \in 0 .. MaxCycles
    /\ stepTimeout \in BOOLEAN
    /\ stopReason \in StopReasons
    /\ answer \in {"none", "complete", "limited"}
    /\ verdict \in {"none", "accept", "revise"}
    /\ work \in Works
    /\ generation \in Nat
    /\ contradicted \in 0 .. MaxCycles
    /\ revised \subseteq 0 .. MaxCycles
    /\ adopted \subseteq RequestIds
    /\ requests \subseteq Request
    /\ results \subseteq Result
    /\ integrated \subseteq RequestIds
    /\ reviewed \subseteq RequestIds

CaseInit ==
    /\ runStatus = "running"
    /\ cycles = 0
    /\ stepTimeout = FALSE
    /\ stopReason = "none"
    /\ answer = "none"
    /\ verdict = "none"
    /\ work = "undecomposed"
    /\ generation = 0
    /\ contradicted = 0
    /\ revised = {}
    /\ adopted = {}
    /\ requests = {}
    /\ results = {}
    /\ integrated = {}
    /\ reviewed = {}

Ids(S) == {r.id : r \in S}

Open(w) == w \in {"no_hypothesis", "open", "open_settled"}

CurrentCycle == IF cycles = 0 THEN 1 ELSE cycles

Succeeded == {r \in results : r.status = "succeeded"}

\* recent_results: the current cycle's results no Solver call has consumed.
RecentResults == {r \in results : r.cycle = cycles /\ r.id \notin integrated}

\* Fetched texts of the current cycle that still wait for an integration.
UnintegratedGrounding ==
    {r \in RecentResults : r.status = "succeeded" /\ r.tool \in Fetches /\ r.yields}

\* Search results whose candidates need the dedicated Search Review.
FreshSearches ==
    {r \in RecentResults : r.tool = "legal_search" /\ r.yields /\ r.id \notin reviewed}

\* fetched_article_ids_by_work_item: an Article is fetched once, so they are counted.
FetchedIn(cycle) ==
    MapThenSumSet(LAMBDA r : r.articles,
                  {r \in Succeeded : r.tool \in Fetches /\ r.cycle = cycle})

CapacityLeft == FetchedIn(CurrentCycle) < FetchCapacity

\* Graph results of every cycle whose candidates no Graph Review has judged yet.
GraphResults == {r \in Succeeded : r.tool = "legal_graph_neighbors" /\ r.yields}
GraphPool    == {r \in GraphResults : r.id \notin reviewed /\ Open(work)}

\* _completed_graph_review_units_for_cycle: an Article fetched on a graph selection
\* ends the reviews of its Hypothesis for the cycle.
ReviewedUnits ==
    {r.hypothesis : r \in {x \in Succeeded : x.tool = "graph_review_fetch" /\ x.cycle = cycles}}

\* _graph_review_projection: one Hypothesis at a time, the one found first.
GraphUnit ==
    LET eligible == {r \in GraphPool : r.hypothesis \notin ReviewedUnits}
    IN  {r \in eligible : \A s \in eligible : r.hypothesis <= s.hypothesis}

\* What a fetch or a graph search may start from.
Candidates == {r \in Succeeded : r.tool \in Explorations /\ r.yields}

\* The material a call shows: cited texts first, then new ones while they fit.
Shown(new) ==
    {r \in new : Cardinality(adopted) + Cardinality({s \in new : s.id < r.id})
                   < MaterialCapacity}

\* _hypothesis_exploration_sets of one Hypothesis version.
ExplorationsOf(h) == {r \in Succeeded : r.tool \in Explorations /\ r.hypothesis = h}
SetsUsed(h)       == {r.cycle : r \in ExplorationsOf(h)}
UsedInCycle(h)    == {r.tool : r \in {x \in ExplorationsOf(h) : x.cycle = cycles}}

\* _all_open_hypothesis_new_exploration_sets_exhausted
NoNewSets == work = "open" /\ Cardinality(SetsUsed(generation)) >= MaxSets

\* _all_open_hypothesis_exploration_exhausted
Exhausted ==
    /\ NoNewSets
    /\ ("legal_search" \in UsedInCycle(generation))
         <=> ("legal_graph_neighbors" \in UsedInCycle(generation))

\* _current_cycle_exploration_set_complete
SetComplete == work = "open" /\ Explorations \subseteq UsedInCycle(generation)
=============================================================================
