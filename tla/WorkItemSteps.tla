----------------------------- MODULE WorkItemSteps -----------------------------
(***************************************************************************)
(* The research steps of the Agent loop seen from its WorkItems: each      *)
(* searches, judges what the search found, fetches what it selected and    *)
(* reads the text, at its own pace, while the loop sends one mixed batch   *)
(* of tool requests after the other.  What the Solver answers is any       *)
(* answer its projected input admits; what a tool returns is any result.   *)
(* Time is any moment at which the run turns to its final answer.          *)
(* AgentLoop holds the loop's limits, repairs and clocks.                  *)
(***************************************************************************)
EXTENDS Integers, FiniteSets, FiniteSetsExt

CONSTANTS
    WorkItems,      \* questions of the case
    Hypotheses,     \* statements to be checked
    Owner,          \* the WorkItem of each Hypothesis
    Articles,       \* what searches and the graph can find
    MaxCycles,      \* limits.max_research_cycles
    MaxFetched,     \* limits.max_fetched_resources_per_cycle
    MaxSets,        \* limits.max_exploration_sets_per_hypothesis
    MaxBatch,       \* limits.max_graph_candidates_per_review_batch
    MaxFrontier,    \* limits.max_graph_articles_per_hypothesis_per_cycle
    MaxPerStep,     \* limits.max_tool_requests_per_step
    MaxCalls        \* bound of the model: tool calls of a run

ASSUME StepsAssumption ==
    /\ Owner \in [Hypotheses -> WorkItems]
    /\ \A n \in {MaxCycles, MaxFetched, MaxSets, MaxBatch, MaxFrontier, MaxPerStep} :
          n \in Nat \ {0}

VARIABLES
    phase,      \* plan, solve, tools, answer or failed
    cycle,      \* research_cycle_count
    open,       \* WorkItems whose state is open
    needs,      \* WorkItems whose lower norms need an action
    batch,      \* requests whose tools are running
    advance,    \* advance_research_cycle of the batch
    calls,      \* requests with their results
    matched,    \* Hypotheses the last assessment of an Article names
    selected,   \* Articles some search review selected
    deferred,   \* Articles search reviews left aside
    frontier    \* decisions of the graph reviews on Article and Hypothesis

vars == <<phase, cycle, open, needs, batch, advance, calls, matched, selected,
          deferred, frontier>>
reviewVars == <<matched, selected, deferred, frontier>>

Explorations == {"legal_search", "legal_graph_neighbors"}
Fetch == "fetch_articles"
Load  == "load_evidence"

Ask(tool, w, hs, as, origin) ==
    [tool |-> tool, workItem |-> w, hypotheses |-> hs, articles |-> as, origin |-> origin]

Init ==
    /\ phase = "plan" /\ cycle = 0
    /\ open = WorkItems /\ needs = {}
    /\ batch = {} /\ advance = FALSE /\ calls = {}
    /\ matched = [a \in Articles |-> {}]
    /\ selected = {} /\ deferred = {}
    /\ frontier = [f \in Articles \X Hypotheses |-> "unreviewed"]

-----------------------------------------------------------------------------
(* What the projected context says.                                        *)

HypothesesOf(w) == {h \in Hypotheses : Owner[h] = w}
FollowUp        == {h \in Hypotheses : Owner[h] \in open}
OwnersOf(r)     == {r.workItem} \union {Owner[h] : h \in r.hypotheses}

Succeeded(tools) == {c \in calls : c.tool \in tools /\ c.ok}
Recent           == {c \in calls : c.cycle = cycle /\ c.stage = "new"}

\* fetched_article_ids_by_work_item, of all cycles or of this one.
FetchesOf(w)     == {c \in Succeeded({Fetch}) : w \in OwnersOf(c)}
Fetched(w)       == UNION {c.articles : c \in FetchesOf(w)}
FetchedNow(w)    == UNION {c.articles : c \in {x \in FetchesOf(w) : x.cycle = cycle}}
Capacity(w)      == MaxFetched - Cardinality(FetchedNow(w))

\* Texts that are in the case and not integrated yet.
Unread == {c \in Recent : c.tool \in {Fetch, Load} /\ c.ok}

\* _search_candidate_projection: Articles a search found that its WorkItem lacks.
CandidatesOf(c) == c.found \ Fetched(c.workItem)
Required == {c \in Recent : c.tool = "legal_search" /\ c.ok /\ CandidatesOf(c) # {}}
FreshFor(w) == UNION {CandidatesOf(c) : c \in {x \in Required : x.workItem = w}}

\* _carried_search_candidate_projection: reviewed and still without a text.
Carried == UNION {CandidatesOf(c) : c \in {x \in calls : x.stage = "reviewed"}}
SearchCandidates == IF Required # {} THEN UNION {CandidatesOf(c) : c \in Required} ELSE Carried

-----------------------------------------------------------------------------
(* Graph candidates: one unit of WorkItem and Hypothesis at a time.        *)

GraphCalls(h)  == {c \in Succeeded({"legal_graph_neighbors"}) : h \in c.hypotheses}
Unreviewed(h)  == {a \in UNION {c.found : c \in GraphCalls(h)} : frontier[<<a, h>>] = "unreviewed"}

\* _completed_graph_review_units_for_cycle
UnitCompleted(h) ==
    \E c \in Succeeded({Fetch}) :
        c.origin = "graph_review" /\ c.cycle = cycle /\ h \in c.hypotheses

\* _graph_review_projection: the unit discovered first.
PoolUnits     == {h \in FollowUp : Unreviewed(h) # {}}
EligibleUnits == {h \in PoolUnits : ~UnitCompleted(h)}
FoundIn(h)    == Min({c.cycle : c \in GraphCalls(h)})
Earliest(units) == {h \in units : \A k \in units : FoundIn(h) <= FoundIn(k)}
GraphUnit ==
    LET units == EligibleUnits
    IN  IF units = {} THEN {} ELSE {CHOOSE h \in Earliest(units) : TRUE}
GraphReviewUnit == {h \in GraphUnit : Capacity(Owner[h]) > 0}

\* Selected or deferred by a review, and still to be fetched for its WorkItem.
DeferredFrontiers ==
    {f \in Articles \X FollowUp : frontier[f] = "deferred" /\ f[1] \notin Fetched(Owner[f[2]])}

\* pending_candidate_review_work_item_ids
PendingFor(units) == {c.workItem : c \in Required} \union {Owner[h] : h \in units}
PendingReview     == PendingFor(GraphReviewUnit)

-----------------------------------------------------------------------------
(* Exploration sets of a Hypothesis and where the cycle stands.            *)

ExploredBy(h) == {c \in Succeeded(Explorations) : h \in c.hypotheses}
SetsUsed(h)   == {c.cycle : c \in ExploredBy(h)}
UsedNow(h)    == {c.tool : c \in {x \in ExploredBy(h) : x.cycle = cycle}}

\* _exploration_tool_hypothesis_ids
Eligible(h, tool) ==
    /\ tool \notin UsedNow(h)
    /\ UsedNow(h) # {} \/ Cardinality(SetsUsed(h)) < MaxSets

NoNewSets   == FollowUp # {} /\ \A h \in FollowUp : Cardinality(SetsUsed(h)) >= MaxSets
Exhausted   == NoNewSets /\ \A h \in FollowUp : UsedNow(h) \in {{}, Explorations}
SetComplete == FollowUp # {} /\ \A h \in FollowUp : UsedNow(h) = Explorations

CanStartNextCycle == cycle < MaxCycles
NoCapacity   == \A w \in open : Capacity(w) <= 0
CloseRequired(pending) == NoCapacity \/ (pending = {} /\ SetComplete)

\* The call of this iteration, in the order in which the loop decides it.
PurposeFor(pending, units) ==
    IF Unread # {} THEN "observation"
    ELSE IF open = {} \/ cycle >= MaxCycles \/ (pending = {} /\ Exhausted)
            \/ (CloseRequired(pending) /\ ~CanStartNextCycle) THEN "finalization"
    ELSE IF units # {} THEN "graph_selection"
    ELSE IF pending # {} THEN "search_selection"
    ELSE IF CloseRequired(pending) THEN "cycle_close"
    ELSE IF Recent # {} THEN "consume"
    ELSE "integration"
Purpose == LET units == GraphReviewUnit IN PurposeFor(PendingFor(units), units)

Calling(purpose) == phase = "solve" /\ Purpose = purpose

-----------------------------------------------------------------------------
(* Storing a decision and running its tools.                               *)

Mark(done, stage) ==
    calls' = (calls \ done) \union {[c EXCEPT !.stage = stage] : c \in done}

\* The requests are stored and run, unless the time left is the answer's.
Run(requests, start, review) ==
    /\ UNCHANGED cycle
    /\ \/ /\ Cardinality(calls) + Cardinality(requests) <= MaxCalls
          /\ phase' = "tools"
          /\ batch' = requests
          /\ advance' = ((cycle = 0 \/ start) /\ ~review)
       \/ /\ phase' = "answer"
          /\ UNCHANGED <<batch, advance>>

\* A cycle without tools opens to explore, or to review what the graph found.
Proceed(requests, start, review) ==
    IF requests # {} THEN Run(requests, start, review)
    ELSE /\ UNCHANGED <<batch, advance>>
         /\ \/ start /\ NoNewSets /\ phase' = "answer" /\ UNCHANGED cycle
            \/ /\ start /\ NoNewSets => PoolUnits # {}
               /\ phase' = "solve"
               /\ cycle' = IF start THEN cycle + 1 ELSE cycle

\* _execute_cycle: the results belong to the cycle their tools run in.
ExecuteTools ==
    /\ phase = "tools"
    /\ phase' = "solve"
    /\ cycle' = IF advance THEN cycle + 1 ELSE cycle
    /\ \E ok \in [batch -> BOOLEAN], found \in [batch -> SUBSET Articles] :
          /\ \A r \in batch : found[r] # {} => ok[r] /\ r.tool \in Explorations
          /\ calls' = calls \union
                {[tool |-> r.tool, workItem |-> r.workItem, hypotheses |-> r.hypotheses,
                  articles |-> r.articles, origin |-> r.origin, ok |-> ok[r],
                  found |-> found[r], cycle |-> cycle', stage |-> "new"] : r \in batch}
    /\ batch' = {} /\ advance' = FALSE
    /\ UNCHANGED <<open, needs, reviewVars>>

Fail ==
    /\ phase' = "failed"
    /\ UNCHANGED <<cycle, open, needs, batch, advance, calls, reviewVars>>

-----------------------------------------------------------------------------
(* Cycle 0: each open WorkItem plans its searches; the plans are one batch.*)

Explore(w, tool) ==
    {Ask(tool, w, hs, {}, "solver") :
        hs \in (SUBSET {h \in HypothesesOf(w) : Eligible(h, tool)}) \ {{}}}

PlanSearches ==
    /\ phase = "plan"
    /\ \E plan \in [open -> UNION {Explore(w, "legal_search") : w \in open}] :
          /\ \A w \in open : plan[w].workItem = w
          /\ Run({plan[w] : w \in open}, FALSE, FALSE)
    /\ UNCHANGED <<open, needs, calls, reviewVars>>

\* One of the parallel plans leaves its WorkItem without a request.
PlanOmitted == phase = "plan" /\ Cardinality(open) > 1 /\ Fail

-----------------------------------------------------------------------------
(* Requests the Solver may choose.                                         *)

\* A fetch of the Solver is for all Hypotheses of its WorkItem.
FetchOf(w, articles) == Ask(Fetch, w, HypothesesOf(w), articles, "solver")

\* It asks for texts the WorkItem lacks, within its capacity.
FetchesFor(w, articles) ==
    {FetchOf(w, as) :
        as \in {x \in (SUBSET (articles \ Fetched(w))) \ {{}} : Cardinality(x) <= Capacity(w)}}

Known == UNION {c.found \union c.articles : c \in Succeeded(Explorations \union {Fetch})}

Offers(w, tools, articles) ==
    UNION {Explore(w, t) : t \in (tools \ {Fetch}) \ (IF Known = {} THEN {"legal_graph_neighbors"} ELSE {})}
      \union (IF Fetch \in tools THEN FetchesFor(w, articles) ELSE {})

AtMostOne(offers) == {{}} \union {{r} : r \in offers}

\* Candidates assessed for one of the WorkItems; new ones have no assessment.
AssessedFor(ws) ==
    IF Required # {} THEN {} ELSE {a \in Carried : \E h \in matched[a] : Owner[h] \in ws}

DeferredFor(w) == {f[1] : f \in {x \in DeferredFrontiers : Owner[x[2]] = w}}

\* _project_dependency_action_context
ScopedCandidates(ws) == (AssessedFor(ws) \ deferred) \ UNION {Fetched(w) : w \in ws}

\* _dependency_action_has_unexplored_graph_root
UnexploredRoot(ws) ==
    \E w \in ws : /\ Fetched(w) # {}
                  /\ \A c \in Succeeded({"legal_graph_neighbors"}) : c.workItem # w

RequiresGraph(ws) == ScopedCandidates(ws) = {} /\ UnexploredRoot(ws)

\* _dependency_action_blocked_tool_names: a fetch, else the graph, else a search.
ActionTools(ws) ==
    IF ScopedCandidates(ws) # {} THEN {Fetch}
    ELSE IF RequiresGraph(ws) THEN {"legal_graph_neighbors"}
    ELSE {"legal_search"}

ActionOffers(w, ws) == Offers(w, ActionTools(ws), ScopedCandidates(ws))

ObservationOffers(w) ==
    Offers(w, Explorations \union {Fetch}, AssessedFor({w}) \union DeferredFor(w))

-----------------------------------------------------------------------------
(* New texts are read by the WorkItems they were fetched for.              *)

Observed == UNION {OwnersOf(c) : c \in Unread} \intersect open

\* _pending_dependency_action_contexts: WorkItems that only have to act.
Acting == (needs \ Observed) \ PendingReview

\* Fault: the requests of a WorkItem with unreviewed candidates are kept.
KeepAll(requests) == requests

\* _defer_actions_until_candidate_review
Deferral(requests) == {r \in requests : r.workItem \notin PendingReview}

\* Fault: the searches next to the texts count as read.
ReadEverything == Recent

\* _grounding_observation_context: only the results that brought texts.
Integrated == Unread

Observe ==
    /\ Calling("observation")
    /\ \E outcome \in [Observed -> {"open", "needs", "closed"}] :
          LET closed == {w \in Observed : outcome[w] = "closed"}
              asking == {w \in Observed : outcome[w] = "needs"}
              acting == Acting
          IN
          /\ open' = open \ closed
          /\ needs' = (needs \ Observed) \union asking
          /\ \E pick \in [(Observed \ closed) \union acting ->
                             UNION {AtMostOne(ObservationOffers(w) \union ActionOffers(w, {w})) :
                                       w \in Observed \union acting}] :
                /\ \A w \in DOMAIN pick :
                      pick[w] \in AtMostOne(IF w \in acting THEN ActionOffers(w, {w})
                                            ELSE ObservationOffers(w))
                /\ CloseRequired(PendingReview) => \A w \in DOMAIN pick : pick[w] = {}
                /\ Proceed(Deferral(UNION {pick[w] : w \in DOMAIN pick}), FALSE, FALSE)
    /\ Mark(Integrated, "integrated")
    /\ UNCHANGED reviewVars

\* Results without a new text are consumed without a call of the model.
Consume ==
    /\ Calling("consume")
    /\ Mark(Recent, "integrated")
    /\ UNCHANGED <<phase, cycle, open, needs, batch, advance, reviewVars>>

-----------------------------------------------------------------------------
(* Candidates of searches are selected per WorkItem and fetched for it.    *)

\* _search_review_work_item_contexts
Reviewing == {w \in open : FreshFor(w) # {}}

\* No open WorkItem, or one that cannot answer for the requests of a closed one.
ReviewWithoutScope ==
    /\ Calling("search_selection")
    /\ \/ Reviewing = {}
       \/ Cardinality(Reviewing) = 1 /\ \E c \in Required : c.workItem \notin Reviewing
    /\ Fail

ArticlesFor(w, selection) == {s[1] : s \in {x \in selection : Owner[x[2]] = w}}

\* Fault: an Article is fetched for one of the WorkItems that selected it.
FetchForOne(selection) ==
    {Ask(Fetch, w, {s[2] : s \in {x \in selection : Owner[x[2]] = w}},
         {a \in ArticlesFor(w, selection) \ Fetched(w) :
             w = CHOOSE v \in WorkItems : a \in ArticlesFor(v, selection)}, "search_review") :
        w \in {v \in WorkItems : ArticlesFor(v, selection) # {}}}

\* _search_review_fetch_requests: one fetch per WorkItem that lacks the text.
SearchReviewFetches(selection) ==
    {Ask(Fetch, w, {s[2] : s \in {x \in selection : Owner[x[2]] = w}},
         ArticlesFor(w, selection) \ Fetched(w), "search_review") :
        w \in {v \in WorkItems : ArticlesFor(v, selection) \ Fetched(v) # {}}}

\* Each WorkItem judges its candidates for its Hypotheses, within its capacity.
Judgements == UNION {FreshFor(w) \X HypothesesOf(w) : w \in Reviewing}
WithinCapacity(selection) ==
    \A w \in Reviewing : Cardinality(ArticlesFor(w, selection)) <= Capacity(w)

\* The assessment of a selected Article names the Hypotheses it was selected for.
Matching(selection) ==
    [a \in Articles |->
        LET hs == {s[2] : s \in {x \in selection : x[1] = a}}
        IN  IF hs = {} THEN matched[a] ELSE hs]

\* The candidates that no WorkItem selected are left aside.
SetAside(chosen) == (deferred \union SearchCandidates) \ (selected \union chosen)

\* The WorkItems' reviews are merged by Article into one.
SelectSearch ==
    /\ Calling("search_selection")
    /\ Reviewing # {}
    /\ Cardinality(Reviewing) = 1 => \A c \in Required : c.workItem \in Reviewing
    /\ \E selection \in SUBSET Judgements :
          LET chosen == {s[1] : s \in selection} IN
          /\ WithinCapacity(selection)
          /\ matched' = Matching(selection)
          /\ selected' = selected \union chosen
          /\ deferred' = SetAside(chosen)
          /\ Proceed(SearchReviewFetches(selection), FALSE, TRUE)
    /\ Mark(Required, "reviewed")
    /\ UNCHANGED <<open, needs, frontier>>

-----------------------------------------------------------------------------
(* Candidates of the graph, for the Hypothesis of the current unit.        *)

\* A batch of the unit's candidates.
Batches(h) == kSubset(Min({MaxBatch, Cardinality(Unreviewed(h))}), Unreviewed(h))

\* _graph_review_fetch_request: selected Articles without a text.
GraphFetch(h, articles) ==
    IF articles = {} THEN {} ELSE {Ask(Fetch, Owner[h], {h}, articles, "graph_review")}

\* _graph_review_load_request: the text is known and not bound to the Hypothesis.
GraphLoad(h, articles) ==
    IF articles = {} THEN {} ELSE {Ask(Load, Owner[h], {h}, articles, "graph_review")}

SelectGraph ==
    /\ Calling("graph_selection")
    /\ \E h \in GraphReviewUnit :
       \E shown \in Batches(h) :
       \E decision \in [shown -> {"selected", "deferred", "rejected"}] :
          LET chosen == {a \in shown : decision[a] = "selected"}
              toFetch == chosen \ Fetched(Owner[h])
          IN
          /\ Cardinality(toFetch) <= Min({MaxFrontier, Capacity(Owner[h])})
          /\ frontier' = [f \in DOMAIN frontier |->
                IF f[1] \in shown /\ f[2] = h THEN decision[f[1]] ELSE frontier[f]]
          /\ Mark({c \in GraphCalls(h) : c.stage = "new" /\ c.found \intersect shown # {}},
                  "integrated")
          /\ \E unbound \in SUBSET (chosen \intersect Fetched(Owner[h])) :
                Proceed(GraphFetch(h, toFetch) \union GraphLoad(h, unbound), FALSE, TRUE)
    /\ UNCHANGED <<open, needs, matched, selected, deferred>>

-----------------------------------------------------------------------------
(* The cycle ends, or the Solver chooses what to do next.                  *)

\* _deferred_frontier_fetch_request: all in one request of the first one's WorkItem.
DeferredFetch(frontiers, first) ==
    Ask(Fetch, Owner[first[2]], {f[2] : f \in frontiers}, {f[1] : f \in frontiers}, "deferred")

\* Each deferred candidate is fetched, given up or carried into the next cycle.
Resolutions ==
    {r \in [DeferredFrontiers -> {"fetch_next_cycle", "carry_forward", "no_longer_needed"}] :
        Cardinality({f[1] : f \in {x \in DOMAIN r : r[x] = "fetch_next_cycle"}}) <= MaxFetched}

CloseCycle ==
    /\ Calling("cycle_close")
    /\ \E resolution \in Resolutions :
          LET fetching == {f \in DOMAIN resolution : resolution[f] = "fetch_next_cycle"} IN
          /\ frontier' = [f \in DOMAIN frontier |->
                IF f \in DOMAIN resolution /\ resolution[f] = "no_longer_needed"
                THEN "rejected" ELSE frontier[f]]
          /\ IF fetching = {} THEN Proceed({}, TRUE, FALSE)
             ELSE \E first \in fetching : Run({DeferredFetch(fetching, first)}, TRUE, FALSE)
    /\ Mark(Recent, "integrated")
    /\ UNCHANGED <<open, needs, matched, selected, deferred>>

\* Lower norms left to find: at most one request for each, or the next cycle.
DependencyAction ==
    /\ Calling("integration")
    /\ needs # {}
    /\ \/ /\ CanStartNextCycle
          /\ ~RequiresGraph(needs)
          /\ Proceed({}, TRUE, FALSE)
       \/ \E pick \in [needs -> UNION {AtMostOne(ActionOffers(w, needs)) : w \in needs}] :
             /\ \A w \in needs : pick[w] \in AtMostOne(ActionOffers(w, needs))
             /\ Cardinality({w \in needs : pick[w] # {}}) \in 1 .. MaxPerStep
             /\ Run(UNION {pick[w] : w \in needs}, FALSE, FALSE)
    /\ UNCHANGED <<open, needs, calls, reviewVars>>

\* One request of a kind for a WorkItem: more of them are consolidated.
Consolidated(requests) ==
    \A r, s \in requests : r.tool = s.tool /\ r.workItem = s.workItem => r = s

\* What the Solver may ask for with the WorkItems in ws left open.
IntegrationOffers(ws) ==
    UNION {Offers(w, Explorations \union {Fetch},
                  SearchCandidates \union {f[1] : f \in DeferredFrontiers}) : w \in ws}

Integrate ==
    /\ Calling("integration")
    /\ needs = {}
    /\ \E closed \in SUBSET open : open' = open \ closed
    /\ \/ CanStartNextCycle /\ open' # {} /\ Proceed({}, TRUE, FALSE)
       \/ \E requests \in UNION {kSubset(n, IntegrationOffers(open')) : n \in 0 .. MaxPerStep} :
             /\ Consolidated(requests)
             /\ Proceed(requests, FALSE, FALSE)
    /\ UNCHANGED <<needs, calls, reviewVars>>

Finalize ==
    /\ Calling("finalization")
    /\ phase' = "answer"
    /\ UNCHANGED <<cycle, open, needs, batch, advance, calls, reviewVars>>

\* The time left is the answer's; unread texts are left to the answer.
TimeRunsOut ==
    /\ phase = "solve"
    /\ Purpose # "finalization"
    /\ phase' = "answer"
    /\ UNCHANGED <<cycle, open, needs, batch, advance, calls, reviewVars>>

Next ==
    \/ PlanSearches \/ PlanOmitted \/ ExecuteTools
    \/ Observe \/ Consume \/ SelectSearch \/ ReviewWithoutScope \/ SelectGraph
    \/ CloseCycle \/ DependencyAction \/ Integrate \/ Finalize \/ TimeRunsOut

Spec == Init /\ [][Next]_vars

-----------------------------------------------------------------------------
(* Properties.                                                             *)

(* Inside a WorkItem texts and candidates come before new requests: what   *)
(* the Solver asks for starts only when no text of that WorkItem is unread *)
(* and none of the candidates presented for review is its own (LR-045,     *)
(* IMPLEMENTATION-GUIDELINES "WorkItem内の処理順").                          *)
ReviewBeforeExploring ==
    [][ batch' # {} => \A r \in batch' \ batch :
            r.origin = "solver" =>
                /\ r.workItem \notin PendingReview
                /\ \A c \in calls' : c.tool \in {Fetch, Load} /\ c.ok /\ c.stage = "new"
                                        /\ c.cycle = cycle => r.workItem \notin OwnersOf(c)
      ]_vars

(* An Article that a search review selected for Hypotheses of several      *)
(* WorkItems is fetched for each of them: between two steps each of them   *)
(* has the text, is waiting for it, or had its own fetch of it fail.       *)
SelectedForOwner ==
    phase \in {"solve", "tools"} =>
        \A a \in selected : \A h \in matched[a] :
            \E r \in {x \in batch \union calls : x.tool = Fetch /\ a \in x.articles} :
                Owner[h] \in OwnersOf(r)

(* The loop never passes over what a search found: a search is done with   *)
(* by a review of its candidates, or when its WorkItem has all the texts,  *)
(* also if texts and candidates arrive together or the cycle ends.         *)
NothingOverlooked ==
    phase \in {"solve", "tools"} =>
        \A c \in Succeeded({"legal_search"}) :
            c.stage = "integrated" \/ (c.stage = "new" /\ c.cycle < cycle) => CandidatesOf(c) = {}
=============================================================================
