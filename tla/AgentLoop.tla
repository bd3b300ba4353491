------------------------------ MODULE AgentLoop ------------------------------
(***************************************************************************)
(* AgentLoop (loop.py): the loop that alternates Solver calls, tool        *)
(* batches and reviews until the case has an answer or the run fails.      *)
(* Wall time is a counter that only falls; it may fall between any two     *)
(* steps, because the code reads the clock again at each of them.  What    *)
(* the model returns is any decision its adapter can build and             *)
(* apply_solver_decision accepts.  The stored case equals the one in       *)
(* memory between steps: every step that changes it ends with a save.      *)
(***************************************************************************)
EXTENDS CaseState

CONSTANTS
    WallTime,          \* limits.max_wall_time_sec
    Reserve,           \* limits.finalization_reserve_sec
    CloseReserve,      \* limits.cycle_close_reserve_sec
    MinNextCycle,      \* limits.min_next_cycle_budget_sec
    MaxBatch,          \* limits.max_tool_requests_per_step
    ReviewerEnabled,   \* profile.reviewer.enabled
    MaxRevisions       \* profile.reviewer.max_revisions

MaxAttempts == 3       \* MAX_SOLVER_DECISION_ATTEMPTS

ASSUME RunAssumption ==
    /\ WallTime \in Nat
    /\ Reserve \in 1 .. WallTime - 1
    /\ CloseReserve \in 1 .. WallTime - 1
    /\ MinNextCycle \in 1 .. WallTime - 1
    /\ MaxBatch \in Nat \ {0}
    /\ ReviewerEnabled \in BOOLEAN
    /\ MaxRevisions \in Nat

VARIABLES
    pc,            \* solve, attempt, context, call, tools, judge, review or done
    remaining,     \* remaining wall time
    seen,          \* remaining_wall_time_sec of the context being used
    findings,      \* reviewer_findings is not empty
    revisions,     \* revisions the Reviewer has asked for
    attempt,       \* rejected decisions of this iteration
    finalizeOnly,  \* finalize_only of this iteration
    pending,       \* pending_grounding_observation of this iteration
    revisionCall,  \* hypothesis_revision_call of this iteration
    batch,         \* requests whose tools are running
    advance        \* advance_research_cycle of the batch

iterationVars == <<attempt, seen, finalizeOnly, pending, revisionCall, batch, advance>>
workVars      == <<work, generation, contradicted, adopted>>
vars == <<caseVars, pc, remaining, findings, revisions, iterationVars>>

TypeOK ==
    /\ CaseTypeOK
    /\ pc \in {"solve", "attempt", "context", "call", "tools", "judge", "review", "done"}
    /\ remaining \in 0 .. WallTime
    /\ seen \in 0 .. WallTime
    /\ findings \in BOOLEAN
    /\ revisions \in 0 .. MaxRevisions
    /\ attempt \in 0 .. MaxAttempts - 1
    /\ finalizeOnly \in BOOLEAN
    /\ pending \in BOOLEAN
    /\ revisionCall \in BOOLEAN
    /\ batch \subseteq Request
    /\ advance \in BOOLEAN

Init ==
    /\ CaseInit
    /\ pc = "solve"
    /\ remaining = WallTime
    /\ seen = 0
    /\ findings = FALSE
    /\ revisions = 0
    /\ attempt = 0
    /\ finalizeOnly = FALSE /\ pending = FALSE /\ revisionCall = FALSE
    /\ batch = {}
    /\ advance = FALSE

-----------------------------------------------------------------------------
(* Time passes; the run ends; control returns to the head of the loop.     *)

Tick ==
    /\ pc # "done"
    /\ remaining > 0
    /\ remaining' = remaining - 1
    /\ UNCHANGED <<caseVars, pc, findings, revisions, iterationVars>>

\* Fault: a run without a deadline.
NeverOutOfTime(budget) == FALSE
OutOfTime(budget) == budget = 0

ForgetIteration ==
    /\ attempt' = 0 /\ seen' = 0
    /\ finalizeOnly' = FALSE /\ pending' = FALSE /\ revisionCall' = FALSE
    /\ batch' = {} /\ advance' = FALSE

NextIteration == pc' = "solve" /\ ForgetIteration

\* _finish; the failures raised as exceptions end here too.
Finish(status, reason) ==
    /\ runStatus' = status
    /\ stopReason' = reason
    /\ pc' = "done"
    /\ ForgetIteration

Fail(reason) ==
    /\ Finish("failed", reason)
    /\ UNCHANGED <<cycles, stepTimeout, answer, verdict, workVars, revised, requests,
                   results, integrated, reviewed, remaining, findings, revisions>>

\* A call ran out of its own time: go on to finalization with the reserved time.
StepTimeout ==
    /\ stepTimeout' = TRUE
    /\ stopReason' = "cycle_step_timeout"
    /\ NextIteration

-----------------------------------------------------------------------------
(* The head of one iteration.                                              *)

CycleLimitReached  == cycles >= MaxCycles
TimeReserveReached == remaining <= Reserve

\* Fault: a step that timed out is forgotten on the way to the next iteration.
FinalizeOnlyByLimits == CycleLimitReached \/ TimeReserveReached \/ stopReason = "exploration_limit_reached"

FinalizeOnly ==
    \/ CycleLimitReached
    \/ TimeReserveReached
    \/ stepTimeout
    \/ stopReason = "exploration_limit_reached"

\* Fault: no text is integrated once the run has to finalize.
PendingUnlessFinalizing ==
    /\ ~FinalizeOnly
    /\ cycles > 0 /\ ~stepTimeout /\ ~findings /\ UnintegratedGrounding # {}

PendingGrounding ==
    /\ cycles > 0
    /\ ~stepTimeout
    /\ ~findings
    /\ UnintegratedGrounding # {}

\* Fault: the cycles already revised are not looked up.
RevisionCallAgain == cycles > 0 /\ contradicted = cycles /\ ~findings

RevisionCall ==
    /\ cycles > 0
    /\ cycles \notin revised
    /\ contradicted = cycles
    /\ ~findings

BeginIteration ==
    /\ pc = "solve"
    /\ ~OutOfTime(remaining)
    /\ pc' = "attempt"
    /\ stopReason' = IF CycleLimitReached THEN "max_research_cycles"
                     ELSE IF TimeReserveReached THEN "finalization_reserve"
                     ELSE stopReason
    /\ finalizeOnly' = FinalizeOnly
    /\ pending' = PendingGrounding
    /\ revisionCall' = RevisionCall
    /\ UNCHANGED <<runStatus, cycles, stepTimeout, answer, verdict, workVars, revised,
                   requests, results, integrated, reviewed, remaining, seen, findings,
                   revisions, attempt, batch, advance>>

WallTimeOver ==
    /\ pc = "solve"
    /\ OutOfTime(remaining)
    /\ Fail("max_wall_time")

-----------------------------------------------------------------------------
(* One decision attempt: read the clock, project the case into a context.  *)

ModelBudget == IF finalizeOnly THEN remaining
               ELSE IF remaining > Reserve THEN remaining - Reserve ELSE 0

BeginAttempt ==
    /\ pc = "attempt"
    /\ ~OutOfTime(ModelBudget)
    /\ pc' = "context"
    /\ seen' = remaining
    /\ UNCHANGED <<caseVars, remaining, findings, revisions, attempt, finalizeOnly,
                   pending, revisionCall, batch, advance>>

AttemptTimeout ==
    /\ pc = "attempt"
    /\ OutOfTime(ModelBudget)
    /\ IF finalizeOnly
       THEN Fail("model_timeout")
       ELSE /\ StepTimeout
            /\ UNCHANGED <<runStatus, cycles, answer, verdict, workVars, revised, requests,
                           results, integrated, reviewed, remaining, findings, revisions>>

\* finalize_only as build_solver_context receives it.
MustFinalize == finalizeOnly /\ ~pending

CanStartNextCycle ==
    /\ ~MustFinalize
    /\ cycles < MaxCycles
    /\ seen > Reserve + MinNextCycle

TimeRequiresClose == ~MustFinalize /\ seen <= Reserve + CloseReserve

GraphBatch == IF CapacityLeft /\ ~TimeRequiresClose THEN GraphUnit ELSE {}

CandidatesPending == ~MustFinalize /\ (GraphBatch # {} \/ FreshSearches # {})

\* A contradicting text of the current cycle is what the revision reads.
RevisionReady == revisionCall /\ ~pending

ExplorationOver ==
    /\ ~finalizeOnly /\ ~pending /\ ~CandidatesPending /\ ~RevisionReady
    /\ Exhausted

CycleCloseRequired ==
    \/ Open(work) /\ ~CapacityLeft
    \/ TimeRequiresClose
    \/ stepTimeout
    \/ /\ ~finalizeOnly /\ ~pending /\ ~CandidatesPending /\ ~RevisionReady
       /\ SetComplete \/ Exhausted

Finalizes ==
    /\ ~pending /\ ~RevisionReady
    /\ \/ work = "resolved"
       \/ CycleCloseRequired /\ (ExplorationOver \/ ~CanStartNextCycle)

BuildContext ==
    /\ pc = "context"
    /\ pc' = "call"
    /\ stopReason' = IF ExplorationOver THEN "exploration_limit_reached" ELSE stopReason
    /\ finalizeOnly' = (finalizeOnly \/ ExplorationOver \/ Finalizes)
    /\ UNCHANGED <<runStatus, cycles, stepTimeout, answer, verdict, workVars, revised,
                   requests, results, integrated, reviewed, remaining, seen, findings,
                   revisions, attempt, pending, revisionCall, batch, advance>>

GraphReviewCall  == GraphBatch # {} /\ ~pending /\ ~finalizeOnly /\ ~findings
SearchReviewCall == FreshSearches # {} /\ ~GraphReviewCall /\ ~pending /\ ~finalizeOnly
                    /\ ~findings
IntegrationCall  == cycles > 0 \/ findings

\* _grounding_observation_context narrows the results to the shown texts.
RecentShown == IF pending THEN Shown(UnintegratedGrounding) ELSE RecentResults

\* _solver_profile_for_context
Purpose ==
    IF GraphReviewCall THEN "graph_selection"
    ELSE IF SearchReviewCall THEN "search_selection"
    ELSE IF findings THEN "reviewer_revision"
    ELSE IF pending THEN "observation_integration"
    ELSE IF RevisionReady /\ ~finalizeOnly /\ (CycleCloseRequired \/ ~Open(work))
         THEN "hypothesis_revision"
    ELSE IF MustFinalize THEN "finalization"
    ELSE IF CycleCloseRequired THEN "cycle_close"
    ELSE IF IntegrationCall /\ RecentShown # {} THEN "observation_integration"
    ELSE IF IntegrationCall THEN "integration"
    ELSE IF work = "no_hypothesis" THEN "hypothesis_generation"
    ELSE IF work = "undecomposed" THEN "research"
    ELSE "search_planning"

-----------------------------------------------------------------------------
(* What a decision may hold.                                               *)

Rank == [legal_search |-> 1, legal_graph_neighbors |-> 2,
         fetch_articles |-> 3, graph_review_fetch |-> 4]

\* The requests of a decision, numbered in the order the decision lists them; its one
\* fetch asks for `size` Articles.
Asked(tools, size) ==
    {[id |-> Cardinality(requests) + Cardinality({u \in tools : Rank[u] <= Rank[t]}),
      tool |-> t, hypothesis |-> generation,
      articles |-> IF t \in Fetches THEN size ELSE 0] : t \in tools}

FetchSizes == 1 .. FetchCapacity

\* Fault: only the total of the sets is limited.
WithinTotalOnly(tools) ==
    tools \intersect Explorations # {} /\ UsedInCycle(generation) = {}
        => Cardinality(SetsUsed(generation) \union {cycles}) <= MaxSets

\* _validate_exploration_set_limits: the cycle is the one that is current now.
WithinSetLimits(tools) ==
    LET explorations == tools \intersect Explorations
        used == UsedInCycle(generation)
    IN  /\ explorations \intersect used = {}
        /\ explorations # {} /\ used = {}
             => Cardinality(SetsUsed(generation) \union {cycles}) <= MaxSets

\* Fault: the Articles already fetched in the cycle are not counted.
WithinStepCapacity(tools, size, start) == tools \intersect Fetches # {} => size <= FetchCapacity

WithinFetchCapacity(tools, size, start) ==
    LET taken == IF start THEN 0 ELSE FetchedIn(CurrentCycle)
    IN  tools \intersect Fetches # {} => taken + size <= FetchCapacity

\* The batches a Solver may list; MaxRequests bounds the run.
Askable(tools, size, start) ==
    /\ tools \subseteq Explorations \union {"fetch_articles"}
    /\ Cardinality(tools) <= MaxBatch
    /\ Cardinality(requests) + Cardinality(tools) <= MaxRequests
    /\ tools \ {"legal_search"} # {} => Candidates # {}
    /\ WithinSetLimits(tools)
    /\ WithinFetchCapacity(tools, size, start)

Observable == {"open", "open_settled", "resolved"}

\* Judging the shown texts: cite some, let one contradict the Hypothesis, and
\* close or keep the WorkItem.
Observe ==
    \E texts \in SUBSET Ids(Shown(UnintegratedGrounding)) :
        /\ work' \in Observable
        /\ adopted' = adopted \union texts
        /\ contradicted' \in {contradicted} \union (IF texts # {} THEN {cycles} ELSE {})
        /\ UNCHANGED generation

\* An integration may also split the question or give a WorkItem its Hypothesis.
FreeUpdate ==
    CASE work = "undecomposed"  -> /\ work' \in {"undecomposed", "no_hypothesis", "open"}
                                   /\ UNCHANGED <<generation, contradicted, adopted>>
      [] work = "no_hypothesis" -> /\ work' \in {"no_hypothesis", "open"}
                                   /\ UNCHANGED <<generation, contradicted, adopted>>
      [] work \in Observable    -> Observe

-----------------------------------------------------------------------------
(* What the loop does with an accepted decision.                           *)

\* Fault: requests that are not run for lack of time stay in the case.
RunToolsKeepingRequests(asked, start, review) ==
    /\ requests' = requests \union asked
    /\ IF remaining <= Reserve
       THEN /\ stopReason' = "finalization_reserve"
            /\ findings' = FALSE
            /\ NextIteration
            /\ UNCHANGED <<cycles, stepTimeout>>
       ELSE /\ batch' = asked
            /\ advance' = ((cycles = 0 \/ start) /\ ~review)
            /\ pc' = "tools"
            /\ UNCHANGED <<cycles, stepTimeout, stopReason, findings, attempt, seen,
                           finalizeOnly, pending, revisionCall>>

\* _execute_cycle starts unless the answer reserve has been reached.
RunTools(asked, start, review) ==
    IF remaining <= Reserve
    THEN /\ stopReason' = "finalization_reserve"
         /\ findings' = FALSE
         /\ NextIteration
         /\ UNCHANGED <<cycles, stepTimeout, requests>>
    ELSE /\ requests' = requests \union asked
         /\ batch' = asked
         /\ advance' = ((cycles = 0 \/ start) /\ ~review)
         /\ pc' = "tools"
         /\ UNCHANGED <<cycles, stepTimeout, stopReason, findings, attempt, seen,
                        finalizeOnly, pending, revisionCall>>

\* Another cycle opens only if some Hypothesis has an exploration set left, or
\* Graph candidates wait outside the batch.  In that case the Solver that goes on has to
\* answer review_next_cycle for them (validation.py:912-948): the other two answers are
\* for a finalization.
StartWithoutTools ==
    /\ stepTimeout' = FALSE
    /\ IF NoNewSets /\ GraphPool \ GraphBatch = {}
       THEN stopReason' = "exploration_limit_reached" /\ UNCHANGED cycles
       ELSE stopReason' = "none" /\ cycles' = cycles + 1

Continue(asked, start, review) ==
    /\ UNCHANGED <<runStatus, answer, verdict, results, remaining, revisions>>
    /\ IF asked # {}
       THEN RunTools(asked, start, review)
       ELSE /\ NextIteration
            /\ IF start THEN StartWithoutTools
                        ELSE UNCHANGED <<cycles, stepTimeout, stopReason>>
            /\ UNCHANGED <<requests, findings>>

\* An answer limited to what is known names every open WorkItem.
Answer ==
    /\ answer' = IF Open(work') THEN "limited" ELSE "complete"
    /\ stepTimeout' = FALSE
    /\ stopReason' = "none"
    /\ findings' = FALSE
    /\ pc' = "judge"
    /\ ForgetIteration
    /\ UNCHANGED <<runStatus, cycles, verdict, requests, results, remaining, revisions>>

MarkIntegrated(ids) == integrated' = integrated \union ids

-----------------------------------------------------------------------------
(* The Solver's decision, one action per purpose of the call.              *)

Calling(purpose) == pc = "call" /\ Purpose = purpose

Decompose ==
    /\ Calling("research")
    /\ work' = "no_hypothesis"
    /\ Continue({}, FALSE, FALSE)
    /\ UNCHANGED <<generation, contradicted, adopted, revised, integrated, reviewed>>

GenerateHypothesis ==
    /\ Calling("hypothesis_generation")
    /\ work' = "open"
    /\ Continue({}, FALSE, FALSE)
    /\ UNCHANGED <<generation, contradicted, adopted, revised, integrated, reviewed>>

PlanSearch ==
    /\ Calling("search_planning")
    /\ Askable({"legal_search"}, 1, FALSE)
    /\ Continue(Asked({"legal_search"}, 1), FALSE, FALSE)
    /\ UNCHANGED <<workVars, revised, integrated, reviewed>>

\* A review of candidates runs the fetch it selects in the same cycle.
ReviewCandidates(ids, fetch) ==
    /\ MarkIntegrated(ids)
    /\ reviewed' = reviewed \union ids
    /\ \E tools \in {{}, {fetch}}, size \in FetchSizes :
          /\ Cardinality(requests) + Cardinality(tools) <= MaxRequests
          /\ WithinFetchCapacity(tools, size, FALSE)
          /\ Continue(Asked(tools, size), FALSE, TRUE)
    /\ UNCHANGED <<workVars, revised>>

SelectGraph  == /\ Calling("graph_selection")
                /\ ReviewCandidates(Ids(GraphBatch), "graph_review_fetch")

SelectSearch == /\ Calling("search_selection")
                /\ ReviewCandidates(Ids(FreshSearches), "fetch_articles")

\* Results without new text are consumed without an update; new texts are judged,
\* with at most one tool, kept back while the cycle closes or candidates wait.
IntegrateObservation ==
    /\ Calling("observation_integration")
    /\ MarkIntegrated(Ids(RecentShown))
    /\ IF pending
       THEN /\ Observe
            /\ \E tools \in SUBSET (Explorations \union {"fetch_articles"}), size \in FetchSizes :
                  /\ Cardinality(tools) <= 1
                  /\ tools # {} => ~CycleCloseRequired /\ ~CandidatesPending /\ Open(work')
                  /\ Askable(tools, size, FALSE)
                  /\ Continue(Asked(tools, size), FALSE, FALSE)
       ELSE /\ Continue({}, FALSE, FALSE)
            /\ UNCHANGED workVars
    /\ UNCHANGED <<revised, reviewed>>

\* The contradicted Hypothesis is replaced, or kept; never the end of the cycle.
ReviseHypothesis ==
    /\ Calling("hypothesis_revision")
    /\ revised' = revised \union {CurrentCycle}
    /\ \/ /\ work' = "open"
          /\ generation' = generation + 1
          /\ contradicted' = 0
          /\ adopted' = {}
       \/ UNCHANGED workVars
    /\ Continue({}, FALSE, FALSE)
    /\ UNCHANGED <<integrated, reviewed>>

\* Fault: closing a cycle consumes none of its results.
CloseCycleUnmarked ==
    /\ Calling("cycle_close")
    /\ Open(work) /\ CanStartNextCycle
    /\ Continue({}, TRUE, FALSE)
    /\ UNCHANGED <<workVars, revised, integrated, reviewed>>

\* Only a next cycle, with the fetch of a deferred Graph candidate or without.
CloseCycle ==
    /\ Calling("cycle_close")
    /\ Open(work) /\ CanStartNextCycle
    /\ MarkIntegrated(Ids(RecentShown))
    /\ \E tools \in {{}, {"fetch_articles"}}, size \in FetchSizes :
          /\ tools # {} => \E r \in GraphResults : r.id \in reviewed
          /\ Cardinality(requests) + Cardinality(tools) <= MaxRequests
          /\ Continue(Asked(tools, size), TRUE, FALSE)
    /\ UNCHANGED <<workVars, revised, reviewed>>

\* integration and reviewer_revision: the Solver chooses tools, the next cycle or
\* the answer; a cycle that must close turns `continue` into a plain next cycle.
Integrate ==
    /\ Calling("integration") \/ Calling("reviewer_revision")
    /\ FreeUpdate
    /\ \/ /\ Open(work') => MustFinalize \/ ~CanStartNextCycle
          /\ Answer
       \/ /\ ~MustFinalize
          /\ \E tools \in SUBSET (Explorations \union {"fetch_articles"}),
                size \in FetchSizes, start \in BOOLEAN :
                /\ start => CanStartNextCycle /\ Open(work')
                /\ CycleCloseRequired => start /\ tools = {}
                /\ tools # {} => work' \in {"open", "open_settled"}
                /\ Askable(tools, size, start)
                /\ Continue(Asked(tools, size), start, FALSE)
    /\ UNCHANGED <<revised, integrated, reviewed>>

Finalize ==
    /\ Calling("finalization")
    /\ UNCHANGED workVars
    /\ Answer
    /\ UNCHANGED <<revised, integrated, reviewed>>

-----------------------------------------------------------------------------
(* A call that brings no accepted decision.                                *)

\* Fault: one attempt too many.
RejectOnceMore ==
    /\ pc = "call"
    /\ IF attempt + 1 <= MaxAttempts
       THEN /\ attempt' = attempt + 1
            /\ pc' = "attempt"
            /\ seen' = 0
            /\ UNCHANGED <<caseVars, remaining, findings, revisions, finalizeOnly,
                           pending, revisionCall, batch, advance>>
       ELSE Fail("protocol_error")

RejectDecision ==
    /\ pc = "call"
    /\ IF attempt + 1 < MaxAttempts
       THEN /\ attempt' = attempt + 1
            /\ pc' = "attempt"
            /\ seen' = 0
            /\ UNCHANGED <<caseVars, remaining, findings, revisions, finalizeOnly,
                           pending, revisionCall, batch, advance>>
       ELSE Fail("protocol_error")

ModelFails ==
    /\ pc = "call"
    /\ \E reason \in {"protocol_error", "provider_error", "context_capacity_exceeded"} :
          Fail(reason)

CallTimeout ==
    /\ pc = "call"
    /\ IF finalizeOnly \/ stepTimeout
       THEN Fail("model_timeout")
       ELSE /\ StepTimeout
            /\ UNCHANGED <<runStatus, cycles, answer, verdict, workVars, revised, requests,
                           results, integrated, reviewed, remaining, findings, revisions>>

\* An observation that ends late keeps the part of its update already validated.
CheckpointTimeout ==
    /\ pc = "call"
    /\ Purpose \in {"observation_integration", "cycle_close"}
    /\ IF Purpose = "observation_integration" /\ pending THEN Observe ELSE UNCHANGED workVars
    /\ StepTimeout
    /\ UNCHANGED <<runStatus, cycles, answer, verdict, revised, requests, results,
                   integrated, reviewed, remaining, findings, revisions>>

-----------------------------------------------------------------------------
(* Tools, and the review of an answer.                                     *)

BatchCycle == IF advance THEN cycles + 1 ELSE CurrentCycle

ResultOf(request, outcome) ==
    [id |-> request.id, tool |-> request.tool, hypothesis |-> request.hypothesis,
     articles |-> request.articles, cycle |-> BatchCycle, status |-> outcome.status, yields |-> outcome.yields]

\* _execute_cycle: every request gets its result, all saved in one step.
ExecuteCycle ==
    /\ pc = "tools"
    /\ \E outcome \in [batch -> Outcomes] :
          results' = results \union {ResultOf(q, outcome[q]) : q \in batch}
    /\ cycles' = IF advance THEN BatchCycle ELSE cycles
    /\ stepTimeout' = FALSE
    /\ stopReason' = "none"
    /\ findings' = FALSE
    /\ NextIteration
    /\ UNCHANGED <<runStatus, answer, verdict, workVars, revised, requests, integrated,
                   reviewed, remaining, revisions>>

\* Two tools disagree about an Evidence id, or a result breaks its contract.
ToolConflict ==
    /\ pc = "tools"
    /\ Fail("protocol_error")

Complete == Finish("completed", stopReason)

\* The end of _run_solver_until_answer in run().
Judge ==
    /\ pc = "judge"
    /\ IF ~ReviewerEnabled
       THEN /\ Complete
            /\ UNCHANGED <<cycles, stepTimeout, answer, verdict, workVars, revised, requests,
                           results, integrated, reviewed, remaining, findings, revisions>>
       ELSE IF OutOfTime(remaining)
       THEN Fail("max_wall_time")
       ELSE /\ pc' = "review"
            /\ UNCHANGED <<caseVars, remaining, findings, revisions, iterationVars>>

Accept ==
    /\ pc = "review"
    /\ verdict' = "accept"
    /\ Complete
    /\ UNCHANGED <<cycles, stepTimeout, answer, workVars, revised, requests, results,
                   integrated, reviewed, remaining, findings, revisions>>

\* Fault: the answer the Reviewer returned stays in the case.
ReviseKeepingAnswer ==
    /\ pc = "review"
    /\ verdict' = "revise"
    /\ revisions < MaxRevisions
    /\ revisions' = revisions + 1
    /\ findings' = TRUE
    /\ NextIteration
    /\ UNCHANGED <<runStatus, cycles, stepTimeout, stopReason, answer, workVars, revised,
                   requests, results, integrated, reviewed, remaining>>

Revise ==
    /\ pc = "review"
    /\ verdict' = "revise"
    /\ IF revisions >= MaxRevisions
       THEN /\ Finish("failed", "review_failed")
            /\ UNCHANGED <<answer, findings, revisions>>
       ELSE /\ revisions' = revisions + 1
            /\ findings' = TRUE
            /\ answer' = "none"
            /\ NextIteration
            /\ UNCHANGED <<runStatus, stopReason>>
    /\ UNCHANGED <<cycles, stepTimeout, workVars, revised, requests, results, integrated,
                   reviewed, remaining>>

ReviewFails ==
    /\ pc = "review"
    /\ \E reason \in {"protocol_error", "provider_error", "model_timeout"} : Fail(reason)

Respond ==
    \/ Decompose \/ GenerateHypothesis \/ PlanSearch \/ SelectGraph \/ SelectSearch
    \/ IntegrateObservation \/ ReviseHypothesis \/ CloseCycle \/ Integrate \/ Finalize

Step ==
    \/ BeginIteration \/ WallTimeOver
    \/ BeginAttempt \/ AttemptTimeout
    \/ BuildContext
    \/ Respond \/ RejectDecision \/ ModelFails \/ CallTimeout \/ CheckpointTimeout
    \/ ExecuteCycle \/ ToolConflict
    \/ Judge \/ Accept \/ Revise \/ ReviewFails

Next == Tick \/ Step

Spec == Init /\ [][Next]_vars

\* Time goes on, and every call of the model or of a tool comes back, because
\* each has a timeout.
FairSpec == Spec /\ WF_vars(Tick) /\ WF_vars(Step)

-----------------------------------------------------------------------------
(* Properties.                                                             *)

\* Between batches every saved request has its result: requests that are dropped
\* for lack of time are taken back, and no result answers two requests.
RequestsAnswered ==
    pc \notin {"tools", "done"} =>
        /\ Ids(requests) = Ids(results)
        /\ \A r, s \in results : r.id = s.id => r = s

\* A cycle never fetches more Articles than its capacity, counting together the
\* fetches of both reviews, of integrations and of the decision that opened it.
FetchesWithinCapacity ==
    \A c \in 1 .. MaxCycles :
        FetchedIn(c) <= FetchCapacity

\* One exploration set per Hypothesis and cycle: no exploration tool succeeds twice
\* for one Hypothesis in one cycle, wherever its requests came from.
OneSetPerCycle ==
    \A r, s \in Succeeded :
        (/\ r.tool \in Explorations /\ r.tool = s.tool
         /\ r.hypothesis = s.hypothesis /\ r.cycle = s.cycle) => r = s

\* A Hypothesis is replaced at most once in a cycle, so that a text that contradicts
\* every new version cannot hold the loop in one cycle.
OneRevisionPerCycle ==
    /\ generation <= Cardinality(revised)
    /\ revised \subseteq 1 .. cycles

\* The next cycle does not open while a result of the closing one is unevaluated
\* (plan.md:362), unless a Reviewer's findings sent the run back.
BoundaryEvaluated ==
    [][cycles > 0 /\ cycles' # cycles /\ ~findings
          => \A r \in results : r.cycle = cycles => r.id \in integrated']_vars

\* An answer given without a timeout or findings rests on every text that its cycle
\* has fetched, also when the cycle or time limit made the run finalize.
AnswerAfterIntegration ==
    [][pc = "call" /\ answer' # "none" /\ ~stepTimeout /\ ~findings
          => UnintegratedGrounding = {}]_vars

\* After a step timeout, or once exploration is over, no tool runs before an answer.
DegradedRunsNoTools ==
    [][(stepTimeout \/ stopReason = "exploration_limit_reached") => pc' # "tools"]_vars

\* The stored case evolves as the abstract run allows.
Run == INSTANCE CaseRun
RunRefinement == Run!RunSpec

\* The run ends, whatever the Solver and the Reviewer answer: only the wall time ends
\* an integration that is asked for again and again.
Termination == <>(pc = "done")
=============================================================================
