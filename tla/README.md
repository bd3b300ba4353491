# Verification of the legal research agent

This directory holds TLA+ models of the agent in this repository, the TLC
configurations that check them and proofs that TLAPS checks. Source paths below
are relative to the repository; `F/` stands for
`agent-api/app/agent_framework/`, `A/` for `agent-api/app/agent_core/`.

## 1. The system and its parts

The program answers questions about Japanese law. A language model (the
*Solver*) never acts by itself: a loop asks it for one decision at a time,
checks the decision, runs the tools it asks for, stores what they return and
projects the case into the context of the next call.

    main.py / runtime_app.py
        -> framework_agent.py -> loop.py (AgentLoop)
             |  context.py      facts and texts shown to the next call
             |  structured_json.py -> model provider   (Solver, Reviewer)
             |  validation.py   what an accepted decision may do
             |  tools           search index, graph, Article text
             `- store.py        the case, saved whole at the end of a step

| Component | State | Operations | What is hard about it |
|---|---|---|---|
| Agent loop, `F/loop.py` | run status, cycle count, step timeout, stop reason; per iteration: deadline class, attempt, purpose flags | `run`, `_run_solver_until_answer`, `_execute_cycle`, review of answers | the clock is read again at each step; eleven kinds of calls compete for the next turn; one flag set early in an iteration decides what is legal later in it |
| Decision validation, `F/validation.py`, `F/contracts.py` | none | checks and applies a `SolverDecision` | limits span cycles and several sources of requests; the decision may change the cycle that the limits are counted in |
| Solver context, `F/context.py` | none | projects the case for one call, within character limits | what does not fit is left out, and the decision is taken on what is left |
| Case state, `F/state.py` | requests, results, WorkItems, Hypotheses, marks of what has been integrated, reviewed, revised | records only | several marks on one result must agree over calls and cycles |
| Agent limits, `F/profiles.py`, `domains/legal/profiles.py` | none | bounds of cycles, sets, fetches, time | limits at their boundary |
| Structured JSON adapter, `adapters/models/structured_json.py` | none between calls | prompts the model, repairs JSON, builds the decision for one purpose | a timeout in the second stage must keep the part already validated |
| Observation call, `adapters/models/structured_json.py` with `F/loop.py` | futures of one call, parts retained over its repairs | sessions, audits, merge, derived closings, checkpoint, repair | two thread pools, a deadline that cuts a batch, a repair of parts of a decision, a commit that derives one record from three |
| Transactional case store, `A/transactions.py`, `A/relationships.py`, `adapters/persistence/in_memory.py` | versioned records of cases, plans, actions, decisions | unit of work, claim and complete an action, apply a plan or a decision | revisions and attempts read before they are used; repeated operations; states that must not be left |
| Projector and journal, `A/projector.py`, `A/event_journal.py` | events of a case | append, project | none of its own: it follows the store |
| Research case store, `research_case_store.py` | tasks with dependencies, actions, checkpoints | register, start, complete, checkpoint, choose the runnable ones | one task at a time; actions matched to old tasks; a task that ended without its Article |
| LLM research loops, `llm_research_loop.py`, `llm_directed_research.py` | case store and budgets | cycles of resumed tasks, two stages, integration | answers that are sanitized, deferred or replaced by a fallback; the last valid checkpoint decides |
| Classification job and importer, `legal_relation_classification_job.py`, `legal_adjudication_importer.py`, `graph_client.py` | run record, candidate checkpoints, assertions, counters in the graph | create or resume, checkpoint a candidate, audit, publish, fail | crash between checkpoints; a lost answer of a commit; an audit in three reads; two writers of one run |
| Adjudication queue, `scripts/run_relation_adjudication_codex_queue.py` | stage of each shard in a JSON file, artifacts of each shard | worker, review, revision, merge, import; resume | crash between an artifact and its stage; the state file is replaced atomically, artifacts are not |
| Seeding, `seed.py`, `main.py`, `opensearch_client.py` | search index, graph, object store; caches of the search client | rebuild all three from a corpus | three stores without a transaction, overlapping requests, caches that outlive the data |
| Export and AWS bootstrap, `infra/aws/scripts/` | artifact; completed documents in a checkpoint file and in S3 | export index and graph, each by its own snapshot, load both, resume | four reads of stores that are seeded meanwhile; crash between a batch and its checkpoint; a count that lags; a task that is no longer waited for |
| AgentCore runtime, `infra/aws/agentcore/` | none between requests | streams one run per request | none: it only reads the graph |
| Preprocess worker, `preprocess-worker/app/` | none | derives an artifact from an uploaded file | two uploads with one derived key |
| Layered legal retrieval, `layered_retriever.py`, `evidence_requirements.py`, `guidance_lane.py`, `requirement_reranker.py`, `retrieval_budget.py`, `layered_shadow.py`, `layered_context_assembler.py` and the resolvers they call | per question: a store of evidence slots, candidates of each, what may be given up, counters of calls, pairs and candidates | guideline lane, rounds of batches (search, rerank, allocate, follow relations), assembly of the context | nine limits and a clock that may each end it in the middle; candidates that displace others; slots merged by a key; groups of slots that share passages |
| Search agent and answer, `agent.py`, `llm.py`, `evidence_selector.py`, `reranker.py` (`AgentService`) | per question: the pool of evidence, the calls made; the citations handed over, the answer and its review | plan, search, look up, expand, follow up, rank; answer, review, revise, research more | five sources mark the same passages, and fusion, reranking, pinning and diversification cut them one after the other; citations held in two places; an answer that changes between reviews; a deadline over all of it |
| Search and graph tools, `adapters/tools/` | none | queries | none, apart from failing or timing out |
| Audit and diagnostics, `F/cycle_audit.py`, `F/diagnostics.py` | files | append | written, never read, by a run |
| Domain rules, prompts, HTTP entry points, UI, reranker, evaluation | none | pure functions or input and output | outside the reach of model checking |

How they interact: within a run of the loop everything is a call. The loop is
the only writer of its case; it runs a batch of tools concurrently and waits for
all of them, and the model adapter runs the sessions of one call in pools of its
own. The other sources of interleaving are the wall clock, the model, which may
return any decision its adapter accepts, and, for the batch programs, crashes,
restarts and each other: the seed, the classification job and the importer write
one graph, and the export reads what they left.

What makes each correct, in short:

- *Agent loop*: it ends; an answer is given only once what has been fetched is
  integrated; every request gets one result, in the right cycle; the limits of
  a cycle hold over all sources of requests; a degraded run only answers; an
  answer that the Reviewer returned never completes a run.
- *WorkItems of the loop*: each reads its texts and reviews its candidates before
  it asks for more; nothing a search found is passed over; what a review selects
  for several of them is fetched for each.
- *Observation call*: what is closed is complete; a dependency is settled by its
  audit; a text counts as integrated together with the judgment of it; a timeout
  leaves something that can still be answered.
- *Transactional store*: the journal accounts for every revision of a record; an
  operation of a tool is observed once; resolution goes from the leaves up.
- *Layered retrieval*: what a slot accepted can be quoted; a provision that the
  question names is found unless a limit stops it; every slot is decided or says
  why not; the calls keep their limits; a context is complete only if it covers
  each rule together with its exceptions.
- *Search agent*: a provision that the question names reaches the model; a
  directed answer is returned in the version that the review supported, with all
  it rests on among its citations.
- *Research loop*: only tasks that may run are started; a completed task is
  history; ready means that the texts were read.
- *Classification run*: counters and assertions are those of the checkpoints; a
  published run has a final checkpoint and the assertions of it for each of its
  inputs, whatever crashed on the way.
- *Adjudication queue*: a shard is decided once, from answers that were
  reviewed; the graph takes that decision once; what a run has left is reused; a
  queue whose shards fail in a row stops.
- *Ingestion*: a seed or a load that reports success has replaced everything;
  while its counts are right a load brings nothing twice; AWS serves only what the
  two snapshots of an export name, and all of it if they were whole when it read them.

## 2. Modules

| Module | Models |
|---|---|
| `CaseState` | the case, `F/state.py`, and the facts that `F/context.py` and `F/loop.py` derive from it |
| `AgentLoop` | the loop, the decisions of each kind of call, tools, timeouts, the review, and the properties |
| `CaseRun` | the abstract specification: what a run may do to the stored case |
| `MCAgentLoop` | the instance that the configurations check |
| `AgentLoop_proofs` | theorems about `AgentLoop` |
| `WorkItemSteps` | the same loop for several WorkItems: their searches, reviews, texts, deferred candidates and actions in mixed batches |
| `ObservationCall` | the call that judges fetched texts, for several WorkItems in a tree, from the loop's batch to the stored decision |
| `ObservationCall_proofs` | theorems about `ObservationCall` |
| `AdjudicationQueue` | the adjudication queue with its artifacts, its state file, its runs and crashes, and the properties |
| `ShardLedger` | the abstract specification of its outputs and of the graph |
| `AdjudicationQueue_proofs` | theorems about `AdjudicationQueue` |
| `ClassificationRun` | the classification job and the importer over one run in the graph |
| `RelationResults` | the abstract specification of a run's results |
| `ClassificationRun_proofs` | theorems about `ClassificationRun` |
| `CaseTransactions` | the transactional case store under callers with stale snapshots |
| `CaseStores_proofs` | theorems about `WorkItemSteps` and `CaseTransactions`, the framework's session and its store |
| `ResearchCase` | the research case store: tasks and fetched texts |
| `ResearchLoop` | the iterative research loop, which drives `ResearchCase` |
| `EvidenceRequirements` | the slots of evidence: those of the plan, those that texts and relations add, priorities, groups, and the store with its batches |
| `ContextAssembly` | the passages of the accepted Articles and the choice of those that the answer gets |
| `LayeredRetrieval` | the retrieval of one question over both: guideline lane, rounds, budgets, and the properties |
| `LayeredRetrieval_proofs` | theorems about `LayeredRetrieval` and the two modules it uses |
| `EvidencePool` | the evidence of the search agent: merging, aspects, graph targets, and the rankings that cut it |
| `AnswerService` | a question from the first search to the returned answer, and the properties |
| `ResearchAnswer_proofs` | theorems about `ResearchLoop` and `AnswerService` |
| `Seeding` | `/admin/seed` over index, graph and object store, and the cache of titles |
| `Bootstrap` | the load of an artifact into AWS |
| `Ingestion` | the composition of both with the classification and the reads of the export between them |
| `Ingestion_proofs` | theorems about `Ingestion` |
| `MCWorkItemSteps`, `MCObservationCall`, `MCCaseTransactions`, `MCResearchLoop`, `MCLayeredRetrieval`, `MCAnswerService`, `MCAdjudicationQueue`, `MCIngestion` | the instances that the configurations check |

`AgentLoop` has one WorkItem and every kind of call, with clocks, retries and
repairs; `WorkItemSteps` has several WorkItems, each with its candidates and
texts by name, and no clock but the moment at which the run turns to its answer;
`ObservationCall` has several WorkItems and one kind of call. All three model the
commit of an observation, from different sides: the first for its order among
the calls, the second for what it makes of the results beside the texts, the
third for what it stores.

### State of the loop

`CaseState` keeps the persisted fields under their names: `runStatus`
(`run_status`), `cycles` (`research_cycle_count`), `stepTimeout`
(`cycle_step_timeout`), `stopReason`, `answer` (`final_answer`), `verdict`,
`requests`, `results`, `integrated` (`integrated_tool_result_request_ids`),
`revised` (`hypothesis_revision_cycles`) and `reviewed` (requests that stored
search and graph reviews name). One WorkItem with one active Hypothesis stands
for the tree: `work` is the stage of the WorkItem, `generation` the version of
its Hypothesis, `adopted` the texts it cites and `contradicted` the cycle whose
text speaks against it.

`AgentLoop` adds what the Python frames hold: the program counter `pc`, the
wall time that is left, and the local variables of one iteration
(`finalizeOnly`, `pending`, `revisionCall`, `attempt`, `seen`, the running
`batch` and whether it opens a cycle).

### Actions of the loop

An iteration of `_run_solver_until_answer` is cut where it waits or reads the
clock again:

| `pc` | Code | Actions |
|---|---|---|
| `solve` | head of the loop: limits, deadline, flags | `BeginIteration`, `WallTimeOver` |
| `attempt` | budget of the call | `BeginAttempt`, `AttemptTimeout` |
| `context` | projection, exhausted exploration, finalize or not | `BuildContext` |
| `call` | the model call and all that follows up to the next save | one action for each purpose: `Decompose`, `GenerateHypothesis`, `PlanSearch`, `SelectGraph`, `SelectSearch`, `IntegrateObservation`, `ReviseHypothesis`, `CloseCycle`, `Integrate`, `Finalize`; and `RejectDecision`, `ModelFails`, `CallTimeout`, `CheckpointTimeout` |
| `tools` | `_execute_cycle` | `ExecuteCycle`, `ToolConflict` |
| `judge`, `review` | the review in `run` | `Judge`, `Accept`, `Revise`, `ReviewFails` |

`Tick` takes a unit of wall time away between any two steps. `Purpose` is
`_solver_profile_for_context`: the order in which the kinds of calls win over
each other. A save replaces the whole case, and each step that changes the case
ends with a save, so the case in memory and the stored one are one set of
variables.

### Abstractions of the loop

- One WorkItem and one active Hypothesis. A fetch asks for up to `FetchCapacity`
  Articles, counted and not named, because an Article is never fetched twice; the
  texts of one fetch are shown and cited together and take one unit of the room
  for material.
- A tool result is `failed` (also for a timeout) or `succeeded`, with or
  without something usable.
- A decision is any one that the adapter can build for the purpose, with the
  legal profile's calls all enabled, and that `apply_solver_decision` accepts.
  Whether a text supports, contradicts or settles is the Solver's free choice.
- A call may take any time: it may outlast the budget the loop gave it, as the
  second stage of an observation does, which starts a new clock.
- Left out: loading evidence by id, tools started without the Solver (the legal
  profile has none), the dependency audit, retained decisions and deferred
  candidates of several WorkItems, and every text, prompt, log and diagnostic.

### The WorkItems of the loop

`calls` are the requests with their results: tool, WorkItem and Hypotheses of the
request, what it fetched or found, its cycle, and its `stage`: `new`, `integrated`
(`integrated_tool_result_request_ids`) or `reviewed` by a search review. `batch`
and `advance` are what `_execute_cycle` is running. `matched`, `selected`,
`deferred` and `frontier` are the assessments of the reviews; `needs` are the
WorkItems whose last text left lower norms to be found. All that a call is shown
is derived from these, as `F/context.py` does: the texts that are `Unread`, the
candidates of each WorkItem, the unit of the graph review, the exploration sets.
`PurposeFor` is the order in which the kinds of calls win.

| Action | Code |
|---|---|
| `PlanSearches`, `PlanOmitted` | cycle 0: a plan for each WorkItem, merged into one batch |
| `ExecuteTools` | `_execute_cycle` |
| `Observe` | the observation of new texts by the WorkItems they were fetched for, the actions of those that only have to act, and `_defer_actions_until_candidate_review` |
| `SelectSearch`, `ReviewWithoutScope` | the search reviews of the WorkItems, merged by Article, and the fetches of them |
| `SelectGraph` | the review of one batch of one Hypothesis' graph candidates |
| `Consume` | results without a new text |
| `CloseCycle` | the deferred candidates at the end of a cycle |
| `DependencyAction`, `Integrate` | what the Solver asks for next, or the next cycle |
| `Finalize`, `TimeRunsOut` | the way to the answer |

Abstractions: a Hypothesis of an open WorkItem always needs follow-up, versions
of it are `AgentLoop`'s; of several graph units discovered in one cycle the first
is any fixed one; the evidence of a text always fits; the Reviewer, the adoption of a
text once more, evidence the Solver loads by its id and the review of a new link to
a reviewed candidate are left out.

### The adjudication queue

What survives a crash: `files` (the artifacts of a shard: `worker-raw`,
`worker`, `review-initial`, `worker-revised-raw`, `worker-revised`,
`review-final`, `approved`, `unresolved`), the fields of the state file that the
queue reads back (`threads`, `repairs`, and `imported` for the stage of that
name) and the checkpoints in the `graph`. What a run holds: `apply`, the `queue`
of shards not yet taken, `stop`, the count of consecutive `failures`, and for
each consumer its `step`, the `kind` of session it is with and the `reply` that
is being written.

`_process_shard` is cut where it waits or writes:

| `step` | Code | Actions |
|---|---|---|
| `begin` | which artifacts exist | `Begin` |
| `ask`, `wait`, `write` | `_run_codex` and the file of its answer | `Ask`, `Answer`, `Written`, `SessionFails` |
| `save` | the count of a repair | `Save` |
| `bind` | `bind_single_occurrence_ids.py` and the repair of a Worker's answer | `Bind` |
| `prepare` | `prepare_revision_packet.py` and the repair of a review | `Prepare` |
| `merge`, `mergeRest` | `merge_reviewed_results.py` and its two outputs | `Merge`, `MergeRest` |
| `import`, `mark` | the importer and the stage `imported` | `Import`, `ImportFails`, `Mark` |

`StartRun`, `Take` and `EndRun` are `_run` and `consume`; `Crash` ends a run at
any point. An answer is `invalid`, `flawed` (its ids can be bound, the rest of
its contract fails) or `valid`, a review approves or asks for a change, and a
file that a crash has left half written is `partial`. The scripts replace their
outputs atomically, so these are never partial. A shard stands for one of its
candidates. `revision-input` is derived anew in each run from two artifacts that
no longer change, and is not kept. Stages that no run reads back, usage counts
and the check that manifest and state belong together are left out.

### The observation call

`item`, `hypothesis` and `dependency` are what the store keeps of each WorkItem:
its state, the judgment of its Hypothesis and whether it has gaps, and the
dependency decision; `arrived` are the WorkItems with a text that no call has
integrated. `phase` follows the loop and the adapter, `task` is the future of
each WorkItem in the pool at work, `reply` its part of the decision so far, and
`retained` what the loop keeps of an earlier attempt.

| `phase` | Code | Actions |
|---|---|---|
| `research` | between calls | `Fetch`, `Call`, `Close` |
| `sessions` | `_solve_observation_integrations` | `Session`, `Break`, `CollectSessions` |
| `audit` | `_solve_dependency_assessment` | `Audit`, `Break`, `CollectAudits` |
| `decide` | pending and missing actions, derived closings, retained parts | `Decide` |
| `apply` | `apply_solver_decision`, action feedback, repair | `Store`, `Reject`, `Repair` |
| `closing` | finalization | `Finalize` |

A future that is still `running` when its pool is collected is one that the
deadline cut off. A Hypothesis is `unresolved`, has `gaps`, or is `settled`;
which judgment it has matters to no rule here. `heard` and `confirmed` are
histories of what sessions and audits said.

### The research loop

`ResearchCase` keeps the tasks in the order of their references, with tool,
Articles and status (`task`), the two indexes that match an action to a task
(`graphTask`, `keyTask`), and what is known of each Article's text (`text`). `ResearchLoop`
adds the frames of `_run_iterative_research`: `phase` and `stage`, the tasks to
`resume`, the `queue` of actions of a turn, the budgets, the last valid
`checkpoint`. An integration may answer anything its schema admits, with
references to texts that were not shown; `Valid`, `Sanitized` and `Deferred` are
the three functions it passes.

### The layered retrieval

`store` is the sequence of slots in the order of their creation, each with its
role, target, groups, status and accepted Articles; `pool` are the candidates
kept for each, and `evictable` those of them that may be given up. The guideline lane is
one step, with the call that raised a choice in it; a reranker client that is missing
altogether is left out. `used` are
the counters of `BudgetTracker` and of the round, `made` the calls really made:
a call of the guideline lane that raises is counted by nobody, and the property
has to allow for it. `clock` says whether more than half a second is left.

| `phase` | Code | Actions |
|---|---|---|
| `guidance` | `GuidanceLane.explore` | `Guidance` |
| `pop` | `_run_round`, the rounds of `retrieve` | `Pop`, `NextRound`, `Finish` |
| `search` | `_search` | `Search`, `SkipSearch` |
| `rerank` | `_rerank_batch`, one call at a time | `Rerank`, `EndRerank` |
| `allocate` | the slots of the batch, one after the other, then `_children_from_graph` | `NoCandidate`, `Allocate`, `Graph`, `SkipGraph` |

What a search finds, in which order apart from what the code fixes, and which
text satisfies a slot are free choices; the delegations and exceptions in a text
and the relations of an Article are constants. `AllocateCandidates` and
`AssembleContext` are the algorithms of the code over these data. The plan of a
question is given, its named provisions merged as `merge_explicit_references`
does it. Where the code sorts, the module takes a sequence of the set
in the order of the keys (`PriorityBatches`, `InOrder`); the keys end in a number of
the slot or of the passage, so that there is exactly one. `SettingsAssumption` names
what `config.py` makes of the limits (positive or at least zero), that a text has
finitely many units, and the kinds of cues and relations: of the relations of
the registry only those count that are implemented and may widen a search
(`expandable_edge_types`) and that lead from an Article.

### The search agent and its answer

`AgentService` (`agent.py`) is the way to an answer without the loop; the HTTP
server uses the loop, the tests both. `pool` is the dictionary of evidence in its
order, each item with its score, its place for each query and the marks
`mustInclude`, `aspectInclude`, `directReference` and `citationClosure`; scores
are integers in the proportions of the code. `given` are the citations that
the caller of `_compose_answer` holds and `working` those that the model sees; `final`
is the last valid answer with its version, `reviewed` the last review with the version
it is about.

| `step` | Code | Actions |
|---|---|---|
| `plan`, `search` | `_plan_queries`, the queries, their aspects | `Plan`, `Search`, `MarkFocused` |
| `named`, `guidance` | `_inject_article_references`, `_inject_guidance_explained_articles` | `LookUpNamed`, `LookUpGuidance` |
| `evaluate`, `graph`, `follow` | `_evaluate_evidence`, `_expand_graph`, the follow-up rounds | `Evaluate`, `Expand`, `FollowUp`, `EndFollowUp` |
| `rank`, `ranked` | reranking and the layered retrieval | `Rank`, `Layered` |
| `research` | `run_llm_directed_research`, of which only what it hands over is taken | `Research` |
| `compose`, `main`, `main_again` | `_compose_answer`, `generate_answer` with its second attempt | `Compose`, `Generate`, `Regenerate`, `NoAnswer` |
| `review`, `review_again`, `judge`, `more` | `review_answer_grounding`, the remediation rounds | `Review`, `ReviewAgain`, `NoReviewCame`, `Judge`, `ResearchMore` |
| `answered` | what is returned, `_select_final_citations` | `Answered` |

`SearchFails` is an exception of the index or of the graph where the code has no
fallback. What searches, models and the reranker return is a free choice; texts,
their nearness to the question, edges and explanations are constants. An edge
leads from an Article to another Article or to a passage. What a follow-up query names,
Articles and provisions, is looked up like what the question names (`NamedIn`).
`NamedReachesAnswer` is about `final_ranked`: where the layered retrieval succeeds it puts its
own passages in the place of these, and `LayeredRetrieval` has the properties of
them. `PoolAssumption` says that
the index lists each unit once, that limits are natural numbers and that a text covers
the question to an integer degree; `AnswerAssumption` that questions name what
exists, that plans are sequences of queries and that the result of a search has no
unit twice (hits are merged by `contentUnitId`, `_merge_rrf_hits`). Left out: the parsers
of law titles and provisions, the citations that an answer's text adds to the
selected ones, the shadow modes and the selection by issue coverage, which the
settings switch off.

### The transactional case store

Each call of `A/transactions.py` is one action over a unit of work, which holds
the store's lock: it reads, checks, writes a private copy and commits. `seen` is
the snapshot that each client took before (`Look`); the revisions in it are what
its claims, completions and decisions carry, while others commit. `events` keeps
of the journal how many entries name each record, and `version` counts the
commits. A transaction that is refused changes nothing. Every action has a
`client_operation_id`: those without one are compared with nothing
(`transactions.py:522-524`).

### The classification run

The variables of the `graph` are the run record, the checkpoint and the
assertions of each candidate; a `process` is a job or an importer with its step,
the candidates left and the copy that its audit has read. Each transaction of
`graph_client.py` is one action, with an outcome in which it commits and its
answer is lost. The audit reads run, checkpoints and assertions in three
actions. A candidate's classification is a choice of its outcome.

### Seeding, export and bootstrap

`Seeding` records for each document, node, edge and object from which corpus it
came, what of the index a search sees, and for each request its step and what
is left of it; a request can fail, and the server stop, at any of them.
`Bootstrap` records how many copies of each document the remote index holds and
how many of them its count has got to know, the checkpoint in S3 and the one
beside each task. There is one artifact and one remote index: that the index holds
documents of another snapshot (`bootstrap_aws_data.py:444, 551`) or that a checkpoint
is of another manifest (388) does not occur, and a count taken before the
checkpoint is restored (459) is one that lags.

`Ingestion` has the classification and the export between them. The export is told
three things that need not agree, as its arguments are: a snapshot for the index, a
snapshot for the graph and the manifest of a corpus. It reads in four steps, and any
step of a seed may come between them:

| Action | Code of `export-existing-bootstrap-data.py` |
|---|---|
| `ExportIndex` | the documents of the search snapshot, whose laws have to be those of the manifest, 257-290 |
| `CheckRun` | the ClassificationRun is published and of the graph snapshot, 293-308 |
| `ExportNodes` | the nodes of the graph snapshot, 310-328 |
| `ExportEdges` | the edges between such nodes, whose ends have to be among those read before, and the artifact, 330-442 |

An export may be given up and begun anew at any time. With the artifact the local
stores are given up, since nothing that follows depends on them. Abstractions: `Run`
stands for the nodes of a published run in the graph (the run, its assertions and
their evidence), the edges between these are left out, and publishing a run is one step
(`ClassificationRun` has what leads there); a snapshot id is the hash of its corpus,
so that seeding a corpus again gives the same one. The scroll over the index is one
read; it is taken of one state of the index by the engine.

## 3. What the runs check

| Run | Configuration | Checks | Shows |
|---|---|---|---|
| `loop` | 2 cycles, 3 requests, 4 units of time, Reviewer with one revision | `TypeOK`, `RequestsAnswered`, `FetchesWithinCapacity`, `OneSetPerCycle`, `OneRevisionPerCycle`, `AnswerAfterIntegration`, `RunRefinement`, `BoundaryEvaluated`, `DegradedRunsNoTools` | requests and results stay paired when time runs out between the decision and the batch; what is limited per cycle holds whatever call the requests come from; no answer overtakes a fetched text; no tool runs after a timeout or the end of exploration; the loop implements `CaseRun` |
| `live` | fair, 3 units of time, room for one fetch | `Termination` | the run ends |
| `work_items` | 2 WorkItems with a Hypothesis each, 2 Articles, 2 cycles, every other limit of a cycle 1, 2 requests in a step, 5 calls | `SelectedForOwner`, `NothingOverlooked`, `ReviewBeforeExploring` | whatever the searches, the graph and the Solver return, candidates and texts of a WorkItem are seen before it goes on, and each owner gets the text it selected |
| `observation` | a WorkItem and its child, 2 rounds of texts, 2 attempts | `ResolvedInTimeIsComplete`, `SettledByAudit`, `AssessmentsKept` | nothing is closed too early, settled without an audit or integrated without its judgment, over timeouts, protocol errors and partial repairs |
| `research` | 2 Articles, 2 cycles, 3 tool calls | `StartsAreAllowed`, `ReadyHasItsTexts`, `CompletedIsHistory` | tasks from every origin are started at most as they may be, and ready is never early |
| `transactions` | 2 clients, 2 WorkItems, 2 actions, 5 versions | `OperationsObservedOnce`, `JournalTellsRevisions`, `DecisionsResolveUpwards` | stale snapshots never get through a claim, a completion or a decision |
| `classification` | 2 candidates, a job, 2 importers, 3 starts | `RecordsAgree`, `ImplementsResults` | the graph's three records of a run agree after crashes, lost answers and retries of failed candidates |
| `queue` | 4 shards and 2 consumers with a limit of 2 failures in 1 run, 2 shards one at a time in 4 runs | `FailuresStopQueue`, `DoneShardsAreReused`, `OnlyReviewedRecorded`, `ReviewedDecisionIsKept`, `ImplementsLedger` | whatever crashes or fails, outputs come from reviewed answers, are decided and recorded once and reused; however successes and failures of two consumers interleave, a stopped queue takes no shard |
| `layered` | 3 Articles, 2 plans, 3 slots, 1 round of expansion, 3 search and 2 graph calls, 3 candidates, 2 passages | `AcceptedKeepTheirText`, `NamedIsAccepted`, `NothingLeftOpen`, `CallsWithinLimits`, `IncludedIsCovered` | whichever limit is reached first, and wherever the time ends, what was accepted can be quoted, slots say what became of them, and a group counts as included only as a whole |
| `answer` | 4 questions, 5 passages, 3 of them handed on, 2 of these exchanged, 5 calls, 1 follow-up, 2 rounds of review | `NamedReachesAnswer`, `SupportedIsReturned`, `CitedIsReturned` | whatever the searches score and the reranker prefers, a named provision reaches the model; whatever fails or is late, an answer comes with its review and its citations |
| `ingestion` | 2 corpora, 2 requests, 2 seeds, an export, 2 tasks, 3 starts | `SuccessIsWhole`, `LoadIsExact`, `ServedIsSeeded` | success of a seed means that everything was replaced, whatever failed before or overlapped; wherever seeds fall between the reads of the export, a load that finishes serves what the two snapshots name and nothing else, as a whole if each read found its snapshot at rest |
| `classification_failures` | a small instance of the same | `PublishedHasNoFailures` | a disagreement of code and text, section 6 |

*Bounds of the loop.* Two cycles are the fewest that have a boundary, and with
two the limit is reached. Three requests are a search, a fetch of what it found
and one more request that competes with them, which is what every limit of a
cycle and every pairing of a request with a result needs; `MaxRequests` is the
only bound that is not a limit of the program. Four units of time, of which one
is reserved for the answer and one for closing the cycle, put every step on each
side of each reserve. With `FetchCapacity = 2` and a search, a fetch of one
Article and a second fetch of up to two meet the capacity from below and from
above. `MinNextCycle` is at least `CloseReserve`, as in the shipped profiles.
With `MaterialCapacity = 9` the room for material never binds; `live` has room
for one fetch instead.

*Bounds of the WorkItems.* `MaxCalls` is the only bound that is not a limit of the
program. Five calls are the two searches of cycle 0, the fetches of what both
selected, and one more request that meets what these have left: a search next to
an unread text, a fetch of an Article that the other WorkItem has, the graph. With
one Article for each WorkItem in a cycle, one exploration set and one candidate in
a review batch, each limit is reached by the first use, and the second cycle
brings what was left. Articles are symmetric; WorkItems are not, as the requests
of one of them stand for several in `DeferredFetch`.

*Bounds of the others.* For the queue `MaxRuns` caps the runs, and `Followed` says which
states are followed, in two parts. `Beside` has both consumers at work: with four
shards and a limit of two, two failures in a row, one that follows a success, and another
shard under way when the queue stops all occur. It cuts off what a shard does after the
first repair or revision of an answer; the counter and the flag see of that
only that it fails or succeeds, which happens before it as well. `Alone` has everything
that a shard does, in four runs, which let three crashes or failures fall on different
artifacts of a shard before it is complete, for two shards one at a time: a shard reads
and writes nothing of another one but the counter and the flag. The theorems have
neither bound (section 4).
`MaxFetches` (two rounds: the second meets what the first has stored),
`MaxStarts` (three starts: a job, its restart and an importer), `MaxVersion`
(five commits: plan, claim, completion, decision and one that was stale),
`MaxSeeds`, `MaxReads` and `MaxTasks` cap counters of operations that the code
does not limit. `MaxActions` in `research` is the limit of the code set to one, so that
the list of tasks to resume stays short; for longer ones there is the theorem.
In `observation` only the child may have a Graph candidate that is put off
(`Traced`); the theorems hold for any. In `ingestion` a bulk request has up to two of the three
documents, two seeds are one before and one between or after the reads of the export (or both
at once), the cache of titles, which the export does not use, is followed beside the
seeds alone (`CacheBesideSeeds`), and tasks beside each other are followed for two of them
(`TwoBesideEachOther`). The corpora share a unit, and one is a scenario, which leaves
the objects of others alone. In `layered` every limit of the settings is small enough to be
reached: a slot more than `MaxRequirements`, a candidate more than
`MaxCandidates`, a batch more than `MaxSearches`, children left at `MaxRounds`,
a group more than `MaxChunks`; the two plans are a question with a named
provision and one with two issues that compete for the candidates. It has no
bound that is not a limit of the program. In `answer`, `MaxMoved` (one passage
that the reranker moves to the front; with three the run has 2.2 million states
and the same result) and the two units that an answer with choices may rest on
are the only bounds of that kind; five passages in three documents are one more
than the reranker is given and two more than are handed on, so that each cut
leaves something out. The classification has one job,
as two of them break its properties (section 6), and two importers, which may
overlap with it and with each other. Two candidates are one that fails and one that
does not; more only repeat them, since a checkpoint touches its own candidate
and the counters.

*Fairness.* `FairSpec` assumes `WF(Tick)`, as time goes on, and `WF(Step)`,
since every call of the model and of a tool has a timeout. Nothing is assumed of
what the model answers: it may ask for the same integration for ever, and the
wall time alone ends that. No fairness is assumed for one outcome of a call.

No liveness is stated of the queue: a session is awaited without a timeout, so
that the code justifies no fairness of it. The other batch programs are started
by hand, so that none justifies that they are started again.

*Deadlock* is not checked where a program may end and then takes no further
step; the layered retrieval is checked for it, its end being a step of its own.

The `TypeOK` of a module says what its variables hold. Seven of them are proved
(section 4); the others are documentation, and the runs are left to the
properties that could be wrong.

Two consumers of the queue are not run any more: the theorems of section 4 hold
for any number of them.

## 4. What is proved

`AgentLoop_proofs` proves for every value of the limits that satisfies
`LimitsAssumption` and `RunAssumption` (positive limits and reserves shorter
than the wall time, as the validators in `F/profiles.py` demand):

| Theorem | States |
|---|---|
| `TypeCorrect` | `Spec => []TypeOK`: the cycle count never passes its limit, nor do the attempts of a decision and the revisions of the Reviewer |
| `RequestsAreAnswered` | `Spec => []RequestsAnswered` |
| `RevisesOncePerCycle` | `Spec => []OneRevisionPerCycle` |
| `RefinesRun` | `Spec => RunRefinement`: the loop implements `CaseRun` |
| `DegradedAsksNoTools` | `Spec => DegradedRunsNoTools` |
| `AnswersAfterIntegration` | `Spec => AnswerAfterIntegration` |
| `BoundariesEvaluated` | `Spec => BoundaryEvaluated` |
| `OneSetInEveryCycle` | `Spec => []OneSetPerCycle` |
| `FetchesStayWithin` | `Spec => []FetchesWithinCapacity` |

The argument:

- `TypeInv` is `TypeOK` with two facts. The requests are finitely many, since
  their ids come from `Cardinality(requests)`; and a running batch that opens a
  cycle was asked for below the cycle limit. The second is what takes the
  type of `cycles` through `ExecuteCycle`: the guard was checked two steps
  before. It rests on `DecisionShape`, which names what every decision may do to
  the control state.
- `RequestsInv` adds that ids never exceed the number of requests, so that a new
  request is fresh, that a running batch is disjoint from what has results, and
  that between batches the ids of requests and results are equal. The case that
  needs it is the reserve reached after the decision: `RunTools` then leaves the
  requests as they were.
- `RevisionInv` relates three things: `revised` lies in the cycles opened, the
  `generation` is at most its size, and, while a decision is taken, a revision
  call implies that the cycle is not yet revised. The flag is set in an earlier
  step than the one that uses it, so that nothing in between may revise.
- `Decided` is what all ten decisions have in common: the Solver answers, or it
  goes on with a batch within the limits. `DecisionDecided` uses the guards of each
  of them once, and the five results that follow need no more of them.
- `RunInv` ties `runStatus` and `answer` to the program counter; with `Decided`
  each step of the loop is a step of `CaseRun` or a stutter. `ContextInv` says that
  what the head of an iteration computed still holds when the decision uses it,
  although attempts, projections and the clock come in between: results that wait
  are the same, and a degraded run has been told to finalize.
- `SetsInv` and `FetchInv` add to the properties what a running batch will make of
  them, in the cycle in which its results will lie (`BatchCycle`); no result can be
  there yet when the batch opens that cycle. `FetchInv` needs that a sum over a set
  does not depend on the order in which `MapThenSumSet` picks its elements
  (`ArticlesCount`), which is shown for the least cardinality that would fail.

`AdjudicationQueue_proofs` proves, for any number of shards, sessions and runs
and any limit of failures (`QueueAssumption`: all but the runs positive, as
`main` and the manifest demand):

| Theorem | States |
|---|---|
| `TypeCorrect` | `Spec => []TypeOK` |
| `Implementation` | `Spec => ImplementsLedger`: the queue implements `ShardLedger` |
| `OnlyReviewed` | `Spec => []OnlyReviewedRecorded` |
| `Reuse` | `Spec => []DoneShardsAreReused` |
| `StopsOnFailures` | `Spec => []FailuresStopQueue` |
| `ReviewedStays` | `Spec => ReviewedDecisionIsKept` |

The argument:

- `Inv` is the type invariant, with what an answer being written, a repair being
  counted and a file being bound imply of the session, and `Decided` for each
  shard: when an output exists, the answers it came from meet their contract,
  the output is their verdict, and the consumer is at none of the steps that ask
  or replace an answer. Each run starts again at `begin`; that the way from
  there leads past all sessions follows from the contract of the answers, and
  that is why the verdict of a second merge is the same. The graph equals the
  verdict for the same reason.
- A step of a shard leaves the other shards alone (`DecidedByOtherStep`), so
  that the interleaving of consumers needs no more than that.
- In the refinement, `Merge` decides or repeats a decision, `Import` records or
  finds the same record, `Mark` marks, a failure or a new start reopens, and all
  else is a stutter.
- `Limit` adds to `FailuresStopQueue` that at most as many shards as sessions are
  under way and that a queue that has not stopped is below its limit. Taking a
  shard needs the latter; a failure trades one shard under way for one failure.
- `Order` says which files of a shard exist where a session is asked for: the worker
  only while there is no decision, a review only after it, the revised decision only
  while there is no final review. A new run goes through the same places with the
  files of the old one, and so never asks for what has been reviewed.

`CaseStores_proofs` proves of `WorkItemSteps`, for any sets of WorkItems, Hypotheses and Articles
and any limits:

| Theorem | States |
|---|---|
| `CallsAreKept` | `Spec => []CallsOK` |
| `ReviewFirst` | `Spec => ReviewBeforeExploring` |
| `NoSearchOverlooked` | `Spec => []NothingOverlooked` |
| `EachOwnerAsks` | `Spec => []SelectedForOwner` |

The argument:

- `CallsOK` says that every call carries its fields, so that marking one changes
  its stage and nothing else, and that the plan is made before any call.
- `ReviewFirst` goes through the actions that send requests. An observation marks
  every text that is new in its cycle, in the same step in which it stores its
  requests, and what waits for a review is taken out of them; the calls for an
  integration are only made when nothing is recent; the other requests are not the
  Solver's.
- `NothingOverlooked` is not inductive: a decision that opens a cycle with tools is
  stored one step before the cycle changes. `CyclesOK` says that no search has
  candidates left while such a batch runs, and that no call is of a later cycle;
  `SearchesOK` is the property without its phases. Candidates only become fewer
  (`CandidatesShrink`), since calls are kept; so it is enough that a step treats
  every search it marks or leaves behind (`TreatedIsEnough`).
- `EachOwnerAsks` rests on `OwnedInv`: nothing is left in the batch when the Solver is
  called, so that what was selected before has become a call, and a call is never
  lost. A review that merges the selections of several WorkItems by Article asks for
  each of their Hypotheses (`SelectionIsAsked`).

Of `CaseTransactions` it proves, for any callers, records, plans and versions:

| Theorem | States |
|---|---|
| `CaseTypes` | `CaseSpec => []CaseTypeOK` |
| `JournalAccounts` | `CaseSpec => []JournalTellsRevisions` |
| `ObservedOnce` | `CaseSpec => []OperationsObservedOnce` |
| `ResolvedUpwards` | `CaseSpec => DecisionsResolveUpwards` |

`IdsAssumption` says that records of different kinds have different ids, and that
the pair by which the model knows a dependency is none; `new_stable_id`
(`A/models/common.py:30-35`) begins each id with its kind. Without it one event of the
journal could count for two records. `StoreInv` joins the journal's account with
`ActionsInv` (an action's attempts, its end among the observations and its operation
agree) and `RecordsInv` (what does not exist has no revision, parents exist). It
speaks of the store alone and of no caller's snapshot: a commit checks all it uses
against the store, which is why stale snapshots do no harm.

`ObservationCall_proofs` proves, for any WorkItems in any tree and any number of
attempts:

| Theorem | States |
|---|---|
| `TypeCorrect` | `Spec => []TypeOK` |
| `ResolvedInTime` | `Spec => []ResolvedInTimeIsComplete` |
| `AuditSettles` | `Spec => SettledByAudit` |
| `AssessmentsStay` | `Spec => AssessmentsKept` |

The argument: what is stored at the end of a call was said by a session or an audit
several steps and perhaps several attempts before. The invariant follows it there.
`CallShape` says who has a reply or a retained part in each phase, and that a closed
WorkItem has none; `HeardInv` that what a session said last of a Hypothesis is what
the reply or the retained part says; `ConfirmedInv` that a completed status has the
verdict of an audit behind it once the audit is over; `ResolveInv` that only what is
open, settled and not waiting is closed, also by a part that a repair retained. The
closings of a call go up the tree one level at a time; each leaves the children of
what it closes closed.

`ClassificationRun_proofs` proves, for any candidates and importers and any audits:

| Theorem | States |
|---|---|
| `TypeCorrect` | `OneJob => (Spec => []TypeOK)` |
| `RecordsAlwaysAgree` | `OneJob => (Spec => []RecordsAgree)` |
| `Implementation` | `OneJob => (Spec => ImplementsResults)`: the graph implements `RelationResults` |

`OneJob` says that `Jobs` has at most one member; any number of importers may work
beside it. It is a hypothesis because the theorems do not hold of two jobs, which may
both repeat one failed candidate (section 6). `WorkInv` says what a process at work
knows although others commit in between: the run is of its kind, and whoever is about
to put a result in the place of an old one is the job, the run is still building and
the old one is a failure. `ResultsInv` relates phase, kind and checkpoints of the run.
The counters stay right because a commit changes one checkpoint and its counters by
what the checkpoint was (`RecordsAgree` is part of the invariant). In the refinement a
commit of a missing or failed candidate stores a result, a second one of the same
result and all reads are stutters, and the publication publishes.

`ResearchAnswer_proofs` proves of the research loop, for any Articles and any limits of cycles, actions and
tool calls:

| Theorem | States |
|---|---|
| `TypeCorrect` | `Spec => []TypeOK` |
| `StartsAllowed` | `Spec => []StartsAreAllowed` |
| `ReadyTexts` | `Spec => []ReadyHasItsTexts` |
| `CompletedStays` | `Spec => CompletedIsHistory` |

The argument: a Task that was put on the list of those to be resumed is started
later, after others have run, and a tool's end settles every Task that waits for a
text it brought. `WaitsForArticle` and `GraphTasks` say that only Checkpoints leave
Tasks that wait, each the one Task that fetches its Article alone; `Resuming` that the
list has no Task twice and none whose text was read. So one of them never settles
another, and each still waits when its turn comes. That the list is one without
repetition, and within the budget, follows from `Places`: the members of a finite set
of numbers stand at the places below its size. `ReadyInv` says that a Checkpoint which
is ready names only texts that were read and that no Task waits for one; nothing opens
a Task between such a Checkpoint and the end that reports it, but tools may run in the
cycles between them.

Of the answer it proves `OnlySupported`, `AnswerSpec => []SupportedIsReturned`, for
all questions, evidence and limits, without any assumption. `ReviewInv` says that
what is judged is the version the review is about, that an answer waits to be
returned only with a review that supports it, and that nothing is returned before
the end. A new version leaves the step in which an answer waits, so that the
review of an old one cannot be taken for it. From `PoolAssumption` and `AnswerAssumption`
it proves:

| Theorem | States |
|---|---|
| `NamedIsAnswered` | `AnswerSpec => []NamedReachesAnswer` |
| `CitedReturned` | `AnswerSpec => []CitedIsReturned` |

- The pool, the rankings and the citations are sequences which the code sorts, filters
  and deduplicates. The model writes each of these as the members of a finite set of
  places in some order (`Lined`: at place k is the one that has k - 1 before it), and
  the lemmas say once what it gives: a sequence without repetition of just these
  places, in that order (`LinedIs`), so that what is kept, sorted or made unique has
  exactly the members it should (`KeptOf`, `SortedIs`, `UniqueIs`), and what is cut
  off stands behind what is left (`FirstOfIs`).
- `SearchInv`: the pool holds each unit once, and after the lookup the item that
  stands for each named provision has both marks. Every later change of the pool only
  adds items or marks (`Extends`): a merge of results or of documents looked up, the
  aspects, the graph. What carries such an item to the answer is an argument for each
  stage of the ranking (`ScoreRankedIs`, `FusionRankedIs`, `RerankedIs`, `PinRankedIs`):
  it is among those that must stay, and as these are no more than there is room for, it
  stands before the cut; when the reranker moves it behind the cut it is put back in
  the place of one that need not stay, of which there are enough (`ExchangedIs`); and the
  diversification of laws replaces none of them (`DiversifyLawsIs`).
- The proof failed with the hypothesis as it was first written, that what *must* stay
  fits into the limit. An item that was named and stands for an aspect, but has not the
  other mark, is put back as well, in front of those that must stay, and may take
  the place of one of them. `NamedReachesAnswer` therefore counts these too.
- `CiteInv`: before the evidence is handed over nothing is cited, and from then on
  what the model sees is what the caller expands (`given = working`), also after the
  searches of a review, so that what an answer cites is in it. Without choices there
  are no structural citations and not more cited ones than may be returned, so the
  selection keeps them all (`FinalCitationsAre`).

The two models are in one module because both lead to an answer from a case in memory;
each has names of its own.

`Ingestion_proofs` proves, for any corpora, requests, tasks and bulk sizes and any
number of restarts:

| Theorem | States |
|---|---|
| `IngestionInvariant` | `Spec => []Inv` |
| `SeedSucceeds` | `Spec => []SuccessIsWhole` |
| `LoadSucceeds` | `Spec => []LoadIsExact` |
| `NamedIsServed` | `Spec => []ServedIsNamed` |
| `FullIsServed` | `Spec => []ServedInFull` |
| `SeedIsServed` | `Spec => []ServedIsSeeded`, the conjunction of both |

`CorpusAssumption` is all it assumes: the corpora are finite, the edges of a corpus
have both ends in it (`seed.py` audits the graph before it seeds), and the names for
"no corpus", "no artifact", a failure and the run are none of the others. The argument:

- Of the requests to `/admin/seed` that overlap, each deletes what the others write.
  `Progress` says for each store how far it is on its way to the one corpus that all
  requests since the last pause were for. An item that a request has passed is in
  the store, unless a request is still before the step that clears it, and will then
  be written by that request (`Filled`); nothing else is in the store once one has
  cleared it (`Clean`, `Pruned`). A failure or an interruption makes the episode
  promise nothing until the next pause. With nobody at work all that is left of
  `Progress` is that the store holds the corpus (`Rests`).
- The count by which a load notices what another has written may lag (`seen`), and is
  compared with the number of documents a checkpoint names. `KnownInv` says that
  checkpoints, wherever a task was cut off, name only what is loaded. A sum of
  copies that equals the number of documents known to be loaded shows that there is
  one copy of each and nothing else (`CountTells`, from lemmas about the sums of
  functions over finite sets); so a task that works alone and has not misread the
  count continues without loading a document twice (`OnceInv`).
- `RecordsInv`: whatever seeds overlap, fail or are cut off, a document, node or edge that
  is named after a corpus is of that corpus. So each read of the export finds only what the
  snapshot names, also in a graph that is half of another corpus (`ReadsAreNamed`), and
  `PackedInv` keeps that from one read to the next while the stores change. An edge
  read for a snapshot may be of another corpus, as the query asks for its ends only; what
  of it is loaded is then fewer than was counted, and the load ends with an error
  (`CountedInFull`, `LoadGraph`). Hence `NamedIsServed`.
- `RestedInv`: a read in a pause after successful seeds of its snapshot finds the whole of it
  (`SeedIsRead`, from `Progress`), and what has been read stays what it was; the
  artifact then has both snapshots in full (`ArtifactInv`), whether or not they are
  the same and whatever was seeded between the reads. With `LoadIsExact` for the
  documents and the count for nodes and edges the load serves both: `FullIsServed`.
  Without the pauses only `NamedIsServed` holds: the export compares
  neither the number of documents nor that of nodes with what a corpus has.

`LayeredRetrieval_proofs` proves, for any plans, Articles and texts and all limits that
satisfy `SettingsAssumption`:

| Theorem | States |
|---|---|
| `LayeredTypes` | `Spec => []TypeOK` |
| `AcceptedStay` | `Spec => []AcceptedKeepTheirText` |
| `NamedAccepted` | `Spec => []NamedIsAccepted` |
| `EachIsAnswered` | `Spec => []NothingLeftOpen` |
| `CallsLimited` | `Spec => []CallsWithinLimits` |
| `IncludedCovered` | `Spec => []IncludedIsCovered` |

The store, the allocation, the pairs and the choice of the passages are folds of the
code over sequences and sets. `FoldInduction` proves what a fold keeps: a predicate
is given as a set of pairs of a place and a value, so that no theorem with an
operator as its parameter is needed, and `FoldSolved` shows that the equations by
which the library defines a fold have a solution. What each loop of the code keeps
is then a lemma of its own (`AllocateOneType`, `SumStep`, `FilledUp` and others). The
invariants:

- `Shape`: between batches nothing is left of one, and a slot is being searched
  exactly while the batch has it still to do; a slot that was not decided has accepted
  nothing, and one above the limit of slots says so. Time and budgets can end the
  rounds while slots are pending, and this is what `EachIsAnswered` needs then: a
  batch that was begun is decided to its last slot, so that none is left searching,
  and the end marks the pending ones.
- `Kept` joins three of the properties with `OnlyTheRefused`: what may be given up for
  a later slot belongs to a slot that was decided without it. It is kept by the
  allocation because of two facts about every candidate on the way, that those of other
  slots are still kept or could be given up (`Protects`) and that of this slot's those
  that may be given up are not accepted (`Separates`).
- The Article that a slot names comes first among its candidates: among those of the
  search, among the pairs asked for, of which a slot has two or none, and among those
  kept, as `Foremost` puts it there after the reranker. So it is accepted as soon as one
  of the slot's candidates is (`Served`).
- `Counting` compares what was counted with what was made. Only the guideline lane loses
  a call, once, before any other. The pairs of a call add up to at most what was left
  (`Counts`, by lemmas about `MapThenSumSet`).
- `Chosen` says that guidelines are what the lane found. Its step is the assembly of the
  passages: a smallest cover of a group covers each mandatory slot with a passage of
  the law from an Article which that slot accepted (`BundleCovers`), a group is taken
  only with the whole of it (`Takings`), and what fills the rest takes nothing away
  (`Filled`).

Each inductive invariant was checked by TLC on a small instance before it was proved.
The provers have no rule for induction with a predicate as its parameter; where a
proof needs one, the predicate is a set of numbers, and the argument is about the
least number outside it (`LeastExists`), which exists by `WFMin`.

Each invariant that a passing run checks is so stated by a theorem. Only model-checked
is `Termination` (and the fairness it rests on), which is liveness and which TLAPS does not
reach. `PublishedHasNoFailures` is violated (section 6).

## 5. Not modelled, and why

- Ranking, queries, embeddings, prompts, JSON repair, the rules about legal
  texts, the derivation of documents, nodes and edges in `seed.py`, the user
  interface, the evaluation and the preprocess worker are pure functions or
  input and output without a protocol of their own. They are the larger part of
  the lines of the repository.
- Of `agent.py` and `llm.py` the prompts, the provider clients and the parsers;
  what a provider's failure does to a caller is in the callers' models.
- The legacy two-pass research of `llm_research_loop.py` has neither tasks nor
  checkpoints that survive a pass.
- The projector only reads, the audit files are only written.
- In `agent_core`: runs, iterations and `save_checkpoint`, which keep records
  that nothing else reads, and a unit of work opened inside another.
- The AWS adapters read a graph that no running program changes.

## 6. Where code and documents disagree

Shown by a run:

- `classification_failures`: a run with failed candidates is published, because
  the publication compares two counters (`graph_client.py:783`); the record's own
  contract, `domains/legal/relation_classification.py:899`, is checked after the
  publication is stored, so that the job ends with an error and the run stays
  published, where `RUNBOOK.md:482` would have failed candidates repeated.

Found with the models and visible in the named definitions; no run is kept for
them:

- A load task that ends between a bulk request and its checkpoint may be started again
  while the count of the index still lags. Count and checkpoint agree
  (`bootstrap_aws_data.py:463`), and the documents of that request are loaded again under
  new ids, where `infra/aws/README.md:95` promises that a rerun stops and lets
  nothing in twice (`Check`, `misread`). `LoadIsExact` speaks of loads whose counts were
  right.
- A second load task started beside one that the script no longer waits for writes
  the same documents, and both write the checkpoint. The operator is told to look at the
  first task before the next (`infra/aws/README.md:97-98`); nothing enforces it, and
  `LoadIsExact` leaves out loads in which tasks overlapped (`overlapped`).
- An export that reads while a seed is at work, or after one that failed, may pack a part
  of a snapshot, and the load accepts it, as both compare only with what was packed
  (`export-existing-bootstrap-data.py:284-359`; `ServedIsNamed` and `ServedInFull` say what is left
  of it). The docstring (line 5) lets the two snapshots differ and says nothing of
  writers beside the export.
- Of two provisions that the question names within one issue the
  second gets no slot, since the key that keeps slots apart has no Article in it
  (`evidence_requirements.py:145-153, 536`); `merge_explicit_references`
  (`legal_issue_planner.py:174-175`) says that a named provision must always stay
  with some issue, or it would not be treated as P0 (`SlotKey`, `Add`).
- Only the WorkItem of the graph batch at work counts as waiting for a review of
  graph candidates, and none when its capacity is used up
  (`F/context.py:1661-1697`). Another WorkItem with graph candidates that nobody has
  reviewed may start new searches, where `IMPLEMENTATION-GUIDELINES.md:68-79` and
  LR-045 (`docs/legal_retrieval_issue_tracker.md:1447-1475`) would have it review
  them first (`PendingReview`; `ReviewBeforeExploring` speaks of the candidates
  presented).
- A WorkItem that an observation closes while candidates of its search are not yet
  reviewed makes the search review fail, and with it the run
  (`structured_json.py:361-365`; `ReviewWithoutScope`), which no document mentions.
- Two jobs that work on one run at a time may both repeat a candidate that had
  failed: each reads the failed checkpoint before the other commits, the second
  puts its result in the place of a final one, and counters and checkpoints
  disagree from then on (`graph_client.py:563-650`; `ReadCheckpoint`,
  `WriteCheckpoint` with two members of `Jobs`). No document rules out a second job,
  and no lock does; the run `classification` has one.
- The checkpoint of a partial batch may leave a WorkItem open with a settled
  Hypothesis; the final answer must give a reason for it that it cannot have
  (`F/validation.py:1498`), so that the run fails where it should answer within
  its reserve (plan 356; `Explained`). Plan is
  `docs/generic_iterative_agent_framework_plan.md`, here and below.
- A search during a seed fills the cache of law titles with those of a part of the
  laws, for as long as the server runs (`opensearch_client.py:274`, docstring 254;
  `ReadTitles`, `KeepTitles`).
- In the layered retrieval a candidate of the slot at work that is given up stays
  in its list, as the list is stored only at the end: more candidates are kept
  than `layered_max_article_candidates_total` (`layered_retriever.py:676-689`,
  `docs/layered_legal_evidence_retrieval_plan.md` section 8.8; `Evict`,
  `AllocateOne`).
- After a failure inside the layered retrieval the agent's own evidence is handed
  on (`agent.py:847-851`), but the trace still says that the layered evidence is
  insufficient, so that the answer is refused; only such a failure is to go back to
  the old way (`docs/layered_legal_evidence_retrieval_plan.md:98`; last disjunct of
  `Layered`, `Compose`).
- A question with choices that is researched by the model never has a valid
  answer: the fields of free answers must be null (`llm.py:2985-2996`), and the
  contract asks for one of them (`llm.py:2163-2165`; `ValidAnswers`).
- A batch that was not searched for want of calls is said to have no candidate
  Article (`layered_retriever.py:262`; `SkipSearch`, `NoCandidate`), and slots
  that were found but not taken up when the rounds end are in no report
  (same document, section 8.2; `Finish`).
- The documents that a guideline mentions restrict the search for the Articles of
  the law (`opensearch_client.py:725`), where the guideline lane is said only to
  add candidates (`guidance_lane.py`); in the model this is part of the free
  choice of what a search finds.
- The limit of exploration sets (`F/profiles.py:151`) is compared with the cycle
  before the decision, so that a decision that opens the next cycle and explores
  in it starts one set more (`F/validation.py:2131`; `WithinSetLimits`).
- A fetched text that does not fit beside the cited ones is left out in silence
  (`F/context.py:1121`), though each new text must be shown once to the next
  decision (plan 1416; `Shown`, `RecentShown`).
- With a Hypothesis revision ready, the Search Review that comes first may fetch
  within the reserves in which no tool may start (`F/loop.py:811`, plan 319-320;
  `Finalizes`, `Purpose`).
- The integration of a text in the last cycle may ask for a tool, where only
  finalization is allowed (`F/loop.py:714`, plan 396-397; `MustFinalize`).
- A timed-out repair of a decision drops the parts that an earlier attempt had
  right (`F/loop.py:946`, plan 353-355; `Checkpoint`).
- The checkpoint of a partial batch closes a WorkItem although its stored
  dependency still needs an action (`structured_json.py:5584`,
  `docs/agent_contract_semantics.md:26-28`; `Checkpoint`, `Derived`). For this
  reason `ResolvedInTimeIsComplete` ends with the first timeout.
- A revised answer of the queue that could not be bound is asked for again by
  the next run (`scripts/run_relation_adjudication_codex_queue.py:581`), where
  the Worker is to be resumed once (`RUNBOOK.md:393`; `AfterRevision`).
- A final review that breaks its contract is never returned (same file, 648), and
  blocks the shard in each later run (`RUNBOOK.md:396-397`; `Merge`).

## 7. Plan

1. `CaseState`, `AgentLoop`, `CaseRun`, `AdjudicationQueue`, `ShardLedger`: done,
   with proofs.
2. `ClassificationRun`, `RelationResults`, `CaseTransactions`, `ObservationCall`,
   `ResearchCase`, `ResearchLoop`, `Seeding`, `Bootstrap`, `Ingestion`: done.
3. `EvidenceRequirements`, `ContextAssembly`, `LayeredRetrieval`, `EvidencePool`,
   `AnswerService`: done.
4. `WorkItemSteps`: done, with proofs.
5. Proofs about the loop, the queue, the WorkItems, the observation, the
   transactional store, the classification, the research loop, the answer with its
   evidence and citations, the ingestion and the layered retrieval: done.
6. Open: Hypothesis versions and the Reviewer in `WorkItemSteps`.
