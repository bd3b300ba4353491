---------------------------- MODULE AnswerService ----------------------------
(***************************************************************************)
(* One question answered by the search agent (AgentService.answer of       *)
(* app/agent.py with the answering and reviewing calls of app/llm.py).     *)
(* The agent gathers its evidence itself ("legacy") or takes what the      *)
(* research directed by the model has read ("directed"; ResearchLoop is    *)
(* that loop).  A model then answers from the evidence; the answer to a    *)
(* directed question is reviewed, and the review may ask for another       *)
(* version or for more evidence.                                           *)
(* The search engine, the graph, the reranker and the models are external: *)
(* what they return is any of the values the constants allow.              *)
(***************************************************************************)
EXTENDS EvidencePool

CONSTANTS Questions,      \* [pattern, choices, cue, asks, articles, exact]: what a question is like
          Plans,          \* the sequences of queries the planner may give
          Focused,        \* the focused ones among them, in their order
          Found,          \* what the searches of laws and of guidelines may return, by score
          InLaw,          \* query -> what a search in the law that the query names returns
          FollowUps,      \* the sequences of queries asked after the first round
          NamedIn,        \* query -> the Articles and the exact units that the follow-up query names
          Referring,      \* the units whose texts refer to other provisions
          Evidence,       \* what the directed research may have selected
          Assembled,      \* what the layered retrieval may have assembled
          MaxTotalToolCalls, \* settings.agent_max_total_tool_calls
          MaxRetryRounds, \* settings.agent_max_retry_rounds
          RerankTop,      \* settings.rerank_candidate_top_k
          CitationTopK,   \* topK
          MaxExplained,   \* GUIDANCE_EXPLAINS_MAX_ARTICLES
          AspectPerQuery, \* ASPECT_COVERAGE_PER_QUERY
          MaxAspects,     \* ASPECT_COVERAGE_MAX_ITEMS
          MaxFollowAspects, \* FOLLOW_UP_ASPECT_COVERAGE_MAX_ITEMS
          MaxRounds,      \* GROUNDING_REMEDIATION_MAX_ROUNDS
          MaxMoved        \* bound: the reranker moves at most so many units to the front

(* A result of the index holds a unit once. *)
Results == {s \in Seq(Units) : IsInjective(s)}

ASSUME AnswerAssumption ==
    /\ \A q \in Questions : q.exact \subseteq Units /\ q.articles \subseteq {ArticleOf[u] : u \in Units}
    /\ \A q \in Queries : NamedIn[q].exact \subseteq Units
    /\ "broad" \in Queries /\ Plans \cup FollowUps \subseteq Seq(Queries)
    /\ Found \cup {InLaw[q] : q \in Queries} \cup Evidence \cup Assembled \subseteq Results
    /\ {MaxRetryRounds, RerankTop, CitationTopK} \subseteq Nat

VARIABLES question, path, step,
          late,        \* the deadline is reached, or so near that no call is started
          pool, pending, calls, orders, wantsGraph, evaluation, retries, looked,
          ranked,      \* final_ranked, as units
          structural,  \* structural_citation_ids
          control,     \* answerStatus of the layered retrieval, "none" without it
          given,       \* the citations the caller of _compose_answer holds
          working,     \* working_citations
          final,       \* final_result: the answer of the last call that gave one
          reviewed,    \* the review of it
          rounds,      \* remediation rounds begun
          response

search     == <<pool, pending, calls, orders, wantsGraph, evaluation, retries, looked>>
answer     == <<given, working, structural, control, final, reviewed, rounds>>
answerVars == <<question, path, step, late, search, ranked, answer, response>>

Nothing  == [version |-> 0, status |-> "none", cites |-> <<>>]
NoReview == [verdict |-> "none", of |-> 0]
NoReply  == [kind |-> "none", cites |-> <<>>, version |-> 0]
NoSearch == [queries |-> <<>>, graph |-> FALSE, stop |-> FALSE]

(* The sequences without repetition over S of at most n elements. *)
Lists(S, n) == UNION {{s \in [1..k -> S] : IsInjective(s)} : k \in 0..Smaller(n, Cardinality(S))}

AnswerInit ==
    /\ question \in Questions
    /\ path \in {"legacy", "directed"}
    /\ step = IF path = "legacy" THEN "plan" ELSE "research"
    /\ late = FALSE
    /\ pool = <<>> /\ pending = <<>> /\ calls = 0 /\ orders = <<>> /\ wantsGraph = FALSE
    /\ evaluation = NoSearch /\ retries = 0 /\ looked = FALSE
    /\ ranked = <<>> /\ structural = <<>> /\ control = "none"
    /\ given = <<>> /\ working = <<>>
    /\ final = Nothing /\ reviewed = NoReview /\ rounds = 0
    /\ response = NoReply

Elapse == /\ ~late /\ step # "done"
          /\ late' = TRUE
          /\ UNCHANGED <<question, path, step, search, ranked, answer, response>>

----------------------------------------------------------------------------
(* Gathering the evidence. *)

CanCall(n) == n < MaxTotalToolCalls /\ ~late

Agentic == question.pattern = "agentic"

Plan == /\ step = "plan"
        /\ step' = "search"
        /\ IF Agentic /\ ~late
           THEN pending' \in Plans /\ wantsGraph' \in BOOLEAN
           ELSE pending' = <<"broad">> /\ wantsGraph' = FALSE
        /\ UNCHANGED <<question, path, late, pool, calls, orders, evaluation, retries, looked,
                       ranked, answer, response>>

(* _search_evidence: what was found only in the law that the query names comes after the *)
(* others, whose scores it cannot be compared with; or that search failed and is left out. *)
SearchEvidence(query) ==
    {found \o Without(scoped, ToSet(found)) : found \in Found, scoped \in {<<>>, InLaw[query]}}

Search ==
    /\ step = "search" /\ pending # <<>> /\ CanCall(calls)
    /\ \E results \in SearchEvidence(Head(pending)) :
         pool' = MergeResults(pool, results, Head(pending),
                              IF Head(pending) = "broad" THEN "broad_search" ELSE "initial_search")
    /\ calls' = calls + 1
    /\ pending' = Tail(pending)
    /\ UNCHANGED <<question, path, step, late, orders, wantsGraph, evaluation, retries, looked,
                   ranked, answer, response>>

(* RerankerClient.rerank: some units in front, those it does not name after them as they *)
(* were; or nothing changed, if it fails or there is nothing to order.                    *)
Reranked(units) ==
    {front \o Without(units, ToSet(front)) : front \in Lists(ToSet(units), MaxMoved)}

OrdersOf(units) == IF late \/ Len(units) < 2 THEN {units} ELSE Reranked(units)

MarkFocused ==
    LET focused == SelectSeq(Focused, LAMBDA q : FoundBy(pool, q) # <<>>)
        chosen == [ToSet(focused) -> UNION {OrdersOf(FoundBy(pool, q)) : q \in ToSet(focused)}]
    IN /\ step = "search"
       /\ pending = <<>> \/ ~CanCall(calls)
       /\ step' = "named"
       /\ pending' = <<>>
       /\ \E choice \in {f \in chosen : \A q \in ToSet(focused) : f[q] \in OrdersOf(FoundBy(pool, q))} :
            /\ orders' = choice
            /\ pool' = MarkAspects(pool, focused, choice, AspectPerQuery, MaxAspects, TRUE)
       /\ UNCHANGED <<question, path, late, calls, wantsGraph, evaluation, retries, looked,
                      ranked, answer, response>>

(* _inject_article_references; the provisions named are those whose Article exists. *)
LookedUp(articles, exact) == SelectDirect(UnitsOfArticles(articles) \cup exact, exact)

LookUpNamed ==
    /\ step = "named"
    /\ step' = "guidance"
    /\ \/ /\ CanCall(calls) /\ question.articles \cup question.exact # {}
          /\ pool' = MergeDirect(pool, LookedUp(question.articles, question.exact), TRUE, question.exact)
          /\ calls' = calls + 1
          /\ looked' = TRUE
       \/ UNCHANGED <<pool, calls, looked>>       \* nothing named, no call left, or it failed
    /\ UNCHANGED <<question, path, late, pending, orders, wantsGraph, evaluation, retries,
                   ranked, answer, response>>

(* _inject_guidance_explained_articles. *)
LookUpGuidance ==
    LET found == SelectSeq(Prominent(pool), LAMBDA i : DocumentOf[i.unit] \in DOMAIN Explains)
        docs == Unique([k \in DOMAIN found |-> DocumentOf[found[k].unit]])
        articles == FirstOf(Unique(FlattenSeq([k \in DOMAIN docs |-> Explains[docs[k]]])), MaxExplained)
    IN /\ step = "guidance"
       /\ step' = "evaluate"
       /\ \/ /\ CanCall(calls) /\ articles # <<>>
             /\ pool' = MergeDirect(pool, SelectDirect(UnitsOfArticles(ToSet(articles)), {}), FALSE, {})
             /\ calls' = calls + 1
          \/ UNCHANGED <<pool, calls>>
       /\ UNCHANGED <<question, path, late, pending, orders, wantsGraph, evaluation, retries,
                      looked, ranked, answer, response>>

(* _evaluate_evidence: the model's opinion, or that of the rules. *)
Evaluate ==
    /\ step = "evaluate"
    /\ step' = "graph"
    /\ \/ /\ Agentic /\ ~late
          /\ evaluation' \in [queries : FollowUps, graph : BOOLEAN, stop : BOOLEAN]
       \/ /\ Agentic
          /\ evaluation' \in [queries : FollowUps, graph : {question.cue}, stop : {FALSE}]
       \/ ~Agentic /\ evaluation' = NoSearch
    /\ UNCHANGED <<question, path, late, pool, pending, calls, orders, wantsGraph, retries,
                   looked, ranked, answer, response>>

(* _should_expand_graph. *)
ShouldExpand(items) ==
    /\ question.pattern # "baseline"
    /\ \/ wantsGraph \/ question.cue
       \/ \E i \in ToSet(FirstOf(ByScore(items), CitationTopK)) : i.unit \in Referring

Expand ==
    LET required == evaluation.graph \/ (~evaluation.stop /\ ShouldExpand(pool))
    IN /\ step = "graph"
       /\ step' = "follow"
       /\ IF required /\ CanCall(calls)
          THEN pool' = ExpandGraph(pool, orders, AspectPerQuery, question.asks) /\ calls' = calls + 1
          ELSE UNCHANGED <<pool, calls>>
       /\ UNCHANGED <<question, path, late, pending, orders, wantsGraph, evaluation, retries,
                      looked, ranked, answer, response>>

(* What a follow-up query names is found by it as well. *)
WithDirect(items, query, units) ==
    [n \in DOMAIN items |->
       LET at == {k \in DOMAIN units : units[k] = items[n].unit}
       IN IF at = {} THEN items[n]
          ELSE [items[n] EXCEPT !.ranks[query] = IF @ = 0 THEN Min(at) ELSE Smaller(@, Min(at))]]

FollowUp ==
    LET query == evaluation.queries[retries + 1]
        named == NamedIn[query]
        Direct(merged, units) == WithDirect(MergeDirect(merged, units, TRUE, named.exact), query, units)
        Marked(direct, order) == MarkAspects(direct, <<query>>, [q \in {query} |-> order],
                                             MaxFollowAspects, MaxFollowAspects, FALSE)
        Advance(marked, found) ==
          LET expands == found /\ ShouldExpand(marked) /\ CanCall(calls + 1)
          IN /\ pool' = IF expands THEN ExpandGraph(marked, orders, AspectPerQuery, question.asks)
                        ELSE marked
             /\ calls' = calls + 1 + Number(expands)
             /\ step' = IF ~found \/ Len(pool') >= CitationTopK + Larger(2, CitationTopK)
                         THEN "rank" ELSE "follow"
    IN /\ step = "follow"
       /\ ~evaluation.stop /\ retries < Smaller(MaxRetryRounds, Len(evaluation.queries))
       /\ CanCall(calls)
       /\ \E merged \in {MergeResults(pool, results, query, "follow_up_search") :
                        results \in SearchEvidence(query)},
            units \in {<<>>, LookedUp(named.articles, named.exact)} :
            \E direct \in {Direct(merged, units)} :
              \E order \in OrdersOf(FoundBy(direct, query)) :
                \E marked \in {Marked(direct, order)} : Advance(marked, Len(merged) > Len(pool))
       /\ retries' = retries + 1
       /\ UNCHANGED <<question, path, late, pending, orders, wantsGraph, evaluation, looked,
                      ranked, answer, response>>

EndFollowUp ==
    /\ step = "follow"
    /\ \/ evaluation.stop \/ retries >= Smaller(MaxRetryRounds, Len(evaluation.queries))
       \/ ~CanCall(calls)
    /\ step' = "rank"
    /\ UNCHANGED <<question, path, late, search, ranked, answer, response>>

(* The reranker orders a wider choice; without it the scores decide. *)
Rank ==
    LET HandOn(items, top) ==
          /\ ranked' = UnitsOf(items)
          /\ structural' = IF question.choices THEN GraphClosure(items, top) ELSE <<>>
        Reordered(order) == PinRanked([k \in DOMAIN order |-> pool[At(pool, order[k])]])
        ByScores(items) == HandOn(items, ToSet(UnitsOf(items)))
        ByReranker(input) ==
          Len(input) >= 2 /\ \E order \in Reranked(input) :
                               HandOn(Reordered(order), ToSet(FirstOf(order, TopK)))
    IN /\ step = "rank"
       /\ step' = "ranked"
       /\ \/ ByScores(ScoreRanked(pool))
          \/ /\ ~late
             /\ ByReranker(UnitsOf(FusionRanked(pool, Smaller(Len(pool), Larger(TopK, RerankTop)))))
       /\ UNCHANGED <<question, path, late, search, given, working, control, final, reviewed,
                      rounds, response>>

(* Search and graph have no fallback here: the request ends with an error. *)
SearchFails ==
    /\ step \in {"search", "graph", "follow"}
    /\ step' = "done"
    /\ response' = [NoReply EXCEPT !.kind = "failed"]
    /\ UNCHANGED <<question, path, late, search, ranked, answer>>

(* _apply_layered_legal_retrieval: off, or failed; its own evidence; no evidence for the *)
(* main issue; or a failure inside, after which the evidence is the agent's again.         *)
Layered ==
    /\ step = "ranked"
    /\ step' = "compose"
    /\ \/ given' = ranked /\ control' = "none" /\ UNCHANGED structural
       \/ /\ given' \in Assembled
          /\ control' \in {"complete", "partial"}
          /\ structural' = <<>>
       \/ given' = <<>> /\ control' = "insufficient" /\ structural' = <<>>
       \/ given' = ranked /\ control' = "insufficient" /\ UNCHANGED structural
    /\ pool' = <<>> /\ pending' = <<>> /\ calls' = 0 /\ orders' = <<>> /\ wantsGraph' = FALSE
    /\ evaluation' = NoSearch /\ retries' = 0 /\ looked' = FALSE /\ ranked' = <<>>
    /\ UNCHANGED <<question, path, late, working, final, reviewed, rounds, response>>

----------------------------------------------------------------------------
(* The answer. *)

(* _select_final_citations: the directed answer returns what it selected and nothing else. *)
FinalCitations(ids) ==
    LET Of(cited) == Kept(cited, {k \in DOMAIN cited : cited[k] \in ToSet(given)})
        first == Of(Unique(structural \o ids))
        rest == Without(given, ToSet(first))
    IN IF path = "directed" THEN FirstOf(first, CitationTopK)
       ELSE IF question.choices THEN FirstOf(first \o rest, CitationTopK)
       ELSE first \o FirstOf(rest, Larger(0, CitationTopK - Len(first)))

Respond(kind, result) ==
    /\ step' = "done"
    /\ response' = [kind |-> kind, version |-> result.version, cites |-> FinalCitations(result.cites)]

(* The research ends in an error, without evidence, or with some. *)
Research ==
    /\ step = "research"
    /\ \/ /\ step' = "done"
          /\ response' = [NoReply EXCEPT !.kind = "not_researched"]
          /\ UNCHANGED given
       \/ /\ given' \in Evidence
          /\ step' = "compose"
          /\ UNCHANGED response
    /\ UNCHANGED <<question, path, late, search, ranked, working, structural, control, final,
                   reviewed, rounds>>

Compose ==
    /\ step = "compose"
    /\ \/ control = "insufficient" /\ Respond("refused", Nothing) /\ UNCHANGED working
       \/ /\ control # "insufficient" /\ given = <<>>
          /\ Respond("no_evidence", Nothing)
          /\ UNCHANGED working
       \/ /\ control # "insufficient" /\ given # <<>>
          /\ working' = given
          /\ step' = "main"
          /\ UNCHANGED response
    /\ UNCHANGED <<question, path, late, search, ranked, given, structural, control, final,
                   reviewed, rounds>>

(* What the contracts of the answer let through (_validate_choice_fields,                *)
(* _answer_contract_error): only units shown, not more than may be returned, some unless  *)
(* the answer says it is insufficient.  A directed question with choices has no valid     *)
(* answer: its Issue decisions are forbidden by the one contract and asked by the other.   *)
(* Bound: the assessments of a question with choices rest on two units at most.            *)
ValidAnswers ==
    IF question.choices
    THEN IF path = "directed" THEN {}
         ELSE [version : {final.version + 1}, status : {"chosen"}, cites : Lists(ToSet(working), 2)]
    ELSE {a \in [version : {final.version + 1}, status : {"ready", "partial", "insufficient"},
                 cites : Lists(ToSet(working), CitationTopK)] :
            a.cites = <<>> => a.status = "insufficient"}

Reviews == path = "directed" /\ ~question.choices

(* generate_answer: one more attempt when the reply breaks the contract. *)
Generate ==
    /\ step \in {"main", "main_again"} /\ ~late
    /\ final' \in ValidAnswers
    /\ step' = IF Reviews THEN "review" ELSE "answered"
    /\ UNCHANGED <<question, path, late, search, ranked, given, working, structural, control,
                   reviewed, rounds, response>>

Regenerate ==
    /\ step = "main" /\ ~late
    /\ step' = "main_again"
    /\ UNCHANGED <<question, path, late, search, ranked, answer, response>>

(* No valid answer in time: there is none at all, or the version before it stays without *)
(* a review that holds for it.                                                           *)
NoAnswer ==
    /\ step \in {"main", "main_again"} /\ final = Nothing
    /\ Respond("unverified", Nothing)
    /\ UNCHANGED <<question, path, late, search, ranked, given, working, structural, control,
                   final, reviewed, rounds>>

NoRevision ==
    /\ step \in {"main", "main_again"} /\ final # Nothing
    /\ Respond("suppressed", Nothing)
    /\ reviewed' = NoReview
    /\ UNCHANGED <<question, path, late, search, ranked, given, working, structural, control,
                   final, rounds>>

(* review_answer_grounding, _parse_grounding_review. *)
Review ==
    /\ step \in {"review", "review_again"} /\ ~late
    /\ \E verdict \in {"supported", "insufficient", "needs_revision", "needs_research"} :
         reviewed' = [verdict |-> verdict, of |-> final.version]
    /\ step' = "judge"
    /\ UNCHANGED <<question, path, late, search, ranked, given, working, structural, control,
                   final, rounds, response>>

ReviewAgain ==
    /\ step = "review" /\ ~late
    /\ step' = "review_again"
    /\ UNCHANGED <<question, path, late, search, ranked, answer, response>>

\* Fault: without a review the answer is returned.
NoReviewIsNoObjection ==
    /\ step \in {"review", "review_again"}
    /\ step' = "answered"
    /\ reviewed' = NoReview
    /\ UNCHANGED <<question, path, late, search, ranked, given, working, structural, control,
                   final, rounds, response>>

NoReviewCame ==
    /\ step \in {"review", "review_again"}
    /\ Respond("suppressed", Nothing)
    /\ reviewed' = NoReview
    /\ UNCHANGED <<question, path, late, search, ranked, given, working, structural, control,
                   final, rounds>>

Judge ==
    /\ step = "judge"
    /\ \/ reviewed.verdict = "supported" /\ step' = "answered" /\ UNCHANGED <<rounds, response>>
       \/ /\ \/ reviewed.verdict = "insufficient"
             \/ reviewed.verdict # "supported" /\ rounds = MaxRounds
          /\ Respond("suppressed", Nothing)
          /\ UNCHANGED rounds
       \/ /\ reviewed.verdict \in {"needs_revision", "needs_research"} /\ rounds < MaxRounds
          /\ rounds' = rounds + 1
          /\ step' = IF reviewed.verdict = "needs_research" THEN "more" ELSE "main"
          /\ UNCHANGED response
    /\ UNCHANGED <<question, path, late, search, ranked, given, working, structural, control,
                   final, reviewed>>

\* Fault: the caller's citations are not brought up to date.
KeepForItself(new) == working' = new \o working /\ UNCHANGED given

(* What the searches of the review found is put before what was there, for the model and *)
(* for the citations of the response.                                                    *)
TakeUp(new) == working' = new \o working /\ given' = working'

(* _execute_reviewer_research_queries. *)
ResearchMore ==
    /\ step = "more"
    /\ \/ /\ ~late
          /\ \E new \in Lists(Units \ ToSet(working), 2) \ {<<>>} : TakeUp(new)
          /\ step' = "main"
          /\ UNCHANGED response
       \/ Respond("suppressed", Nothing) /\ UNCHANGED <<given, working>>
    /\ UNCHANGED <<question, path, late, search, ranked, structural, control, final, reviewed, rounds>>

Answered ==
    /\ step = "answered"
    /\ Respond("answered", final)
    /\ UNCHANGED <<question, path, late, search, ranked, answer>>

AnswerNext ==
    \/ Elapse \/ Plan \/ Search \/ MarkFocused \/ LookUpNamed \/ LookUpGuidance \/ Evaluate
    \/ Expand \/ FollowUp \/ EndFollowUp \/ Rank \/ SearchFails \/ Layered
    \/ Research \/ Compose \/ Generate \/ Regenerate \/ NoAnswer \/ NoRevision \/ Review \/ ReviewAgain
    \/ NoReviewCame \/ Judge \/ ResearchMore \/ Answered

AnswerSpec == AnswerInit /\ [][AnswerNext]_answerVars

----------------------------------------------------------------------------
(* Type invariant: the parts of the state have the values the actions work with. *)
AnswerTypeOK ==
    /\ question \in Questions
    /\ late \in BOOLEAN
    /\ IsInjective(UnitsOf(pool)) /\ Held(pool) \subseteq Units
    /\ IsInjective(ranked) /\ IsInjective(given) /\ IsInjective(working)
    /\ ToSet(given) \cup ToSet(working) \subseteq Units
    /\ calls \in 0..MaxTotalToolCalls /\ rounds \in 0..MaxRounds

(* The passage that stands for each provision the question names. *)
NamedUnits ==
    question.exact \cup
    {LookedUp({a}, {})[1] : a \in {b \in question.articles : \A u \in question.exact : ArticleOf[u] # b}}

(* A provision whose number is in the question and whose text was looked up is among the *)
(* evidence the model answers from, however the searches score it and wherever the        *)
(* reranker puts it, as long as there is room for what must stay and for what else was     *)
(* named and stands for an aspect, and the latter is not more than may be put back          *)
(* (_merge_direct_documents_into_evidence, _fusion_ranked_evidence, _pin_ranked_evidence). *)
(* This is the evidence the agent ranks itself (final_ranked): the layered retrieval, when *)
(* it succeeds, answers from its own (Layered).                                            *)
NamedReachesAnswer ==
    step = "ranked" /\ looked
      /\ Cardinality({i \in ToSet(pool) : i.must \/ (i.direct /\ i.aspect)}) <= TopK
      /\ Cardinality({i \in ToSet(pool) : i.direct /\ (i.must \/ i.aspect)}) <= MaxPinned
    => NamedUnits \subseteq ToSet(ranked)

(* A directed answer is returned only in the version that a review found supported; a    *)
(* version written after the review, or one whose review failed, was late or broke its   *)
(* contract, is not (_compose_answer).                                                   *)
SupportedIsReturned ==
    response.kind = "answered" /\ Reviews
    => reviewed = [verdict |-> "supported", of |-> response.version]

(* Every unit on which the answer returned to a question without choices rests is among   *)
(* the citations returned with it, those included that the searches of a review found     *)
(* after the evidence was handed over (_compose_answer, _select_final_citations).          *)
CitedIsReturned ==
    response.kind = "answered" /\ ~question.choices
    => ToSet(final.cites) \subseteq ToSet(response.cites)

=============================================================================
