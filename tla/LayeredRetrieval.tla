-------------------------- MODULE LayeredRetrieval --------------------------
(***************************************************************************)
(* The layered retrieval of one question (app/layered_retriever.py with    *)
(* guidance_lane.py, requirement_reranker.py, retrieval_budget.py and      *)
(* run_layered_retrieval of layered_shadow.py): a search of the guidelines,*)
(* round 0 over the slots of the plan, then rounds over the slots that the *)
(* Articles found in the round before have added, and at the end the       *)
(* choice of passages.  Every round takes its slots in batches; a batch is *)
(* searched with one call, reranked, given its candidates slot by slot and *)
(* followed into the graph with one call.                                  *)
(*                                                                         *)
(* What a search finds, how it is ranked and which Article satisfies a     *)
(* slot are free choices, within what the code makes sure of: an Article   *)
(* fetched by its identifier ranks before the others unless the reranker   *)
(* reorders them, and the Article a slot names satisfies it.               *)
(***************************************************************************)
EXTENDS ContextAssembly

CONSTANTS Articles,
          Plans,               \* the plans the question may get, references merged
          Guides,              \* the identifiers of guideline passages
          MaxRounds,           \* layered_max_expansion_rounds
          MaxArticles,         \* layered_max_articles_per_requirement
          MaxAccepted,         \* layered_max_accepted_articles_per_requirement
          MaxCandidates,       \* layered_max_article_candidates_total
          MaxSearches,         \* layered_max_search_batch_calls_total
          MaxRoundSearches,    \* layered_max_search_batch_calls_per_round
          MaxGraphCalls,       \* layered_max_graph_batch_calls_total
          MaxRoundGraphCalls,  \* layered_max_graph_batch_calls_per_round
          MaxReranks,          \* layered_max_rerank_calls_total
          MaxRoundReranks,     \* layered_max_rerank_calls_per_round
          MaxPairs,            \* layered_max_rerank_pairs_total
          MaxPairsPerCall      \* layered_max_rerank_pairs_per_call

\* The limits are positive where config.py makes them so.  NoArticle is none.
ASSUME SettingsAssumption ==
    /\ {MaxRequirements, ActiveIssues, MaxChildRelations, MaxChunks, MaxChunksPerArticle,
        MaxArticles, MaxAccepted, MaxCandidates, MaxSearches, MaxRoundSearches, MaxPairs,
        MaxPairsPerCall} \subseteq Nat \ {0}
    /\ {MaxRounds, MaxGraphCalls, MaxRoundGraphCalls, MaxReranks, MaxRoundReranks,
        MaxAuxiliaryChunks} \subseteq Nat
    /\ IsFiniteSet(Articles) /\ NoArticle \notin Articles
    /\ \A a \in Articles : Units[a] \in Seq(ToSet(Units[a]))
    /\ Cues \in [Articles -> Seq({"delegation", "application", "exception", "form"})]
    /\ Relations \in [Articles -> Seq([type : RelationTypes, to : Articles])]
    /\ Plans \subseteq Seq([families : Seq(Families), references : Seq(Articles)])

VARIABLES phase,      \* "guidance", "pop", "search", "rerank", "allocate" or "done"
          plan,
          store,
          round,
          batch,      \* the slots of the current batch
          rest,       \* those of them still without candidates
          found,      \* slot -> the Articles the search of the batch gave
          waiting,    \* slots the reranker has still to be asked about
          reordered,  \* slots of the batch in the order of the reranker
          pool,       \* slot -> the candidates kept for it, in their order
          evictable,  \* candidates that may be given up: <<slot, Article>>
          count,      \* article_candidate_count
          limited,    \* article_budget_reached
          children,   \* slots added by this round, for the next one
          explained,  \* issue -> the Articles that guidelines found for it explain
          findings,   \* the guideline passages found
          used,       \* the calls the tracker and the round have counted
          made,       \* the calls really made
          clock,      \* "ample" or "short": at most half a second is left
          stop,       \* the stop reason, "none" while state.stopped is false
          context     \* the passages for the answer, or NoContext

vars == <<phase, plan, store, round, batch, rest, found, waiting, reordered, pool, evictable,
          count, limited, children, explained, findings, used, made, clock, stop, context>>

batchVars == <<batch, rest, found, waiting, reordered>>
poolVars  == <<pool, evictable, count, limited>>

NoContext == [status |-> "none", selected |-> {}, included |-> {}, unresolved |-> {}]
NoneYet(s) == [n \in DOMAIN s |-> <<>>]
Smaller(a, b) == IF a < b THEN a ELSE b

(* The members of a sequence that are in a set, in their order. *)
Keep(s, S) == FoldLeft(LAMBDA kept, x : IF x \in S THEN Append(kept, x) ELSE kept, <<>>, s)

Init == /\ phase = "guidance"
        /\ plan \in Plans
        /\ store = AddAll(<<>>, AssignGroups(InitialRequirements(plan)))
        /\ pool = NoneYet(store)
        /\ round = 0
        /\ batch = <<>> /\ rest = <<>> /\ waiting = <<>> /\ reordered = {} /\ found = <<>>
        /\ evictable = <<>> /\ count = 0 /\ limited = FALSE
        /\ children = <<>> /\ findings = <<>>
        /\ explained = [i \in DOMAIN plan |-> {}]
        /\ used = [search |-> 0, graph |-> 0, rerank |-> 0, pairs |-> 0,
                   roundSearch |-> 0, roundGraph |-> 0, roundRerank |-> 0]
        /\ made = [search |-> 0, graph |-> 0, lost |-> 0]
        /\ clock = "ample" /\ stop = "none" /\ context = NoContext

\* Fault: the calls are not counted against their limit.
InvokeWhileTime(calls, limit) == clock = "ample"

(* BudgetTracker.can_invoke. *)
CanInvoke(calls, limit) == calls < limit /\ clock = "ample"

(* The budget may be spent at any moment; it never comes back. *)
TimeRunsOut == /\ phase # "done" /\ clock = "ample"
               /\ clock' = "short"
               /\ UNCHANGED <<phase, plan, store, round, batchVars, poolVars, children, explained,
                              findings, used, made, stop, context>>

(* GuidanceLane.explore: a search for guidelines, then the Articles they explain, then  *)
(* the unverified relations of these.  A call that raises is not counted.  The lane is   *)
(* one step, as nothing else runs beside it.                                            *)
Guidance ==
    /\ phase = "guidance"
    /\ \E ok \in 0..3, raised \in BOOLEAN, g \in Guides, i \in DOMAIN plan, a \in Articles :
          LET searches == IF CanInvoke(used.search, MaxSearches) THEN 1 ELSE 0
              finds    == searches = 1 /\ ok >= 1
              graphs   == IF finds /\ CanInvoke(used.graph, MaxGraphCalls) THEN 1 ELSE 0
              explains == graphs = 1 /\ ok >= 2
              asserts  == IF explains /\ CanInvoke(used.graph + 1, MaxGraphCalls) THEN 1 ELSE 0
              lost(step, call) == IF raised /\ ok = step THEN call ELSE 0
          IN /\ findings' = IF finds THEN <<g>> ELSE <<>>
             /\ explained' = [explained EXCEPT ![i] = IF explains THEN {a} ELSE {}]
             /\ made' = [search |-> searches, graph |-> graphs + asserts,
                         lost |-> lost(0, searches) + lost(1, graphs) + lost(2, asserts)]
             /\ used' = [used EXCEPT !.search = searches - lost(0, searches),
                                     !.graph = graphs + asserts - lost(1, graphs) - lost(2, asserts)]
    /\ phase' = "pop"
    /\ UNCHANGED <<plan, store, round, batchVars, poolVars, children, clock, stop, context>>

(* _run_round: the next batch, unless the run was stopped or its time is up. *)
Pop ==
    /\ phase = "pop" /\ Pending(store) # {} /\ stop = "none" /\ clock = "ample"
    /\ batch' \in PriorityBatches(store)
    /\ rest' = batch'
    /\ store' = StartBatch(store, batch')
    /\ phase' = "search"
    /\ UNCHANGED <<plan, round, found, waiting, reordered, poolVars, children, explained, findings,
                   used, made, clock, stop, context>>

(* The Articles a slot asks for by their identifier: the one it names, and for a slot *)
(* of the plan those that guidelines explain.                                         *)
Targets(n) == IF store[n].target # NoArticle THEN {store[n].target}
              ELSE IF store[n].depth = 0 THEN explained[store[n].issue] ELSE {}

(* _search.  At the limit of the round the batch is not searched, and nothing is said  *)
(* of it; at the limit of the run, or of time, the run is stopped.                     *)
Searched(results) ==
    /\ found' = results
    /\ waiting' = Keep(batch, {n \in ToSet(batch) : Cardinality(results[n]) >= 2})
    /\ reordered' = {}
    /\ phase' = "rerank"
    /\ UNCHANGED <<plan, store, round, batch, rest, poolVars, children, explained, findings, clock,
                   context>>

Nothing == [n \in ToSet(batch) |-> {}]

SkipSearch ==
    /\ phase = "search"
    /\ \/ /\ used.roundSearch >= MaxRoundSearches
          /\ stop' = stop
       \/ /\ used.roundSearch < MaxRoundSearches
          /\ ~CanInvoke(used.search, MaxSearches)
          /\ stop' = IF stop # "none" THEN stop
                     ELSE IF clock = "short" THEN "time_budget_exhausted"
                     ELSE "search_call_budget_exhausted"
    /\ Searched(Nothing)
    /\ UNCHANGED <<used, made>>

Search ==
    /\ phase = "search"
    /\ used.roundSearch < MaxRoundSearches
    /\ CanInvoke(used.search, MaxSearches)
    /\ \E results \in [ToSet(batch) -> SUBSET Articles] : Searched(results)
    /\ used' = [used EXCEPT !.search = @ + 1, !.roundSearch = @ + 1]
    /\ made' = [made EXCEPT !.search = @ + 1]
    /\ UNCHANGED stop

(* _fair_pair_counts: two pairs for each slot as far as they go, then one each in turn. *)
PairCounts(slots, limit) ==
    LET Two(acc, n) == IF acc.left < 2 THEN acc
                       ELSE [given |-> [m \in DOMAIN acc.given \cup {n} |->
                                          IF m \in DOMAIN acc.given THEN acc.given[m] ELSE 2],
                             left |-> acc.left - 2]
        first == FoldLeft(Two, [given |-> <<>>, left |-> limit], slots)
        One(acc, n) == IF /\ acc.left > 0 /\ n \in DOMAIN acc.given
                          /\ acc.given[n] < Cardinality(found[n])
                       THEN [given |-> [acc.given EXCEPT ![n] = @ + 1], left |-> acc.left - 1] ELSE acc
        Rounds[k \in 0..limit] == IF k = 0 THEN first ELSE FoldLeft(One, Rounds[k - 1], slots)
    IN Rounds[limit].given

SumOf(f) == MapThenSumSet(LAMBDA n : f[n], DOMAIN f)

(* One call of _rerank_batch: the next slots, as many as the pairs of a call give two. *)
Rerank ==
    /\ phase = "rerank" /\ waiting # <<>>
    /\ used.roundRerank < MaxRoundReranks
    /\ LET n == Smaller(Len(waiting), IF MaxPairsPerCall \div 2 > 1 THEN MaxPairsPerCall \div 2 ELSE 1)
           current == SubSeq(waiting, 1, n)
           wanted == SumOf([m \in ToSet(current) |-> Cardinality(found[m])])
           allowed == Smaller(wanted, Smaller(MaxPairsPerCall, MaxPairs - used.pairs))
           pairs == SumOf(PairCounts(current, allowed))
       IN /\ waiting' = SubSeq(waiting, n + 1, Len(waiting))
          /\ IF CanInvoke(used.rerank, MaxReranks) /\ allowed >= 2
             THEN /\ reordered' = reordered \cup ToSet(current)
                  /\ used' = [used EXCEPT !.rerank = @ + 1, !.roundRerank = @ + 1, !.pairs = @ + pairs]
             ELSE UNCHANGED <<reordered, used>>
    /\ UNCHANGED <<phase, plan, store, round, batch, rest, found, poolVars, children, explained,
                   findings, made, clock, stop, context>>

EndRerank ==
    /\ phase = "rerank"
    /\ waiting = <<>> \/ used.roundRerank >= MaxRoundReranks
    /\ waiting' = <<>>
    /\ phase' = "allocate"
    /\ UNCHANGED <<plan, store, round, batch, rest, found, reordered, poolVars, children, explained,
                   findings, used, made, clock, stop, context>>

\* Fault: the reranker does not protect the Article a slot names.
NoneForemost(n) == IF n \in reordered THEN {} ELSE Targets(n)

(* The Articles the ranking puts first: those fetched by their identifier, or, once the *)
(* reranker has given its order, only the one the slot names.                           *)
Foremost(n) == IF n \in reordered THEN {store[n].target} ELSE Targets(n)

(* The orders in which the Articles found for a slot may come out. *)
Orders(n) ==
    {s \in SetToSeqs(found[n]) :
        \A k, m \in DOMAIN s : s[k] \in Foremost(n) /\ s[m] \notin Foremost(n) => k < m}

(* assess_candidate. *)
Satisfying(n) ==
    IF store[n].target # NoArticle THEN {found[n] \cap {store[n].target}}
    ELSE {s \in SUBSET found[n] : found[n] \cap Targets(n) \subseteq s}

(* allocate_candidates, one Article after the other: at the limit of all candidates a  *)
(* mandatory slot may take the place of the last one that may be given up.              *)
Evict(acc) ==
    LET out == Last(acc.evictable)
    IN [acc EXCEPT !.evictable = Front(@), !.count = @ - 1,
                   !.pool[out[1]] = Keep(@, Articles \ {out[2]})]

\* Fault: an accepted Article may be given up as well.
GiveUpAny(acc, n, a, accepts) == Append(acc.evictable, <<n, a>>)

(* Only what was not accepted may be given up later. *)
MayBeGivenUp(acc, n, a, accepts) ==
    IF accepts THEN acc.evictable ELSE Append(acc.evictable, <<n, a>>)

AllocateOne(acc, n, a, satisfying) ==
    LET atLimit == acc.count >= MaxCandidates
        gives == store[n].mandatory /\ acc.evictable # <<>>
        room == IF atLimit /\ gives THEN Evict(acc) ELSE acc
        accepts == a \in satisfying /\ Len(room.accepted) < MaxAccepted
    IN IF acc.closed THEN acc
       ELSE IF atLimit /\ ~gives THEN [acc EXCEPT !.limited = TRUE, !.closed = TRUE]
       ELSE [room EXCEPT !.limited = @ \/ atLimit,
                         !.count = @ + 1,
                         !.pooled = Append(@, a),
                         !.accepted = IF accepts THEN Append(@, a) ELSE @,
                         !.evictable = MayBeGivenUp(room, n, a, accepts)]

AllocateCandidates(n, order, satisfying) ==
    FoldLeft(LAMBDA acc, a : AllocateOne(acc, n, a, satisfying),
             [pool |-> pool, evictable |-> evictable, count |-> count, limited |-> limited,
              pooled |-> <<>>, accepted |-> <<>>, closed |-> FALSE],
             SubSeq(order, 1, Smaller(Len(order), MaxArticles)))

SetStatus(n, status, reason) ==
    store' = [store EXCEPT ![n].status = status, ![n].reason = reason]

NoCandidate ==
    /\ phase = "allocate" /\ rest # <<>> /\ found[Head(rest)] = {}
    /\ SetStatus(Head(rest), "exhausted", "no_candidate_article")
    /\ rest' = Tail(rest)
    /\ UNCHANGED <<phase, plan, round, batch, found, waiting, reordered, poolVars, children,
                   explained, findings, used, made, clock, stop, context>>

Allocate ==
    /\ phase = "allocate" /\ rest # <<>> /\ found[Head(rest)] # {}
    /\ LET n == Head(rest)
       IN \E order \in Orders(n), satisfying \in Satisfying(n) :
            LET r == AllocateCandidates(n, order, satisfying)
                reason == IF r.pooled = <<>> /\ r.limited THEN "article_candidate_budget_exhausted"
                          ELSE "no_satisfying_article"
            IN /\ pool' = IF r.pooled = <<>> THEN r.pool ELSE [r.pool EXCEPT ![n] = r.pooled]
               /\ evictable' = r.evictable
               /\ count' = r.count
               /\ limited' = r.limited
               /\ IF r.accepted = <<>>
                  THEN /\ SetStatus(n, "candidate_found", reason)
                       /\ UNCHANGED children
                  ELSE LET resolved == [store[n] EXCEPT !.status = "resolved", !.accepted = r.accepted]
                       IN /\ store' = [store EXCEPT ![n] = resolved]
                          /\ children' = children \o FlattenSeq(
                               [k \in DOMAIN r.accepted |-> ChildrenFromText(resolved, r.accepted[k])])
    /\ rest' = Tail(rest)
    /\ UNCHANGED <<phase, plan, round, batch, found, waiting, reordered, explained, findings, used,
                   made, clock, stop, context>>

(* _children_from_graph: one call for what the batch has accepted; it may fail, and the *)
(* time may end between the look at the budget and the call.                            *)
GraphDone(more) ==
    /\ phase = "allocate" /\ rest = <<>>
    /\ children' = children \o more
    /\ batch' = <<>> /\ found' = <<>> /\ reordered' = {}
    /\ phase' = "pop"
    /\ UNCHANGED <<plan, store, round, rest, waiting, poolVars, explained, findings, context>>

GraphWanted == /\ \E n \in ToSet(batch) : store[n].accepted # <<>>
               /\ used.roundGraph < MaxRoundGraphCalls
               /\ CanInvoke(used.graph, MaxGraphCalls)

SkipGraph ==
    /\ GraphDone(<<>>)
    /\ \/ /\ ~GraphWanted
          /\ UNCHANGED <<clock, stop>>
       \/ /\ GraphWanted
          /\ clock' = "short"
          /\ stop' = IF stop = "none" THEN "time_budget_exhausted" ELSE stop
    /\ UNCHANGED <<used, made>>

Graph ==
    /\ GraphWanted
    /\ \E answered \in BOOLEAN :
         GraphDone(IF answered
                   THEN FlattenSeq([k \in DOMAIN batch |->
                          ChildrenFromGraph(store[batch[k]], store[batch[k]].accepted)])
                   ELSE <<>>)
    /\ used' = [used EXCEPT !.graph = @ + 1, !.roundGraph = @ + 1]
    /\ made' = [made EXCEPT !.graph = @ + 1]
    /\ UNCHANGED <<clock, stop>>

(* The next round takes the slots the last one has added; those the store already has *)
(* are not added again.                                                                *)
NextRound ==
    /\ phase = "pop" /\ Pending(store) = {}
    /\ stop = "none" /\ children # <<>> /\ round < MaxRounds
    /\ round' = round + 1
    /\ store' = AddAll(store, children)
    /\ pool' = pool \o [k \in 1..(Len(store') - Len(store)) |-> <<>>]
    /\ children' = <<>>
    /\ used' = [used EXCEPT !.roundSearch = 0, !.roundGraph = 0, !.roundRerank = 0]
    /\ UNCHANGED <<phase, plan, batchVars, evictable, count, limited, explained, findings, made,
                   clock, stop, context>>

(* The end of retrieve, and the choice of passages.  Slots that were added but not *)
(* taken up are dropped with the frontier.                                         *)
Finish ==
    /\ phase = "pop"
    /\ \/ stop # "none"
       \/ Pending(store) # {} /\ clock = "short"
       \/ Pending(store) = {} /\ (children = <<>> \/ round = MaxRounds)
    /\ LET stopped == stop # "none" \/ Pending(store) # {}
           reason == IF stop # "none" THEN stop ELSE "time_budget_exhausted"
       IN /\ stop' = IF stopped THEN reason
                     ELSE IF children # <<>> THEN "max_expansion_rounds" ELSE "all_mandatory_resolved"
          /\ store' = IF stopped THEN MarkPendingUnresolved(store, reason) ELSE store
    /\ \E ordered \in InOrder(ChunkCandidates(store', pool) \cup GuidanceCandidates(findings)) :
          context' = AssembleContext(ordered, store')
    /\ phase' = "done"
    /\ UNCHANGED <<plan, round, batchVars, poolVars, children, explained, findings, used, made, clock>>

Done == phase = "done" /\ UNCHANGED vars

Next == \/ TimeRunsOut \/ Guidance \/ Pop \/ SkipSearch \/ Search \/ Rerank \/ EndRerank
        \/ NoCandidate \/ Allocate \/ SkipGraph \/ Graph \/ NextRound \/ Finish \/ Done

Spec == Init /\ [][Next]_vars

----------------------------------------------------------------------------
(* Properties. *)

Statuses == {"unresolved", "searching", "resolved", "candidate_found", "exhausted"}

TypeOK ==
    /\ phase \in {"guidance", "pop", "search", "rerank", "allocate", "done"}
    /\ round \in 0..MaxRounds
    /\ DOMAIN pool = DOMAIN store
    /\ \A n \in DOMAIN store : /\ store[n].status \in Statuses
                                /\ ToSet(store[n].accepted) \subseteq Articles
                                /\ ToSet(pool[n]) \subseteq Articles
    /\ ToSet(rest) \subseteq ToSet(batch) /\ ToSet(batch) \subseteq DOMAIN store

(* An Article that was accepted for a slot stays among the candidates of the slot, from *)
(* which alone its passages are taken: giving up candidates for later slots never        *)
(* reaches it ("採用済みArticleは登録しない", allocate_candidates).                        *)
AcceptedKeepTheirText ==
    \A n \in DOMAIN store : ToSet(store[n].accepted) \subseteq ToSet(pool[n])

(* An Article that a slot names and its search has found is not lost before it is       *)
(* accepted: neither the order of the reranker nor the cut of the candidates drops it,   *)
(* only the limit of all candidates does.                                                *)
NamedIsAccepted ==
    \A n \in DOMAIN found :
        (/\ store[n].target \in found[n]
         /\ store[n].status \in {"candidate_found", "exhausted"}) => limited

(* When the retrieval ends, every slot has been decided or carries the reason why not, *)
(* also when a budget ended it in the middle of a round.                               *)
NothingLeftOpen ==
    phase = "done" =>
        \A n \in DOMAIN store : /\ store[n].status # "searching"
                                /\ store[n].status = "unresolved" => store[n].reason # "none"

(* The guideline lane and the rounds share one limit of calls.  A call of the lane that  *)
(* raises is counted by nobody: one call more than the limit may be made, never two.     *)
CallsWithinLimits ==
    /\ made.search <= MaxSearches + made.lost /\ made.graph <= MaxGraphCalls + made.lost
    /\ made.lost <= 1
    /\ used.roundSearch <= MaxRoundSearches /\ used.roundGraph <= MaxRoundGraphCalls
    /\ used.rerank <= MaxReranks /\ used.roundRerank <= MaxRoundReranks
    /\ used.pairs <= MaxPairs

(* The passages given to the answer: a group counts as included only if each of its     *)
(* mandatory slots was resolved and has a law passage among them, an answer is complete *)
(* only if that holds for all primary groups, and the passages keep their limit.        *)
IncludedIsCovered ==
    phase = "done" =>
        LET law == {c \in context.selected : c.law}
            Covered(n) == \E c \in law : n \in c.covers /\ c.article \in ToSet(store[n].accepted)
            groups == {g \in ConclusionGroups(store) : g.mandatory # {}}
        IN /\ Cardinality(context.selected) <= MaxChunks
           /\ \A g \in groups : g.id \in context.included => \A n \in g.mandatory : Covered(n)
           /\ context.status = "complete" =>
                 \A g \in groups : g.primary => \A n \in g.mandatory : Covered(n)

=============================================================================
