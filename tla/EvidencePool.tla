---------------------------- MODULE EvidencePool ----------------------------
(***************************************************************************)
(* The evidence of the search agent (app/agent.py, evidence_selector.py,   *)
(* reranker.py): how what searches, named provisions, guidelines and the   *)
(* graph bring is merged into one pool, and which of it is handed to the   *)
(* answering model.                                                        *)
(* The pool is the sequence of its items in the order in which they came;  *)
(* a unit (a passage, known by its contentUnitId) occurs once in it.       *)
(***************************************************************************)
EXTENDS Integers, FiniteSets, Sequences, SequencesExt

CONSTANTS Listing,        \* all units, in the order of their ids
          ArticleOf,      \* unit -> its Article, Article -> itself
          DocumentOf,     \* unit or Article -> its document
          Laws,           \* the documents that are laws
          Coverage,       \* unit or Article -> how much of the question its text contains
          Links,          \* relation -> Article -> <<[to, trusted], ...>>, its edges to units or Articles
          SiblingCue,     \* the units whose text speaks of paragraphs beside them
          Explains,       \* guideline -> the Articles it explains, in their order
          Queries,        \* the queries a run may make
          MaxQueryRank,   \* ASPECT_COVERAGE_MAX_QUERY_RANK
          RrfK,           \* settings.agent_rrf_k
          TopK,           \* rerankTopK
          CandidateTopK,  \* candidateTopK
          MaxPaths,       \* settings.agent_max_graph_paths
          PerArticle,     \* DIRECT_CHUNKS_PER_ARTICLE
          PinSlack,       \* GRAPH_RELATION_RERANK_SLACK
          MaxTrusted,     \* GRAPH_RELATION_PIN_MAX
          MaxPinned       \* FINAL_RERANK_MAX_ADDITIONS

Units == ToSet(Listing)

ASSUME PoolAssumption ==
    /\ Listing \in Seq(Units) /\ IsInjective(Listing)
    /\ \A u \in Units : Coverage[u] \in Int
    /\ {RrfK, TopK, CandidateTopK, PinSlack, MaxPinned} \subseteq Nat
    /\ PerArticle \in Nat \ {0}

Less(s, t) == \E n \in DOMAIN s : s[n] < t[n] /\ \A m \in 1..(n - 1) : s[m] = t[m]

Number(b) == IF b THEN 1 ELSE 0

Smaller(m, n) == IF m < n THEN m ELSE n
Larger(m, n)  == IF m > n THEN m ELSE n

FirstOf(s, n) == SubSeq(s, 1, Smaller(n, Len(s)))

(* The members of S as the relation orders them. *)
Lined(S, before) ==
    [k \in 1..Cardinality(S) |->
       CHOOSE m \in S : Cardinality({j \in S : <<j, m>> \in before}) = k - 1]
Ascending(S)  == Lined(S, {e \in S \X S : e[1] < e[2]})
Descending(S) == Lined(S, {e \in S \X S : e[1] > e[2]})

InOrder(s, order) == [k \in DOMAIN order |-> s[order[k]]]

(* What s has at some places, in its order. *)
Kept(s, places) == InOrder(s, Ascending(places))

(* s without the members of a set. *)
Without(s, S) == Kept(s, {k \in DOMAIN s : s[k] \notin S})

(* Python's sorted: by the key of each place, and what has the same key stays in order. *)
Sorted(s, key) ==
    LET Before(m, n) == Less(Append(key[m], m), Append(key[n], n))
    IN InOrder(s, Lined(DOMAIN s, {e \in (DOMAIN s) \X (DOMAIN s) : Before(e[1], e[2])}))

(* dict.fromkeys: the first of each. *)
Unique(s) == Kept(s, {k \in DOMAIN s : \A j \in 1..(k - 1) : s[j] # s[k]})

UnitsOf(items) == [k \in DOMAIN items |-> items[k].unit]
Held(pool) == ToSet(UnitsOf(pool))
At(pool, u) == CHOOSE n \in DOMAIN pool : pool[n].unit = u
Place(units, u) == CHOOSE k \in DOMAIN units : units[k] = u

Relation == <<"IMPLEMENTS", "REFERENCES", "APPLIED_BY">>

Item(u, score) ==
    [unit |-> u, score |-> score, ranks |-> [q \in Queries |-> 0], must |-> FALSE,
     aspect |-> FALSE, direct |-> FALSE, closure |-> FALSE, relations |-> {}, sources |-> {},
     sourceRank |-> 0, fromAspect |-> FALSE]

----------------------------------------------------------------------------
(* What searches and direct lookups add. *)

RankScore(rank, source) == (IF source = "broad_search" THEN 1250 ELSE 1000) \div (RrfK + rank)

(* _merge_search_results. *)
MergeResults(pool, results, query, source) ==
    LET Again(i, rank) == [i EXCEPT !.score = @ + RankScore(rank, source),
                                    !.ranks[query] = IF @ = 0 THEN rank ELSE Smaller(@, rank)]
        New(rank) == [Item(results[rank], RankScore(rank, source)) EXCEPT !.ranks[query] = rank]
    IN [n \in DOMAIN pool |-> IF pool[n].unit \in ToSet(results)
                              THEN Again(pool[n], Place(results, pool[n].unit)) ELSE pool[n]]
       \o Kept([rank \in DOMAIN results |-> New(rank)],
               {rank \in DOMAIN results : results[rank] \notin Held(pool)})

(* _select_direct_documents: of each Article the passages named and the ones nearest to *)
(* the question, all of the named ones and otherwise PerArticle.                          *)
SelectDirect(units, exact) ==
    LET Room(a) == Larger(PerArticle, Cardinality({u \in units \cap exact : ArticleOf[u] = a}))
        First(a) == Min({k \in DOMAIN Listing : Listing[k] \in units /\ ArticleOf[Listing[k]] = a})
        Key(u) == <<First(ArticleOf[u]), Number(u \notin exact), 0 - Coverage[u]>>
        Choose(nearest) ==
          Kept(nearest, {k \in DOMAIN nearest :
                           Cardinality({j \in 1..(k - 1) : ArticleOf[nearest[j]] = ArticleOf[nearest[k]]})
                             < Room(ArticleOf[nearest[k]])})
        ByArticle(listed) == Choose(Sorted(listed, [k \in DOMAIN listed |-> Key(listed[k])]))
    IN ByArticle(Kept(Listing, {k \in DOMAIN Listing : Listing[k] \in units}))

(* A passage stands for its Article if it was named exactly or comes first of it. *)
Stands(units, k, exact) ==
    units[k] \in exact \/ \A j \in 1..(k - 1) : ArticleOf[units[j]] # ArticleOf[units[k]]

Brought(pool, units, direct, exact) ==
    Kept([k \in DOMAIN units |->
            [Item(units[k], 0) EXCEPT !.must = Stands(units, k, exact), !.direct = direct]],
         {k \in DOMAIN units : units[k] \notin Held(pool)})

\* Fault: a passage that a search has found already is taken to be safe.
MergeDirectNew(pool, units, direct, exact) == pool \o Brought(pool, units, direct, exact)

(* _merge_direct_documents_into_evidence: what stands for its Article must be among the *)
(* evidence, also if a search has found it already.                                     *)
MergeDirect(pool, units, direct, exact) ==
    LET Again(i) == [i EXCEPT !.must = @ \/ Stands(units, Place(units, i.unit), exact),
                              !.direct = @ \/ direct]
    IN [n \in DOMAIN pool |-> IF pool[n].unit \in ToSet(units) THEN Again(pool[n]) ELSE pool[n]]
       \o Brought(pool, units, direct, exact)

(* The passages of Articles, as the index returns them. *)
UnitsOfArticles(articles) == {u \in Units : ArticleOf[u] \in articles}

----------------------------------------------------------------------------
(* The aspects of the question: one focused query each. *)

(* _rerank_aspect_queries: the units a query found, the first MaxQueryRank, by their ranks. *)
FoundBy(pool, query) ==
    LET found == SelectSeq(pool, LAMBDA i : i.ranks[query] \in 1..MaxQueryRank)
    IN UnitsOf(Sorted(found, [k \in DOMAIN found |-> <<found[k].ranks[query], 0 - found[k].score>>]))

(* _mark_aspect_representatives: the queries take turns; each takes the first unit left *)
(* to it, and of one Article no second one is taken if "apart".                           *)
MarkAspects(pool, queries, orders, perQuery, limit, apart) ==
    LET taken == IF apart THEN {ArticleOf[i.unit] : i \in {j \in ToSet(pool) : j.aspect}} ELSE {}
        turns == FlattenSeq([r \in 1..perQuery |-> queries])
        Turn(s, q) ==
          LET open == SelectSeq(s.left[q], LAMBDA u : ArticleOf[u] \notin s.articles)
          IN IF open = <<>> \/ Cardinality(s.units) >= limit THEN s
             ELSE [units |-> s.units \cup {Head(open)},
                   articles |-> IF apart THEN s.articles \cup {ArticleOf[Head(open)]} ELSE {},
                   left |-> [s.left EXCEPT ![q] = Tail(open)]]
        marked == FoldLeft(Turn, [units |-> {}, articles |-> taken, left |-> orders], turns).units
    IN [n \in DOMAIN pool |-> [pool[n] EXCEPT !.aspect = @ \/ pool[n].unit \in marked]]

(* aspect_queries_by_article: the first Articles of each aspect. *)
AspectArticles(orders, perQuery) ==
    UNION {LET law == SelectSeq(orders[q], LAMBDA u : DocumentOf[u] \in Laws)
               articles == Unique([k \in DOMAIN law |-> ArticleOf[law[k]]])
           IN ToSet(FirstOf(articles, perQuery)) : q \in DOMAIN orders}

----------------------------------------------------------------------------
(* What the graph adds. *)

(* The items that lookups in the graph start from. *)
Prominent(pool) ==
    FirstOf(Sorted(pool, [n \in DOMAIN pool |-> <<Number(~pool[n].aspect), 0 - pool[n].score>>]), TopK)

(* _diverse_target_document_paths: two edges of an Article, of two documents if there are. *)
Diverse(edges) ==
    LET Apart(sorted) ==
          Unique(FoldLeft(LAMBDA heads, e : IF \E h \in ToSet(heads) : DocumentOf[h.to] = DocumentOf[e.to]
                                            THEN heads ELSE Append(heads, e), <<>>, sorted) \o sorted)
    IN FirstOf(Apart(Sorted(edges, [k \in DOMAIN edges |-> <<0 - Coverage[edges[k].to]>>])), 2)

(* _fair_graph_paths: every start has its turn before the limit is reached; the edges *)
(* lead from Articles, a passage has none.                                             *)
FairPaths(starts, type) ==
    LET Paths(a, edges) == [k \in DOMAIN edges |-> [type |-> type, from |-> a, to |-> edges[k].to,
                                                     trusted |-> edges[k].trusted]]
        From(paths, a) ==
          IF Len(paths) >= MaxPaths \/ a \in Units THEN paths
          ELSE Unique(paths \o Paths(a, Diverse(Links[type][a])))
    IN FirstOf(FoldLeft(From, <<>>, FirstOf(starts, MaxPaths)), MaxPaths)

(* The passages that stand for the target Articles: the nearest to the question of each, by *)
(* the rank of the source.                                                                   *)
Representatives(units, rank) ==
    LET best == {u \in units : /\ ArticleOf[u] \in DOMAIN rank
                               /\ \A v \in units \ {u} : ArticleOf[v] = ArticleOf[u] =>
                                    Less(<<Coverage[v], Place(Listing, v)>>, <<Coverage[u], Place(Listing, u)>>)}
        By(listed) == Sorted(listed, [k \in DOMAIN listed |-> <<rank[ArticleOf[listed[k]]],
                                                                0 - Coverage[listed[k]]>>])
    IN By(SelectSeq(Listing, LAMBDA u : u \in best))

(* _select_trusted_graph_documents: of them one for each relation, then other documents, *)
(* then the rest.                                                                         *)
TrustedUnits(reps, relations) ==
    LET NewDocument(sel, u) == DocumentOf[u] \notin {DocumentOf[v] : v \in sel}
        First(sel, open, apart) ==
          IF open = <<>> \/ Cardinality(sel) >= MaxTrusted THEN sel
          ELSE sel \cup {IF apart # <<>> THEN apart[1] ELSE open[1]}
        OfRelation(sel, t) ==
          LET open == SelectSeq(reps, LAMBDA u : u \notin sel /\ t \in relations[ArticleOf[u]])
          IN First(sel, open, SelectSeq(open, LAMBDA u : NewDocument(sel, u)))
        OfDocument(sel, u) == IF Cardinality(sel) < MaxTrusted /\ NewDocument(sel, u)
                              THEN sel \cup {u} ELSE sel
        Rest(sel, u) == IF Cardinality(sel) < MaxTrusted THEN sel \cup {u} ELSE sel
    IN FoldLeft(Rest, FoldLeft(OfDocument, FoldLeft(OfRelation, {}, Relation), reps), reps)

(* What the graph tells of each trusted target Article; the rank of a source is the last *)
(* place its Article has among the items the lookup starts from.                         *)
Targets(trusted, articles) ==
    LET To(a) == {p \in trusted : ArticleOf[p.to] = a}
        Rank(a) == Max({k \in DOMAIN articles : articles[k] = a})
    IN [a \in {ArticleOf[p.to] : p \in trusted} |->
          [relations |-> {p.type : p \in To(a)}, sources |-> {p.from : p \in To(a)},
           rank |-> Min({Rank(p.from) : p \in To(a)})]]

GraphScore(rank) == 350 \div (RrfK + rank)

(* The passages fetched enter the pool, the trusted ones first, and these must stay; the *)
(* others of a trusted Article are known to come from the same sources.                   *)
Enrich(pool, fetched, must, targets, aspects, last) ==
    LET Of(u) == IF ArticleOf[u] \in DOMAIN targets THEN targets[ArticleOf[u]]
                 ELSE [relations |-> {}, sources |-> {}, rank |-> last]
        Told(i, t) ==
          [i EXCEPT !.sources = @ \cup t.sources,
                    !.sourceRank = IF @ = 0 THEN t.rank ELSE Smaller(@, t.rank),
                    !.fromAspect = (i.sources \cup t.sources) \cap aspects # {}]
        Pinned(i, t) ==
          [Told(i, t) EXCEPT !.must = TRUE, !.closure = TRUE, !.relations = @ \cup t.relations]
        Mark(i) == IF i.unit \in must THEN Pinned(i, Of(i.unit)) ELSE i
        Scored(i, units) ==
          IF i.unit \in ToSet(units)
          THEN [i EXCEPT !.score = @ + GraphScore(Place(units, i.unit))] ELSE i
        Merge(units) ==
          [n \in DOMAIN pool |-> Mark(Scored(pool[n], units))]
          \o Kept([k \in DOMAIN units |-> Mark(Told(Item(units[k], GraphScore(k)), Of(units[k])))],
                  {k \in DOMAIN units : units[k] \notin Held(pool)})
    IN Merge(FirstOf(Sorted(fetched, [k \in DOMAIN fetched |-> <<Number(fetched[k] \notin must),
                                                                  0 - Coverage[fetched[k]]>>]),
                     CandidateTopK))

(* _expand_graph; "asks" if the question speaks of paragraphs beside others. *)
ExpandGraph(pool, orders, perQuery, asks) ==
    LET All(ids) == FairPaths(ids, "REFERENCES") \o FairPaths(ids, "IMPLEMENTS") \o FairPaths(ids, "APPLIED_BY")
        Siblings(start, articles) ==
          IF asks \/ \E u \in ToSet(start) : u \in SiblingCue
          THEN FirstOf(SelectSeq(Listing, LAMBDA u : ArticleOf[u] \in ToSet(articles)), MaxPaths)
          ELSE <<>>
        Nodes(paths, siblings) ==
          {p.to : p \in paths} \cup {p.from : p \in paths}
          \cup {ArticleOf[u] : u \in siblings} \cup siblings
        Fetched(nodes) ==
          Kept(Listing, {k \in DOMAIN Listing : {Listing[k], ArticleOf[Listing[k]]}
                                                 \cap (nodes \ Held(pool)) # {}})
        Reach(fetched, targets, last) ==
          Enrich(pool, fetched,
                 TrustedUnits(Representatives(Held(pool) \cup ToSet(fetched),
                                              [a \in DOMAIN targets |-> targets[a].rank]),
                              [a \in DOMAIN targets |-> targets[a].relations]),
                 targets, AspectArticles(orders, perQuery), last)
        Follow(paths, siblings, articles) ==
          Reach(Fetched(Nodes(ToSet(paths), ToSet(siblings))),
                Targets({p \in ToSet(paths) : p.trusted}, articles),
                Cardinality(ToSet(articles)) + 1)
        From(start, articles) ==
          Follow(All(Unique(FlattenSeq([k \in DOMAIN start |-> <<start[k], articles[k]>>]))),
                 Siblings(start, articles), articles)
        Start(units) == From(units, [k \in DOMAIN units |-> ArticleOf[units[k]]])
    IN Start(UnitsOf(Prominent(pool)))

----------------------------------------------------------------------------
(* What is handed on. *)

ByScore(pool) == Sorted(pool, [n \in DOMAIN pool |-> <<0 - pool[n].score>>])

(* _fusion_ranked_evidence: what must be there, what stands for an aspect, the best of *)
(* some documents, then the scores.                                                    *)
FusionRanked(pool, n) ==
    LET Best(scored) == Kept(scored, {k \in DOMAIN scored : \A j \in 1..(k - 1) :
                                        DocumentOf[scored[j].unit] # DocumentOf[scored[k].unit]})
        Fused(scored, pinned, aspects) ==
          pinned \o aspects
          \o FirstOf(Best(scored), Larger(0, (n \div 2) - Len(pinned) - Len(aspects)))
          \o scored
        Of(scored) == Fused(scored, Kept(scored, {k \in DOMAIN scored : scored[k].must}),
                            Kept(scored, {k \in DOMAIN scored : scored[k].aspect /\ ~scored[k].must}))
    IN FirstOf(Unique(Of(ByScore(pool))), n)

(* _score_ranked_evidence. *)
ScoreRanked(pool) ==
    FirstOf(Sorted(pool, [n \in DOMAIN pool |-> <<Number(~pool[n].must), 0 - pool[n].score>>]), TopK)

(* A law of which nothing is among the first TopK takes the place of the last passage of *)
(* a law that has several, unless that one must stay.                                     *)
DiversifyLaws(ranked, ordered, rescued) ==
    LET few == Smaller(4, Larger(1, TopK \div 4))
        Law(i) == DocumentOf[i.unit] \in Laws
        Of(r, doc) == {k \in DOMAIN r : DocumentOf[r[k].unit] = doc}
        Admit(s, c) ==
          LET r == s.ranked
              places == {k \in DOMAIN r : /\ Law(r[k]) /\ ~r[k].must /\ ~r[k].aspect
                                          /\ k > TopK \div 2
                                          /\ r[k].unit \notin rescued
                                          /\ Cardinality(Of(r, DocumentOf[r[k].unit])) > 1}
          IN IF \/ s.added >= Smaller(3, few) \/ ~Law(c) \/ places = {}
                \/ Of(r, DocumentOf[c.unit]) # {}
             THEN s ELSE [ranked |-> [r EXCEPT ![Max(places)] = c], added |-> s.added + 1]
        candidates == FirstOf(ordered, TopK + few)
        admitted[k \in 0..Len(candidates)] ==
          IF k = 0 THEN [ranked |-> ranked, added |-> 0] ELSE Admit(admitted[k - 1], candidates[k])
    IN admitted[Len(candidates)].ranked

(* _pin_ranked_evidence: of what the reranker put below the first TopK, MaxPinned items *)
(* that must stay or stand for an aspect take the last places that need not stay; what   *)
(* only the graph brought must not be much lower.                                        *)
PinRanked(ordered) ==
    LET Outside(n) == LET i == ordered[n]
                      IN /\ i.must \/ i.aspect
                         /\ i.closure /\ ~i.direct => i.fromAspect \/ n <= TopK + PinSlack
        Foremost(outside) ==
          Sorted(outside, [k \in DOMAIN outside |->
            <<Number(~ordered[outside[k]].direct), Number(~ordered[outside[k]].fromAspect),
              Number(~ordered[outside[k]].must)>>])
        Pairs(places, pinned) == DOMAIN pinned \cap DOMAIN places
        Exchange(ranked, places, pinned) ==
          [k \in DOMAIN ranked |->
             IF \E j \in Pairs(places, pinned) : places[j] = k
             THEN ordered[pinned[CHOOSE j \in Pairs(places, pinned) : places[j] = k]] ELSE ranked[k]]
        Rescued(places, pinned) == {ordered[pinned[j]].unit : j \in Pairs(places, pinned)}
        Ranked(ranked, places, pinned) ==
          IF Len(ranked) < TopK \/ TopK < 2 THEN Exchange(ranked, places, pinned)
          ELSE DiversifyLaws(Exchange(ranked, places, pinned), ordered, Rescued(places, pinned))
        Pin(ranked) ==
          Ranked(ranked, Descending({k \in DOMAIN ranked : ~ranked[k].must}),
                 FirstOf(Foremost(Ascending({n \in DOMAIN ordered : n > TopK /\ Outside(n)})), MaxPinned))
    IN Pin(FirstOf(ordered, TopK))

(* _graph_closure_citation_ids: the passage whose source stands first. *)
GraphClosure(ranked, top) ==
    LET items == SelectSeq(ranked, LAMBDA i : i.unit \in top)
        PlaceOf(a) == {k \in DOMAIN items : ArticleOf[items[k].unit] = a}
        sourced(i) == {Max(PlaceOf(a)) : a \in {b \in i.sources : PlaceOf(b) # {}}}
        closing == SelectSeq([k \in DOMAIN items |-> k], LAMBDA k : items[k].closure)
        Key(i) == <<IF sourced(i) # {} THEN Min(sourced(i)) ELSE Len(items) + i.sourceRank,
                    Min({k \in DOMAIN Relation : Relation[k] \in i.relations})>>
        sorted == Sorted(closing, [n \in DOMAIN closing |-> Key(items[closing[n]])])
    IN IF closing = <<>> THEN <<>> ELSE <<items[sorted[1]].unit>>

=============================================================================
