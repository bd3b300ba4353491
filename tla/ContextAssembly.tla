-------------------------- MODULE ContextAssembly --------------------------
(***************************************************************************)
(* How the passages given to the answering model are chosen                *)
(* (app/layered_context_assembler.py, chunk_candidates of                  *)
(* app/layered_shadow.py).  A group of Requirements is taken whole or not  *)
(* at all: part of it would give a rule without its exception.             *)
(* A passage ("chunk") is a record [unit, article, covers, law, explicit,  *)
(* rank]; covers is the set of places in the store of the Requirements     *)
(* that accepted its Article, and no two law passages have the same rank.  *)
(***************************************************************************)
EXTENDS EvidenceRequirements

CONSTANTS Units,                \* Article -> its passages, the most relevant first
          MaxChunks,            \* settings.layered_final_context_chunks
          MaxChunksPerArticle,  \* settings.layered_max_chunks_per_article
          MaxAuxiliaryChunks    \* settings.layered_max_auxiliary_context_chunks

(* The first of a set in the order of a key. *)
FirstBy(S, key) == CHOOSE x \in S : \A y \in S : ~Less(key[y], key[x])

(* chunk_candidates: the passages of the Articles that are both accepted by some *)
(* Requirement and still kept as a candidate by one.                              *)
ChunkCandidates(store, pool) ==
    LET acceptors(a) == {n \in DOMAIN store : a \in ToSet(store[n].accepted)}
        articles == FoldLeft(LAMBDA seen, a : IF a \in ToSet(seen) \/ acceptors(a) = {} THEN seen
                                              ELSE Append(seen, a),
                             <<>>, FlattenSeq(pool))
        UnitsOf(a) == SubSeq(Units[a], 1, IF Len(Units[a]) < MaxChunksPerArticle
                                          THEN Len(Units[a]) ELSE MaxChunksPerArticle)
        order == FlattenSeq([k \in DOMAIN articles |->
                   [j \in DOMAIN UnitsOf(articles[k]) |-> <<articles[k], UnitsOf(articles[k])[j]>>]])
    IN {[unit |-> order[k][2], article |-> order[k][1], covers |-> acceptors(order[k][1]),
         law |-> TRUE, rank |-> k,
         explicit |-> \E n \in acceptors(order[k][1]) : store[n].explicit] : k \in DOMAIN order}

(* guidance_chunk_candidates: passages of guidelines cover no Requirement. *)
GuidanceCandidates(findings) ==
    {[unit |-> findings[k], article |-> findings[k], covers |-> {}, law |-> FALSE, rank |-> k,
      explicit |-> FALSE] : k \in DOMAIN findings}

\* Fault: what can be covered of a group is taken, the rest is left out.
PartialBundle(group, chunks) == {c \in chunks : c.law /\ c.covers \cap group.mandatory # {}}

(* _minimum_bundle: law passages taken one after the other, each covering the most of *)
(* what is not covered yet; the empty set if some mandatory member has no passage.     *)
MinimumBundle(group, chunks) ==
    LET targets == group.mandatory
        law == {c \in chunks : c.law /\ c.covers \cap targets # {}}
        Cover[k \in 0..Cardinality(targets)] ==
            IF k = 0 THEN {}
            ELSE LET taken == Cover[k - 1]
                     open == targets \ UNION {c.covers : c \in taken}
                     useful == {c \in law : c.covers \cap open # {}}
                     key == [c \in useful |-> <<0 - Cardinality(c.covers \cap open),
                                               Number(~c.explicit), c.rank>>]
                 IN IF useful = {} THEN taken ELSE taken \cup {FirstBy(useful, key)}
    IN IF targets = {} \/ ~(targets \subseteq UNION {c.covers : c \in law}) THEN {}
       ELSE Cover[Cardinality(targets)]

(* The groups taken, in turn: of those whose missing passages still fit, the first in  *)
(* the order of primary, priority, members, passages, rank; any of equals.             *)
TakeGroups(groups, chunks) ==
    LET Bundle(g) == MinimumBundle(g, chunks)
        Taken[k \in 0..Cardinality(groups)] ==
            IF k = 0 THEN [groups |-> {}, chunks |-> {}]
            ELSE LET t == Taken[k - 1]
                     Increment(g) == Bundle(g) \ t.chunks
                     eligible == {g \in groups \ t.groups :
                                    /\ Bundle(g) # {}
                                    /\ Cardinality(t.chunks) + Cardinality(Increment(g)) <= MaxChunks}
                     RankOf(g) == IF Increment(g) = {} THEN 0
                                    ELSE Min({c.rank : c \in Increment(g)})
                     key == [g \in eligible |->
                               <<Number(~g.primary), g.priority, 0 - Cardinality(g.mandatory),
                                 Cardinality(Increment(g)), RankOf(g)>>]
                     next == FirstBy(eligible, key)
                 IN IF eligible = {} \/ Cardinality(t.chunks) >= MaxChunks THEN t
                    ELSE [groups |-> t.groups \cup {next}, chunks |-> t.chunks \cup Increment(next)]
    IN Taken[Cardinality(groups)]

(* The one sequence of the passages in their order. *)
InOrder(chunks) ==
    LET Key(c) == <<Number(~c.explicit), c.rank, Number(c.law)>>
    IN {s \in SetToSeqs(chunks) : \A k, m \in DOMAIN s : k < m => Less(Key(s[k]), Key(s[m]))}

(* _fill_remaining: further passages of the Articles taken, then a few passages of  *)
(* guidelines and of Articles that only optional Requirements accepted.              *)
FillRemaining(taken, ordered, store) ==
    LET CanAdd(sel, c) == /\ Cardinality(sel) < MaxChunks
                          /\ c \notin sel
                          /\ Cardinality({d \in sel : d.article = c.article}) < MaxChunksPerArticle
        More(sel, c) == IF c.law /\ c.article \in {d.article : d \in taken} /\ CanAdd(sel, c)
                        THEN sel \cup {c} ELSE sel
        Optional(c) == ~c.law \/ \A n \in c.covers : ~store[n].mandatory
        Extra(acc, c) ==
            IF /\ acc.extra < MaxAuxiliaryChunks
               /\ Cardinality(acc.sel) < MaxChunks
               /\ c \notin acc.sel
               /\ Optional(c)
               /\ c.law => CanAdd(acc.sel, c)
            THEN [sel |-> acc.sel \cup {c}, extra |-> acc.extra + 1] ELSE acc
    IN FoldLeft(Extra, [sel |-> FoldLeft(More, taken, ordered), extra |-> 0], ordered).sel

(* assemble_context. *)
AssembleContext(ordered, store) ==
    LET chunks == ToSet(ordered)
        groups == {g \in ConclusionGroups(store) : g.mandatory # {}}
        primary == {g \in groups : g.primary}
        taken == TakeGroups(groups, chunks)
        status == IF primary = {} \/ primary \cap taken.groups = {}
                  THEN "insufficient_primary_evidence"
                  ELSE IF primary \subseteq taken.groups THEN "complete"
                  ELSE "partial_primary_evidence"
        selected == IF status = "insufficient_primary_evidence" THEN taken.chunks
                    ELSE FillRemaining(taken.chunks, ordered, store)
        covered == UNION {c.covers : c \in selected}
    IN [status |-> status, selected |-> selected,
        included |-> {g.id : g \in taken.groups},
        unresolved |-> {n \in DOMAIN store : store[n].mandatory /\ n \notin covered}]

=============================================================================
