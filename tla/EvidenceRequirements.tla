------------------------ MODULE EvidenceRequirements ------------------------
(***************************************************************************)
(* What an answer must be supported with (app/evidence_requirements.py,    *)
(* app/legal_issue_planner.py, app/legal_relation_resolver.py): a slot of  *)
(* evidence (Requirement) for each role an issue of the question asks for  *)
(* and for each provision the user names, the slots that the text and the  *)
(* relations of an Article add, and the groups of slots that carry a       *)
(* conclusion together.  The store is the sequence of Requirements in the  *)
(* order of their creation; a Requirement is known by its place in it,     *)
(* because what the code compares when it adds one is SlotKey.             *)
(* An issue is the number of its place in the plan.                        *)
(***************************************************************************)
EXTENDS Integers, FiniteSets, Sequences, SequencesExt

CONSTANTS NoArticle,          \* a Requirement that names no Article
          Cues,               \* Article -> the cues of its text, in their order
          Relations,          \* Article -> <<[type, to], ...>>, its trusted relations
          MaxRequirements,    \* settings.layered_max_requirements_total
          ActiveIssues,       \* settings.layered_active_issue_batch_size
          MaxChildRelations   \* settings.layered_max_child_relations_per_article

Conclusion == {"normative_rule", "consequence"}
Qualifier  == {"qualification", "meaning_scope"}
Procedure  == {"procedure", "temporal"}
Auxiliary  == {"interpretive", "linkage"}
Families   == Conclusion \union Qualifier \union Procedure \union Auxiliary

(* Lexicographic order of tuples of numbers: the sort keys of the code. *)
Less(s, t) == \E n \in DOMAIN s : s[n] < t[n] /\ \A m \in 1..(n - 1) : s[m] = t[m]

Number(b) == IF b THEN 1 ELSE 0

(* P0 for what the user names, P2 for what may change a conclusion, P1 and P4 for *)
(* what the question asks directly, P3 for what texts and relations add.           *)
Priority(r) ==
    CASE r.explicit                                           -> 0
      [] ~r.explicit /\ r.family \in Qualifier                -> 2
      [] ~r.explicit /\ r.direct /\ r.family \in Conclusion   -> 1
      [] ~r.explicit /\ r.direct /\ r.family \in Procedure    -> 4
      [] ~r.explicit /\ r.family \in Auxiliary                -> 5
      [] OTHER                                                -> 3

(* The slots of one issue: one for each provision the user names, all with the *)
(* role of the conclusion, then one for each role the plan asks for.           *)
InitialOf(plan, i) ==
    LET issue == plan[i]
        conclusion == SelectInSeq(issue.families, LAMBDA f : f \in Conclusion)
        named == IF conclusion > 0 THEN issue.families[conclusion]
                 ELSE IF issue.families # <<>> THEN Head(issue.families)
                 ELSE "normative_rule"
        Slot(family, target) ==
            [issue |-> i, family |-> family, subtype |-> "none", authority |-> "none",
             parent |-> NoArticle, target |-> target, direct |-> TRUE,
             explicit |-> target # NoArticle,
             mandatory |-> target # NoArticle \/ family \notin Auxiliary,
             depth |-> 0, groups |-> {}, status |-> "unresolved", reason |-> "none",
             overBudget |-> FALSE, accepted |-> <<>>]
    IN [n \in DOMAIN issue.references |-> Slot(named, issue.references[n])]
       \o [n \in DOMAIN issue.families |-> Slot(issue.families[n], NoArticle)]

InitialRequirements(plan) == FlattenSeq([i \in DOMAIN plan |-> InitialOf(plan, i)])

(* The groups of the slots that have none yet: a provision the user names and what  *)
(* may change a conclusion belong to every conclusion of the issue, a procedure and  *)
(* an interpretation stand for themselves.                                          *)
GroupsOf(r, reqs) ==
    LET conclusions == {<<r.issue, s.family>> :
                          s \in {t \in ToSet(reqs) : t.issue = r.issue /\ t.family \in Conclusion}}
        OrOwn(own) == IF conclusions # {} THEN conclusions ELSE {<<r.issue, own>>}
    IN CASE r.explicit                -> OrOwn("explicit")
         [] ~r.explicit /\ r.family \in Conclusion -> {<<r.issue, r.family>>}
         [] ~r.explicit /\ r.family \in Qualifier  -> OrOwn(r.family)
         [] ~r.explicit /\ r.family \in Procedure  -> {<<r.issue, "procedure">>}
         [] OTHER                     -> {<<r.issue, "interpretive">>}

AssignGroups(reqs) ==
    [n \in DOMAIN reqs |-> IF reqs[n].groups # {} THEN reqs[n]
                           ELSE [reqs[n] EXCEPT !.groups = GroupsOf(reqs[n], reqs)]]

(* The group as the assembler sees it; its members are places in the store. *)
ConclusionGroup(g, store) ==
    LET members   == {n \in DOMAIN store : g \in store[n].groups}
        mandatory == {n \in members : store[n].mandatory}
        ranked    == IF mandatory # {} THEN mandatory ELSE members
    IN [id |-> g, mandatory |-> mandatory,
        priority |-> Min({Priority(store[n]) : n \in ranked}),
        primary |-> \E n \in members : \/ Priority(store[n]) \in {0, 1}
                                       \/ store[n].mandatory /\ store[n].direct]

ConclusionGroups(store) ==
    {ConclusionGroup(g, store) : g \in UNION {store[n].groups : n \in DOMAIN store}}

----------------------------------------------------------------------------
(* The store. *)

SlotKey(r) == <<r.issue, r.family, r.subtype, r.authority, r.parent>>

Add(store, r) ==
    LET active == {n \in DOMAIN store : ~store[n].overBudget}
    IN IF \E n \in DOMAIN store : SlotKey(store[n]) = SlotKey(r) THEN store
       ELSE Append(store, IF Cardinality(active) < MaxRequirements THEN r
                          ELSE [r EXCEPT !.overBudget = TRUE, !.status = "unresolved",
                                         !.reason = "requirement_limit_exhausted"])

AddAll(store, reqs) == FoldLeft(Add, store, reqs)

Pending(store) ==
    {n \in DOMAIN store : /\ store[n].status = "unresolved"
                          /\ ~store[n].overBudget
                          /\ store[n].reason = "none"}

(* What the next batch takes: all that is pending of the first issues in the order of  *)
(* priority.  The identifiers that decide between equals are the places in the store.  *)
BatchKey(store, n) ==
    <<Priority(store[n]), Number(~store[n].mandatory), store[n].depth, store[n].issue, n>>

ActivePending(store) ==
    LET pending == Pending(store)
        Leads(i, j) == \E m \in pending : /\ store[m].issue = i
                                          /\ \A n \in pending : store[n].issue = j =>
                                                Less(BatchKey(store, m), BatchKey(store, n))
        issues == {store[n].issue : n \in pending}
    IN {n \in pending : Cardinality({i \in issues : Leads(i, store[n].issue)}) < ActiveIssues}

(* The one sequence of these in their order. *)
PriorityBatches(store) ==
    {s \in SetToSeqs(ActivePending(store)) :
        \A k, m \in DOMAIN s : k < m => Less(BatchKey(store, s[k]), BatchKey(store, s[m]))}

StartBatch(store, batch) ==
    [n \in DOMAIN store |-> IF n \in ToSet(batch) THEN [store[n] EXCEPT !.status = "searching"]
                            ELSE store[n]]

\* Fault: what is pending at the stop is left as it is.
LeavePending(store, reason) == store

MarkPendingUnresolved(store, reason) ==
    [n \in DOMAIN store |-> IF n \in Pending(store) THEN [store[n] EXCEPT !.reason = reason]
                            ELSE store[n]]

----------------------------------------------------------------------------
(* The slots that an accepted Article adds. *)

(* child_requirement: the groups of the parent, and never more binding than it. *)
Child(r, family, subtype, authority, parent, target) ==
    [r EXCEPT !.family = family, !.subtype = subtype, !.authority = authority,
              !.parent = parent, !.target = target, !.direct = FALSE, !.explicit = FALSE,
              !.mandatory = r.mandatory /\ family \notin Auxiliary, !.depth = r.depth + 1,
              !.status = "unresolved", !.reason = "none", !.overBudget = FALSE, !.accepted = <<>>]

ChildrenFromText(r, article) ==
    LET Of(cue) ==
          CASE cue = "delegation"  -> Child(r, r.family, r.subtype, "order", article, NoArticle)
            [] cue = "application" -> Child(r, "linkage", "application", "none", article, NoArticle)
            [] cue = "exception"   -> Child(r, "qualification", "exception", "none", article, NoArticle)
            [] cue = "form"        -> Child(r, "procedure", "form", "none", article, NoArticle)
    IN [n \in DOMAIN Cues[article] |-> Of(Cues[article][n])]

(* expandable_edge_types, those that lead from an Article: nothing asks for the others, *)
(* which are not implemented (EXCEPTION_TO, DEFINES) or start at documents (EXPLAINS).   *)
RelationTypes == {"REFERENCES", "IMPLEMENTS", "APPLIED_BY"}

(* Of the edges of its accepted Articles, at most MaxChildRelations become slots. *)
ChildrenFromGraph(r, articles) ==
    LET edges == FlattenSeq([n \in DOMAIN articles |->
                   [k \in DOMAIN Relations[articles[n]] |->
                      [from |-> articles[n], type |-> Relations[articles[n]][k].type,
                       to |-> Relations[articles[n]][k].to]]])
        Of(e) ==
          CASE e.type = "APPLIED_BY" -> Child(r, "linkage", "application", "none", e.from, e.to)
            [] e.type # "APPLIED_BY" -> Child(r, r.family, r.subtype, "none", e.from, e.to)
        AddOf(children, e) == IF Len(children) >= MaxChildRelations \/ e.to = r.target
                              THEN children ELSE Append(children, Of(e))
    IN FoldLeft(AddOf, <<>>, edges)

----------------------------------------------------------------------------
(* The plan.  merge_explicit_references puts every provision the user names with one  *)
(* issue: the one whose terms its text matches best, or the first.  best[r] is that    *)
(* issue, 0 if none matches.                                                           *)
MergeExplicitReferences(plan, refs, best) ==
    LET Target(a) == IF best[a] = 0 THEN 1 ELSE best[a]
        Merge(p, a) == IF a \in ToSet(p[Target(a)].references) THEN p
                       ELSE [p EXCEPT ![Target(a)].references = Append(@, a)]
    IN IF plan = <<>> THEN plan ELSE FoldLeft(Merge, plan, refs)

=============================================================================
