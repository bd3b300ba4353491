------------------------- MODULE MCLayeredRetrieval -------------------------
(* Three Articles with their cues and relations, and two plans for the question: *)
(* one issue with a provision the user names, and two issues of their own.       *)
EXTENDS LayeredRetrieval

MCCues == [p |-> <<"delegation">>, q |-> <<"exception">>, s |-> <<>>]
MCRelations == [p |-> <<[type |-> "IMPLEMENTS", to |-> "q"]>>,
                q |-> <<[type |-> "APPLIED_BY", to |-> "p"]>>, s |-> <<>>]
MCUnits == [p |-> <<"p1", "p2">>, q |-> <<"q1">>, s |-> <<"s1">>]

Issue(families) == [families |-> families, references |-> <<>>]
Named(issues, references) == MergeExplicitReferences(issues, references, [a \in ToSet(references) |-> 0])

MCPlans == {Named(<<Issue(<<"qualification">>)>>, <<"p">>),
            <<Issue(<<"normative_rule">>), Issue(<<"procedure">>)>>}
=============================================================================
