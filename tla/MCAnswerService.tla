-------------------------- MODULE MCAnswerService --------------------------
(* Five passages: two of one Article and one of another of law L, one of law M, and one *)
(* of a guideline.                                                                       *)
EXTENDS AnswerService

MCListing == <<"a1", "a2", "b1", "c1", "g1">>
MCArticleOf == [a1 |-> "a", a2 |-> "a", b1 |-> "b", c1 |-> "c", g1 |-> "g",
                a |-> "a", b |-> "b", c |-> "c", g |-> "g"]
MCDocumentOf == [a1 |-> "L", a2 |-> "L", b1 |-> "L", c1 |-> "M", g1 |-> "G",
                 a |-> "L", b |-> "L", c |-> "M", g |-> "G"]
MCCoverage == [a1 |-> 1, a2 |-> 2, b1 |-> 3, c1 |-> 1, g1 |-> 2, a |-> 2, b |-> 3, c |-> 1, g |-> 2]

NoLinks == [x \in {"a", "b", "c", "g"} |-> <<>>]
To(u, trusted) == [to |-> u, trusted |-> trusted]
MCLinks == [IMPLEMENTS |-> [NoLinks EXCEPT !["a"] = <<To("c1", TRUE)>>],
            REFERENCES |-> [NoLinks EXCEPT !["b"] = <<To("a", TRUE), To("c1", FALSE)>>],
            APPLIED_BY |-> NoLinks]
MCExplains == [G |-> <<"c">>]

Question(pattern, choices, asks, articles, exact) ==
    [pattern |-> pattern, choices |-> choices, cue |-> FALSE, asks |-> asks,
     articles |-> articles, exact |-> exact]
MCQuestions == {Question("baseline", FALSE, FALSE, {}, {"a1"}),
                Question("agentic", FALSE, FALSE, {"c"}, {}),
                Question("agentic", TRUE, TRUE, {"a"}, {"b1"}),
                Question("agentic", FALSE, FALSE, {"b"}, {"a1", "a2"})}
MCFocused == <<"focused">>

MCPlans == {<<"broad">>, <<"broad", "focused">>}
MCFound == {<<>>, <<"a1", "b1">>, <<"c1", "b1", "a2", "a1">>, <<"g1", "a2", "c1">>}
MCInLaw == [broad |-> <<>>, focused |-> <<"b1">>, follow |-> <<>>]
MCFollowUps == {<<>>, <<"follow">>}
Naming(articles, exact) == [articles |-> articles, exact |-> exact]
MCNamedIn == [broad |-> Naming({}, {}), focused |-> Naming({}, {}),
              follow |-> Naming({"b"}, {"a2"})]
MCEvidence == {<<"a1">>, <<"b1", "c1">>}
=============================================================================
