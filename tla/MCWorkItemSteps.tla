---------------------------- MODULE MCWorkItemSteps ----------------------------
(* Two WorkItems, one Hypothesis each, that search for the same Articles.   *)
EXTENDS WorkItemSteps, TLC

CONSTANTS w1, w2, h1, h2, a1, a2

MCOwner == h1 :> w1 @@ h2 :> w2

\* Nothing in the steps tells one Article from another.
MCSymmetry == Permutations(Articles)
=============================================================================
