------------------------- MODULE MCCaseTransactions -------------------------
\* Clients and actions are interchangeable.
EXTENDS CaseTransactions, TLC

Symmetry == Permutations(Clients) \union Permutations(Actions)
=============================================================================
