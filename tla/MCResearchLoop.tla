---------------------------- MODULE MCResearchLoop ----------------------------
EXTENDS ResearchLoop, TLC

ArticleSymmetry == Permutations(Articles)
=============================================================================
