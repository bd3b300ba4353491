----------------------------- MODULE MCIngestion -----------------------------
(* Instance for TLC: the new corpus, a scenario, has all units of the old one and *)
(* an edge of its own, so that an edge of the old one finds its ends in it.        *)
EXTENDS Ingestion, TLC

MCDocs  == [old |-> {1, 2}, new |-> {1, 2, 3}]
MCLinks == [old |-> {<<1, 2>>}, new |-> {<<2, 3>>}]
MCLaw   == <<"act", "act", "order">>

ActorSymmetry == Permutations(Requests) \union Permutations(Tasks)

\* Bound: the cache of titles is followed beside the seeds alone; what comes after them does
\* not use it.
CacheBesideSeeds == reads > 0 => published = None /\ stage = "none" /\ artifact = None
\* Bound: tasks beside each other are followed for two of them, cut off tasks for three.
TwoBesideEachOther == overlapped => starts <= 2
=============================================================================
