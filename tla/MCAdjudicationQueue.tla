------------------------ MODULE MCAdjudicationQueue ------------------------
(* A queue of four shards for two consumers that stops at two failures in a row. *)
EXTENDS AdjudicationQueue

\* Bound: with both consumers at work a run is followed until a repair of an answer has been
\* counted or a decision has been revised, and no run follows it.
Beside == runs <= 1 /\ \A s \in Shards : repairs[s] = {} /\ files[s].revised = "absent"

\* Bound: what comes after that, and further runs after a crash, a failure or an end, are
\* followed for two shards, one at a time, up to the first failure of a run.
Alone ==
    /\ queue \subseteq {1, 2} /\ Cardinality(Active) + failures <= 1
    /\ \A s \in Shards \ {1, 2} : step[s] = "idle" /\ files[s] = NoFiles

Followed == Beside \/ Alone
=============================================================================
