--------------------------- MODULE RelationResults ---------------------------
(***************************************************************************)
(* What a classification run promises of its results: a candidate gets its *)
(* final result once, only a failed one is replaced, and the run is        *)
(* published complete and never touched again.                             *)
(***************************************************************************)
CONSTANTS
    Scope,       \* candidates of the run
    Decision,    \* final results
    Failure,     \* the result of a failed candidate
    Missing      \* no result yet

VARIABLES result, phase

vars == <<result, phase>>

Init == result = [c \in Scope |-> Missing] /\ phase = "none"

Create == phase = "none" /\ phase' = "building" /\ UNCHANGED result

\* A client that began before the run failed may still store its result.
Store(c) ==
    /\ phase \in {"building", "failed"}
    /\ result[c] \in {Missing, Failure}
    /\ \E new \in Decision \union {Failure} : result' = [result EXCEPT ![c] = new]
    /\ UNCHANGED phase

Publish ==
    /\ phase = "building"
    /\ \A c \in Scope : result[c] # Missing
    /\ phase' = "published"
    /\ UNCHANGED result

GiveUp == phase = "building" /\ phase' = "failed" /\ UNCHANGED result

Next == Create \/ Publish \/ GiveUp \/ \E c \in Scope : Store(c)

Spec == Init /\ [][Next]_vars
=============================================================================
