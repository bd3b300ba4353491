----------------------------- MODULE ShardLedger -----------------------------
(***************************************************************************)
(* What the relation-adjudication queue promises of its outputs: a shard   *)
(* is decided once, the graph takes that decision once, and only a shard   *)
(* whose decision the graph holds is marked as imported.                   *)
(***************************************************************************)
CONSTANT Shards

VARIABLES
    decision,   \* decision that the outputs of a shard hold
    recorded,   \* decision that the graph holds for it
    marked      \* shards that need no further run

Decisions == {"approved", "unresolved"}

Init ==
    /\ decision = [s \in Shards |-> "absent"]
    /\ recorded = [s \in Shards |-> "none"]
    /\ marked = {}

Decide(s) ==
    /\ decision[s] = "absent"
    /\ \E d \in Decisions : decision' = [decision EXCEPT ![s] = d]
    /\ UNCHANGED <<recorded, marked>>

Record(s) ==
    /\ recorded[s] = "none" /\ decision[s] \in Decisions
    /\ recorded' = [recorded EXCEPT ![s] = decision[s]]
    /\ UNCHANGED <<decision, marked>>

Mark(s) ==
    /\ recorded[s] = decision[s]
    /\ marked' = marked \union {s}
    /\ UNCHANGED <<decision, recorded>>

\* A shard that is processed again is no longer marked.
Reopen(s) ==
    /\ marked' = marked \ {s}
    /\ UNCHANGED <<decision, recorded>>

Next == \E s \in Shards : Decide(s) \/ Record(s) \/ Mark(s) \/ Reopen(s)

Spec == Init /\ [][Next]_<<decision, recorded, marked>>
=============================================================================
