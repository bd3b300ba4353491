------------------------------- MODULE CaseRun -------------------------------
(***************************************************************************)
(* What one run of the agent promises about the stored case, whatever the  *)
(* Solver decides: research goes on only without an answer, one cycle at a *)
(* time; a tool result is filed once, under the cycle that is then         *)
(* current, and never altered; an answer is withdrawn only by a Reviewer   *)
(* who asks for a revision, and a run completes only with the answer the   *)
(* Reviewer has just accepted.                                             *)
(***************************************************************************)
EXTENDS Naturals

CONSTANTS MaxCycles, ReviewerEnabled

VARIABLES runStatus, cycles, answer, verdict, results

runVars == <<runStatus, cycles, answer, verdict, results>>

RunInit ==
    /\ runStatus = "running"
    /\ cycles = 0
    /\ answer = "none"
    /\ verdict = "none"
    /\ results = {}

Research ==
    /\ runStatus = "running" /\ answer = "none"
    /\ cycles' \in {cycles, cycles + 1}
    /\ cycles' <= MaxCycles
    /\ results \subseteq results'
    /\ \A r \in results' \ results :
          /\ r.cycle = cycles' /\ cycles' > 0
          /\ \A s \in results : s.id # r.id
    /\ UNCHANGED <<runStatus, answer, verdict>>

Propose ==
    /\ runStatus = "running" /\ answer = "none"
    /\ answer' \in {"complete", "limited"}
    /\ UNCHANGED <<runStatus, cycles, verdict, results>>

Approve ==
    /\ runStatus = "running" /\ answer # "none"
    /\ runStatus' = "completed"
    /\ verdict' = IF ReviewerEnabled THEN "accept" ELSE verdict
    /\ UNCHANGED <<cycles, answer, results>>

Return ==
    /\ runStatus = "running" /\ answer # "none" /\ ReviewerEnabled
    /\ verdict' = "revise"
    /\ \/ answer' = "none" /\ UNCHANGED runStatus
       \/ runStatus' = "failed" /\ UNCHANGED answer
    /\ UNCHANGED <<cycles, results>>

Abort ==
    /\ runStatus = "running"
    /\ runStatus' = "failed"
    /\ UNCHANGED <<cycles, answer, verdict, results>>

RunNext == Research \/ Propose \/ Approve \/ Return \/ Abort

RunSpec == RunInit /\ [][RunNext]_runVars
=============================================================================
