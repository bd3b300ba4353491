--------------------------- MODULE AgentLoop_proofs ---------------------------
(***************************************************************************)
(* Proofs about AgentLoop, for every value of the limits.                  *)
(***************************************************************************)
EXTENDS AgentLoop, FiniteSetTheorems, WellFoundedInduction, TLAPS

(***************************************************************************)
(* Type correctness.  TypeOK is not inductive alone: the cycle count stays *)
(* within its limit only because a batch that opens a cycle was asked for  *)
(* below the limit, and the ids of new requests stay in range only because *)
(* the requests are finitely many.                                         *)
(***************************************************************************)
ControlOK ==
    /\ runStatus \in {"running", "completed", "failed"}
    /\ cycles \in 0 .. MaxCycles
    /\ stepTimeout \in BOOLEAN
    /\ stopReason \in StopReasons
    /\ answer \in {"none", "complete", "limited"}
    /\ verdict \in {"none", "accept", "revise"}
    /\ requests \subseteq Request /\ IsFiniteSet(requests)
    /\ results \subseteq Result
    /\ pc \in {"solve", "attempt", "context", "call", "tools", "judge", "review", "done"}
    /\ remaining \in 0 .. WallTime
    /\ seen \in 0 .. WallTime
    /\ findings \in BOOLEAN
    /\ revisions \in 0 .. MaxRevisions
    /\ attempt \in 0 .. MaxAttempts - 1
    /\ finalizeOnly \in BOOLEAN
    /\ pending \in BOOLEAN
    /\ revisionCall \in BOOLEAN
    /\ batch \subseteq Request
    /\ advance \in BOOLEAN
    /\ pc = "tools" /\ advance => cycles < MaxCycles

WorkOK ==
    /\ work \in Works
    /\ generation \in Nat
    /\ contradicted \in 0 .. MaxCycles
    /\ revised \subseteq 0 .. MaxCycles
    /\ adopted \subseteq RequestIds
    /\ integrated \subseteq RequestIds
    /\ reviewed \subseteq RequestIds

TypeInv == ControlOK /\ WorkOK


LEMMA ToolsFinite == IsFiniteSet(Tools)
  <1>1. Tools = (({"legal_search"} \union {"legal_graph_neighbors"})
                   \union {"fetch_articles"}) \union {"graph_review_fetch"}
    BY DEF Tools, Explorations, Fetches
  <1>2. QED BY <1>1, FS_Singleton, FS_Union

\* The requests of a decision are well formed while they stay within MaxRequests.
LEMMA AskedType ==
  ASSUME NEW tools \in SUBSET Tools, NEW size \in Nat, IsFiniteSet(requests), generation \in Nat,
         MaxRequests \in Nat, Cardinality(requests) + Cardinality(tools) <= MaxRequests
  PROVE  Asked(tools, size) \subseteq Request /\ IsFiniteSet(Asked(tools, size))
  <1> DEFINE upTo(t) == {u \in tools : Rank[u] <= Rank[t]}
             req(t) == [id |-> Cardinality(requests) + Cardinality(upTo(t)),
                        tool |-> t, hypothesis |-> generation,
                        articles |-> IF t \in Fetches THEN size ELSE 0]
             f == [t \in tools |-> req(t)]
  <1>1. IsFiniteSet(tools) /\ Cardinality(tools) \in Nat /\ Cardinality(requests) \in Nat
    BY ToolsFinite, FS_Subset, FS_CardinalityType
  <1>2. \A t \in tools : Rank[t] \in Nat
    BY DEF Tools, Explorations, Fetches, Rank
  <1>3. ASSUME NEW t \in tools
        PROVE  Cardinality(upTo(t)) \in 1 .. Cardinality(tools)
    <2>1. IsFiniteSet(upTo(t)) /\ Cardinality(upTo(t)) <= Cardinality(tools)
      BY <1>1, FS_Subset
    <2>2. t \in upTo(t) BY <1>2
    <2>3. Cardinality(upTo(t)) \in Nat /\ Cardinality(upTo(t)) # 0
      BY <2>1, <2>2, FS_CardinalityType, FS_EmptySet
    <2>4. QED BY <1>1, <2>1, <2>3
  <1>4. \A t \in tools : req(t) \in Request
    BY <1>1, <1>3 DEF Request, RequestIds
  <1>5. Asked(tools, size) = {req(t) : t \in tools}
    BY DEF Asked
  <1>6. f \in Surjection(tools, Asked(tools, size))
    BY <1>5 DEF Surjection
  <1>7. IsFiniteSet(Asked(tools, size))
    <2> HIDE DEF f
    <2> QED BY <1>1, <1>6, FS_Surjection
  <1>8. QED BY <1>4, <1>5, <1>7

\* The helpers return requests and results of the right kind.
LEMMA IdsType ==
  ASSUME results \subseteq Result
  PROVE  /\ Ids(RecentShown) \subseteq RequestIds
         /\ Ids(Shown(UnintegratedGrounding)) \subseteq RequestIds
         /\ Ids(FreshSearches) \subseteq RequestIds
         /\ Ids(GraphBatch) \subseteq RequestIds
  <1>1. /\ RecentShown \subseteq results
        /\ Shown(UnintegratedGrounding) \subseteq results
        /\ FreshSearches \subseteq results
        /\ GraphBatch \subseteq results
    BY DEF RecentShown, Shown, UnintegratedGrounding, RecentResults, FreshSearches,
           GraphBatch, GraphUnit, GraphPool, GraphResults, Succeeded
  <1>2. \A r \in results : r.id \in RequestIds
    BY DEF Result
  <1>3. QED BY <1>1, <1>2 DEF Ids

LEMMA ForgetType ==
  ASSUME ForgetIteration
  PROVE  /\ attempt' \in 0 .. MaxAttempts - 1 /\ seen' \in 0 .. WallTime
         /\ finalizeOnly' \in BOOLEAN /\ pending' \in BOOLEAN /\ revisionCall' \in BOOLEAN
         /\ batch' \subseteq Request /\ advance' \in BOOLEAN
  <1>1. seen' \in 0 .. WallTime
    BY RunAssumption DEF ForgetIteration
  <1>2. attempt' \in 0 .. MaxAttempts - 1
    BY DEF ForgetIteration, MaxAttempts
  <1>3. /\ finalizeOnly' \in BOOLEAN /\ pending' \in BOOLEAN /\ revisionCall' \in BOOLEAN
        /\ batch' \subseteq Request /\ advance' \in BOOLEAN
    BY Zenon DEF ForgetIteration
  <1>4. QED BY <1>1, <1>2, <1>3

LEMMA FailType ==
  ASSUME TypeInv, NEW reason \in StopReasons, Fail(reason)
  PROVE  TypeInv'
  <1>1. ForgetIteration
    BY DEF Fail, Finish
  <1>2. ControlOK'
    BY <1>1, ForgetType DEF TypeInv, ControlOK, Fail, Finish
  <1>3. WorkOK'
    BY DEF TypeInv, WorkOK, Fail, workVars
  <1>4. QED BY <1>2, <1>3 DEF TypeInv

\* What follows a decision keeps the control well typed.
LEMMA ContinueType ==
  ASSUME ControlOK, NEW asked \in SUBSET Request, IsFiniteSet(asked),
         NEW start \in BOOLEAN, NEW review \in BOOLEAN,
         start => cycles < MaxCycles, Continue(asked, start, review)
  PROVE  ControlOK'
  <1> USE LimitsAssumption
  <1>1. IsFiniteSet(requests \union asked)
    BY FS_Union DEF ControlOK
  <1>2. CASE asked # {} /\ remaining <= Reserve
    BY <1>2, ForgetType
    DEF Continue, RunTools, NextIteration, ControlOK, StopReasons
  <1>3. CASE asked # {} /\ ~(remaining <= Reserve)
    BY <1>1, <1>3
    DEF Continue, RunTools, ControlOK
  <1>4. CASE asked = {} /\ start
    <2>1. NextIteration /\ StartWithoutTools
      BY <1>4 DEF Continue
    <2>2. cycles' \in 0 .. MaxCycles /\ stopReason' \in StopReasons /\ stepTimeout' = FALSE
      BY <1>4, <2>1 DEF StartWithoutTools, ControlOK, StopReasons
    <2>3. QED
      BY <1>4, <2>1, <2>2, ForgetType DEF Continue, NextIteration, ControlOK
  <1>5. CASE asked = {} /\ ~start
    BY <1>5, ForgetType
    DEF Continue, NextIteration, ControlOK
  <1>6. QED BY <1>2, <1>3, <1>4, <1>5

LEMMA StepTimeoutType ==
  ASSUME ControlOK, StepTimeout,
         UNCHANGED <<runStatus, cycles, answer, verdict, requests, results, remaining,
                     findings, revisions>>
  PROVE  ControlOK'
  <1>1. ForgetIteration
    BY DEF StepTimeout, NextIteration
  <1>2. QED
    BY <1>1, ForgetType DEF StepTimeout, NextIteration, ControlOK, StopReasons

LEMMA AnswerType ==
  ASSUME ControlOK, Answer
  PROVE  ControlOK'
  <1>1. ForgetIteration
    BY DEF Answer
  <1>2. QED
    BY <1>1, ForgetType DEF Answer, ControlOK, StopReasons

LEMMA ObserveType ==
  ASSUME TypeInv, Observe
  PROVE  /\ work' \in Works /\ generation' \in Nat
         /\ contradicted' \in 0 .. MaxCycles /\ adopted' \subseteq RequestIds
  BY IdsType DEF TypeInv, ControlOK, WorkOK, Observe, Observable, Works

LEMMA FreeUpdateType ==
  ASSUME TypeInv, FreeUpdate
  PROVE  /\ work' \in Works /\ generation' \in Nat
         /\ contradicted' \in 0 .. MaxCycles /\ adopted' \subseteq RequestIds
  <1>1. CASE work = "undecomposed"
    BY <1>1 DEF TypeInv, WorkOK, FreeUpdate, Works, Observable
  <1>2. CASE work = "no_hypothesis"
    BY <1>2 DEF TypeInv, WorkOK, FreeUpdate, Works, Observable
  <1>3. CASE work \in Observable
    <2>1. Observe
      BY <1>3 DEF FreeUpdate, Observable
    <2>2. QED BY <2>1, ObserveType
  <1>4. QED
    BY <1>1, <1>2, <1>3 DEF TypeInv, WorkOK, Works, Observable

\* What every decision comes to: an answer, or a batch that may be empty.
Proceeds ==
    \E start \in BOOLEAN, review \in BOOLEAN :
        /\ start => cycles < MaxCycles
        /\ \/ Continue({}, start, review)
           \/ \E tools \in SUBSET Tools, size \in Nat :
                 /\ Cardinality(requests) + Cardinality(tools) <= MaxRequests
                 /\ Continue(Asked(tools, size), start, review)

LEMMA DecisionShape ==
  ASSUME Respond
  PROVE  pc = "call" /\ (Answer \/ Proceeds)
  <1> USE DEF Calling, Tools, Explorations, Fetches
  <1>0. FetchSizes \subseteq Nat
    BY LimitsAssumption DEF FetchSizes
  <1>1. CASE Decompose
    BY <1>1 DEF Decompose, Proceeds
  <1>2. CASE GenerateHypothesis
    BY <1>2 DEF GenerateHypothesis, Proceeds
  <1>3. CASE PlanSearch
    BY <1>0, <1>3 DEF PlanSearch, Askable, Proceeds
  <1>4. CASE SelectGraph
    BY <1>0, <1>4 DEF SelectGraph, ReviewCandidates, Proceeds
  <1>5. CASE SelectSearch
    BY <1>0, <1>5 DEF SelectSearch, ReviewCandidates, Proceeds
  <1>6. CASE IntegrateObservation
    BY <1>0, <1>6 DEF IntegrateObservation, Askable, Proceeds
  <1>7. CASE ReviseHypothesis
    BY <1>7 DEF ReviseHypothesis, Proceeds
  <1>8. CASE CloseCycle
    BY <1>0, <1>8 DEF CloseCycle, CanStartNextCycle, Proceeds
  <1>9. CASE Integrate
    BY <1>0, <1>9 DEF Integrate, Askable, CanStartNextCycle, Proceeds
  <1>10. CASE Finalize
    BY <1>10 DEF Finalize
  <1>11. QED
    BY <1>1, <1>2, <1>3, <1>4, <1>5, <1>6, <1>7, <1>8, <1>9, <1>10 DEF Respond

LEMMA DecisionType ==
  ASSUME TypeInv, Respond
  PROVE  TypeInv'
  <1>1. ControlOK'
    <2>1. CASE Answer
      BY <2>1, AnswerType DEF TypeInv
    <2>2. CASE Proceeds
      <3>1. PICK start \in BOOLEAN, review \in BOOLEAN :
               /\ start => cycles < MaxCycles
               /\ \/ Continue({}, start, review)
                  \/ \E tools \in SUBSET Tools, size \in Nat :
                        /\ Cardinality(requests) + Cardinality(tools) <= MaxRequests
                        /\ Continue(Asked(tools, size), start, review)
        BY <2>2 DEF Proceeds
      <3>2. CASE Continue({}, start, review)
        BY <3>1, <3>2, ContinueType, FS_EmptySet DEF TypeInv
      <3>3. CASE \E tools \in SUBSET Tools, size \in Nat :
                   /\ Cardinality(requests) + Cardinality(tools) <= MaxRequests
                   /\ Continue(Asked(tools, size), start, review)
        BY <3>1, <3>3, AskedType, ContinueType, LimitsAssumption DEF TypeInv, ControlOK, WorkOK
      <3>4. QED BY <3>1, <3>2, <3>3
    <2>3. QED BY <2>1, <2>2, DecisionShape
  <1>2. /\ work' \in Works /\ generation' \in Nat
        /\ contradicted' \in 0 .. MaxCycles /\ adopted' \subseteq RequestIds
    <2>1. CASE Decompose \/ GenerateHypothesis
      BY <2>1 DEF Decompose, GenerateHypothesis, TypeInv, WorkOK, Works
    <2>2. CASE UNCHANGED workVars
      BY <2>2 DEF workVars, TypeInv, WorkOK
    <2>3. CASE IntegrateObservation
      BY <2>2, <2>3, ObserveType DEF IntegrateObservation
    <2>4. CASE ReviseHypothesis
      BY <2>4, LimitsAssumption DEF ReviseHypothesis, TypeInv, WorkOK, Works, workVars
    <2>5. CASE Integrate
      BY <2>5, FreeUpdateType DEF Integrate
    <2>6. PlanSearch \/ SelectGraph \/ SelectSearch \/ CloseCycle \/ Finalize
            => UNCHANGED workVars
      BY DEF PlanSearch, SelectGraph, SelectSearch, ReviewCandidates, CloseCycle, Finalize
    <2>7. QED BY <2>1, <2>2, <2>3, <2>4, <2>5, <2>6 DEF Respond
  <1>3. integrated' \subseteq RequestIds
    <2>1. \A ids \in SUBSET RequestIds : MarkIntegrated(ids) => integrated' \subseteq RequestIds
      BY DEF MarkIntegrated, TypeInv, WorkOK
    <2>2. CASE UNCHANGED integrated
      BY <2>2 DEF TypeInv, WorkOK
    <2>3. CASE SelectGraph \/ SelectSearch \/ IntegrateObservation \/ CloseCycle
      BY <2>1, <2>3, IdsType
      DEF SelectGraph, SelectSearch, ReviewCandidates, IntegrateObservation, CloseCycle,
          TypeInv, ControlOK
    <2>4. QED
      BY <2>2, <2>3 DEF Respond, Decompose, GenerateHypothesis, PlanSearch, ReviseHypothesis,
                        Integrate, Finalize
  <1>4. revised' \subseteq 0 .. MaxCycles
    <2>1. CASE ReviseHypothesis
      <3>1. CurrentCycle \in 0 .. MaxCycles
        BY LimitsAssumption DEF TypeInv, ControlOK, CurrentCycle
      <3>2. QED BY <2>1, <3>1 DEF ReviseHypothesis, TypeInv, WorkOK
    <2>2. CASE ~ReviseHypothesis
      BY <2>2 DEF Respond, Decompose, GenerateHypothesis, PlanSearch, SelectGraph, SelectSearch,
                  ReviewCandidates, IntegrateObservation, CloseCycle, Integrate, Finalize,
                  TypeInv, WorkOK
    <2>3. QED BY <2>1, <2>2
  <1>5. reviewed' \subseteq RequestIds
    <2>1. CASE SelectGraph \/ SelectSearch
      BY <2>1, IdsType DEF SelectGraph, SelectSearch, ReviewCandidates, TypeInv, ControlOK, WorkOK
    <2>2. CASE ~(SelectGraph \/ SelectSearch)
      BY <2>2 DEF Respond, Decompose, GenerateHypothesis, PlanSearch, IntegrateObservation,
                  ReviseHypothesis, CloseCycle, Integrate, Finalize, TypeInv, WorkOK
    <2>3. QED BY <2>1, <2>2
  <1>6. QED BY <1>1, <1>2, <1>3, <1>4, <1>5 DEF TypeInv, WorkOK

LEMMA InitType == Init => TypeInv
  <1> SUFFICES ASSUME Init PROVE TypeInv
    OBVIOUS
  <1>1. /\ cycles \in 0 .. MaxCycles /\ contradicted \in 0 .. MaxCycles
        /\ remaining \in 0 .. WallTime /\ seen \in 0 .. WallTime
        /\ revisions \in 0 .. MaxRevisions /\ attempt \in 0 .. MaxAttempts - 1
    BY LimitsAssumption, RunAssumption DEF Init, CaseInit, MaxAttempts
  <1>2. ControlOK
    BY <1>1, FS_EmptySet DEF Init, CaseInit, ControlOK, StopReasons
  <1>3. WorkOK
    BY <1>1 DEF Init, CaseInit, WorkOK, Works
  <1>4. QED BY <1>2, <1>3 DEF TypeInv

LEMMA NextType ==
  ASSUME TypeInv, [Next]_vars
  PROVE  TypeInv'
  <1> USE LimitsAssumption, RunAssumption
  <1>1. CASE Tick
    BY <1>1 DEF Tick, TypeInv, ControlOK, WorkOK, caseVars, iterationVars
  <1>2. CASE BeginIteration
    BY <1>2 DEF BeginIteration, FinalizeOnly, PendingGrounding, RevisionCall,
                CycleLimitReached, TimeReserveReached, TypeInv, ControlOK, WorkOK,
                workVars, StopReasons
  <1>3. CASE WallTimeOver
    BY <1>3, FailType DEF WallTimeOver, StopReasons
  <1>4. CASE BeginAttempt
    BY <1>4 DEF BeginAttempt, TypeInv, ControlOK, WorkOK, caseVars
  <1>5. CASE AttemptTimeout
    <2>1. CASE finalizeOnly
      BY <1>5, <2>1, FailType DEF AttemptTimeout, StopReasons
    <2>2. CASE ~finalizeOnly
      <3>1. ControlOK'
        BY <1>5, <2>2, StepTimeoutType DEF AttemptTimeout, TypeInv
      <3>2. WorkOK'
        BY <1>5, <2>2 DEF AttemptTimeout, TypeInv, WorkOK, workVars
      <3>3. QED BY <3>1, <3>2 DEF TypeInv
    <2>3. QED BY <2>1, <2>2
  <1>6. CASE BuildContext
    BY <1>6 DEF BuildContext, ExplorationOver, Finalizes, TypeInv, ControlOK, WorkOK,
                workVars, StopReasons
  <1>7. CASE Respond
    BY <1>7, DecisionType
  <1>8. CASE RejectDecision
    <2>1. CASE attempt + 1 < MaxAttempts
      <3>1. attempt' \in 0 .. MaxAttempts - 1 /\ seen' \in 0 .. WallTime
        BY <1>8, <2>1 DEF RejectDecision, TypeInv, ControlOK, MaxAttempts
      <3>2. ControlOK'
        BY <1>8, <2>1, <3>1 DEF RejectDecision, TypeInv, ControlOK, caseVars
      <3>3. WorkOK'
        BY <1>8, <2>1 DEF RejectDecision, TypeInv, WorkOK, caseVars
      <3>4. QED BY <3>2, <3>3 DEF TypeInv
    <2>2. CASE ~(attempt + 1 < MaxAttempts)
      BY <1>8, <2>2, FailType DEF RejectDecision, StopReasons
    <2>3. QED BY <2>1, <2>2
  <1>9. CASE ModelFails
    BY <1>9, FailType DEF ModelFails, StopReasons
  <1>10. CASE CallTimeout
    <2>1. CASE finalizeOnly \/ stepTimeout
      BY <1>10, <2>1, FailType DEF CallTimeout, StopReasons
    <2>2. CASE ~(finalizeOnly \/ stepTimeout)
      <3>1. ControlOK'
        BY <1>10, <2>2, StepTimeoutType DEF CallTimeout, TypeInv
      <3>2. WorkOK'
        BY <1>10, <2>2 DEF CallTimeout, TypeInv, WorkOK, workVars
      <3>3. QED BY <3>1, <3>2 DEF TypeInv
    <2>3. QED BY <2>1, <2>2
  <1>11. CASE CheckpointTimeout
    <2>1. ControlOK'
      BY <1>11, StepTimeoutType DEF CheckpointTimeout, TypeInv
    <2>2. /\ work' \in Works /\ generation' \in Nat
          /\ contradicted' \in 0 .. MaxCycles /\ adopted' \subseteq RequestIds
      BY <1>11, ObserveType DEF CheckpointTimeout, TypeInv, WorkOK, workVars
    <2>3. UNCHANGED <<revised, integrated, reviewed>>
      BY <1>11 DEF CheckpointTimeout
    <2>4. QED BY <2>1, <2>2, <2>3 DEF TypeInv, WorkOK
  <1>12. CASE ExecuteCycle
    <2>1. BatchCycle \in Nat /\ (advance => BatchCycle \in 0 .. MaxCycles)
      BY <1>12 DEF ExecuteCycle, TypeInv, ControlOK, BatchCycle, CurrentCycle
    <2>2. results' \subseteq Result
      <3>1. PICK outcome \in [batch -> Outcomes] :
               results' = results \union {ResultOf(q, outcome[q]) : q \in batch}
        BY <1>12 DEF ExecuteCycle
      <3>2. \A q \in batch : ResultOf(q, outcome[q]) \in Result
        <4>1. ASSUME NEW q \in batch
              PROVE  ResultOf(q, outcome[q]) \in Result
          <5>1. q \in Request /\ outcome[q] \in Outcomes
            BY DEF TypeInv, ControlOK
          <5>2. /\ outcome[q].status \in {"succeeded", "failed"}
                /\ outcome[q].yields \in BOOLEAN
            BY <5>1 DEF Outcomes
          <5>3. QED BY <2>1, <5>1, <5>2 DEF ResultOf, Request, Result
        <4>2. QED BY <4>1
      <3>3. QED BY <3>1, <3>2 DEF TypeInv, ControlOK
    <2>3. cycles' \in 0 .. MaxCycles
      BY <1>12, <2>1 DEF ExecuteCycle, TypeInv, ControlOK
    <2>4. ControlOK'
      BY <1>12, <2>2, <2>3, ForgetType
      DEF ExecuteCycle, NextIteration, TypeInv, ControlOK, StopReasons
    <2>5. WorkOK'
      BY <1>12 DEF ExecuteCycle, TypeInv, WorkOK, workVars
    <2>6. QED BY <2>4, <2>5 DEF TypeInv
  <1>13. CASE ToolConflict
    BY <1>13, FailType DEF ToolConflict, StopReasons
  <1>14. CASE Judge
    <2>1. CASE ~ReviewerEnabled
      <3>1. ControlOK'
        BY <1>14, <2>1, ForgetType DEF Judge, Complete, Finish, TypeInv, ControlOK
      <3>2. WorkOK'
        BY <1>14, <2>1 DEF Judge, TypeInv, WorkOK, workVars
      <3>3. QED BY <3>1, <3>2 DEF TypeInv
    <2>2. CASE ReviewerEnabled /\ OutOfTime(remaining)
      BY <1>14, <2>2, FailType DEF Judge, StopReasons
    <2>3. CASE ReviewerEnabled /\ ~OutOfTime(remaining)
      <3>1. UNCHANGED <<caseVars, remaining, findings, revisions, iterationVars>>
        BY <1>14, <2>3 DEF Judge
      <3>2. pc' = "review"
        BY <1>14, <2>3 DEF Judge
      <3>3. QED
        BY <3>1, <3>2 DEF TypeInv, ControlOK, WorkOK, caseVars, iterationVars
    <2>4. QED BY <2>1, <2>2, <2>3
  <1>15. CASE Accept
    <2>1. ControlOK'
      BY <1>15, ForgetType DEF Accept, Complete, Finish, TypeInv, ControlOK
    <2>2. WorkOK'
      BY <1>15 DEF Accept, TypeInv, WorkOK, workVars
    <2>3. QED BY <2>1, <2>2 DEF TypeInv
  <1>16. CASE Revise
    <2>1. CASE revisions >= MaxRevisions
      BY <1>16, <2>1, ForgetType
      DEF Revise, Finish, TypeInv, ControlOK, WorkOK, workVars, StopReasons
    <2>2. CASE ~(revisions >= MaxRevisions)
      BY <1>16, <2>2, ForgetType
      DEF Revise, NextIteration, TypeInv, ControlOK, WorkOK, workVars
    <2>3. QED BY <2>1, <2>2
  <1>17. CASE ReviewFails
    BY <1>17, FailType DEF ReviewFails, StopReasons
  <1>18. CASE UNCHANGED vars
    BY <1>18 DEF vars, caseVars, iterationVars, TypeInv, ControlOK, WorkOK
  <1>19. QED
    BY <1>1, <1>2, <1>3, <1>4, <1>5, <1>6, <1>7, <1>8, <1>9, <1>10, <1>11, <1>12, <1>13,
       <1>14, <1>15, <1>16, <1>17, <1>18 DEF Next, Step

\* Every run keeps TypeInv, for every value of the limits.
THEOREM TypeInvariant == Spec => []TypeInv
  <1>1. QED BY InitType, NextType, PTL DEF Spec

\* Every variable has its type, and in particular the cycle count, the decision
\* attempts, the revisions and the request ids stay within their limits.
THEOREM TypeCorrect == Spec => []TypeOK
  <1>1. TypeInv => TypeOK
    BY DEF TypeInv, ControlOK, WorkOK, TypeOK, CaseTypeOK
  <1>2. QED BY <1>1, TypeInvariant, PTL

-----------------------------------------------------------------------------
(***************************************************************************)
(* One revision per cycle.  The flag that allows a revision is computed at *)
(* the head of the iteration and used after a call of the model; it is not *)
(* stale then, because the cycle and the revised cycles do not change      *)
(* between the two.                                                        *)
(***************************************************************************)
Deciding == pc \in {"attempt", "context", "call"}

RevisionInv ==
    /\ revised \subseteq 1 .. cycles
    /\ generation <= Cardinality(revised)
    /\ Deciding /\ revisionCall => cycles > 0 /\ cycles \notin revised

LEMMA ContinueFrame ==
  ASSUME ControlOK, NEW asked, NEW start, NEW review, Continue(asked, start, review)
  PROVE  /\ cycles' \in Nat /\ cycles' >= cycles
         /\ pc' \in {"solve", "tools"}
  <1>0. cycles \in Nat
    BY LimitsAssumption DEF ControlOK
  <1>1. CASE asked # {}
    <2>1. RunTools(asked, start, review)
      BY <1>1 DEF Continue
    <2>2. CASE remaining <= Reserve
      BY <1>0, <2>1, <2>2 DEF RunTools, NextIteration
    <2>3. CASE ~(remaining <= Reserve)
      BY <1>0, <2>1, <2>3 DEF RunTools
    <2>4. QED BY <2>2, <2>3
  <1>2. CASE asked = {}
    <2>1. NextIteration /\ (StartWithoutTools \/ cycles' = cycles)
      BY <1>2 DEF Continue
    <2>2. cycles' = cycles \/ cycles' = cycles + 1
      BY <2>1 DEF StartWithoutTools
    <2>3. QED BY <1>0, <2>1, <2>2 DEF NextIteration
  <1>3. QED BY <1>1, <1>2

LEMMA RevisionFrame ==
  ASSUME TypeInv, RevisionInv, UNCHANGED <<revised, generation>>,
         cycles' \in Nat, cycles' >= cycles,
         Deciding' /\ revisionCall' => cycles' > 0 /\ cycles' \notin revised'
  PROVE  RevisionInv'
  <1>1. cycles \in Nat
    BY LimitsAssumption DEF TypeInv, ControlOK
  <1>2. 1 .. cycles \subseteq 1 .. cycles'
    BY <1>1
  <1>3. QED BY <1>2 DEF RevisionInv

\* A decision ends the iteration and never goes back a cycle.
LEMMA DecisionFrame ==
  ASSUME TypeInv, Respond
  PROVE  /\ cycles' \in Nat /\ cycles' >= cycles
         /\ ~Deciding'
  <1>1. CASE Answer
    BY <1>1, LimitsAssumption DEF Answer, Deciding, TypeInv, ControlOK
  <1>2. CASE Proceeds
    BY <1>2, ContinueFrame DEF Proceeds, Deciding, TypeInv
  <1>3. QED BY <1>1, <1>2, DecisionShape

LEMMA RevisionDecision ==
  ASSUME TypeInv, RevisionInv, Respond
  PROVE  RevisionInv'
  <1>1. CASE ReviseHypothesis
    <2>1. revisionCall /\ Deciding
      BY <1>1 DEF ReviseHypothesis, Calling, Purpose, RevisionReady, Deciding
    <2>2. cycles \in Nat \ {0} /\ cycles \notin revised /\ CurrentCycle = cycles
      BY <2>1, LimitsAssumption DEF RevisionInv, CurrentCycle, TypeInv, ControlOK
    <2>3. revised' = revised \union {cycles}
      BY <1>1, <2>2 DEF ReviseHypothesis
    <2>4. IsFiniteSet(revised) /\ Cardinality(revised) \in Nat
      <3>1. IsFiniteSet(1 .. cycles)
        BY <2>2, FS_Interval
      <3>2. QED BY <3>1, FS_Subset, FS_CardinalityType DEF RevisionInv
    <2>5. Cardinality(revised') = Cardinality(revised) + 1
      BY <2>2, <2>3, <2>4, FS_AddElement
    <2>6. generation' \in {generation, generation + 1}
      BY <1>1 DEF ReviseHypothesis, workVars
    <2>7. generation' <= Cardinality(revised')
      BY <2>4, <2>5, <2>6 DEF RevisionInv, TypeInv, WorkOK
    <2>8. revised' \subseteq 1 .. cycles'
      BY <2>2, <2>3, DecisionFrame DEF RevisionInv
    <2>9. QED BY <2>7, <2>8, DecisionFrame DEF RevisionInv
  <1>2. CASE ~ReviseHypothesis
    <2>1. UNCHANGED revised
      BY <1>2 DEF Respond, Decompose, GenerateHypothesis, PlanSearch, SelectGraph,
                  SelectSearch, ReviewCandidates, IntegrateObservation, CloseCycle,
                  Integrate, Finalize
    <2>2. CASE Integrate
      BY <2>1, <2>2, DecisionFrame, RevisionFrame
      DEF Integrate, FreeUpdate, Observe, TypeInv, WorkOK, Works, Observable
    <2>3. CASE ~Integrate
      <3>1. UNCHANGED generation
        BY <1>2, <2>3 DEF Respond, Decompose, GenerateHypothesis, PlanSearch, SelectGraph,
                          SelectSearch, ReviewCandidates, IntegrateObservation, Observe,
                          CloseCycle, Finalize, workVars
      <3>2. QED BY <2>1, <3>1, DecisionFrame, RevisionFrame
    <2>4. QED BY <2>2, <2>3
  <1>3. QED BY <1>1, <1>2

LEMMA RevisionInit == Init => RevisionInv
  BY FS_EmptySet DEF Init, CaseInit, RevisionInv, Deciding

\* ForgetIteration, or an end of the run, leaves nothing to decide.
LEMMA RevisionStep ==
  ASSUME TypeInv, RevisionInv, [Next]_vars
  PROVE  RevisionInv'
  <1> DEFINE Failing  == \E reason : Fail(reason)
             TimesOut == StepTimeout /\ UNCHANGED <<cycles, generation, revised>>
             Repairs  == RejectDecision /\ attempt + 1 < MaxAttempts
  <1>0. cycles \in Nat
    BY LimitsAssumption DEF TypeInv, ControlOK
  <1>1. CASE Tick
    BY <1>1 DEF Tick, RevisionInv, Deciding, caseVars, iterationVars
  <1>2. CASE BeginIteration
    BY <1>0, <1>2, RevisionFrame DEF BeginIteration, RevisionCall, workVars
  <1>3. CASE BeginAttempt \/ BuildContext \/ Repairs
    <2>1. Deciding /\ UNCHANGED <<cycles, generation, revised, revisionCall>>
      BY <1>3 DEF BeginAttempt, BuildContext, RejectDecision, Deciding, caseVars, workVars
    <2>2. QED BY <2>1 DEF RevisionInv
  <1>4. CASE Respond
    BY <1>4, RevisionDecision
  <1>5. CASE ExecuteCycle
    <2>1. cycles' \in Nat /\ cycles' >= cycles
      BY <1>0, <1>5 DEF ExecuteCycle, BatchCycle
    <2>2. ~Deciding' /\ UNCHANGED <<revised, generation>>
      BY <1>5 DEF ExecuteCycle, NextIteration, Deciding, workVars
    <2>3. QED BY <2>1, <2>2, RevisionFrame
  <1>6. CASE Failing
    BY <1>0, <1>6, RevisionFrame DEF Fail, Finish, Deciding, workVars
  <1>7. CASE TimesOut
    BY <1>0, <1>7, RevisionFrame DEF StepTimeout, NextIteration, Deciding
  <1>8. CASE Judge \/ Accept \/ Revise
    <2>1. UNCHANGED <<cycles, generation, revised>>
      BY <1>8 DEF Judge, Fail, Accept, Revise, caseVars, workVars
    <2>2. ~Deciding'
      BY <1>8 DEF Judge, Fail, Accept, Revise, Complete, Finish, NextIteration, Deciding
    <2>3. QED BY <1>0, <2>1, <2>2, RevisionFrame
  <1>9. CASE UNCHANGED vars
    BY <1>9 DEF vars, caseVars, iterationVars, RevisionInv, Deciding
  <1>10. WallTimeOver \/ ModelFails \/ ToolConflict \/ ReviewFails => Failing
    BY DEF WallTimeOver, ModelFails, ToolConflict, ReviewFails
  <1>11. AttemptTimeout => Failing \/ TimesOut
    BY DEF AttemptTimeout, workVars
  <1>12. CallTimeout => Failing \/ TimesOut
    BY DEF CallTimeout, workVars
  <1>13. CheckpointTimeout => TimesOut
    BY DEF CheckpointTimeout, Observe, workVars
  <1>14. RejectDecision => Repairs \/ Failing
    BY DEF RejectDecision
  <1>15. QED
    <2> HIDE DEF Failing, TimesOut, Repairs
    <2> QED
      BY <1>1, <1>2, <1>3, <1>4, <1>5, <1>6, <1>7, <1>8, <1>9, <1>10, <1>11, <1>12,
         <1>13, <1>14 DEF Next, Step

\* However many texts contradict its versions, a Hypothesis is replaced at most once
\* in a cycle, whatever the limits are.
THEOREM RevisesOncePerCycle == Spec => []OneRevisionPerCycle
  <1>1. RevisionInv => OneRevisionPerCycle
    BY DEF RevisionInv, OneRevisionPerCycle
  <1>2. Spec => []RevisionInv
    BY RevisionInit, RevisionStep, TypeInvariant, PTL DEF Spec
  <1>3. QED BY <1>1, <1>2, PTL

-----------------------------------------------------------------------------
(***************************************************************************)
(* Requests and results.  The ids of a batch are fresh because every id in *)
(* use is at most the number of requests; that holds only while no request *)
(* is dropped, so a batch the clock takes back must not be saved at all.   *)
(***************************************************************************)
Distinct(S) == \A r, s \in S : r.id = s.id => r = s

RequestsInv ==
    /\ \A r \in requests : r.id <= Cardinality(requests)
    /\ Distinct(results)
    /\ pc \notin {"tools", "done"} => Ids(requests) = Ids(results)
    /\ pc = "tools" => /\ Ids(requests) = Ids(results) \union Ids(batch)
                       /\ Ids(batch) \intersect Ids(results) = {}
                       /\ Distinct(batch)

\* The requests of one decision get new and different ids, in one unbroken range.
LEMMA AskedFresh ==
  ASSUME TypeInv, RequestsInv, NEW tools \in SUBSET Tools, NEW size \in Nat,
         Cardinality(requests) + Cardinality(tools) <= MaxRequests
  PROVE  /\ \A r \in Asked(tools, size) : r.id > Cardinality(requests)
         /\ \A r \in requests \union Asked(tools, size) :
               r.id <= Cardinality(requests \union Asked(tools, size))
         /\ Distinct(Asked(tools, size))
  <1> DEFINE n == Cardinality(requests)
             upTo(t) == {u \in tools : Rank[u] <= Rank[t]}
             req(t) == [id |-> n + Cardinality(upTo(t)), tool |-> t, hypothesis |-> generation,
                        articles |-> IF t \in Fetches THEN size ELSE 0]
             f == [t \in tools |-> req(t)]
  <1>1. /\ IsFiniteSet(tools) /\ Cardinality(tools) \in Nat
        /\ IsFiniteSet(requests) /\ n \in Nat
    BY ToolsFinite, FS_Subset, FS_CardinalityType DEF TypeInv, ControlOK
  <1>2. /\ \A t \in tools : Rank[t] \in Nat
        /\ \A t, u \in tools : Rank[t] = Rank[u] => t = u
    BY DEF Tools, Explorations, Fetches, Rank
  <1>3. ASSUME NEW t \in tools
        PROVE  IsFiniteSet(upTo(t)) /\ Cardinality(upTo(t)) \in 1 .. Cardinality(tools)
    <2>1. IsFiniteSet(upTo(t)) /\ Cardinality(upTo(t)) <= Cardinality(tools)
      BY <1>1, FS_Subset
    <2>2. t \in upTo(t)
      BY <1>2
    <2>3. Cardinality(upTo(t)) \in Nat /\ Cardinality(upTo(t)) # 0
      BY <2>1, <2>2, FS_CardinalityType, FS_EmptySet
    <2>4. QED BY <1>1, <2>1, <2>3
  <1>4. ASSUME NEW t \in tools, NEW u \in tools, Rank[t] < Rank[u]
        PROVE  Cardinality(upTo(t)) # Cardinality(upTo(u))
    <2>1. upTo(t) \in SUBSET upTo(u) /\ u \in upTo(u) /\ u \notin upTo(t)
      BY <1>2, <1>4
    <2>2. upTo(t) # upTo(u)
      BY <2>1
    <2>3. QED
      <3> HIDE DEF upTo
      <3> QED BY <1>3, <2>1, <2>2, FS_Subset
  <1>5. Asked(tools, size) = {req(t) : t \in tools}
    BY DEF Asked
  <1> HIDE DEF upTo
  <1>6. \A t \in tools : req(t).id = n + Cardinality(upTo(t))
    OBVIOUS
  <1>7. f \in Surjection(tools, Asked(tools, size))
    BY <1>5 DEF Surjection
  <1>8. \A t \in tools : f[t] = req(t)
    OBVIOUS
  <1> HIDE DEF n, req, f
  <1>9. ASSUME NEW t \in tools, NEW u \in tools, req(t).id = req(u).id
        PROVE  t = u
    <2>1. Cardinality(upTo(t)) = Cardinality(upTo(u))
      BY <1>1, <1>3, <1>6, <1>9
    <2>2. ~(Rank[t] < Rank[u]) /\ ~(Rank[u] < Rank[t])
      BY <1>4, <2>1
    <2>3. QED BY <1>2, <2>2
  <1>10. Distinct(Asked(tools, size))
    BY <1>5, <1>9 DEF Distinct
  <1>11. \A r \in Asked(tools, size) : r.id \in n + 1 .. n + Cardinality(tools)
    BY <1>1, <1>3, <1>5, <1>6
  <1>12. IsFiniteSet(Asked(tools, size)) /\ Cardinality(Asked(tools, size)) = Cardinality(tools)
    <2>1. f \in Injection(tools, Asked(tools, size))
      BY <1>7, <1>8, <1>9 DEF Surjection, Injection, IsInjective
    <2>2. QED BY <1>1, <1>7, <2>1, FS_Surjection
  <1>13. \A r \in requests : r.id <= n /\ r.id \in Nat
    BY DEF RequestsInv, TypeInv, ControlOK, Request, RequestIds, n
  <1>14. Cardinality(requests \union Asked(tools, size)) = n + Cardinality(tools)
    <2>1. requests \intersect Asked(tools, size) = {}
      BY <1>1, <1>11, <1>13
    <2>2. Cardinality(requests \union Asked(tools, size)) = n + Cardinality(tools) - 0
      BY <1>1, <1>12, <2>1, FS_Union, FS_EmptySet DEF n
    <2>3. QED BY <1>1, <2>2
  <1>15. QED
    BY <1>1, <1>10, <1>11, <1>13, <1>14 DEF n

LEMMA RequestsFrame ==
  ASSUME RequestsInv, UNCHANGED <<requests, results>>, pc' # "tools",
         pc = "tools" \/ pc = "done" => pc' = "done"
  PROVE  RequestsInv'
  BY DEF RequestsInv, Distinct, Ids

LEMMA ContinueRequests ==
  ASSUME TypeInv, RequestsInv, pc = "call", NEW asked, NEW start, NEW review,
         Continue(asked, start, review),
         \A r \in asked : r.id > Cardinality(requests),
         \A r \in requests \union asked : r.id <= Cardinality(requests \union asked),
         Distinct(asked)
  PROVE  RequestsInv'
  <1>1. CASE asked # {} /\ ~(remaining <= Reserve)
    <2>1. /\ requests' = requests \union asked /\ batch' = asked /\ pc' = "tools"
          /\ results' = results
      BY <1>1 DEF Continue, RunTools
    <2>2. Ids(requests) = Ids(results)
      BY DEF RequestsInv
    <2>3. Ids(requests') = Ids(results') \union Ids(batch')
      BY <2>1, <2>2 DEF Ids
    <2>4. Ids(batch') \intersect Ids(results') = {}
      <3>1. ASSUME NEW q \in asked, NEW r \in requests, q.id = r.id
            PROVE  FALSE
        <4>1. q.id > Cardinality(requests) /\ r.id <= Cardinality(requests) /\ r.id \in Nat
          BY DEF RequestsInv, TypeInv, ControlOK, Request, RequestIds
        <4>2. Cardinality(requests) \in Nat
          BY FS_CardinalityType DEF TypeInv, ControlOK
        <4>3. QED BY <3>1, <4>1, <4>2
      <3>2. QED BY <2>1, <2>2, <3>1 DEF Ids
    <2>5. QED
      BY <2>1, <2>3, <2>4 DEF RequestsInv, Distinct
  <1>2. CASE ~(asked # {} /\ ~(remaining <= Reserve))
    BY <1>2, RequestsFrame DEF Continue, RunTools, NextIteration
  <1>3. QED BY <1>1, <1>2

LEMMA DecisionRequests ==
  ASSUME TypeInv, RequestsInv, Respond
  PROVE  RequestsInv'
  <1>1. pc = "call" /\ (Answer \/ Proceeds)
    BY DecisionShape
  <1>2. CASE Answer
    BY <1>1, <1>2, RequestsFrame DEF Answer
  <1>3. CASE Proceeds
    <2>1. CASE \E start, review \in BOOLEAN : Continue({}, start, review)
      BY <1>1, <2>1, RequestsFrame DEF Continue, NextIteration
    <2>2. CASE \E start, review \in BOOLEAN : \E tools \in SUBSET Tools, size \in Nat :
                  /\ Cardinality(requests) + Cardinality(tools) <= MaxRequests
                  /\ Continue(Asked(tools, size), start, review)
      BY <1>1, <2>2, AskedFresh, ContinueRequests
    <2>3. QED BY <1>3, <2>1, <2>2 DEF Proceeds
  <1>4. QED BY <1>1, <1>2, <1>3

LEMMA ExecuteRequests ==
  ASSUME TypeInv, RequestsInv, ExecuteCycle
  PROVE  RequestsInv'
  <1>1. PICK outcome \in [batch -> Outcomes] :
           results' = results \union {ResultOf(q, outcome[q]) : q \in batch}
    BY DEF ExecuteCycle
  <1>2. \A q \in batch : ResultOf(q, outcome[q]).id = q.id
    BY DEF ResultOf
  <1>3. pc = "tools" /\ pc' = "solve" /\ UNCHANGED requests
    BY DEF ExecuteCycle, NextIteration
  <1>4. Ids(requests') = Ids(results')
    <2>1. Ids({ResultOf(q, outcome[q]) : q \in batch}) = Ids(batch)
      BY <1>2 DEF Ids
    <2>2. \A S, T : Ids(S \union T) = Ids(S) \union Ids(T)
      BY DEF Ids
    <2>3. Ids(results') = Ids(results) \union Ids(batch)
      BY <1>1, <2>1, <2>2
    <2>4. Ids(requests') = Ids(requests)
      BY <1>3 DEF Ids
    <2>5. QED BY <1>3, <2>3, <2>4 DEF RequestsInv
  <1>5. Distinct(results')
    BY <1>1, <1>2, <1>3 DEF RequestsInv, Ids, Distinct
  <1>6. QED BY <1>3, <1>4, <1>5 DEF RequestsInv

LEMMA RequestsInit == Init => RequestsInv
  BY FS_EmptySet DEF Init, CaseInit, RequestsInv, Distinct, Ids

LEMMA RequestsStep ==
  ASSUME TypeInv, RequestsInv, [Next]_vars
  PROVE  RequestsInv'
  <1> DEFINE Kept == UNCHANGED <<requests, results>>
  <1>1. CASE Respond
    BY <1>1, DecisionRequests
  <1>2. CASE ExecuteCycle
    BY <1>2, ExecuteRequests
  <1>3. CASE UNCHANGED vars \/ Tick
    BY <1>3 DEF Tick, vars, caseVars, iterationVars, RequestsInv, Ids, Distinct
  <1>4. ASSUME NEW reason, Fail(reason)
        PROVE  Kept /\ pc' = "done"
    BY <1>4 DEF Fail, Finish
  <1>5. BeginIteration \/ BeginAttempt \/ BuildContext
          => Kept /\ pc \in {"solve", "attempt", "context"} /\ pc' # "tools"
    BY DEF BeginIteration, BeginAttempt, BuildContext, caseVars
  <1>6. WallTimeOver \/ ModelFails \/ ToolConflict \/ ReviewFails => Kept /\ pc' = "done"
    BY <1>4 DEF WallTimeOver, ModelFails, ToolConflict, ReviewFails
  <1>7. AttemptTimeout \/ CallTimeout \/ CheckpointTimeout
          => Kept /\ pc \in {"attempt", "call"} /\ pc' # "tools"
    BY <1>4 DEF AttemptTimeout, CallTimeout, CheckpointTimeout, StepTimeout, NextIteration
  <1>8. RejectDecision => Kept /\ pc = "call" /\ pc' # "tools"
    BY <1>4 DEF RejectDecision, caseVars
  <1>9. Judge \/ Accept \/ Revise => Kept /\ pc \in {"judge", "review"} /\ pc' # "tools"
    BY <1>4 DEF Judge, Accept, Revise, Complete, Finish, NextIteration, caseVars
  <1>10. QED
    BY <1>1, <1>2, <1>3, <1>5, <1>6, <1>7, <1>8, <1>9, RequestsFrame DEF Next, Step

\* Between batches each saved request has exactly one result, for every bound on the
\* requests and every schedule of the clock: a batch dropped late leaves no trace.
THEOREM RequestsAreAnswered == Spec => []RequestsAnswered
  <1>1. RequestsInv => RequestsAnswered
    BY DEF RequestsInv, RequestsAnswered, Distinct
  <1>2. Spec => []RequestsInv
    BY RequestsInit, RequestsStep, TypeInvariant, PTL DEF Spec
  <1>3. QED BY <1>1, <1>2, PTL

-----------------------------------------------------------------------------
(***************************************************************************)
(* What a decision may do.  The guards of the ten decisions are used once, *)
(* here: whatever the purpose of the call, the Solver either answers or    *)
(* goes on with a batch of tools, and both respect the limits and the      *)
(* results that the run has at that time.                                  *)
(***************************************************************************)
Degraded == stepTimeout \/ stopReason = "exploration_limit_reached"

\* The run is over exactly when control is, and has an answer exactly while the
\* answer is judged; results belong to cycles that have been opened.
RunInv ==
    /\ pc = "done" <=> runStatus # "running"
    /\ pc \in {"judge", "review"} => answer # "none"
    /\ pc \notin {"judge", "review", "done"} => answer = "none"
    /\ pc = "review" => ReviewerEnabled
    /\ \A r \in results : r.cycle \in 1 .. cycles
    /\ pc = "tools" /\ ~advance => cycles > 0

\* What the iteration computed at its head still holds when it decides, and a cycle
\* is left only without results that wait.
ContextInv ==
    /\ Deciding => /\ pending = PendingGrounding
                   /\ Degraded => finalizeOnly
    /\ pc = "tools" => ~Degraded
    /\ stopReason = "exploration_limit_reached" /\ ~findings => UnintegratedGrounding = {}
    /\ pc = "tools" /\ advance /\ cycles > 0 /\ ~findings => RecentResults = {}

GoesOn(tools, size, start, review) ==
    /\ Continue(Asked(tools, size), start, review)
    /\ tools # {} => /\ Cardinality(requests) + Cardinality(tools) <= MaxRequests
                     /\ ~Degraded
    /\ review => cycles > 0
    /\ start => ~review /\ cycles < MaxCycles
    /\ start /\ cycles > 0 /\ ~findings => \A r \in RecentResults : r.id \in integrated'
    /\ WithinSetLimits(tools)
    /\ WithinFetchCapacity(tools, size, start)
    /\ \A t, u \in tools \intersect Fetches : t = u

Decided ==
    \/ /\ Answer
       /\ ~stepTimeout /\ ~findings => UnintegratedGrounding = {}
    \/ \E tools \in SUBSET Tools, size \in FetchSizes, start, review \in BOOLEAN :
          GoesOn(tools, size, start, review)

LEMMA AskedNothing == \A size : Asked({}, size) = {}
  BY DEF Asked

LEMMA AskedSomething == \A tools, size : tools # {} => Asked(tools, size) # {}
  BY DEF Asked

LEMMA NoTools ==
  ASSUME NEW size
  PROVE  WithinSetLimits({}) /\ \A start : WithinFetchCapacity({}, size, start)
  BY DEF WithinSetLimits, WithinFetchCapacity

LEMMA OnlyFetches ==
  ASSUME NEW tools \in SUBSET Fetches
  PROVE  WithinSetLimits(tools)
  BY DEF WithinSetLimits, Fetches, Explorations

\* A decision without tools that opens no cycle.
LEMMA GoesOnAlone ==
  ASSUME Continue({}, FALSE, FALSE)
  PROVE  Decided
  <1>1. 1 \in FetchSizes
    BY LimitsAssumption DEF FetchSizes
  <1>2. GoesOn({}, 1, FALSE, FALSE)
    BY AskedNothing, NoTools DEF GoesOn
  <1>3. QED BY <1>1, <1>2 DEF Decided

\* Every text of the cycle is integrated unless an integration is pending, findings
\* lead the run or a step has timed out.
LEMMA NothingWaits ==
  ASSUME TypeInv, RunInv, ContextInv, pc = "call", ~pending, ~stepTimeout, ~findings
  PROVE  UnintegratedGrounding = {}
  <1>1. cycles \in Nat
    BY LimitsAssumption DEF TypeInv, ControlOK
  <1>2. CASE cycles > 0
    BY <1>2 DEF ContextInv, Deciding, PendingGrounding
  <1>3. CASE cycles = 0
    BY <1>3 DEF RunInv, UnintegratedGrounding, RecentResults
  <1>4. QED BY <1>1, <1>2, <1>3

LEMMA DecisionDecided ==
  ASSUME TypeInv, RunInv, ContextInv, Respond
  PROVE  Decided
  <1>0. /\ pc = "call" /\ cycles \in Nat
        /\ pending = PendingGrounding /\ (Degraded => finalizeOnly)
    BY DecisionShape, LimitsAssumption DEF TypeInv, ControlOK, ContextInv, Deciding
  <1>11. \A tools \in SUBSET (Explorations \union {"fetch_articles"}) :
           \A t, u \in tools \intersect Fetches : t = u
    BY DEF Explorations, Fetches
  <1>1. pending => ~stepTimeout /\ ~findings /\ cycles > 0
    BY <1>0 DEF PendingGrounding
  <1>2. Degraded => MustFinalize \/ pending
    BY <1>0 DEF MustFinalize
  <1>3. ASSUME Decompose \/ GenerateHypothesis \/ ReviseHypothesis
        PROVE  Decided
    BY <1>3, GoesOnAlone DEF Decompose, GenerateHypothesis, ReviseHypothesis
  <1>4. ASSUME PlanSearch
        PROVE  Decided
    <2>1. ~MustFinalize /\ ~pending
      BY <1>4 DEF PlanSearch, Calling, Purpose
    <2>2. GoesOn({"legal_search"}, 1, FALSE, FALSE)
      BY <1>2, <1>4, <2>1 DEF PlanSearch, Askable, GoesOn
    <2>3. {"legal_search"} \in SUBSET Tools /\ 1 \in FetchSizes
      BY LimitsAssumption DEF Tools, Explorations, FetchSizes
    <2>4. QED BY <2>2, <2>3 DEF Decided
  <1>5. ASSUME SelectGraph \/ SelectSearch
        PROVE  Decided
    <2>1. ~pending /\ ~finalizeOnly /\ (GraphBatch # {} \/ FreshSearches # {})
      BY <1>5 DEF SelectGraph, SelectSearch, Calling, Purpose, GraphReviewCall, SearchReviewCall
    <2>2. cycles > 0
      <3>1. \E r \in results : TRUE
        BY <2>1 DEF GraphBatch, GraphUnit, GraphPool, GraphResults, Succeeded, FreshSearches,
                    RecentResults
      <3>2. QED BY <1>0, <3>1 DEF RunInv
    <2>3. PICK fetch \in Fetches : \E ids : ReviewCandidates(ids, fetch)
      BY <1>5 DEF SelectGraph, SelectSearch, Fetches
    <2>4. PICK tools \in {{}, {fetch}}, size \in FetchSizes :
             /\ Cardinality(requests) + Cardinality(tools) <= MaxRequests
             /\ WithinFetchCapacity(tools, size, FALSE)
             /\ Continue(Asked(tools, size), FALSE, TRUE)
      BY <2>3 DEF ReviewCandidates
    <2>5. tools \in SUBSET Fetches /\ tools \in SUBSET Tools
      BY DEF Tools
    <2>6. GoesOn(tools, size, FALSE, TRUE)
      BY <1>0, <2>1, <2>2, <2>4, <2>5, OnlyFetches DEF GoesOn
    <2>7. QED BY <2>5, <2>6 DEF Decided
  <1>6. ASSUME IntegrateObservation
        PROVE  Decided
    <2>1. CASE ~pending
      BY <1>6, <2>1, GoesOnAlone DEF IntegrateObservation
    <2>2. CASE pending
      <3>1. PICK tools \in SUBSET (Explorations \union {"fetch_articles"}), size \in FetchSizes :
               /\ Askable(tools, size, FALSE)
               /\ Continue(Asked(tools, size), FALSE, FALSE)
        BY <1>6, <2>2 DEF IntegrateObservation
      <3>2. stopReason # "exploration_limit_reached"
        BY <1>0, <1>1, <2>2 DEF ContextInv, PendingGrounding
      <3>3. tools \in SUBSET Tools
        BY DEF Tools, Fetches
      <3>4. GoesOn(tools, size, FALSE, FALSE)
        BY <1>1, <1>11, <2>2, <3>1, <3>2 DEF Askable, GoesOn, Degraded
      <3>5. QED BY <3>3, <3>4 DEF Decided
    <2>3. QED BY <2>1, <2>2
  <1>7. ASSUME CloseCycle
        PROVE  Decided
    <2>1. ~MustFinalize /\ ~pending /\ ~findings /\ cycles < MaxCycles
      BY <1>7 DEF CloseCycle, Calling, Purpose, CanStartNextCycle
    <2>2. RecentShown = RecentResults
      BY <2>1 DEF RecentShown
    <2>3. \A r \in RecentResults : r.id \in integrated'
      BY <1>7, <2>2 DEF CloseCycle, MarkIntegrated, Ids
    <2>4. PICK tools \in {{}, {"fetch_articles"}}, size \in FetchSizes :
             /\ Cardinality(requests) + Cardinality(tools) <= MaxRequests
             /\ Continue(Asked(tools, size), TRUE, FALSE)
      BY <1>7 DEF CloseCycle
    <2>5. tools \in SUBSET Fetches /\ tools \in SUBSET Tools
      BY DEF Tools, Fetches
    <2>6. WithinFetchCapacity(tools, size, TRUE)
      BY LimitsAssumption DEF WithinFetchCapacity, FetchSizes
    <2>7. GoesOn(tools, size, TRUE, FALSE)
      BY <1>2, <2>1, <2>3, <2>4, <2>5, <2>6, OnlyFetches DEF GoesOn
    <2>8. QED BY <2>5, <2>7 DEF Decided
  <1>8. ASSUME Integrate
        PROVE  Decided
    <2>1. ~pending
      BY <1>0, <1>1, <1>8 DEF Integrate, Calling, Purpose
    <2>2. CASE Answer
      <3>1. ~stepTimeout /\ ~findings => UnintegratedGrounding = {}
        BY <1>0, <2>1, NothingWaits
      <3>2. QED BY <2>2, <3>1 DEF Decided
    <2>3. CASE ~Answer
      <3>1. PICK tools \in SUBSET (Explorations \union {"fetch_articles"}),
                 size \in FetchSizes, start \in BOOLEAN :
               /\ start => CanStartNextCycle
               /\ Askable(tools, size, start)
               /\ Continue(Asked(tools, size), start, FALSE)
        BY <1>8, <2>3 DEF Integrate
      <3>2. ~MustFinalize
        BY <1>8, <2>3 DEF Integrate
      <3>3. ASSUME cycles > 0, ~findings
            PROVE  RecentResults = {}
        <4>1. Purpose = "integration"
          BY <1>8, <3>3 DEF Integrate, Calling, Purpose
        <4>2. RecentShown = {}
          BY <3>3, <4>1 DEF Purpose, IntegrationCall
        <4>3. QED BY <2>1, <4>2 DEF RecentShown
      <3>4. tools \in SUBSET Tools
        BY DEF Tools, Fetches
      <3>5. GoesOn(tools, size, start, FALSE)
        BY <1>2, <1>11, <2>1, <3>1, <3>2, <3>3 DEF Askable, GoesOn, CanStartNextCycle
      <3>6. QED BY <3>4, <3>5 DEF Decided
    <2>4. QED BY <2>2, <2>3
  <1>9. ASSUME Finalize
        PROVE  Decided
    <2>1. ~pending
      BY <1>9 DEF Finalize, Calling, Purpose
    <2>2. ~stepTimeout /\ ~findings => UnintegratedGrounding = {}
      BY <1>0, <2>1, NothingWaits
    <2>3. QED BY <1>9, <2>2 DEF Finalize, Decided
  <1>10. QED
    BY <1>3, <1>4, <1>5, <1>6, <1>7, <1>8, <1>9 DEF Respond

-----------------------------------------------------------------------------
(***************************************************************************)
(* The run, the answer and the cycles.                                     *)
(***************************************************************************)

\* A decision that goes on keeps the answer and the results, and opens at most one cycle.
LEMMA GoesOnRun ==
  ASSUME TypeInv, RunInv, pc = "call", NEW tools \in SUBSET Tools, NEW size \in FetchSizes,
         NEW start \in BOOLEAN, NEW review \in BOOLEAN, GoesOn(tools, size, start, review)
  PROVE  /\ UNCHANGED <<runStatus, answer, verdict, results>>
         /\ cycles' \in {cycles, cycles + 1} /\ cycles' <= MaxCycles
         /\ cycles' # cycles => start
         /\ pc' \in {"solve", "tools"}
         /\ pc' = "tools" => /\ tools # {} /\ cycles' = cycles
                             /\ batch' = Asked(tools, size)
                             /\ advance' = ((cycles = 0 \/ start) /\ ~review)
                             /\ UNCHANGED <<stepTimeout, stopReason, findings>>
  <1> DEFINE asked == Asked(tools, size)
  <1>0. cycles \in 0 .. MaxCycles /\ MaxCycles \in Nat
    BY LimitsAssumption DEF TypeInv, ControlOK
  <1>1. Continue(asked, start, review) /\ (start => cycles < MaxCycles)
    BY DEF GoesOn
  <1>2. UNCHANGED <<runStatus, answer, verdict, results>>
    BY <1>1 DEF Continue
  <1>3. CASE asked # {} /\ remaining <= Reserve
    BY <1>0, <1>1, <1>2, <1>3 DEF Continue, RunTools, NextIteration
  <1>4. CASE asked # {} /\ ~(remaining <= Reserve)
    BY <1>0, <1>1, <1>2, <1>4, AskedNothing DEF Continue, RunTools
  <1>5. CASE asked = {}
    BY <1>0, <1>1, <1>2, <1>5 DEF Continue, NextIteration, StartWithoutTools
  <1>6. QED BY <1>3, <1>4, <1>5

LEMMA FailRun ==
  ASSUME RunInv, NEW reason, Fail(reason)
  PROVE  RunInv'
  BY DEF Fail, Finish, RunInv

LEMMA RunFrame ==
  ASSUME RunInv, UNCHANGED <<runStatus, cycles, answer, results>>,
         pc \notin {"judge", "review", "done"}, pc' \notin {"tools", "judge", "review", "done"}
  PROVE  RunInv'
  BY DEF RunInv

LEMMA RunInvInit == Init => RunInv
  BY DEF Init, CaseInit, RunInv

LEMMA RunDecision ==
  ASSUME TypeInv, RunInv, ContextInv, Respond
  PROVE  RunInv'
  <1>1. Decided /\ pc = "call"
    BY DecisionDecided, DecisionShape
  <1>2. CASE Answer
    BY <1>1, <1>2 DEF Answer, RunInv
  <1>3. ASSUME NEW tools \in SUBSET Tools, NEW size \in FetchSizes,
               NEW start \in BOOLEAN, NEW review \in BOOLEAN, GoesOn(tools, size, start, review)
        PROVE  RunInv'
    <2>1. cycles \in Nat
      BY LimitsAssumption DEF TypeInv, ControlOK
    <2>2. \A r \in results' : r.cycle \in 1 .. cycles'
      BY <1>1, <1>3, <2>1, GoesOnRun DEF RunInv
    <2>3. pc' = "tools" /\ ~advance' => cycles' > 0
      <3>1. review => cycles > 0
        BY <1>3 DEF GoesOn
      <3>2. pc' = "tools" => cycles' = cycles /\ advance' = ((cycles = 0 \/ start) /\ ~review)
        BY <1>1, <1>3, GoesOnRun
      <3>3. pc' = "tools" /\ ~advance' => review \/ cycles # 0
        BY <3>2, Zenon
      <3>4. QED BY <2>1, <3>1, <3>2, <3>3
    <2>4. QED BY <1>1, <1>3, <2>2, <2>3, GoesOnRun DEF RunInv
  <1>4. QED BY <1>1, <1>2, <1>3 DEF Decided

LEMMA RunStep ==
  ASSUME TypeInv, RunInv, ContextInv, [Next]_vars
  PROVE  RunInv'
  <1> USE DEF NextIteration
  <1>1. CASE Tick \/ UNCHANGED vars
    BY <1>1 DEF Tick, vars, caseVars, iterationVars, RunInv
  <1>2. CASE BeginIteration \/ BeginAttempt \/ BuildContext
    BY <1>2, RunFrame DEF BeginIteration, BeginAttempt, BuildContext, caseVars
  <1>3. CASE WallTimeOver \/ ModelFails \/ ToolConflict \/ ReviewFails
    BY <1>3, FailRun DEF WallTimeOver, ModelFails, ToolConflict, ReviewFails
  <1>4. CASE AttemptTimeout \/ CallTimeout \/ CheckpointTimeout
    BY <1>4, FailRun, RunFrame DEF AttemptTimeout, CallTimeout, CheckpointTimeout, StepTimeout
  <1>5. CASE Respond
    BY <1>5, RunDecision
  <1>6. CASE RejectDecision
    BY <1>6, FailRun, RunFrame DEF RejectDecision, caseVars
  <1>7. CASE ExecuteCycle
    <2>1. cycles \in Nat
      BY LimitsAssumption DEF TypeInv, ControlOK
    <2>2. cycles' \in Nat /\ cycles' >= cycles /\ BatchCycle = cycles' /\ cycles' > 0
      BY <1>7, <2>1 DEF ExecuteCycle, BatchCycle, CurrentCycle, RunInv
    <2>3. \A r \in results' : r.cycle \in 1 .. cycles'
      BY <1>7, <2>1, <2>2 DEF ExecuteCycle, ResultOf, RunInv
    <2>4. QED BY <1>7, <2>3 DEF ExecuteCycle, RunInv
  <1>8. CASE Judge \/ Accept
    BY <1>8, FailRun DEF Judge, Accept, Complete, Finish, RunInv, caseVars
  <1>9. CASE Revise
    BY <1>9 DEF Revise, Finish, RunInv
  <1>10. QED
    BY <1>1, <1>2, <1>3, <1>4, <1>5, <1>6, <1>7, <1>8, <1>9 DEF Next, Step

(***************************************************************************)
(* What the iteration has computed is not stale when it decides.           *)
(***************************************************************************)
LEMMA ContextInvInit == Init => ContextInv
  BY DEF Init, CaseInit, ContextInv, Deciding, Degraded

\* PendingGrounding reads only what no step before the decision changes.
LEMMA ReadsCase ==
  ASSUME UNCHANGED <<cycles, stepTimeout, findings, results, integrated>>
  PROVE  /\ PendingGrounding' = PendingGrounding
         /\ UnintegratedGrounding' = UnintegratedGrounding
         /\ RecentResults' = RecentResults
  BY DEF PendingGrounding, UnintegratedGrounding, RecentResults

\* The end of an iteration that keeps the results waiting for integration.
LEMMA ContextFrame ==
  ASSUME ContextInv, ~Deciding', pc' # "tools",
         stopReason' = "exploration_limit_reached" /\ ~findings' => UnintegratedGrounding' = {}
  PROVE  ContextInv'
  BY DEF ContextInv

LEMMA FailContext ==
  ASSUME ContextInv, NEW reason, reason # "exploration_limit_reached", Fail(reason)
  PROVE  ContextInv'
  BY ContextFrame DEF Fail, Finish, Deciding

\* Consuming results never brings back a text that waits.
LEMMA UnintegratedShrinks ==
  ASSUME results' = results, cycles' = cycles, integrated \subseteq integrated'
  PROVE  UnintegratedGrounding' \subseteq UnintegratedGrounding
  BY DEF UnintegratedGrounding, RecentResults

\* Once every result of the cycle is consumed, no text of it waits.
LEMMA AllConsumed ==
  ASSUME results' = results, cycles' = cycles, integrated \subseteq integrated',
         \A r \in RecentResults : r.id \in integrated'
  PROVE  RecentResults' = {} /\ UnintegratedGrounding' = {}
  BY DEF RecentResults, UnintegratedGrounding

LEMMA IntegratedGrows ==
  ASSUME Respond
  PROVE  integrated \subseteq integrated'
  BY DEF Respond, Decompose, GenerateHypothesis, PlanSearch, SelectGraph, SelectSearch,
         ReviewCandidates, IntegrateObservation, ReviseHypothesis, CloseCycle, Integrate,
         Finalize, MarkIntegrated

LEMMA ContextDecision ==
  ASSUME TypeInv, RunInv, ContextInv, Respond
  PROVE  ContextInv'
  <1>1. Decided /\ pc = "call" /\ integrated \subseteq integrated'
    BY DecisionDecided, DecisionShape, IntegratedGrows
  <1>2. CASE Answer
    BY <1>2, ContextFrame DEF Answer, Deciding
  <1>3. ASSUME NEW tools \in SUBSET Tools, NEW size \in FetchSizes,
               NEW start \in BOOLEAN, NEW review \in BOOLEAN, GoesOn(tools, size, start, review)
        PROVE  ContextInv'
    <2> DEFINE asked == Asked(tools, size)
    <2>0. cycles \in Nat /\ Continue(asked, start, review)
      BY <1>3, LimitsAssumption DEF TypeInv, ControlOK, GoesOn
    <2>1. /\ results' = results /\ pc' \in {"solve", "tools"} /\ ~Deciding'
      BY <1>1, <1>3, GoesOnRun DEF Deciding
    <2>2. start /\ cycles = cycles' /\ ~findings => UnintegratedGrounding' = {}
      <3>1. SUFFICES ASSUME start, cycles = cycles', ~findings
                     PROVE  UnintegratedGrounding' = {}
        OBVIOUS
      <3>2. CASE cycles = 0
        BY <2>1, <3>1, <3>2 DEF RunInv, UnintegratedGrounding, RecentResults
      <3>3. CASE cycles > 0
        <4>1. \A r \in RecentResults : r.id \in integrated'
          BY <1>3, <3>1, <3>3 DEF GoesOn
        <4>2. QED BY <1>1, <2>1, <3>1, <4>1, AllConsumed
      <3>4. QED BY <2>0, <3>2, <3>3
    <2>3. CASE asked # {} /\ remaining <= Reserve
      BY <2>0, <2>1, <2>3, ContextFrame DEF Continue, RunTools, NextIteration
    <2>4. CASE asked # {} /\ ~(remaining <= Reserve)
      <3>1. /\ pc' = "tools" /\ tools # {} /\ cycles' = cycles
            /\ UNCHANGED <<stepTimeout, stopReason, findings>>
            /\ advance' = ((cycles = 0 \/ start) /\ ~review)
        BY <1>1, <1>3, <2>0, <2>4, GoesOnRun DEF Continue, RunTools
      <3>2. ~Degraded'
        BY <1>3, <3>1 DEF GoesOn, Degraded
      <3>3. advance' /\ cycles' > 0 /\ ~findings' => RecentResults' = {}
        <4>1. SUFFICES ASSUME start, cycles > 0, ~findings
                       PROVE  RecentResults' = {}
          BY <2>0, <3>1
        <4>2. \A r \in RecentResults : r.id \in integrated'
          BY <1>3, <4>1 DEF GoesOn
        <4>3. QED BY <1>1, <2>1, <3>1, <4>2, AllConsumed
      <3>4. QED BY <2>1, <3>1, <3>2, <3>3 DEF ContextInv, Degraded
    <2>5. CASE asked = {} /\ start
      <3>1. StartWithoutTools /\ findings' = findings /\ pc' = "solve"
        BY <2>0, <2>5 DEF Continue, NextIteration
      <3>2. CASE stopReason' = "exploration_limit_reached"
        BY <2>1, <2>2, <2>5, <3>1, <3>2, ContextFrame DEF StartWithoutTools
      <3>3. CASE stopReason' # "exploration_limit_reached"
        BY <2>1, <3>1, <3>3, ContextFrame
      <3>4. QED BY <3>2, <3>3
    <2>6. CASE asked = {} /\ ~start
      <3>1. UNCHANGED <<cycles, stopReason, findings>> /\ pc' = "solve"
        BY <2>0, <2>6 DEF Continue, NextIteration
      <3>2. UnintegratedGrounding' \subseteq UnintegratedGrounding
        BY <1>1, <2>1, <3>1, UnintegratedShrinks
      <3>3. QED BY <2>1, <3>1, <3>2, ContextFrame DEF ContextInv
    <2>7. QED BY <2>3, <2>4, <2>5, <2>6
  <1>4. QED BY <1>1, <1>2, <1>3 DEF Decided

LEMMA ContextStep ==
  ASSUME TypeInv, RunInv, ContextInv, [Next]_vars
  PROVE  ContextInv'
  <1>0. pending \in BOOLEAN /\ finalizeOnly \in BOOLEAN /\ cycles \in Nat
    BY LimitsAssumption DEF TypeInv, ControlOK
  <1>1. CASE Tick \/ UNCHANGED vars
    <2>1. UNCHANGED <<caseVars, pc, findings, iterationVars>>
      BY <1>1 DEF Tick, vars
    <2>2. QED BY <2>1, ReadsCase DEF caseVars, iterationVars, ContextInv, Deciding, Degraded
  <1>2. CASE BeginIteration
    <2>1. UNCHANGED <<cycles, stepTimeout, findings, results, integrated>>
      BY <1>2 DEF BeginIteration
    <2>2. /\ pc' = "attempt" /\ finalizeOnly' = FinalizeOnly /\ pending' = PendingGrounding
          /\ stopReason' \in {stopReason, "max_research_cycles", "finalization_reserve"}
      BY <1>2 DEF BeginIteration
    <2>3. Degraded' => Degraded
      BY <2>1, <2>2 DEF Degraded
    <2>4. Degraded => FinalizeOnly
      BY DEF Degraded, FinalizeOnly
    <2>5. QED BY <2>1, <2>2, <2>3, <2>4, ReadsCase DEF ContextInv, Deciding, Degraded
  <1>3. CASE BeginAttempt \/ (RejectDecision /\ attempt + 1 < MaxAttempts)
    <2>1. /\ UNCHANGED <<caseVars, findings, finalizeOnly, pending>>
          /\ Deciding /\ pc' # "tools"
      BY <1>3 DEF BeginAttempt, RejectDecision, Deciding
    <2>2. QED BY <2>1, ReadsCase DEF caseVars, ContextInv, Degraded
  <1>4. CASE BuildContext
    <2>1. /\ UNCHANGED <<cycles, stepTimeout, findings, results, integrated, pending>>
          /\ pc = "context" /\ pc' = "call"
          /\ stopReason' = IF ExplorationOver THEN "exploration_limit_reached" ELSE stopReason
          /\ finalizeOnly' = (finalizeOnly \/ ExplorationOver \/ Finalizes)
      BY <1>4 DEF BuildContext
    <2>2. Degraded' => finalizeOnly'
      BY <2>1 DEF ContextInv, Deciding, Degraded
    <2>3. ExplorationOver /\ ~findings => UnintegratedGrounding = {}
      <3>1. SUFFICES ASSUME ExplorationOver, ~findings
                     PROVE  UnintegratedGrounding = {}
        OBVIOUS
      <3>2. ~PendingGrounding /\ ~stepTimeout
        BY <2>1, <3>1 DEF ExplorationOver, ContextInv, Deciding, Degraded
      <3>3. CASE cycles > 0
        BY <3>1, <3>2, <3>3 DEF PendingGrounding
      <3>4. CASE cycles = 0
        BY <3>4 DEF RunInv, UnintegratedGrounding, RecentResults
      <3>5. QED BY <1>0, <3>3, <3>4
    <2>4. QED BY <2>1, <2>2, <2>3, ReadsCase DEF ContextInv, Deciding
  <1>5. CASE WallTimeOver \/ ModelFails \/ ToolConflict \/ ReviewFails
    BY <1>5, FailContext DEF WallTimeOver, ModelFails, ToolConflict, ReviewFails
  <1>6. CASE AttemptTimeout \/ CallTimeout \/ CheckpointTimeout
    BY <1>6, FailContext, ContextFrame
    DEF AttemptTimeout, CallTimeout, CheckpointTimeout, StepTimeout, NextIteration, Deciding
  <1>7. CASE Respond
    BY <1>7, ContextDecision
  <1>8. CASE RejectDecision /\ ~(attempt + 1 < MaxAttempts)
    BY <1>8, FailContext DEF RejectDecision
  <1>9. CASE ExecuteCycle
    BY <1>9, ContextFrame DEF ExecuteCycle, NextIteration, Deciding
  <1>10. CASE Judge \/ Accept \/ Revise
    <2>1. UNCHANGED <<cycles, results, integrated>>
      BY <1>10 DEF Judge, Accept, Revise, Fail, caseVars
    <2>2. UnintegratedGrounding' = UnintegratedGrounding
      BY <2>1 DEF UnintegratedGrounding, RecentResults
    <2>3. ~Deciding' /\ pc' # "tools"
      BY <1>10 DEF Judge, Accept, Revise, Fail, Complete, Finish, NextIteration, Deciding
    <2>4. \/ UNCHANGED <<stopReason, findings>>
          \/ stopReason' # "exploration_limit_reached" \/ findings'
      BY <1>10 DEF Judge, Accept, Revise, Fail, Complete, Finish, caseVars
    <2>5. QED BY <2>2, <2>3, <2>4, ContextFrame DEF ContextInv
  <1>11. QED
    BY <1>1, <1>2, <1>3, <1>4, <1>5, <1>6, <1>7, <1>8, <1>9, <1>10 DEF Next, Step

LEMMA LoopInvariant == Spec => [](TypeInv /\ RunInv /\ ContextInv)
  <1>1. Init => RunInv /\ ContextInv
    BY RunInvInit, ContextInvInit
  <1>2. TypeInv /\ RunInv /\ ContextInv /\ [Next]_vars => (RunInv /\ ContextInv)'
    BY RunStep, ContextStep
  <1>3. QED BY <1>1, <1>2, TypeInvariant, PTL DEF Spec

\* The stored case evolves as CaseRun allows, for every value of the limits: a step of
\* the loop is one step of the abstract run, or does not touch it.
THEOREM RefinesRun == Spec => RunRefinement
  <1> DEFINE Inv == TypeInv /\ RunInv /\ ContextInv /\ RequestsInv
             Kept == UNCHANGED <<runStatus, cycles, answer, verdict, results>>
  <1>1. Init => Run!RunInit
    BY DEF Init, CaseInit, Run!RunInit
  <1>2. Inv /\ [Next]_vars => [Run!RunNext]_(Run!runVars)
    <2> SUFFICES ASSUME TypeInv, RunInv, ContextInv, RequestsInv, [Next]_vars
                 PROVE  Run!RunNext \/ Kept
      BY DEF Run!runVars
    <2>0. cycles \in 0 .. MaxCycles /\ MaxCycles \in Nat /\ results \subseteq Result
      BY LimitsAssumption DEF TypeInv, ControlOK
    <2>1. ASSUME NEW reason, Fail(reason), pc # "done"
          PROVE  Run!RunNext
      BY <2>1 DEF Fail, Finish, workVars, RunInv, Run!RunNext, Run!Abort
    <2>2. CASE Tick \/ BeginIteration \/ BeginAttempt \/ BuildContext \/ UNCHANGED vars
      BY <2>2 DEF Tick, BeginIteration, BeginAttempt, BuildContext, vars, caseVars
    <2>3. CASE WallTimeOver \/ ModelFails \/ ToolConflict \/ ReviewFails
      BY <2>1, <2>3 DEF WallTimeOver, ModelFails, ToolConflict, ReviewFails
    <2>4. CASE AttemptTimeout \/ CallTimeout \/ CheckpointTimeout \/ RejectDecision
      BY <2>1, <2>4 DEF AttemptTimeout, CallTimeout, CheckpointTimeout, RejectDecision, caseVars
    <2>5. CASE Respond
      <3>1. Decided /\ pc = "call" /\ runStatus = "running" /\ answer = "none"
        BY <2>5, DecisionDecided, DecisionShape DEF RunInv
      <3>2. CASE Answer
        BY <3>1, <3>2 DEF Answer, Run!RunNext, Run!Propose
      <3>3. CASE \E tools \in SUBSET Tools, size \in FetchSizes, start, review \in BOOLEAN :
                    GoesOn(tools, size, start, review)
        BY <3>1, <3>3, GoesOnRun DEF Run!RunNext, Run!Research
      <3>4. QED BY <3>1, <3>2, <3>3 DEF Decided
    <2>6. CASE ExecuteCycle
      <3>1. PICK outcome \in [batch -> Outcomes] :
               results' = results \union {ResultOf(q, outcome[q]) : q \in batch}
        BY <2>6 DEF ExecuteCycle
      <3>2. /\ pc = "tools" /\ runStatus = "running" /\ answer = "none"
            /\ UNCHANGED <<runStatus, answer, verdict>>
            /\ cycles' = IF advance THEN BatchCycle ELSE cycles
        BY <2>6 DEF ExecuteCycle, RunInv
      <3>3. BatchCycle = cycles' /\ cycles' > 0 /\ cycles' \in {cycles, cycles + 1}
        BY <2>0, <3>2 DEF BatchCycle, CurrentCycle, RunInv
      <3>4. cycles' <= MaxCycles
        BY <2>0, <3>2, <3>3 DEF TypeInv, ControlOK, BatchCycle
      <3>5. \A r \in results' \ results : r.cycle = cycles' /\ \A s \in results : s.id # r.id
        <4>1. ASSUME NEW q \in batch
              PROVE  LET r == ResultOf(q, outcome[q])
                     IN  r.cycle = cycles' /\ \A s \in results : s.id # r.id
          BY <3>2, <3>3 DEF RequestsInv, Ids, ResultOf
        <4>2. QED BY <3>1, <4>1
      <3>6. QED BY <3>1, <3>2, <3>3, <3>4, <3>5 DEF Run!RunNext, Run!Research
    <2>7. CASE Judge
      <3>1. CASE ~ReviewerEnabled
        BY <2>7, <3>1 DEF Judge, Complete, Finish, RunInv, Run!RunNext, Run!Approve
      <3>2. CASE ReviewerEnabled
        BY <2>1, <2>7, <3>2 DEF Judge, caseVars
      <3>3. QED BY <3>1, <3>2
    <2>8. CASE Accept
      BY <2>8 DEF Accept, Complete, Finish, RunInv, Run!RunNext, Run!Approve
    <2>9. CASE Revise
      BY <2>9 DEF Revise, Finish, RunInv, Run!RunNext, Run!Return
    <2>10. QED
      BY <2>2, <2>3, <2>4, <2>5, <2>6, <2>7, <2>8, <2>9 DEF Next, Step
  <1>3. Spec => []RequestsInv
    BY RequestsInit, RequestsStep, TypeInvariant, PTL DEF Spec
  <1>4. QED
    BY <1>1, <1>2, <1>3, LoopInvariant, PTL DEF Spec, RunRefinement, Run!RunSpec

\* After a step timeout, or once exploration is over, no tool runs before an answer,
\* although the model may still propose any batch that the limits allow.
THEOREM DegradedAsksNoTools == Spec => DegradedRunsNoTools
  <1>1. TypeInv /\ RunInv /\ ContextInv /\ [Next]_vars
          => [Degraded => pc' # "tools"]_vars
    <2> SUFFICES ASSUME TypeInv, RunInv, ContextInv, Degraded, pc' = "tools", Next
                 PROVE  FALSE
      OBVIOUS
    <2>1. pc # "tools"
      BY DEF ContextInv
    <2>2. ~Respond
      <3>1. SUFFICES ASSUME Respond
                     PROVE  FALSE
        OBVIOUS
      <3>2. Decided /\ pc = "call"
        BY <3>1, DecisionDecided, DecisionShape
      <3>3. ~Answer
        BY DEF Answer
      <3>4. PICK tools \in SUBSET Tools, size \in FetchSizes,
                 start \in BOOLEAN, review \in BOOLEAN : GoesOn(tools, size, start, review)
        BY <3>2, <3>3 DEF Decided
      <3>5. tools # {}
        BY <3>2, <3>4, GoesOnRun
      <3>6. QED BY <3>4, <3>5 DEF GoesOn
    <2>3. QED
      BY <2>1, <2>2
      DEF Next, Step, Tick, BeginIteration, WallTimeOver, BeginAttempt, AttemptTimeout,
          BuildContext, RejectDecision, ModelFails, CallTimeout, CheckpointTimeout,
          StepTimeout, NextIteration, ExecuteCycle, ToolConflict, Judge, Accept, Revise,
          ReviewFails, Fail, Complete, Finish
  <1>2. QED BY <1>1, LoopInvariant, PTL DEF Spec, DegradedRunsNoTools, Degraded

\* An answer given without a timeout or findings rests on every text of its cycle: the
\* pending integration comes first even when a limit makes the run finalize.
THEOREM AnswersAfterIntegration == Spec => AnswerAfterIntegration
  <1>1. TypeInv /\ RunInv /\ ContextInv /\ [Next]_vars
          => [pc = "call" /\ answer' # "none" /\ ~stepTimeout /\ ~findings
                => UnintegratedGrounding = {}]_vars
    <2> SUFFICES ASSUME TypeInv, RunInv, ContextInv, Next,
                        pc = "call", answer' # "none", ~stepTimeout, ~findings
                 PROVE  UnintegratedGrounding = {}
      OBVIOUS
    <2>1. answer = "none"
      BY DEF RunInv
    <2>2. Respond
      BY <2>1
      DEF Next, Step, Tick, BeginIteration, WallTimeOver, BeginAttempt, AttemptTimeout,
          BuildContext, RejectDecision, ModelFails, CallTimeout, CheckpointTimeout,
          ExecuteCycle, ToolConflict, Judge, Accept, Revise, ReviewFails, Fail, caseVars
    <2>3. Decided
      BY <2>2, DecisionDecided
    <2>4. ~\E tools \in SUBSET Tools, size \in FetchSizes, start, review \in BOOLEAN :
              GoesOn(tools, size, start, review)
      BY <2>1, GoesOnRun
    <2>5. QED BY <2>3, <2>4 DEF Decided
  <1>2. QED BY <1>1, LoopInvariant, PTL DEF Spec, AnswerAfterIntegration

\* A cycle is left only when all of its results have been consumed, unless a Reviewer's
\* findings sent the run back: also when the batch that opens the next one runs late.
THEOREM BoundariesEvaluated == Spec => BoundaryEvaluated
  <1>1. TypeInv /\ RunInv /\ ContextInv /\ [Next]_vars
          => [cycles > 0 /\ cycles' # cycles /\ ~findings
                => \A r \in results : r.cycle = cycles => r.id \in integrated']_vars
    <2> SUFFICES ASSUME TypeInv, RunInv, ContextInv, Next,
                        cycles > 0, cycles' # cycles, ~findings
                 PROVE  \A r \in results : r.cycle = cycles => r.id \in integrated'
      OBVIOUS
    <2>1. Respond \/ ExecuteCycle
      BY DEF Next, Step, Tick, BeginIteration, WallTimeOver, BeginAttempt, AttemptTimeout,
             BuildContext, RejectDecision, ModelFails, CallTimeout, CheckpointTimeout,
             ToolConflict, Judge, Accept, Revise, ReviewFails, Fail, caseVars
    <2>2. CASE Respond
      <3>1. Decided /\ pc = "call" /\ integrated \subseteq integrated'
        BY <2>2, DecisionDecided, DecisionShape, IntegratedGrows
      <3>2. ~Answer
        BY DEF Answer
      <3>3. PICK tools \in SUBSET Tools, size \in FetchSizes,
                 start \in BOOLEAN, review \in BOOLEAN : GoesOn(tools, size, start, review)
        BY <3>1, <3>2 DEF Decided
      <3>4. start
        BY <3>1, <3>3, GoesOnRun
      <3>5. \A r \in RecentResults : r.id \in integrated'
        BY <3>3, <3>4 DEF GoesOn
      <3>6. QED BY <3>1, <3>5 DEF RecentResults
    <2>3. CASE ExecuteCycle
      <3>1. advance /\ pc = "tools" /\ integrated' = integrated
        BY <2>3 DEF ExecuteCycle
      <3>2. RecentResults = {}
        BY <3>1 DEF ContextInv
      <3>3. QED BY <3>1, <3>2 DEF RecentResults
    <2>4. QED BY <2>1, <2>2, <2>3
  <1>2. QED BY <1>1, LoopInvariant, PTL DEF Spec, BoundaryEvaluated

-----------------------------------------------------------------------------
(***************************************************************************)
(* Exploration sets.  A batch is checked against the cycle that is current *)
(* when the Solver asks, and runs in the cycle that is current when its    *)
(* tools return: the next one when the batch opens it, where no result can *)
(* be, and otherwise still the same.                                       *)
(***************************************************************************)
SetsInv ==
    /\ OneSetPerCycle
    /\ pc = "tools" =>
          /\ \A q \in batch : q.tool \in Explorations =>
                \A s \in Succeeded : s.tool = q.tool /\ s.hypothesis = q.hypothesis
                                       => s.cycle # BatchCycle
          /\ \A p, q \in batch : p.tool = q.tool => p = q

LEMMA SetsFrame ==
  ASSUME SetsInv, results' = results, pc' # "tools"
  PROVE  SetsInv'
  BY DEF SetsInv, OneSetPerCycle, Succeeded

\* The requests of a decision explore for the active Hypothesis, one for each tool.
LEMMA AskedOnce ==
  ASSUME NEW tools \in SUBSET Tools, NEW size
  PROVE  /\ \A r \in Asked(tools, size) :
               /\ r.tool \in tools /\ r.hypothesis = generation
               /\ r.articles = IF r.tool \in Fetches THEN size ELSE 0
         /\ \A p, q \in Asked(tools, size) : p.tool = q.tool => p = q
  <1> DEFINE id(t) == Cardinality(requests) + Cardinality({u \in tools : Rank[u] <= Rank[t]})
             req(t) == [id |-> id(t), tool |-> t, hypothesis |-> generation,
                        articles |-> IF t \in Fetches THEN size ELSE 0]
  <1>1. Asked(tools, size) = {req(t) : t \in tools}
    BY DEF Asked
  <1> HIDE DEF id
  <1>2. \A t \in tools : /\ req(t).tool = t /\ req(t).hypothesis = generation
                         /\ req(t).articles = IF t \in Fetches THEN size ELSE 0
    OBVIOUS
  <1> HIDE DEF req
  <1>3. QED BY <1>1, <1>2

LEMMA SetsDecision ==
  ASSUME TypeInv, RunInv, ContextInv, SetsInv, Respond
  PROVE  SetsInv'
  <1>1. Decided /\ pc = "call"
    BY DecisionDecided, DecisionShape
  <1>2. CASE Answer
    BY <1>2, SetsFrame DEF Answer
  <1>3. ASSUME NEW tools \in SUBSET Tools, NEW size \in FetchSizes,
               NEW start \in BOOLEAN, NEW review \in BOOLEAN, GoesOn(tools, size, start, review)
        PROVE  SetsInv'
    <2>1. results' = results /\ Succeeded' = Succeeded
      BY <1>1, <1>3, GoesOnRun DEF Succeeded
    <2>2. CASE pc' = "tools"
      <3>1. batch' = Asked(tools, size) /\ cycles' = cycles
        BY <1>1, <1>3, <2>2, GoesOnRun
      <3>2. advance' = ((cycles = 0 \/ start) /\ ~review) /\ (review => cycles > 0)
        BY <1>1, <1>3, <2>2, GoesOnRun DEF GoesOn
      <3>3. cycles \in Nat /\ \A s \in Succeeded : s.cycle \in 1 .. cycles
        BY LimitsAssumption DEF TypeInv, ControlOK, RunInv, Succeeded
      <3>4. advance' \/ cycles > 0
        <4>1. advance' \/ cycles # 0 \/ cycles > 0
          BY <3>2, Zenon
        <4>2. QED BY <3>3, <4>1
      <3>5. BatchCycle' = cycles + 1 \/ BatchCycle' = cycles
        BY <3>1, <3>3, <3>4 DEF BatchCycle, CurrentCycle
      <3>6. ASSUME NEW q \in batch', q.tool \in Explorations, NEW s \in Succeeded,
                   s.tool = q.tool, s.hypothesis = q.hypothesis
            PROVE  s.cycle # BatchCycle'
        <4>1. q.tool \in tools /\ q.hypothesis = generation
          BY <3>1, <3>6, AskedOnce
        <4>2. q.tool \notin UsedInCycle(generation)
          BY <1>3, <3>6, <4>1 DEF GoesOn, WithinSetLimits
        <4>3. s.cycle # cycles
          BY <3>6, <4>1, <4>2 DEF UsedInCycle, ExplorationsOf
        <4>4. QED BY <3>3, <3>5, <3>6, <4>3
      <3>7. \A p, q \in batch' : p.tool = q.tool => p = q
        BY <3>1, AskedOnce
      <3>8. QED BY <2>1, <3>6, <3>7 DEF SetsInv, OneSetPerCycle
    <2>3. CASE pc' # "tools"
      BY <2>1, <2>3, SetsFrame
    <2>4. QED BY <2>2, <2>3
  <1>4. QED BY <1>1, <1>2, <1>3 DEF Decided

LEMMA SetsExecute ==
  ASSUME TypeInv, RunInv, SetsInv, ExecuteCycle
  PROVE  SetsInv'
  <1>1. PICK outcome \in [batch -> Outcomes] :
           results' = results \union {ResultOf(q, outcome[q]) : q \in batch}
    BY DEF ExecuteCycle
  <1>2. pc = "tools" /\ pc' = "solve"
    BY DEF ExecuteCycle, NextIteration
  <1>3. \A q \in batch : LET r == ResultOf(q, outcome[q])
                         IN  r.tool = q.tool /\ r.hypothesis = q.hypothesis /\ r.cycle = BatchCycle
    BY DEF ResultOf
  <1>4. \A r \in Succeeded' : r \in Succeeded \/ \E q \in batch : r = ResultOf(q, outcome[q])
    BY <1>1 DEF Succeeded
  <1>5. SUFFICES ASSUME NEW r \in Succeeded', NEW s \in Succeeded',
                        r.tool \in Explorations, r.tool = s.tool,
                        r.hypothesis = s.hypothesis, r.cycle = s.cycle
                 PROVE  r = s
    BY <1>2 DEF SetsInv, OneSetPerCycle
  <1>6. CASE r \in Succeeded /\ s \in Succeeded
    BY <1>5, <1>6 DEF SetsInv, OneSetPerCycle
  <1>7. ASSUME NEW q \in batch, r = ResultOf(q, outcome[q])
        PROVE  r = s
    BY <1>2, <1>3, <1>4, <1>5, <1>7 DEF SetsInv
  <1>8. ASSUME NEW q \in batch, s = ResultOf(q, outcome[q])
        PROVE  r = s
    BY <1>2, <1>3, <1>4, <1>5, <1>8 DEF SetsInv
  <1>9. QED BY <1>4, <1>6, <1>7, <1>8

\* Apart from decisions and batches, a step keeps the results and starts no batch.
LEMMA OtherSteps ==
  ASSUME TypeInv, [Next]_vars
  PROVE  \/ Respond \/ ExecuteCycle
         \/ results' = results /\ pc' # "tools"
         \/ UNCHANGED <<results, pc, batch, advance, cycles>>
  BY DEF Next, Step, vars, Tick, BeginIteration, WallTimeOver, BeginAttempt, AttemptTimeout,
         BuildContext, RejectDecision, ModelFails, CallTimeout, CheckpointTimeout, StepTimeout,
         NextIteration, ToolConflict, Judge, Accept, Revise, ReviewFails, Fail, Complete,
         Finish, caseVars, iterationVars

LEMMA SetsStep ==
  ASSUME TypeInv, RunInv, ContextInv, SetsInv, [Next]_vars
  PROVE  SetsInv'
  <1>1. CASE UNCHANGED <<results, pc, batch, advance, cycles>>
    BY <1>1 DEF SetsInv, OneSetPerCycle, Succeeded, BatchCycle, CurrentCycle
  <1>2. QED BY <1>1, OtherSteps, SetsDecision, SetsExecute, SetsFrame

\* No exploration tool succeeds twice for one Hypothesis in one cycle, for every value
\* of the limits and whatever decision the requests came from.
THEOREM OneSetInEveryCycle == Spec => []OneSetPerCycle
  <1>1. Init => SetsInv
    BY DEF Init, CaseInit, SetsInv, OneSetPerCycle, Succeeded
  <1>2. Spec => []SetsInv
    BY <1>1, SetsStep, LoopInvariant, PTL DEF Spec
  <1>3. SetsInv => OneSetPerCycle
    BY DEF SetsInv
  <1>4. QED BY <1>2, <1>3, PTL

-----------------------------------------------------------------------------
(***************************************************************************)
(* Articles fetched.  MapThenSumSet is defined by a recursion that picks   *)
(* the elements of a set in an unknown order; the lemmas below show that   *)
(* the sum does not depend on it.  They argue about the least cardinality  *)
(* that fails, which replaces an induction rule.                           *)
(***************************************************************************)
\* Every set of natural numbers has a least one; proofs by induction below argue about
\* the least number that fails.
LEMMA LeastExists ==
  ASSUME NEW S \in SUBSET Nat, S # {}
  PROVE  \E m \in S : \A n \in S : m <= n
  <1>1. PICK m \in S : \A n \in S : ~ (<<n, m>> \in OpToRel(<, Nat))
    BY NatLessThanWellFounded, WFMin
  <1>2. \A n \in S : ~ (n < m)
    BY <1>1 DEF OpToRel
  <1>3. QED BY <1>2

Some(T) == CHOOSE x \in T : TRUE
Articles(S) == MapThenSumSet(LAMBDA r : r.articles, S)

\* g solves the recursion of MapThenSumSet on the sets of D.
Sums(D, g) == g = [T \in D |-> IF T = {} THEN 0 ELSE Some(T).articles + g[T \ {Some(T)}]]

LEMMA WithoutOne ==
  ASSUME NEW T, IsFiniteSet(T), T # {}
  PROVE  /\ Some(T) \in T /\ IsFiniteSet(T \ {Some(T)})
         /\ Cardinality(T) \in Nat \ {0}
         /\ Cardinality(T \ {Some(T)}) = Cardinality(T) - 1
  <1>1. Some(T) \in T
    BY DEF Some
  <1>2. Cardinality(T) \in Nat /\ Cardinality(T) # 0
    BY FS_CardinalityType, FS_EmptySet
  <1>3. QED BY <1>1, <1>2, FS_RemoveElement

LEMMA SumsExist ==
  ASSUME NEW S, IsFiniteSet(S)
  PROVE  \E g : Sums(SUBSET S, g)
  <1> DEFINE D(n) == {T \in SUBSET S : Cardinality(T) <= n}
             bad == {n \in Nat : \A g : ~Sums(D(n), g)}
  <1>0. \A T \in SUBSET S : IsFiniteSet(T) /\ Cardinality(T) \in Nat
    BY FS_Subset, FS_CardinalityType
  <1>1. bad = {}
    <2>1. SUFFICES ASSUME bad # {}
                   PROVE  FALSE
      OBVIOUS
    <2>2. PICK m \in bad : \A n \in bad : m <= n
      BY <2>1, LeastExists
    <2>3. CASE m = 0
      <3> DEFINE g == [T \in D(0) |-> 0]
      <3>1. \A T \in D(0) : T = {}
        BY <1>0, FS_EmptySet
      <3>2. Sums(D(0), g)
        BY <3>1 DEF Sums
      <3>3. QED BY <2>2, <2>3, <3>2
    <2>4. CASE m # 0
      <3>1. m - 1 \in Nat /\ m - 1 \notin bad
        BY <2>2, <2>4
      <3>2. PICK g : Sums(D(m - 1), g)
        BY <3>1
      <3> DEFINE h == [T \in D(m) |-> IF T = {} THEN 0
                                      ELSE Some(T).articles + g[T \ {Some(T)}]]
      <3>3. ASSUME NEW T \in D(m), T # {}
            PROVE  T \ {Some(T)} \in D(m - 1) /\ T \ {Some(T)} \in D(m)
        BY <1>0, <3>3, WithoutOne
      <3>4. ASSUME NEW T \in D(m - 1), T \in D(m)
            PROVE  h[T] = g[T]
        BY <3>2, <3>4 DEF Sums
      <3>5. h = [T \in D(m) |-> IF T = {} THEN 0 ELSE Some(T).articles + h[T \ {Some(T)}]]
        <4> HIDE DEF D
        <4>1. \A T \in D(m) : h[T] = IF T = {} THEN 0 ELSE Some(T).articles + g[T \ {Some(T)}]
          OBVIOUS
        <4>2. \A T \in D(m) : T # {} => h[T \ {Some(T)}] = g[T \ {Some(T)}]
          BY <3>3, <3>4
        <4>3. QED BY <4>2
      <3>6. Sums(D(m), h)
        <4> HIDE DEF D, h
        <4>1. QED BY <3>5 DEF Sums
      <3>7. QED BY <2>2, <3>6
    <2>5. QED BY <2>3, <2>4
  <1>2. D(Cardinality(S)) = SUBSET S /\ Cardinality(S) \in Nat
    BY <1>0, FS_Subset
  <1>3. QED
    <2>1. \E g : Sums(D(Cardinality(S)), g)
      BY <1>1, <1>2
    <2>2. QED BY <1>2, <2>1

LEMMA SumsAgree ==
  ASSUME NEW S, IsFiniteSet(S), NEW R \in SUBSET S, NEW g, NEW h,
         Sums(SUBSET S, g), Sums(SUBSET R, h)
  PROVE  \A T \in SUBSET R : g[T] = h[T]
  <1> DEFINE bad == {n \in Nat : \E T \in SUBSET R : Cardinality(T) = n /\ g[T] # h[T]}
  <1>0. \A T \in SUBSET R : IsFiniteSet(T) /\ Cardinality(T) \in Nat
    BY FS_Subset, FS_CardinalityType
  <1>1. bad = {}
    <2>1. SUFFICES ASSUME bad # {}
                   PROVE  FALSE
      OBVIOUS
    <2>2. PICK m \in bad : \A n \in bad : m <= n
      BY <2>1, LeastExists
    <2>3. PICK T \in SUBSET R : Cardinality(T) = m /\ g[T] # h[T]
      BY <2>2
    <2>4. T # {}
      BY <2>3 DEF Sums
    <2>5. T \ {Some(T)} \in SUBSET R /\ Cardinality(T \ {Some(T)}) \in Nat
          /\ Cardinality(T \ {Some(T)}) < m
      BY <1>0, <2>3, <2>4, WithoutOne
    <2>6. g[T \ {Some(T)}] = h[T \ {Some(T)}]
      BY <2>2, <2>5
    <2>7. g[T] = h[T]
      BY <2>4, <2>6 DEF Sums
    <2>8. QED BY <2>3, <2>7
  <1>2. QED BY <1>0, <1>1

LEMMA ArticlesStep ==
  ASSUME NEW S, IsFiniteSet(S)
  PROVE  Articles(S) = IF S = {} THEN 0 ELSE Some(S).articles + Articles(S \ {Some(S)})
  <1> DEFINE sums(T) == CHOOSE g : Sums(SUBSET T, g)
             rest == S \ {Some(S)}
  <1>1. Articles(S) = sums(S)[S] /\ Articles(rest) = sums(rest)[rest]
    BY DEF Articles, MapThenSumSet, MapThenFoldSet, Sums, Some
  <1>2. Sums(SUBSET S, sums(S))
    BY SumsExist
  <1>3. CASE S = {}
    BY <1>1, <1>2, <1>3 DEF Sums
  <1>4. CASE S # {}
    <2>1. Sums(SUBSET rest, sums(rest))
      BY <1>4, WithoutOne, SumsExist
    <2>2. PICK g, h : Sums(SUBSET S, g) /\ Sums(SUBSET rest, h) /\ g = sums(S) /\ h = sums(rest)
      BY <1>2, <2>1
    <2>3. g[rest] = h[rest]
      <3>1. rest \in SUBSET S /\ rest \in SUBSET rest
        OBVIOUS
      <3> HIDE DEF rest, sums
      <3>2. QED BY <2>2, <3>1, SumsAgree
    <2>4. g[S] = Some(S).articles + g[rest]
      BY <1>4, <2>2 DEF Sums
    <2>5. QED BY <1>1, <1>4, <2>2, <2>3, <2>4
  <1>5. QED BY <1>3, <1>4

\* The Articles of finitely many fetches are a number, and each fetch counts once.
LEMMA ArticlesCount ==
  ASSUME NEW U, IsFiniteSet(U), \A r \in U : r.articles \in Nat
  PROVE  \A S \in SUBSET U :
            /\ Articles(S) \in Nat
            /\ \A x \in S : Articles(S) = x.articles + Articles(S \ {x})
  <1> DEFINE Good(S) == /\ Articles(S) \in Nat
                        /\ \A x \in S : Articles(S) = x.articles + Articles(S \ {x})
             bad == {n \in Nat : \E S \in SUBSET U : Cardinality(S) = n /\ ~Good(S)}
  <1>0. \A S \in SUBSET U : IsFiniteSet(S) /\ Cardinality(S) \in Nat
    BY FS_Subset, FS_CardinalityType
  <1>1. bad = {}
    <2>1. SUFFICES ASSUME bad # {}
                   PROVE  FALSE
      OBVIOUS
    <2>2. PICK m \in bad : \A n \in bad : m <= n
      BY <2>1, LeastExists
    <2>3. PICK S \in SUBSET U : Cardinality(S) = m /\ ~Good(S)
      BY <2>2
    <2>4. \A T \in SUBSET U : Cardinality(T) < m => Good(T)
      <3> HIDE DEF Good
      <3> QED BY <1>0, <2>2
    <2>5. S # {}
      BY <2>3, ArticlesStep, FS_EmptySet
    <2> DEFINE y == Some(S)
    <2>6. /\ y \in S /\ Articles(S) = y.articles + Articles(S \ {y})
          /\ m \in Nat \ {0} /\ Cardinality(S \ {y}) = m - 1
      BY <1>0, <2>3, <2>5, ArticlesStep, WithoutOne
    <2> HIDE DEF y
    <2>7. Good(S \ {y})
      <3> HIDE DEF Good
      <3> QED BY <2>4, <2>6
    <2>8. ASSUME NEW x \in S
          PROVE  Articles(S) = x.articles + Articles(S \ {x})
      <3>1. CASE x = y
        BY <2>6, <3>1
      <3>2. CASE x # y
        <4>1. Cardinality(S \ {x}) = m - 1
          BY <1>0, <2>3, FS_RemoveElement
        <4>2. Good(S \ {x})
          <5> HIDE DEF Good
          <5> QED BY <2>4, <2>6, <4>1
        <4>3. Articles(S \ {y}) = x.articles + Articles((S \ {y}) \ {x})
          BY <2>7, <3>2
        <4>4. Articles(S \ {x}) = y.articles + Articles((S \ {x}) \ {y})
          BY <2>6, <3>2, <4>2
        <4>5. Articles((S \ {y}) \ {x}) = Articles((S \ {x}) \ {y})
          <5>1. (S \ {y}) \ {x} = (S \ {x}) \ {y}
            OBVIOUS
          <5>2. QED BY <5>1
        <4>6. Articles((S \ {y}) \ {x}) \in Nat
          <5>1. (S \ {y}) \ {x} \in SUBSET U /\ Cardinality((S \ {y}) \ {x}) < m
            <6>1. x \in S \ {y} /\ IsFiniteSet(S \ {y})
              BY <1>0, <3>2
            <6>2. Cardinality((S \ {y}) \ {x}) = Cardinality(S \ {y}) - 1
              BY <6>1, FS_RemoveElement
            <6>3. QED BY <2>6, <6>2
          <5>2. QED BY <2>4, <5>1
        <4>7. x.articles \in Nat /\ y.articles \in Nat
          BY <2>6
        <4>8. QED BY <2>6, <4>3, <4>4, <4>5, <4>6, <4>7
      <3>3. QED BY <3>1, <3>2
    <2>9. Articles(S) \in Nat
      BY <2>6, <2>7
    <2>10. QED BY <2>3, <2>8, <2>9
  <1>2. QED
    <2> HIDE DEF Good
    <2>1. \A S \in SUBSET U : Good(S)
      BY <1>0, <1>1
    <2>2. QED BY <2>1 DEF Good

Texts(c) == {r \in Succeeded : r.tool \in Fetches /\ r.cycle = c}

LEMMA FetchedArticles == \A c : FetchedIn(c) = Articles(Texts(c))
  BY DEF FetchedIn, Articles, Texts, MapThenSumSet

LEMMA FetchedNext == \A c : FetchedIn(c)' = Articles(Texts(c)')
  <1>1. (\A c : FetchedIn(c) = Articles(Texts(c)))'
    BY FetchedArticles, PTL
  <1>2. QED BY <1>1

LEMMA FetchedKept ==
  ASSUME results' = results
  PROVE  \A c : FetchedIn(c)' = FetchedIn(c)
  <1>1. \A c : Texts(c)' = Texts(c)
    BY DEF Texts, Succeeded
  <1>2. QED BY <1>1, FetchedArticles, FetchedNext

\* Results with different ids are finitely many.
LEMMA ResultsFinite ==
  ASSUME NEW S \in SUBSET Result, Distinct(S)
  PROVE  IsFiniteSet(S) /\ \A r \in S : r.articles \in Nat
  <1> DEFINE f == [r \in S |-> r.id]
  <1>1. IsFiniteSet(RequestIds)
    BY LimitsAssumption, FS_Interval DEF RequestIds
  <1>2. f \in Injection(S, RequestIds)
    BY DEF Result, Distinct, Injection, IsInjective
  <1>3. IsFiniteSet(S)
    <2> HIDE DEF f
    <2> QED BY <1>1, <1>2, FS_Injection
  <1>4. QED BY <1>3 DEF Result

\* The Articles of one cycle are a number that each of its fetches adds to.
LEMMA FetchedCount ==
  ASSUME TypeInv, RequestsInv, NEW c
  PROVE  FetchedIn(c) \in Nat
  <1>1. IsFiniteSet(results) /\ \A r \in results : r.articles \in Nat
    BY ResultsFinite DEF TypeInv, ControlOK, RequestsInv
  <1>2. Texts(c) \in SUBSET results
    BY DEF Texts, Succeeded
  <1>3. QED BY <1>1, <1>2, ArticlesCount, FetchedArticles

LEMMA NothingFetched ==
  ASSUME RunInv, cycles \in Nat
  PROVE  FetchedIn(cycles + 1) = 0
  <1>1. Texts(cycles + 1) = {}
    BY DEF Texts, Succeeded, RunInv
  <1>2. Articles({}) = 0
    BY ArticlesStep, FS_EmptySet
  <1>3. QED BY <1>1, <1>2, FetchedArticles

FetchInv ==
    /\ \A c \in Nat : FetchedIn(c) <= FetchCapacity
    /\ pc = "tools" =>
          /\ \A q \in batch : q.tool \in Fetches =>
                FetchedIn(BatchCycle) + q.articles <= FetchCapacity
          /\ \A p, q \in batch : p.tool \in Fetches /\ q.tool \in Fetches => p = q

LEMMA FetchFrame ==
  ASSUME FetchInv, results' = results, pc' # "tools"
  PROVE  FetchInv'
  BY FetchedKept DEF FetchInv

LEMMA FetchDecision ==
  ASSUME TypeInv, RunInv, ContextInv, RequestsInv, FetchInv, Respond
  PROVE  FetchInv'
  <1>1. Decided /\ pc = "call"
    BY DecisionDecided, DecisionShape
  <1>2. CASE Answer
    BY <1>2, FetchFrame DEF Answer
  <1>3. ASSUME NEW tools \in SUBSET Tools, NEW size \in FetchSizes,
               NEW start \in BOOLEAN, NEW review \in BOOLEAN, GoesOn(tools, size, start, review)
        PROVE  FetchInv'
    <2>1. results' = results /\ \A c : FetchedIn(c)' = FetchedIn(c)
      BY <1>1, <1>3, GoesOnRun, FetchedKept
    <2>2. CASE pc' = "tools"
      <3>1. batch' = Asked(tools, size) /\ cycles' = cycles
        BY <1>1, <1>3, <2>2, GoesOnRun
      <3>2. advance' = ((cycles = 0 \/ start) /\ ~review) /\ (start => ~review)
        BY <1>1, <1>3, <2>2, GoesOnRun DEF GoesOn
      <3>3. cycles \in Nat /\ size \in Nat /\ FetchCapacity \in Nat
        BY LimitsAssumption DEF TypeInv, ControlOK, FetchSizes
      <3>4. ASSUME NEW q \in batch', q.tool \in Fetches
            PROVE  FetchedIn(BatchCycle') + q.articles <= FetchCapacity
        <4>1. q.tool \in tools /\ q.articles = size
          BY <3>1, <3>4, AskedOnce
        <4>2. (IF start THEN 0 ELSE FetchedIn(CurrentCycle)) + size <= FetchCapacity
          BY <1>3, <3>4, <4>1 DEF GoesOn, WithinFetchCapacity
        <4>3. size <= FetchCapacity
          BY LimitsAssumption DEF FetchSizes
        <4>4. CASE advance'
          <5>1. BatchCycle' = cycles + 1
            BY <3>1, <4>4 DEF BatchCycle
          <5>2. QED BY <3>3, <4>1, <4>3, <5>1, NothingFetched
        <4>5. CASE ~advance'
          <5>1. ~start
            BY <3>2, <4>5, Zenon
          <5>2. BatchCycle' = CurrentCycle
            BY <3>1, <4>5 DEF BatchCycle, CurrentCycle
          <5>3. QED BY <4>1, <4>2, <5>1, <5>2
        <4>6. QED BY <4>4, <4>5
      <3>5. \A p, q \in batch' : p.tool \in Fetches /\ q.tool \in Fetches => p = q
        <4>1. \A t, u \in tools \intersect Fetches : t = u
          BY <1>3 DEF GoesOn
        <4>2. QED BY <3>1, <4>1, AskedOnce
      <3>6. FetchedIn(BatchCycle)' = FetchedIn(BatchCycle')
        BY <2>1, FetchedNext, FetchedArticles DEF Texts, Succeeded
      <3>7. QED BY <2>1, <3>4, <3>5, <3>6 DEF FetchInv
    <2>3. CASE pc' # "tools"
      BY <2>1, <2>3, FetchFrame
    <2>4. QED BY <2>2, <2>3
  <1>4. QED BY <1>1, <1>2, <1>3 DEF Decided

LEMMA FetchExecute ==
  ASSUME TypeInv, RunInv, RequestsInv, FetchInv, ExecuteCycle, TypeInv', RequestsInv'
  PROVE  FetchInv'
  <1>1. PICK outcome \in [batch -> Outcomes] :
           results' = results \union {ResultOf(q, outcome[q]) : q \in batch}
    BY DEF ExecuteCycle
  <1>2. pc = "tools" /\ pc' = "solve"
    BY DEF ExecuteCycle, NextIteration
  <1> DEFINE R(q) == ResultOf(q, outcome[q])
  <1>3. \A q \in batch : /\ R(q).tool = q.tool /\ R(q).cycle = BatchCycle
                         /\ R(q).articles = q.articles /\ R(q) \notin results
    BY <1>2 DEF ResultOf, RequestsInv, Ids
  <1>4. \A r \in results' : r \in results \/ \E q \in batch : r = R(q)
    BY <1>1
  <1> HIDE DEF R
  <1>5. SUFFICES ASSUME NEW c \in Nat
                 PROVE  FetchedIn(c)' <= FetchCapacity
    BY <1>2 DEF FetchInv
  <1>6. FetchedIn(c)' = Articles(Texts(c)') /\ FetchedIn(c) = Articles(Texts(c))
    BY FetchedArticles, FetchedNext
  <1>7. /\ Texts(c) \subseteq Texts(c)'
        /\ \A r \in Texts(c)' \ Texts(c) :
              \E q \in batch : r = R(q) /\ q.tool \in Fetches /\ c = BatchCycle
    BY <1>1, <1>3, <1>4 DEF Texts, Succeeded
  <1>8. CASE Texts(c)' = Texts(c)
    BY <1>6, <1>8 DEF FetchInv
  <1>9. CASE Texts(c)' # Texts(c)
    <2>1. PICK r \in Texts(c)' : r \notin Texts(c)
      BY <1>7, <1>9
    <2>2. PICK q \in batch : r = R(q) /\ q.tool \in Fetches /\ c = BatchCycle
      BY <1>7, <2>1
    <2>3. Texts(c)' \ {r} = Texts(c)
      BY <1>2, <1>7, <2>1, <2>2 DEF FetchInv
    <2>4. IsFiniteSet(results') /\ \A x \in results' : x.articles \in Nat
      BY ResultsFinite DEF TypeInv, ControlOK, RequestsInv
    <2>5. Texts(c)' \in SUBSET results'
      BY DEF Texts, Succeeded
    <2>6. Articles(Texts(c)') = r.articles + Articles(Texts(c)' \ {r})
      BY <2>1, <2>4, <2>5, ArticlesCount
    <2>7. Articles(Texts(c)') = q.articles + FetchedIn(c)
      BY <1>3, <1>6, <2>2, <2>3, <2>6
    <2>8. q.articles \in Nat /\ FetchedIn(c) \in Nat
      BY FetchedCount DEF TypeInv, ControlOK, Request
    <2>9. FetchedIn(c) + q.articles <= FetchCapacity
      BY <1>2, <2>2 DEF FetchInv
    <2>10. QED BY <1>6, <2>7, <2>8, <2>9
  <1>10. QED BY <1>8, <1>9

LEMMA FetchStep ==
  ASSUME TypeInv, RunInv, ContextInv, RequestsInv, FetchInv, TypeInv', RequestsInv', [Next]_vars
  PROVE  FetchInv'
  <1>1. CASE UNCHANGED <<results, pc, batch, advance, cycles>>
    <2>1. BatchCycle' = BatchCycle
      BY <1>1 DEF BatchCycle, CurrentCycle
    <2>2. FetchedIn(BatchCycle)' = FetchedIn(BatchCycle)
      BY <1>1, <2>1, FetchedArticles, FetchedNext DEF Texts, Succeeded
    <2>3. QED BY <1>1, <2>2, FetchedKept DEF FetchInv
  <1>2. QED BY <1>1, OtherSteps, FetchDecision, FetchExecute, FetchFrame

LEMMA FetchInit == Init => FetchInv
  <1> SUFFICES ASSUME Init PROVE FetchInv
    OBVIOUS
  <1>1. pc = "solve" /\ results = {}
    BY DEF Init, CaseInit
  <1>2. \A c : FetchedIn(c) = 0
    <2>1. \A c : Texts(c) = {}
      BY <1>1 DEF Texts, Succeeded
    <2>2. QED BY <2>1, ArticlesStep, FS_EmptySet, FetchedArticles
  <1>3. QED BY <1>1, <1>2, LimitsAssumption DEF FetchInv

\* No cycle fetches more Articles than its capacity, for every capacity: the fetches of
\* both reviews, of integrations and of the decision that opened the cycle share it.
THEOREM FetchesStayWithin == Spec => []FetchesWithinCapacity
  <1>1. Spec => []RequestsInv
    BY RequestsInit, RequestsStep, TypeInvariant, PTL DEF Spec
  <1>2. Spec => []FetchInv
    BY <1>1, FetchInit, FetchStep, LoopInvariant, PTL DEF Spec
  <1>3. FetchInv => FetchesWithinCapacity
    BY LimitsAssumption DEF FetchInv, FetchesWithinCapacity
  <1>4. QED BY <1>2, <1>3, PTL
===============================================================================
