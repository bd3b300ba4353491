----------------------- MODULE CaseStores_proofs -----------------------
(***************************************************************************)
(* Proofs about the two modules of the framework's case, for every value   *)
(* of their constants: the session that works on the WorkItems of a        *)
(* question (WorkItemSteps), and the transactional store that keeps the    *)
(* records of a case (CaseTransactions), for any number of clients with    *)
(* snapshots of any age, of records and of commits.                        *)
(***************************************************************************)
EXTENDS WorkItemSteps, CaseTransactions, FiniteSetTheorems, TLAPS

-----------------------------------------------------------------------------
(* WorkItemSteps.                                                          *)

(***************************************************************************)
(* Every call carries its stage, and nothing was called before the plan.   *)
(***************************************************************************)
IsCall(c) ==
    c = [tool |-> c.tool, workItem |-> c.workItem, hypotheses |-> c.hypotheses,
         articles |-> c.articles, origin |-> c.origin, ok |-> c.ok, found |-> c.found,
         cycle |-> c.cycle, stage |-> c.stage]

CallsOK ==
    /\ \A c \in calls : IsCall(c)
    /\ phase = "plan" => calls = {} /\ batch = {} /\ cycle = 0

LEMMA MarkOne ==
  ASSUME NEW c, IsCall(c), NEW s
  PROVE  LET d == [c EXCEPT !.stage = s] IN
         /\ IsCall(d) /\ d.stage = s
         /\ d.tool = c.tool /\ d.workItem = c.workItem /\ d.hypotheses = c.hypotheses
         /\ d.articles = c.articles /\ d.ok = c.ok /\ d.found = c.found /\ d.cycle = c.cycle
         /\ d.origin = c.origin
  BY DEF IsCall

\* Marking keeps the calls that are not marked, and the stage of the others is the mark.
LEMMA Marked ==
  ASSUME NEW done, done \subseteq calls, NEW s, \A c \in calls : IsCall(c), Mark(done, s)
  PROVE  \A c \in calls' :
            /\ IsCall(c)
            /\ \/ c \in calls /\ c \notin done
               \/ \E b \in done : /\ c.stage = s /\ c.tool = b.tool /\ c.workItem = b.workItem
                                  /\ c.hypotheses = b.hypotheses /\ c.articles = b.articles
                                  /\ c.ok = b.ok /\ c.found = b.found /\ c.cycle = b.cycle
  <1> SUFFICES ASSUME NEW c \in calls'
               PROVE  /\ IsCall(c)
                      /\ \/ c \in calls /\ c \notin done
                         \/ \E b \in done :
                              /\ c.stage = s /\ c.tool = b.tool /\ c.workItem = b.workItem
                              /\ c.hypotheses = b.hypotheses /\ c.articles = b.articles
                              /\ c.ok = b.ok /\ c.found = b.found /\ c.cycle = b.cycle
    OBVIOUS
  <1>1. CASE c \in calls \ done  BY <1>1
  <1>2. CASE \E b \in done : c = [b EXCEPT !.stage = s]
    <2> PICK b \in done : c = [b EXCEPT !.stage = s]  BY <1>2
    <2>1. IsCall(b)  OBVIOUS
    <2> QED BY <2>1, MarkOne
  <1> QED BY <1>1, <1>2 DEF Mark

\* What the calls of the loop's decisions may mark are calls.
LEMMA MarkableAreCalls ==
  /\ Recent \subseteq calls /\ Unread \subseteq calls /\ Required \subseteq calls
  /\ Integrated \subseteq calls
  /\ \A h : GraphCalls(h) \subseteq calls
  BY DEF Recent, Unread, Required, Integrated, GraphCalls, Succeeded

LEMMA CallsInit == Init => CallsOK
  BY DEF Init, CallsOK

LEMMA CallsStep == CallsOK /\ [Next]_vars => CallsOK'
  <1> SUFFICES ASSUME CallsOK, [Next]_vars PROVE CallsOK'
    OBVIOUS
  <1> USE DEF CallsOK
  <1>1. CASE PlanSearches
    BY <1>1 DEF PlanSearches, Run
  <1>2. CASE ExecuteTools
    <2>1. \A c \in calls' : c \notin calls => IsCall(c)
      BY <1>2 DEF ExecuteTools, IsCall
    <2>2. phase' = "solve"  BY <1>2 DEF ExecuteTools
    <2> QED BY <2>1, <2>2
  <1>3. CASE Observe
    <2>1. Mark(Integrated, "integrated") /\ phase = "solve" /\ phase' # "plan"
      BY <1>3 DEF Observe, Calling, Proceed, Run
    <2> QED BY <2>1, MarkableAreCalls, Marked
  <1>4. CASE Consume
    <2>1. Mark(Recent, "integrated") /\ phase' # "plan"
      BY <1>4 DEF Consume, Calling
    <2> QED BY <2>1, MarkableAreCalls, Marked
  <1>5. CASE SelectSearch
    <2>1. Mark(Required, "reviewed") /\ phase' # "plan"
      BY <1>5 DEF SelectSearch, Calling, Proceed, Run
    <2> QED BY <2>1, MarkableAreCalls, Marked
  <1>6. CASE SelectGraph
    <2>1. phase' # "plan" /\ \E h : \E done \in SUBSET GraphCalls(h) : Mark(done, "integrated")
      BY <1>6 DEF SelectGraph, Calling, Proceed, Run
    <2> QED BY <2>1, MarkableAreCalls, Marked
  <1>7. CASE CloseCycle
    <2>1. Mark(Recent, "integrated") /\ phase' # "plan"
      BY <1>7 DEF CloseCycle, Calling, Proceed, Run
    <2> QED BY <2>1, MarkableAreCalls, Marked
  <1>8. CASE DependencyAction
    BY <1>8 DEF DependencyAction, Calling, Proceed, Run
  <1>9. CASE Integrate
    BY <1>9 DEF Integrate, Calling, Proceed, Run
  <1>10. CASE PlanOmitted \/ ReviewWithoutScope \/ Finalize \/ TimeRunsOut \/ UNCHANGED vars
    BY <1>10 DEF PlanOmitted, ReviewWithoutScope, Finalize, TimeRunsOut, Fail, vars
  <1> QED BY <1>1, <1>2, <1>3, <1>4, <1>5, <1>6, <1>7, <1>8, <1>9, <1>10 DEF Next

(* Every call of a run carries its stage; no call precedes the plan.       *)
THEOREM CallsAreKept == Spec => []CallsOK
  BY CallsInit, CallsStep, PTL DEF Spec

(***************************************************************************)
(* Inside a WorkItem, texts and candidates come first.  The requests of a  *)
(* decision are either the loop's own, or they come from an observation,   *)
(* which defers those of WorkItems with candidates, or from an integration *)
(* call, which is made only when nothing is left to read or to review.     *)
(***************************************************************************)
UnreadAfter(r) ==
    \E c \in calls' : /\ c.tool \in {Fetch, Load} /\ c.ok /\ c.stage = "new"
                      /\ c.cycle = cycle /\ r.workItem \in OwnersOf(c)

LEMMA Requested ==
  ASSUME NEW requests, NEW start, NEW review, Proceed(requests, start, review)
  PROVE  batch' \ batch \subseteq requests
  BY DEF Proceed, Run

LEMMA IntegrationHasNothingPending ==
  ASSUME Calling("integration")
  PROVE  PendingReview = {} /\ Recent = {}
  BY DEF Calling, Purpose, PurposeFor, PendingReview

LEMMA NothingPlannedPending ==
  ASSUME calls = {}
  PROVE  PendingReview = {}
  <1>1. Recent = {} /\ Required = {}  BY DEF Recent, Required
  <1>2. \A h : GraphCalls(h) = {}  BY DEF GraphCalls, Succeeded
  <1>3. PoolUnits = {}  BY <1>2 DEF PoolUnits, Unreviewed
  <1>4. GraphUnit = {}  BY <1>3 DEF GraphUnit, EligibleUnits
  <1> QED BY <1>1, <1>4 DEF PendingReview, PendingFor, GraphReviewUnit

(* A batch holds a Solver's request only for a WorkItem without pending    *)
(* candidates and without an unread text, whatever the limits are.         *)
LEMMA ReviewFirstStep ==
  ASSUME CallsOK, [Next]_vars, NEW r \in batch' \ batch, r.origin = "solver"
  PROVE  r.workItem \notin PendingReview /\ ~UnreadAfter(r)
  <1>1. CASE PlanSearches
    <2>1. calls = {} /\ calls' = {}
      BY <1>1 DEF PlanSearches, CallsOK
    <2> QED BY <2>1, NothingPlannedPending DEF UnreadAfter
  <1>2. CASE Observe
    <2>1. PICK requests : Proceed(Deferral(requests), FALSE, FALSE)
      BY <1>2 DEF Observe
    <2>2. r \in Deferral(requests)  BY <2>1, Requested
    <2>3. r.workItem \notin PendingReview  BY <2>2 DEF Deferral
    <2>4. Mark(Integrated, "integrated")  BY <1>2 DEF Observe
    <2>5. ASSUME NEW c \in calls', c.tool \in {Fetch, Load}, c.ok, c.stage = "new", c.cycle = cycle
          PROVE  FALSE
      <3>1. c \in calls /\ c \notin Integrated
        BY <2>4, <2>5, MarkableAreCalls, Marked DEF CallsOK
      <3> QED BY <3>1, <2>5 DEF Integrated, Unread, Recent
    <2> QED BY <2>3, <2>5 DEF UnreadAfter
  <1>3. CASE SelectSearch
    <2>1. PICK selection : Proceed(SearchReviewFetches(selection), FALSE, TRUE)
      BY <1>3 DEF SelectSearch
    <2>2. r \in SearchReviewFetches(selection)  BY <2>1, Requested
    <2>3. r.origin = "search_review"  BY <2>2 DEF SearchReviewFetches, Ask
    <2> QED BY <2>3
  <1>4. CASE SelectGraph
    <2>1. PICK h, fetched, loaded : Proceed(GraphFetch(h, fetched) \union GraphLoad(h, loaded), FALSE, TRUE)
      BY <1>4 DEF SelectGraph
    <2>2. r \in GraphFetch(h, fetched) \union GraphLoad(h, loaded)  BY <2>1, Requested
    <2>3. r.origin = "graph_review"  BY <2>2 DEF GraphFetch, GraphLoad, Ask
    <2> QED BY <2>3
  <1>5. CASE CloseCycle
    <2>1. PICK fetching : \/ Proceed({}, TRUE, FALSE)
                          \/ \E first \in fetching : Run({DeferredFetch(fetching, first)}, TRUE, FALSE)
      BY <1>5 DEF CloseCycle
    <2>2. CASE Proceed({}, TRUE, FALSE)  BY <2>2, Requested
    <2>3. ASSUME NEW first, Run({DeferredFetch(fetching, first)}, TRUE, FALSE) PROVE FALSE
      <3>1. r = DeferredFetch(fetching, first)  BY <2>3 DEF Run
      <3> QED BY <3>1 DEF DeferredFetch, Ask
    <2> QED BY <2>1, <2>2, <2>3
  <1>6. CASE DependencyAction \/ Integrate
    <2>1. Calling("integration") /\ calls' = calls  BY <1>6 DEF DependencyAction, Integrate
    <2>2. PendingReview = {} /\ Recent = {}  BY <2>1, IntegrationHasNothingPending
    <2> QED BY <2>1, <2>2 DEF UnreadAfter, Recent
  <1>7. CASE ExecuteTools \/ Consume \/ PlanOmitted \/ ReviewWithoutScope \/ Finalize \/ TimeRunsOut
             \/ UNCHANGED vars
    <2>1. batch' \subseteq batch
      BY <1>7 DEF ExecuteTools, Consume, PlanOmitted, ReviewWithoutScope, Finalize, TimeRunsOut,
                  Fail, vars
    <2> QED BY <2>1
  <1> QED BY <1>1, <1>2, <1>3, <1>4, <1>5, <1>6, <1>7 DEF Next

(* In every run a Solver's request starts only for a WorkItem with nothing *)
(* left to read and none of the presented candidates (LR-045).             *)
THEOREM ReviewFirst == Spec => ReviewBeforeExploring
  <1>1. CallsOK /\ [Next]_vars =>
          [batch' # {} => \A r \in batch' \ batch :
             r.origin = "solver" =>
                /\ r.workItem \notin PendingReview
                /\ \A c \in calls' : c.tool \in {Fetch, Load} /\ c.ok /\ c.stage = "new"
                                        /\ c.cycle = cycle => r.workItem \notin OwnersOf(c)]_vars
    BY ReviewFirstStep DEF UnreadAfter
  <1> QED BY <1>1, CallsAreKept, PTL DEF Spec, ReviewBeforeExploring

(***************************************************************************)
(* No search is passed over.  NothingOverlooked is not inductive alone: a  *)
(* cycle may open only when the searches of the last one have no candidate *)
(* left, also if the cycle opens with the tools of a decision, which run   *)
(* after it was stored.                                                    *)
(***************************************************************************)
CyclesOK ==
    /\ cycle \in Nat
    /\ \A c \in calls : c.cycle \in Nat /\ c.cycle <= cycle
    /\ phase = "solve" => cycle > 0
    /\ phase = "tools" => advance \/ cycle > 0
    /\ phase = "tools" /\ advance => Required = {}

SearchesOK ==
    \A c \in calls : c.tool = "legal_search" /\ c.ok
                      /\ (c.stage = "integrated" \/ (c.stage = "new" /\ c.cycle < cycle))
                      => CandidatesOf(c) = {}

OverlookInv == CallsOK /\ CyclesOK /\ SearchesOK

SameCall(b, c) ==
    /\ c.tool = b.tool /\ c.workItem = b.workItem /\ c.hypotheses = b.hypotheses
    /\ c.articles = b.articles /\ c.ok = b.ok /\ c.found = b.found /\ c.cycle = b.cycle

KeepsCalls == \A b \in calls : \E c \in calls' : SameCall(b, c)

\* Fetched texts stay fetched, so that candidates only become fewer.
LEMMA CandidatesShrink ==
  ASSUME KeepsCalls, NEW c
  PROVE  CandidatesOf(c)' \subseteq CandidatesOf(c)
  <1>1. ASSUME NEW w, NEW a \in Fetched(w) PROVE a \in Fetched(w)'
    <2>1. PICK b \in calls : b.tool = Fetch /\ b.ok /\ w \in OwnersOf(b) /\ a \in b.articles
      BY <1>1 DEF Fetched, FetchesOf, Succeeded
    <2>2. PICK d \in calls' : SameCall(b, d)
      BY <2>1 DEF KeepsCalls
    <2>3. d.tool = Fetch /\ d.ok /\ w \in OwnersOf(d) /\ a \in d.articles
      BY <2>1, <2>2 DEF SameCall, OwnersOf
    <2> QED BY <2>3 DEF Fetched, FetchesOf, Succeeded, OwnersOf
  <1> QED BY <1>1 DEF CandidatesOf

LEMMA MarkKeeps ==
  ASSUME NEW done, done \subseteq calls, NEW s, \A c \in calls : IsCall(c), Mark(done, s)
  PROVE  KeepsCalls
  <1> SUFFICES ASSUME NEW b \in calls PROVE \E c \in calls' : SameCall(b, c)
    BY DEF KeepsCalls
  <1>1. CASE b \in done
    <2>1. [b EXCEPT !.stage = s] \in calls'  BY <1>1 DEF Mark
    <2>2. SameCall(b, [b EXCEPT !.stage = s])  BY MarkOne DEF SameCall
    <2> QED BY <2>1, <2>2
  <1>2. CASE b \notin done
    BY <1>2 DEF Mark, SameCall
  <1> QED BY <1>1, <1>2

\* What a call of the loop's decision may become.
Treated(c) ==
    \/ c \in calls
    \/ /\ c.cycle \in Nat /\ c.cycle <= cycle'
       /\ \/ c.stage = "new" /\ c.cycle = cycle'
          \/ c.stage = "reviewed"
          \/ c.stage = "integrated" /\ (c.tool = "legal_search" /\ c.ok => CandidatesOf(c) = {})

LEMMA TreatedIsEnough ==
  ASSUME OverlookInv, KeepsCalls, \A c \in calls' : Treated(c),
         cycle' = cycle \/ (cycle' = cycle + 1 /\ Required = {})
  PROVE  /\ SearchesOK'
         /\ cycle' \in Nat /\ \A c \in calls' : c.cycle \in Nat /\ c.cycle <= cycle'
  <1>1. cycle' \in Nat /\ cycle' >= cycle  BY DEF OverlookInv, CyclesOK
  <1>2. ASSUME NEW c \in calls'
        PROVE  c.cycle \in Nat /\ c.cycle <= cycle'
    <2>1. Treated(c)  BY <1>2
    <2> QED BY <2>1, <1>1 DEF Treated, OverlookInv, CyclesOK
  <1>3. ASSUME NEW c \in calls', c.tool = "legal_search", c.ok,
               c.stage = "integrated" \/ (c.stage = "new" /\ c.cycle < cycle')
        PROVE  CandidatesOf(c)' = {}
    <2>1. CandidatesOf(c)' \subseteq CandidatesOf(c)  BY CandidatesShrink
    <2>2. CandidatesOf(c) = {}
      <3>1. CASE c \in calls /\ (c.stage = "integrated" \/ c.cycle < cycle)
        BY <1>3, <3>1 DEF OverlookInv, SearchesOK
      <3>2. CASE c \in calls /\ c.stage = "new" /\ ~(c.cycle < cycle)
        <4>1. c.cycle = cycle /\ Required = {}
          BY <3>2, <1>3, <1>1 DEF OverlookInv, CyclesOK
        <4> QED BY <4>1, <3>2, <1>3 DEF Required, Recent
      <3>3. CASE c \notin calls
        <4>1. Treated(c)  BY <1>3
        <4>2. c.stage = "integrated"
          BY <4>1, <3>3, <1>3, <1>1 DEF Treated
        <4> QED BY <4>1, <4>2, <3>3, <1>3 DEF Treated
      <3> QED BY <3>1, <3>2, <3>3, <1>3
    <2> QED BY <2>1, <2>2
  <1> QED BY <1>1, <1>2, <1>3 DEF SearchesOK, CandidatesOf

\* A decision that marks calls leaves them treated.
LEMMA MarkedIsTreated ==
  ASSUME OverlookInv, NEW done, done \subseteq calls, NEW s \in {"integrated", "reviewed"},
         Mark(done, s), cycle' \in Nat, cycle <= cycle',
         \A b \in done : s = "integrated" /\ b.tool = "legal_search" /\ b.ok
                             => CandidatesOf(b) = {}
  PROVE  \A c \in calls' : Treated(c)
  <1> SUFFICES ASSUME NEW c \in calls', c \notin calls PROVE Treated(c)
    BY DEF Treated
  <1>1. PICK b \in done : /\ c.stage = s /\ c.tool = b.tool /\ c.workItem = b.workItem
                          /\ c.ok = b.ok /\ c.found = b.found /\ c.cycle = b.cycle
    BY Marked DEF OverlookInv, CallsOK
  <1>2. c.cycle \in Nat /\ c.cycle <= cycle'
    BY <1>1 DEF OverlookInv, CyclesOK
  <1>3. CandidatesOf(c) = CandidatesOf(b)  BY <1>1 DEF CandidatesOf
  <1> QED BY <1>1, <1>2, <1>3 DEF Treated

\* A call that closes a cycle or consumes results finds no candidates left.
LEMMA NoneRequired ==
  ASSUME Calling("cycle_close") \/ Calling("consume") \/ Calling("integration")
  PROVE  Required = {} /\ phase = "solve"
  BY DEF Calling, Purpose, PurposeFor, PendingFor

LEMMA RecentIsDone ==
  ASSUME Required = {}, NEW b \in Recent, b.tool = "legal_search", b.ok
  PROVE  CandidatesOf(b) = {}
  BY DEF Required

\* Requests that open no cycle, and those that open the next one.
LEMMA AfterRun ==
  ASSUME NEW requests, NEW start \in BOOLEAN, NEW review \in BOOLEAN, Run(requests, start, review)
  PROVE  /\ cycle' = cycle /\ phase' \in {"tools", "answer"}
         /\ phase' = "tools" => advance' = ((cycle = 0 \/ start) /\ ~review)
  BY DEF Run

LEMMA StaysInCycle ==
  ASSUME cycle # 0, NEW requests, NEW review \in BOOLEAN,
         Proceed(requests, FALSE, review) \/ Run(requests, FALSE, review)
  PROVE  cycle' = cycle /\ (phase' = "tools" => ~advance')
  <1>1. CASE Run(requests, FALSE, review)
    <2>1. cycle' = cycle /\ (phase' = "tools" => advance' = ((cycle = 0 \/ FALSE) /\ ~review))
      BY <1>1, AfterRun
    <2> QED BY <2>1, Zenon
  <1>2. CASE requests = {} /\ Proceed(requests, FALSE, review)
    BY <1>2 DEF Proceed
  <1> QED BY <1>1, <1>2 DEF Proceed

LEMMA OpensByTools ==
  ASSUME NEW requests, Run(requests, TRUE, FALSE)
  PROVE  cycle' = cycle /\ phase' # "solve" /\ (phase' = "tools" => advance')
  <1>1. /\ cycle' = cycle /\ phase' \in {"tools", "answer"}
        /\ phase' = "tools" => advance' = ((cycle = 0 \/ TRUE) /\ ~FALSE)
    BY AfterRun
  <1>2. phase' # "solve"  BY <1>1
  <1> QED BY <1>1, <1>2, Zenon

LEMMA OpensAtOnce ==
  ASSUME Proceed({}, TRUE, FALSE)
  PROVE  phase' # "tools" /\ (cycle' = cycle \/ cycle' = cycle + 1)
         /\ phase' \in {"solve", "answer"}
  BY DEF Proceed

LEMMA OverlookInit == Init => OverlookInv
  BY DEF Init, OverlookInv, CallsOK, CyclesOK, SearchesOK

\* The cases of a step are the facts TreatedIsEnough asks for, and where the step leads.
LEMMA OverlookStep == OverlookInv /\ [Next]_vars => OverlookInv'
  <1> SUFFICES ASSUME OverlookInv, [Next]_vars PROVE OverlookInv'
    OBVIOUS
  <1>0. CallsOK'  BY CallsStep DEF OverlookInv
  <1> DEFINE Opens == cycle' = cycle \/ (cycle' = cycle + 1 /\ Required = {})
             Leads == /\ phase' = "solve" => cycle' > 0
                      /\ phase' = "tools" => advance' \/ cycle' > 0
                      /\ phase' = "tools" /\ advance' => Required' = {}
             Good  == KeepsCalls /\ (\A c \in calls' : Treated(c)) /\ Opens /\ Leads
  <1>1. ASSUME Good PROVE OverlookInv'
    <2>1. /\ SearchesOK'
          /\ cycle' \in Nat /\ \A c \in calls' : c.cycle \in Nat /\ c.cycle <= cycle'
      BY <1>1, TreatedIsEnough
    <2> QED BY <2>1, <1>1, <1>0 DEF OverlookInv, CyclesOK
  <1>2. ASSUME calls' = calls PROVE KeepsCalls /\ \A c \in calls' : Treated(c)
    BY <1>2 DEF KeepsCalls, SameCall, Treated
  <1>3. ASSUME phase = "solve" PROVE cycle > 0 /\ cycle \in Nat
    BY <1>3 DEF OverlookInv, CyclesOK
  <1>4. CASE PlanSearches
    <2>1. calls' = calls /\ calls = {} /\ cycle' = cycle /\ cycle = 0
          /\ phase' \in {"tools", "answer"} /\ (phase' = "tools" => advance' = TRUE)
      BY <1>4 DEF PlanSearches, Run, OverlookInv, CallsOK
    <2>2. Required' = {}  BY <2>1 DEF Required, Recent
    <2> QED BY <1>1, <1>2, <2>1, <2>2
  <1>3a. ASSUME phase = "solve", cycle' = cycle, phase' = "tools" => ~advance'
         PROVE  Opens /\ Leads /\ cycle' \in Nat /\ cycle <= cycle'
    <2>1. cycle' > 0 /\ cycle' \in Nat /\ cycle <= cycle'  BY <1>3a, <1>3
    <2> QED BY <1>3a, <2>1, Zenon
  <1>5. CASE ExecuteTools
    <2>1. /\ phase = "tools" /\ phase' = "solve" /\ calls \subseteq calls'
          /\ cycle' = IF advance THEN cycle + 1 ELSE cycle
      BY <1>5 DEF ExecuteTools
    <2>2. \A c \in calls' : c \in calls \/ (c.stage = "new" /\ c.cycle = cycle')
      BY <1>5 DEF ExecuteTools
    <2>3. cycle' \in Nat /\ cycle' > 0 /\ Opens
      BY <2>1 DEF OverlookInv, CyclesOK
    <2>4. KeepsCalls  BY <2>1 DEF KeepsCalls, SameCall
    <2>5. \A c \in calls' : Treated(c)  BY <2>2, <2>3 DEF Treated
    <2> QED BY <1>1, <2>1, <2>3, <2>4, <2>5
  <1>6. CASE Observe
    <2>1. PICK requests : Proceed(Deferral(requests), FALSE, FALSE)
      BY <1>6 DEF Observe
    <2>2. phase = "solve" /\ Mark(Integrated, "integrated")
      BY <1>6 DEF Observe, Calling
    <2>2a. cycle # 0  BY <2>2, <1>3
    <2>3. cycle' = cycle /\ (phase' = "tools" => ~advance')
      <3>1. TRUE \in BOOLEAN /\ FALSE \in BOOLEAN  OBVIOUS
      <3> QED BY <2>1, <2>2a, <3>1, StaysInCycle, Zenon
    <2>3a. Opens /\ Leads /\ cycle' \in Nat /\ cycle <= cycle'  BY <2>2, <2>3, <1>3a
    <2>4. \A b \in Integrated : b.tool # "legal_search"
      BY DEF Integrated, Unread, Fetch, Load
    <2>5. KeepsCalls /\ \A c \in calls' : Treated(c)
      BY <2>2, <2>3a, <2>4, MarkKeeps, MarkedIsTreated, MarkableAreCalls
         DEF OverlookInv, CallsOK
    <2> QED BY <1>1, <2>3a, <2>5
  <1>7. CASE Consume
    <2>1. phase' = phase /\ cycle' = cycle /\ Mark(Recent, "integrated")
      BY <1>7 DEF Consume
    <2>2. Required = {} /\ phase = "solve"  BY <1>7, NoneRequired DEF Consume
    <2>3. KeepsCalls /\ \A c \in calls' : Treated(c)
      BY <2>1, <2>2, <1>3, RecentIsDone, MarkKeeps, MarkedIsTreated, MarkableAreCalls
         DEF OverlookInv, CallsOK
    <2> QED BY <1>1, <1>3, <2>1, <2>2, <2>3
  <1>8. CASE SelectSearch
    <2>1. PICK selection : Proceed(SearchReviewFetches(selection), FALSE, TRUE)
      BY <1>8 DEF SelectSearch
    <2>2. phase = "solve" /\ Mark(Required, "reviewed")
      BY <1>8 DEF SelectSearch, Calling
    <2>2a. cycle # 0  BY <2>2, <1>3
    <2>3. cycle' = cycle /\ (phase' = "tools" => ~advance')
      <3>1. TRUE \in BOOLEAN /\ FALSE \in BOOLEAN  OBVIOUS
      <3> QED BY <2>1, <2>2a, <3>1, StaysInCycle, Zenon
    <2>3a. Opens /\ Leads /\ cycle' \in Nat /\ cycle <= cycle'  BY <2>2, <2>3, <1>3a
    <2>4. KeepsCalls /\ \A c \in calls' : Treated(c)
      BY <2>2, <2>3a, MarkKeeps, MarkedIsTreated, MarkableAreCalls DEF OverlookInv, CallsOK
    <2> QED BY <1>1, <2>3a, <2>4
  <1>9. CASE SelectGraph
    <2>1. PICK h, requests : Proceed(requests, FALSE, TRUE)
                             /\ \E done \in SUBSET GraphCalls(h) : Mark(done, "integrated")
      BY <1>9 DEF SelectGraph
    <2>2. phase = "solve"  BY <1>9 DEF SelectGraph, Calling
    <2>2a. cycle # 0  BY <2>2, <1>3
    <2>3. cycle' = cycle /\ (phase' = "tools" => ~advance')
      <3>1. TRUE \in BOOLEAN /\ FALSE \in BOOLEAN  OBVIOUS
      <3> QED BY <2>1, <2>2a, <3>1, StaysInCycle, Zenon
    <2>3a. Opens /\ Leads /\ cycle' \in Nat /\ cycle <= cycle'  BY <2>2, <2>3, <1>3a
    <2>4. PICK done \in SUBSET GraphCalls(h) : Mark(done, "integrated")
      BY <2>1
    <2>5. \A b \in done : b.tool # "legal_search"
      BY DEF GraphCalls, Succeeded
    <2>6. KeepsCalls /\ \A c \in calls' : Treated(c)
      BY <2>4, <2>5, <2>3a, MarkKeeps, MarkedIsTreated, MarkableAreCalls
         DEF OverlookInv, CallsOK
    <2> QED BY <1>1, <2>3a, <2>6
  <1>10. CASE CloseCycle
    <2>1. Required = {} /\ phase = "solve" /\ Mark(Recent, "integrated")
      BY <1>10, NoneRequired DEF CloseCycle
    <2>2. PICK fetching : \/ Proceed({}, TRUE, FALSE)
                          \/ \E first \in fetching : Run({DeferredFetch(fetching, first)}, TRUE, FALSE)
      BY <1>10 DEF CloseCycle
    <2>3. /\ cycle' = cycle \/ (cycle' = cycle + 1 /\ phase' # "tools")
          /\ phase' = "tools" => advance'
      <3>1. CASE Proceed({}, TRUE, FALSE)
        <4>1. phase' # "tools" /\ (cycle' = cycle \/ cycle' = cycle + 1)  BY <3>1, OpensAtOnce
        <4> QED BY <4>1, Zenon
      <3>2. ASSUME NEW first, Run({DeferredFetch(fetching, first)}, TRUE, FALSE)
            PROVE  cycle' = cycle /\ (phase' = "tools" => advance')
        BY <3>2, OpensByTools, Zenon
      <3> QED BY <2>2, <3>1, <3>2, Zenon
    <2>3a. Opens /\ cycle' \in Nat /\ cycle' > 0 /\ cycle <= cycle'
      BY <2>1, <2>3, <1>3
    <2>4. KeepsCalls /\ \A c \in calls' : Treated(c)
      BY <2>1, <2>3a, RecentIsDone, MarkKeeps, MarkedIsTreated, MarkableAreCalls
         DEF OverlookInv, CallsOK
    <2>5. ASSUME cycle' = cycle PROVE Required' = {}
      <3>1. ASSUME NEW c \in calls', c.cycle = cycle, c.stage = "new" PROVE FALSE
        <4>1. c \in calls /\ c \notin Recent
          BY <2>1, <3>1, Marked, MarkableAreCalls DEF OverlookInv, CallsOK
        <4> QED BY <4>1, <3>1 DEF Recent
      <3> QED BY <3>1, <2>5 DEF Required, Recent
    <2>6. phase' = "tools" => Required' = {}
      <3>1. ASSUME phase' = "tools" PROVE cycle' = cycle  BY <3>1, <2>3, Zenon
      <3> QED BY <3>1, <2>5
    <2>7. Leads  BY <2>3, <2>6, <2>3a, Zenon
    <2> QED BY <1>1, <2>4, <2>7, <2>3a
  <1>11. CASE DependencyAction \/ Integrate
    <2>1. Calling("integration") /\ calls' = calls
      BY <1>11 DEF DependencyAction, Integrate
    <2>2. Required = {} /\ phase = "solve"  BY <2>1, NoneRequired
    <2>3. PICK requests : \/ Proceed({}, TRUE, FALSE)
                          \/ Proceed(requests, FALSE, FALSE)
                          \/ Run(requests, FALSE, FALSE)
      BY <1>11 DEF DependencyAction, Integrate
    <2>4. ASSUME Proceed({}, TRUE, FALSE) PROVE Opens /\ Leads
      <3>1. phase' # "tools" /\ (cycle' = cycle \/ cycle' = cycle + 1)  BY <2>4, OpensAtOnce
      <3>2. Opens /\ cycle' > 0  BY <3>1, <2>2, <1>3
      <3> QED BY <3>1, <3>2, Zenon
    <2>5. ASSUME Proceed(requests, FALSE, FALSE) \/ Run(requests, FALSE, FALSE)
          PROVE  Opens /\ Leads
      <3>1. cycle # 0  BY <2>2, <1>3
      <3>2. cycle' = cycle /\ (phase' = "tools" => ~advance')
        BY <2>5, <3>1, StaysInCycle
      <3> QED BY <2>2, <3>2, <1>3a
    <2>6. Opens /\ Leads  BY <2>3, <2>4, <2>5
    <2> QED BY <1>1, <1>2, <2>1, <2>6
  <1>12. CASE PlanOmitted \/ ReviewWithoutScope \/ Finalize \/ TimeRunsOut
    <2>1. calls' = calls /\ cycle' = cycle /\ phase' \in {"answer", "failed"}
      BY <1>12 DEF PlanOmitted, ReviewWithoutScope, Finalize, TimeRunsOut, Fail
    <2> QED BY <1>1, <1>2, <2>1
  <1>13. CASE UNCHANGED vars
    BY <1>13 DEF vars, reviewVars, OverlookInv, CallsOK, CyclesOK, SearchesOK, Required, Recent,
                 CandidatesOf, Fetched, FetchesOf, Succeeded
  <1> QED BY <1>4, <1>5, <1>6, <1>7, <1>8, <1>9, <1>10, <1>11, <1>12, <1>13 DEF Next

(* In every run what a search found is reviewed or fetched before the loop *)
(* is done with the search, whatever arrives together with it.             *)
THEOREM NoSearchOverlooked == Spec => []NothingOverlooked
  <1>1. OverlookInv => NothingOverlooked
    BY DEF OverlookInv, SearchesOK, NothingOverlooked, Succeeded
  <1> QED BY <1>1, OverlookInit, OverlookStep, PTL DEF Spec

(***************************************************************************)
(* A selected Article is fetched for each WorkItem that selected it.  What *)
(* SelectedForOwner needs besides itself: results are Articles, no request *)
(* is left over when the Solver is called, and nothing is selected before  *)
(* the plan.                                                               *)
(***************************************************************************)
FoundOK ==
    /\ \A c \in calls : c.found \subseteq Articles
    /\ selected \subseteq Articles
    /\ phase = "plan" => selected = {}
    /\ phase = "solve" => batch = {}

OwnedInv == CallsOK /\ FoundOK /\ SelectedForOwner

\* h's WorkItem has asked for a, or asks for it now.
AskedFor(a, h) ==
    \E r \in batch \union calls : r.tool = Fetch /\ a \in r.articles /\ Owner[h] \in OwnersOf(r)

LEMMA SelectedAreAsked ==
  SelectedForOwner <=>
    (phase \in {"solve", "tools"} => \A a \in selected : \A h \in matched[a] : AskedFor(a, h))
  BY DEF SelectedForOwner, AskedFor

\* The calls of the WorkItems keep what they were for.
LEMMA AskedForStays ==
  ASSUME batch = {}, KeepsCalls, NEW a, NEW h, AskedFor(a, h)
  PROVE  AskedFor(a, h)'
  <1>1. PICK b \in calls : b.tool = Fetch /\ a \in b.articles /\ Owner[h] \in OwnersOf(b)
    BY DEF AskedFor
  <1>2. PICK c \in calls' : SameCall(b, c)
    BY DEF KeepsCalls
  <1> QED BY <1>1, <1>2 DEF AskedFor, SameCall, OwnersOf

\* A decision that leaves the reviews of searches alone.
LEMMA OtherDecision ==
  ASSUME OwnedInv, phase = "solve", KeepsCalls, selected' = selected, matched' = matched
  PROVE  SelectedForOwner'
  <1> SUFFICES ASSUME NEW a \in selected, NEW h \in matched[a] PROVE AskedFor(a, h)'
    BY DEF SelectedForOwner, AskedFor, OwnersOf
  <1>1. AskedFor(a, h)  BY SelectedAreAsked DEF OwnedInv
  <1>2. batch = {}  BY DEF OwnedInv, FoundOK
  <1> QED BY <1>1, <1>2, AskedForStays

LEMMA NoLeftovers ==
  ASSUME batch = {}, NEW requests, NEW start, NEW review,
         Proceed(requests, start, review) \/ Run(requests, start, review)
  PROVE  phase' \in {"solve", "tools", "answer"} /\ (phase' = "solve" => batch' = {})
  BY DEF Proceed, Run

\* Marked calls found what they found before.
LEMMA MarkedFound ==
  ASSUME OwnedInv, NEW done, done \subseteq calls, NEW s, Mark(done, s)
  PROVE  KeepsCalls /\ \A c \in calls' : c.found \subseteq Articles
  <1>1. KeepsCalls  BY MarkKeeps DEF OwnedInv, CallsOK
  <1>2. ASSUME NEW c \in calls' PROVE c.found \subseteq Articles
    <2>1. c \in calls \/ \E b \in done : c.found = b.found
      BY Marked DEF OwnedInv, CallsOK
    <2> QED BY <2>1 DEF OwnedInv, FoundOK
  <1> QED BY <1>1, <1>2

\* What the WorkItems judge are Articles, each for a Hypothesis.
LEMMA JudgementsAre ==
  ASSUME FoundOK
  PROVE  Judgements \subseteq Articles \X Hypotheses
  <1>1. ASSUME NEW w PROVE FreshFor(w) \subseteq Articles
    BY DEF FoundOK, FreshFor, CandidatesOf, Required, Recent
  <1>2. \A w : HypothesesOf(w) \subseteq Hypotheses  BY DEF HypothesesOf
  <1> QED BY <1>1, <1>2 DEF Judgements

(* Each WorkItem that selects an Article has its text, had its fetch fail  *)
(* or fetches it now: SearchReviewFetches asks per WorkItem for the texts  *)
(* this WorkItem lacks.                                                    *)
LEMMA SelectionIsAsked ==
  ASSUME StepsAssumption, OwnedInv, phase = "solve", KeepsCalls,
         NEW selection \in SUBSET (Articles \X Hypotheses),
         Proceed(SearchReviewFetches(selection), FALSE, TRUE),
         phase' \in {"solve", "tools"}, NEW s \in selection
  PROVE  AskedFor(s[1], s[2])'
  <1> DEFINE w == Owner[s[2]]
             a == s[1]
             lacking == ArticlesFor(w, selection) \ Fetched(w)
  <1>1. s[2] \in Hypotheses /\ w \in WorkItems /\ a \in ArticlesFor(w, selection)
    BY DEF StepsAssumption, ArticlesFor
  <1>2. CASE a \in Fetched(w)
    <2>1. PICK c \in calls : c.tool = Fetch /\ w \in OwnersOf(c) /\ a \in c.articles
      BY <1>2 DEF Fetched, FetchesOf, Succeeded
    <2>2. AskedFor(a, s[2])  BY <2>1 DEF AskedFor
    <2>3. batch = {}  BY DEF OwnedInv, FoundOK
    <2> QED BY <2>2, <2>3, AskedForStays
  <1>3. CASE a \notin Fetched(w)
    <2> DEFINE r == Ask(Fetch, w, {x[2] : x \in {y \in selection : Owner[y[2]] = w}},
                        lacking, "search_review")
    <2>1. a \in lacking  BY <1>1, <1>3
    <2>2. r \in SearchReviewFetches(selection)
      BY <1>1, <2>1 DEF SearchReviewFetches
    <2>3. batch' = SearchReviewFetches(selection)
      BY <2>2 DEF Proceed, Run
    <2>4. r.tool = Fetch /\ r.articles = lacking /\ r.workItem = w
      BY DEF Ask
    <2>5. w \in OwnersOf(r)  BY <2>4 DEF OwnersOf
    <2>6. r \in batch'  BY <2>2, <2>3
    <2> HIDE DEF r, lacking
    <2> QED BY <2>1, <2>4, <2>5, <2>6 DEF AskedFor, OwnersOf
  <1> QED BY <1>2, <1>3

LEMMA SelectSearchOwned ==
  ASSUME StepsAssumption, OwnedInv, SelectSearch
  PROVE  FoundOK' /\ SelectedForOwner'
  <1>1. phase = "solve" /\ Mark(Required, "reviewed")
    BY DEF SelectSearch, Calling
  <1>2. KeepsCalls /\ \A c \in calls' : c.found \subseteq Articles
    BY <1>1, MarkedFound, MarkableAreCalls
  <1>3. PICK selection \in SUBSET Judgements :
           /\ matched' = Matching(selection)
           /\ selected' = selected \union {s[1] : s \in selection}
           /\ Proceed(SearchReviewFetches(selection), FALSE, TRUE)
    BY DEF SelectSearch
  <1>4. selection \in SUBSET (Articles \X Hypotheses)
    BY <1>3, JudgementsAre DEF OwnedInv
  <1>5. batch = {}  BY <1>1 DEF OwnedInv, FoundOK
  <1>6. FoundOK'
    <2>1. {s[1] : s \in selection} \subseteq Articles  BY <1>4
    <2>2. phase' # "plan" /\ (phase' = "solve" => batch' = {})  BY <1>3, <1>5, NoLeftovers
    <2> QED BY <1>2, <1>3, <2>1, <2>2 DEF OwnedInv, FoundOK
  <1>7. ASSUME phase' \in {"solve", "tools"}, NEW a \in selected', NEW h \in matched'[a]
        PROVE  AskedFor(a, h)'
    <2> DEFINE hs == {s[2] : s \in {x \in selection : x[1] = a}}
    <2>1. CASE hs = {}
      <3>1. a \in selected  BY <1>3, <2>1
      <3>2. a \in Articles  BY <3>1 DEF OwnedInv, FoundOK
      <3>3. h \in matched[a]  BY <1>3, <1>7, <2>1, <3>2 DEF Matching
      <3>4. AskedFor(a, h)  BY <1>1, <3>1, <3>3, SelectedAreAsked DEF OwnedInv
      <3> QED BY <3>4, <1>2, <1>5, AskedForStays
    <2>2. CASE hs # {}
      <3>1. a \in Articles  BY <1>4, <2>2
      <3>2. h \in hs  BY <1>3, <1>7, <2>2, <3>1 DEF Matching
      <3>3. PICK s \in selection : s[1] = a /\ s[2] = h  BY <3>2
      <3>4. AskedFor(s[1], s[2])'  BY <1>1, <1>2, <1>3, <1>4, <1>7, SelectionIsAsked
      <3> QED BY <3>3, <3>4
    <2> QED BY <2>1, <2>2
  <1>8. SelectedForOwner'  BY <1>7 DEF SelectedForOwner, AskedFor, OwnersOf
  <1> QED BY <1>6, <1>8

LEMMA OwnedInit == Init => OwnedInv
  BY CallsInit DEF Init, OwnedInv, FoundOK, SelectedForOwner

LEMMA OwnedStep == StepsAssumption /\ OwnedInv /\ [Next]_vars => OwnedInv'
  <1> SUFFICES ASSUME StepsAssumption, OwnedInv, [Next]_vars PROVE FoundOK' /\ SelectedForOwner'
    BY CallsStep DEF OwnedInv
  <1>1. CASE PlanSearches
    <2>1. calls' = {} /\ selected' = {} /\ selected = {} /\ phase' \in {"tools", "answer"}
      BY <1>1 DEF PlanSearches, Run, reviewVars, OwnedInv, CallsOK, FoundOK
    <2> QED BY <2>1 DEF FoundOK, SelectedForOwner
  <1>2. CASE ExecuteTools
    <2>1. /\ phase = "tools" /\ phase' = "solve" /\ batch' = {} /\ calls \subseteq calls'
          /\ selected' = selected /\ matched' = matched
      BY <1>2 DEF ExecuteTools, reviewVars
    <2>2. /\ \A c \in calls' : c \in calls \/ c.found \subseteq Articles
          /\ \A r \in batch : \E c \in calls' :
                c.tool = r.tool /\ c.workItem = r.workItem /\ c.hypotheses = r.hypotheses
                /\ c.articles = r.articles
      <3>1. PICK ok \in [batch -> BOOLEAN], found \in [batch -> SUBSET Articles] :
               calls' = calls \union
                {[tool |-> r.tool, workItem |-> r.workItem, hypotheses |-> r.hypotheses,
                  articles |-> r.articles, origin |-> r.origin, ok |-> ok[r],
                  found |-> found[r], cycle |-> cycle', stage |-> "new"] : r \in batch}
        BY <1>2 DEF ExecuteTools
      <3>2. \A c \in calls' : c \in calls \/ c.found \subseteq Articles
        <4>1. \A r \in batch : found[r] \subseteq Articles  OBVIOUS
        <4> QED BY <3>1, <4>1
      <3>3. ASSUME NEW r \in batch
            PROVE  \E c \in calls' : c.tool = r.tool /\ c.workItem = r.workItem
                      /\ c.hypotheses = r.hypotheses /\ c.articles = r.articles
        <4> DEFINE c == [tool |-> r.tool, workItem |-> r.workItem, hypotheses |-> r.hypotheses,
                         articles |-> r.articles, origin |-> r.origin, ok |-> ok[r],
                         found |-> found[r], cycle |-> cycle', stage |-> "new"]
        <4>1. c \in calls'  BY <3>1
        <4> QED BY <4>1
      <3> QED BY <3>2, <3>3
    <2>3. FoundOK'  BY <2>1, <2>2 DEF OwnedInv, FoundOK
    <2>4. ASSUME NEW a \in selected, NEW h \in matched[a] PROVE AskedFor(a, h)'
      <3>1. PICK r \in batch \union calls :
               r.tool = Fetch /\ a \in r.articles /\ Owner[h] \in OwnersOf(r)
        BY <2>1, <2>4 DEF OwnedInv, SelectedForOwner
      <3>2. PICK c \in calls' : c.tool = r.tool /\ c.workItem = r.workItem
                                /\ c.hypotheses = r.hypotheses /\ c.articles = r.articles
        BY <2>1, <2>2
      <3> QED BY <3>1, <3>2 DEF AskedFor, OwnersOf
    <2> QED BY <2>1, <2>3, <2>4 DEF SelectedForOwner, AskedFor, OwnersOf
  <1>3. CASE SelectSearch
    BY <1>3, SelectSearchOwned
  <1>4. ASSUME phase = "solve", phase' \in {"solve", "tools", "answer"}, NEW done \in SUBSET calls,
               NEW s, Mark(done, s), UNCHANGED <<matched, selected>>, phase' = "solve" => batch' = {}
        PROVE  FoundOK' /\ SelectedForOwner'
    <2>1. KeepsCalls /\ \A c \in calls' : c.found \subseteq Articles  BY <1>4, MarkedFound
    <2>2. SelectedForOwner'  BY <1>4, <2>1, OtherDecision
    <2> QED BY <1>4, <2>1, <2>2 DEF OwnedInv, FoundOK
  <1>5. CASE Observe
    <2>1. phase = "solve" /\ Mark(Integrated, "integrated") /\ UNCHANGED <<matched, selected>>
      BY <1>5 DEF Observe, Calling, reviewVars
    <2>2. PICK requests : Proceed(requests, FALSE, FALSE)
      BY <1>5 DEF Observe
    <2>3. phase' \in {"solve", "tools", "answer"} /\ (phase' = "solve" => batch' = {})
      BY <2>1, <2>2, NoLeftovers DEF OwnedInv, FoundOK
    <2> QED BY <1>4, <2>1, <2>3, MarkableAreCalls
  <1>6. CASE Consume
    <2>1. phase = "solve" /\ Mark(Recent, "integrated") /\ UNCHANGED <<matched, selected>>
          /\ phase' = "solve" /\ batch' = batch
      BY <1>6 DEF Consume, Calling, reviewVars
    <2> QED BY <1>4, <2>1, MarkableAreCalls DEF OwnedInv, FoundOK
  <1>7. CASE SelectGraph
    <2>1. PICK h, requests : Proceed(requests, FALSE, TRUE)
                             /\ \E done \in SUBSET GraphCalls(h) : Mark(done, "integrated")
      BY <1>7 DEF SelectGraph
    <2>2. phase = "solve" /\ UNCHANGED <<matched, selected>>
      BY <1>7 DEF SelectGraph, Calling
    <2>3. phase' \in {"solve", "tools", "answer"} /\ (phase' = "solve" => batch' = {})
      BY <2>1, <2>2, NoLeftovers DEF OwnedInv, FoundOK
    <2> QED BY <1>4, <2>1, <2>2, <2>3, MarkableAreCalls
  <1>8. CASE CloseCycle
    <2>1. phase = "solve" /\ Mark(Recent, "integrated") /\ UNCHANGED <<matched, selected>>
      BY <1>8 DEF CloseCycle, Calling
    <2>2. PICK requests : Proceed({}, TRUE, FALSE) \/ Run(requests, TRUE, FALSE)
      BY <1>8 DEF CloseCycle
    <2>3. phase' \in {"solve", "tools", "answer"} /\ (phase' = "solve" => batch' = {})
      BY <2>1, <2>2, NoLeftovers DEF OwnedInv, FoundOK
    <2> QED BY <1>4, <2>1, <2>3, MarkableAreCalls
  <1>9. CASE DependencyAction \/ Integrate
    <2>1. phase = "solve" /\ calls' = calls /\ UNCHANGED <<matched, selected>>
      BY <1>9 DEF DependencyAction, Integrate, Calling, reviewVars
    <2>2. PICK requests, start : Proceed(requests, start, FALSE) \/ Run(requests, start, FALSE)
      BY <1>9 DEF DependencyAction, Integrate
    <2>3. phase' \in {"solve", "tools", "answer"} /\ (phase' = "solve" => batch' = {})
      BY <2>1, <2>2, NoLeftovers DEF OwnedInv, FoundOK
    <2>4. SelectedForOwner'  BY <2>1, OtherDecision DEF KeepsCalls, SameCall
    <2> QED BY <2>1, <2>3, <2>4 DEF OwnedInv, FoundOK
  <1>10. CASE PlanOmitted \/ ReviewWithoutScope \/ Finalize \/ TimeRunsOut
    <2>1. calls' = calls /\ selected' = selected /\ phase' \in {"answer", "failed"}
      BY <1>10 DEF PlanOmitted, ReviewWithoutScope, Finalize, TimeRunsOut, Fail, reviewVars
    <2> QED BY <2>1 DEF OwnedInv, FoundOK, SelectedForOwner
  <1>11. CASE UNCHANGED vars
    BY <1>11 DEF vars, reviewVars, OwnedInv, FoundOK, SelectedForOwner, OwnersOf
  <1> QED BY <1>1, <1>2, <1>3, <1>5, <1>6, <1>7, <1>8, <1>9, <1>10, <1>11 DEF Next

(* An Article selected for Hypotheses of several WorkItems is fetched for  *)
(* each of them, whatever the others have and however the run goes on.     *)
THEOREM EachOwnerAsks == Spec => []SelectedForOwner
  <1>1. OwnedInv => SelectedForOwner  BY DEF OwnedInv
  <1> QED BY <1>1, OwnedInit, OwnedStep, StepsAssumption, PTL DEF Spec

-----------------------------------------------------------------------------
(* CaseTransactions.                                                       *)

(***************************************************************************)
(* The inductive invariant.  An attempt and an observation go with the     *)
(* status of their action; an operation belongs to one action; what is not *)
(* in the store has never been written; a parent is in the store.          *)
(***************************************************************************)
AttemptOf(status) == IF status \in Ends \union {"running"} THEN 1 ELSE 0

ActionsInv ==
    /\ \A a \in Actions : actions[a].attempt = AttemptOf(actions[a].status)
    /\ \A a \in Actions : \A end \in Ends :
          <<a, 1, end>> \in observations <=> actions[a].status = end
    /\ \A a, b \in Recorded(actions) : actions[a].operation = actions[b].operation => a = b

RecordsInv ==
    /\ \A a \in Absent(actions) : actions[a].revision = 0
    /\ \A i \in Absent(items) : items[i].revision = 0
    /\ \A i \in Recorded(items) : items[i].parent \in Recorded(items) \union {Nobody}

StoreInv == CaseTypeOK /\ ActionsInv /\ RecordsInv /\ JournalTellsRevisions

(***************************************************************************)
(* Lemmas about the operators.                                             *)
(***************************************************************************)
LEMMA AtMostOneElement ==
  ASSUME NEW S, \A x, y \in S : x = y
  PROVE  IsFiniteSet(S) /\ Cardinality(S) <= 1
  <1>1. CASE S = {}  BY <1>1, FS_EmptySet
  <1>2. CASE S # {}
    <2>1. PICK x \in S : TRUE  BY <1>2
    <2>2. S = {x}  BY <2>1
    <2>3. IsFiniteSet({x}) /\ Cardinality({x}) = 1  BY FS_Singleton
    <2> QED BY <2>2, <2>3
  <1> QED BY <1>1, <1>2

\* A write of one record gives it a status and a revision more.
LEMMA UpdatedItem ==
  ASSUME items \in [Items -> ItemRecords], NEW i \in Items, NEW to \in ItemStatuses
  PROVE  LET u == Updated(items, i, to) IN
         /\ u \in [Items -> ItemRecords]
         /\ u[i].status = to /\ u[i].revision = items[i].revision + 1
         /\ u[i].parent = items[i].parent /\ u[i].required = items[i].required
         /\ \A y \in Items \ {i} : u[y] = items[y]
  <1>1. PICK r \in ItemRecords : r = items[i]  OBVIOUS
  <1>2. PICK n : n = [r EXCEPT !.status = to, !.revision = r.revision + 1]  OBVIOUS
  <1>3. n = [status |-> to, parent |-> r.parent, required |-> r.required, revision |-> r.revision + 1]
    BY <1>2 DEF ItemRecords
  <1>4. n \in ItemRecords  BY <1>3 DEF ItemRecords
  <1>5. Updated(items, i, to) = [items EXCEPT ![i] = n]  BY <1>1, <1>2 DEF Updated
  <1> QED BY <1>1, <1>3, <1>4, <1>5

LEMMA UpdatedHypothesis ==
  ASSUME hypotheses \in [CaseHypotheses -> HypothesisRecords], NEW h \in CaseHypotheses,
         NEW to \in HypothesisStatuses
  PROVE  LET u == Updated(hypotheses, h, to) IN
         /\ u \in [CaseHypotheses -> HypothesisRecords]
         /\ u[h].status = to /\ u[h].revision = hypotheses[h].revision + 1
         /\ u[h].item = hypotheses[h].item
         /\ \A y \in CaseHypotheses \ {h} : u[y] = hypotheses[y]
  <1>1. PICK r \in HypothesisRecords : r = hypotheses[h]  OBVIOUS
  <1>2. PICK n : n = [r EXCEPT !.status = to, !.revision = r.revision + 1]  OBVIOUS
  <1>3. n = [status |-> to, item |-> r.item, revision |-> r.revision + 1]
    BY <1>2 DEF HypothesisRecords
  <1>4. n \in HypothesisRecords  BY <1>3 DEF HypothesisRecords
  <1>5. Updated(hypotheses, h, to) = [hypotheses EXCEPT ![h] = n]  BY <1>1, <1>2 DEF Updated
  <1> QED BY <1>1, <1>3, <1>4, <1>5

LEMMA UpdatedAction ==
  ASSUME actions \in [Actions -> ActionRecords], NEW a \in Actions, NEW to \in Ends \union {"running"}
  PROVE  LET u == Updated(actions, a, to) IN
         /\ u \in [Actions -> ActionRecords]
         /\ u[a].status = to /\ u[a].revision = actions[a].revision + 1
         /\ u[a].operation = actions[a].operation /\ u[a].attempt = actions[a].attempt
         /\ \A y \in Actions \ {a} : u[y] = actions[y]
  <1>1. PICK r \in ActionRecords : r = actions[a]  OBVIOUS
  <1>2. PICK n : n = [r EXCEPT !.status = to, !.revision = r.revision + 1]  OBVIOUS
  <1>3. n = [status |-> to, operation |-> r.operation, attempt |-> r.attempt, revision |-> r.revision + 1]
    BY <1>2 DEF ActionRecords
  <1>4. n \in ActionRecords  BY <1>3 DEF ActionRecords
  <1>5. Updated(actions, a, to) = [actions EXCEPT ![a] = n]  BY <1>1, <1>2 DEF Updated
  <1> QED BY <1>1, <1>3, <1>4, <1>5

LEMMA ClaimedAction ==
  ASSUME actions \in [Actions -> ActionRecords], NEW a \in Actions, actions[a].attempt = 0
  PROVE  LET c == [Updated(actions, a, "running") EXCEPT ![a].attempt = @ + 1] IN
         /\ c \in [Actions -> ActionRecords]
         /\ c[a].status = "running" /\ c[a].revision = actions[a].revision + 1
         /\ c[a].attempt = 1 /\ c[a].operation = actions[a].operation
         /\ \A b \in Actions \ {a} : c[b] = actions[b]
  <1>1. PICK u : u = Updated(actions, a, "running")  OBVIOUS
  <1>2. /\ u \in [Actions -> ActionRecords]
        /\ u[a].status = "running" /\ u[a].revision = actions[a].revision + 1
        /\ u[a].attempt = actions[a].attempt /\ u[a].operation = actions[a].operation
        /\ \A b \in Actions \ {a} : u[b] = actions[b]
    BY <1>1, UpdatedAction
  <1>3. PICK r \in ActionRecords : r = u[a]  BY <1>2
  <1>4. PICK n : n = [r EXCEPT !.attempt = r.attempt + 1]  OBVIOUS
  <1>5. n = [status |-> r.status, operation |-> r.operation, attempt |-> r.attempt + 1,
             revision |-> r.revision]
    BY <1>4 DEF ActionRecords
  <1>6. n \in ActionRecords /\ n.attempt = 1
    BY <1>2, <1>3, <1>5 DEF ActionRecords
  <1>7. [u EXCEPT ![a].attempt = @ + 1] = [u EXCEPT ![a] = n]
    BY <1>3, <1>4
  <1> QED BY <1>1, <1>2, <1>3, <1>5, <1>6, <1>7

\* The event names the records that were written, and no snapshot is from later.
LEMMA Committed ==
  ASSUME CaseTypeOK, NEW refs, Commit(refs)
  PROVE  /\ version' \in Nat \ {0} /\ events' \in [Items \union Actions -> Nat]
         /\ \A x \in Items \union Actions :
               events'[x] = IF x \in refs THEN events[x] + 1 ELSE events[x]
         /\ \A c \in Clients : seen'[c].version \in 1 .. version'
  BY DEF CaseTypeOK, Commit

(***************************************************************************)
(* Each transaction keeps the invariant.                                   *)
(***************************************************************************)
LEMMA StoreInit == CaseInit => StoreInv
  <1> SUFFICES ASSUME CaseInit PROVE StoreInv
    OBVIOUS
  <1> USE TransactionsAssumption, IdsAssumption DEF TransactionsAssumption, IdsAssumption
  <1>1. /\ \A i \in Items : items[i] = IF i = Root THEN [status |-> "ready", parent |-> Nobody,
                                                         required |-> TRUE, revision |-> 1]
                                       ELSE NoItem
        /\ \A a \in Actions : actions[a] = NoAction
        /\ \A h \in CaseHypotheses : hypotheses[h] = NoHypothesis
        /\ DOMAIN items = Items /\ DOMAIN actions = Actions
    BY DEF CaseInit
  <1>2. CaseTypeOK
    <2>1. items \in [Items -> ItemRecords]
      BY DEF CaseInit, NoItem, ItemRecords, ItemStatuses
    <2>2. hypotheses \in [CaseHypotheses -> HypothesisRecords]
      BY DEF CaseInit, NoHypothesis, HypothesisRecords
    <2>3. actions \in [Actions -> ActionRecords]
      BY DEF CaseInit, NoAction, ActionRecords
    <2>4. events \in [Items \union Actions -> Nat]  BY DEF CaseInit
    <2>5. \A c \in Clients : seen[c].version \in 1 .. version
      BY DEF CaseInit, Snapshot
    <2>6. dependencies = {} /\ observations = {} /\ artifacts = {} /\ version \in Nat \ {0}
      BY DEF CaseInit
    <2> QED BY <2>1, <2>2, <2>3, <2>4, <2>5, <2>6 DEF CaseTypeOK
  <1>3. ActionsInv
    BY <1>1 DEF CaseInit, ActionsInv, AttemptOf, Recorded, NoAction, Ends
  <1>4. RecordsInv
    BY <1>1 DEF CaseInit, RecordsInv, Recorded, Absent, NoAction, NoItem
  <1>5. JournalTellsRevisions
    BY <1>1 DEF CaseInit, JournalTellsRevisions, NoAction, NoItem
  <1> QED BY <1>2, <1>3, <1>4, <1>5 DEF StoreInv

LEMMA PlanStep ==
  ASSUME StoreInv, ApplyPlanDelta
  PROVE  StoreInv'
  <1> USE TransactionsAssumption, IdsAssumption DEF TransactionsAssumption, IdsAssumption
  <1>1. PICK addI \in SUBSET Absent(items), addD \in SUBSET ((Items \X Items) \ dependencies),
             addH \in SUBSET Absent(hypotheses), addA \in SUBSET Absent(actions) :
          /\ Cardinality(addI) + Cardinality(addD) + Cardinality(addH) + Cardinality(addA)
                \in 1 .. MaxDelta
          /\ \E newI \in NewItems(addI), newH \in NewHypotheses(addH), newA \in NewActions(addA) :
             /\ Related(Extended(items, newI), dependencies \union addD)
             /\ \A h \in addH : newH[h].item \in Recorded(items) \union addI
             /\ Fresh(addA, [a \in addA |-> newA[a].operation])
             /\ items' = Extended(items, newI)
             /\ dependencies' = dependencies \union addD
             /\ hypotheses' = Extended(hypotheses, newH)
             /\ actions' = Extended(actions, newA)
             /\ Commit(addI \union addD \union addH \union addA)
    BY DEF ApplyPlanDelta
  <1>2. PICK newI \in NewItems(addI), newH \in NewHypotheses(addH), newA \in NewActions(addA) :
             /\ Related(Extended(items, newI), dependencies \union addD)
             /\ \A h \in addH : newH[h].item \in Recorded(items) \union addI
             /\ Fresh(addA, [a \in addA |-> newA[a].operation])
             /\ items' = Extended(items, newI)
             /\ dependencies' = dependencies \union addD
             /\ hypotheses' = Extended(hypotheses, newH)
             /\ actions' = Extended(actions, newA)
             /\ Commit(addI \union addD \union addH \union addA)
    BY <1>1
  <1>3. UNCHANGED <<observations, artifacts>>  BY DEF ApplyPlanDelta
  <1>4. /\ items \in [Items -> ItemRecords] /\ hypotheses \in [CaseHypotheses -> HypothesisRecords]
        /\ actions \in [Actions -> ActionRecords] /\ dependencies \subseteq Items \X Items
    BY DEF StoreInv, CaseTypeOK
  <1>5. /\ addI \subseteq Items /\ addH \subseteq CaseHypotheses /\ addA \subseteq Actions
        /\ \A i \in addI : items[i].status = "absent"
        /\ \A a \in addA : actions[a].status = "absent"
    BY <1>4 DEF Absent, Recorded
  <1>6. /\ items' = [i \in Items |-> IF i \in addI THEN newI[i] ELSE items[i]]
        /\ \A i \in addI : newI[i] \in ItemRecords /\ newI[i].status # "absent" /\ newI[i].revision = 1
    <2>1. DOMAIN newI = addI /\ DOMAIN items = Items  BY <1>4 DEF NewItems
    <2>2. \A i \in addI : newI[i] \in [status : BirthStatuses \intersect ItemStatuses,
                             parent : Items \union {Nobody}, required : BOOLEAN, revision : {1}]
      BY DEF NewItems
    <2>3. ASSUME NEW r \in [status : BirthStatuses \intersect ItemStatuses,
                             parent : Items \union {Nobody}, required : BOOLEAN, revision : {1}]
          PROVE  r \in ItemRecords /\ r.status # "absent" /\ r.revision = 1
      BY <2>3 DEF ItemRecords, ItemStatuses
    <2> QED BY <1>2, <2>1, <2>2, <2>3 DEF Extended
  <1>7. hypotheses' \in [CaseHypotheses -> HypothesisRecords]
    <2>1. DOMAIN newH = addH /\ DOMAIN hypotheses = CaseHypotheses  BY <1>4 DEF NewHypotheses
    <2>2. \A h \in addH : newH[h] \in [status : BirthStatuses \intersect HypothesisStatuses,
                                       item : Items, revision : {1}]
      BY DEF NewHypotheses
    <2>3. \A h \in addH : newH[h] \in HypothesisRecords
      BY <2>2 DEF HypothesisRecords
    <2> QED BY <1>2, <1>4, <2>1, <2>3 DEF Extended
  <1>8. /\ actions' = [a \in Actions |-> IF a \in addA THEN newA[a] ELSE actions[a]]
        /\ \A a \in addA : /\ newA[a] \in ActionRecords /\ newA[a].status \in {"proposed", "queued"}
                           /\ newA[a].attempt = 0 /\ newA[a].revision = 1
    <2>1. DOMAIN newA = addA /\ DOMAIN actions = Actions  BY <1>4 DEF NewActions
    <2>2. \A a \in addA : newA[a] \in [status : {"proposed", "queued"}, operation : Operations,
                                       attempt : {0}, revision : {1}]
      BY DEF NewActions
    <2>3. ASSUME NEW r \in [status : {"proposed", "queued"}, operation : Operations,
                            attempt : {0}, revision : {1}]
          PROVE  /\ r \in ActionRecords /\ r.status \in {"proposed", "queued"}
                 /\ r.attempt = 0 /\ r.revision = 1
      BY <2>3 DEF ActionRecords
    <2> QED BY <1>2, <2>1, <2>2, <2>3 DEF Extended
  <1>9. /\ version' \in Nat \ {0} /\ events' \in [Items \union Actions -> Nat]
        /\ \A i \in Items : events'[i] = IF i \in addI THEN events[i] + 1 ELSE events[i]
        /\ \A a \in Actions : events'[a] = IF a \in addA THEN events[a] + 1 ELSE events[a]
        /\ \A c \in Clients : seen'[c].version \in 1 .. version'
    <2> DEFINE refs == addI \union addD \union addH \union addA
    <2>1. /\ \A i \in Items : i \in refs <=> i \in addI
          /\ \A a \in Actions : a \in refs <=> a \in addA
      <3>1. \A d \in addD : d \notin Items \union Actions  OBVIOUS
      <3> QED BY <3>1, <1>5
    <2>2. Commit(refs)  BY <1>2
    <2> HIDE DEF refs
    <2>3. /\ version' \in Nat \ {0} /\ events' \in [Items \union Actions -> Nat]
          /\ \A x \in Items \union Actions :
                events'[x] = IF x \in refs THEN events[x] + 1 ELSE events[x]
          /\ \A c \in Clients : seen'[c].version \in 1 .. version'
      BY <2>2, Committed DEF StoreInv
    <2> QED BY <2>1, <2>3
  <1>10. CaseTypeOK'
    <2>1. items' \in [Items -> ItemRecords]  BY <1>4, <1>6
    <2>2. actions' \in [Actions -> ActionRecords]  BY <1>4, <1>8
    <2>3. dependencies' \subseteq Items \X Items  BY <1>2, <1>4
    <2> QED BY <1>3, <1>7, <1>9, <2>1, <2>2, <2>3 DEF StoreInv, CaseTypeOK
  <1>11. ActionsInv'
    <2>1. \A a \in Actions : actions'[a].attempt = AttemptOf(actions'[a].status)
      BY <1>8 DEF StoreInv, ActionsInv, AttemptOf, Ends
    <2>2. \A a \in Actions : \A end \in Ends :
             <<a, 1, end>> \in observations' <=> actions'[a].status = end
      <3>1. \A end \in Ends : end \notin {"absent", "proposed", "queued"}  BY DEF Ends
      <3>2. \A a \in Actions : \A end \in Ends :
               <<a, 1, end>> \in observations <=> actions[a].status = end
        BY DEF StoreInv, ActionsInv
      <3>3. ASSUME NEW a \in Actions, NEW end \in Ends
            PROVE  actions'[a].status = end <=> actions[a].status = end
        <4>1. CASE a \in addA  BY <4>1, <3>1, <1>5, <1>8
        <4>2. CASE a \notin addA  BY <4>2, <1>8
        <4> QED BY <4>1, <4>2
      <3> QED BY <3>2, <3>3, <1>3
    <2>3. ASSUME NEW a \in Recorded(actions'), NEW b \in Recorded(actions'),
                 actions'[a].operation = actions'[b].operation
          PROVE  a = b
      <3>1. /\ \A x \in addA : \A y \in Recorded(actions) : actions[y].operation # newA[x].operation
            /\ \A x \in addA : \A y \in addA \ {x} : newA[y].operation # newA[x].operation
        BY <1>2 DEF Fresh
      <3>2. /\ a \in Actions /\ (a \in addA \/ a \in Recorded(actions))
            /\ b \in Actions /\ (b \in addA \/ b \in Recorded(actions))
        BY <1>4, <1>8 DEF Recorded
      <3> QED BY <3>1, <3>2, <2>3, <1>8 DEF StoreInv, ActionsInv
    <2> QED BY <2>1, <2>2, <2>3 DEF ActionsInv, Recorded, AttemptOf
  <1>12. RecordsInv'
    <2>1. \A i \in Recorded(items') : items'[i].parent \in Recorded(items') \union {Nobody}
      BY <1>2 DEF Related
    <2>2. \A a \in Absent(actions') : actions'[a].revision = 0
      BY <1>4, <1>8 DEF StoreInv, RecordsInv, Absent, Recorded
    <2>3. \A i \in Absent(items') : items'[i].revision = 0
      BY <1>4, <1>6 DEF StoreInv, RecordsInv, Absent, Recorded
    <2> QED BY <2>1, <2>2, <2>3 DEF RecordsInv, Recorded, Absent
  <1>13. JournalTellsRevisions'
    <2>1. \A i \in Items : items'[i].revision = events'[i]
      <3>1. \A i \in addI : items[i].revision = 0
        BY <1>4, <1>5 DEF StoreInv, RecordsInv, Absent, Recorded
      <3> QED BY <3>1, <1>5, <1>6, <1>9 DEF StoreInv, JournalTellsRevisions
    <2>2. \A a \in Actions : actions'[a].revision = events'[a]
      <3>1. \A a \in addA : actions[a].revision = 0
        BY <1>4, <1>5 DEF StoreInv, RecordsInv, Absent, Recorded
      <3> QED BY <3>1, <1>5, <1>8, <1>9 DEF StoreInv, JournalTellsRevisions
    <2> QED BY <2>1, <2>2 DEF JournalTellsRevisions
  <1> QED BY <1>10, <1>11, <1>12, <1>13 DEF StoreInv

\* A commit that only writes the action a, with a revision more.
LEMMA ActionWritten ==
  ASSUME StoreInv, NEW a \in Actions, actions' \in [Actions -> ActionRecords],
         a \in Recorded(actions), actions'[a].status # "absent",
         actions'[a].revision = actions[a].revision + 1,
         actions'[a].operation = actions[a].operation,
         \A b \in Actions \ {a} : actions'[b] = actions[b],
         UNCHANGED <<items, dependencies, hypotheses>>, artifacts' \subseteq Artifacts,
         NEW produced \in SUBSET Artifacts, Commit({a} \union produced),
         observations' \subseteq Actions \X {1} \X Ends,
         actions'[a].attempt = AttemptOf(actions'[a].status),
         \A end \in Ends : <<a, 1, end>> \in observations' <=> actions'[a].status = end,
         \A b \in Actions \ {a} : \A end \in Ends :
            <<b, 1, end>> \in observations' <=> <<b, 1, end>> \in observations
  PROVE  StoreInv'
  <1> USE DEF StoreInv
  <1>1. /\ version' \in Nat \ {0} /\ events' \in [Items \union Actions -> Nat]
        /\ \A x \in Items \union Actions :
              events'[x] = IF x \in {a} \union produced THEN events[x] + 1 ELSE events[x]
        /\ \A c \in Clients : seen'[c].version \in 1 .. version'
    BY Committed
  <1>2. /\ \A i \in Items : events'[i] = events[i]
        /\ events'[a] = events[a] + 1 /\ \A b \in Actions \ {a} : events'[b] = events[b]
    <2>1. /\ \A i \in Items : i \notin {a} \union produced
          /\ \A b \in Actions \ {a} : b \notin {a} \union produced
      BY IdsAssumption DEF IdsAssumption
    <2> QED BY <1>1, <2>1
  <1>3. CaseTypeOK'  BY <1>1 DEF CaseTypeOK
  <1>4. ActionsInv'
    <2>1. \A b \in Actions : actions'[b].attempt = AttemptOf(actions'[b].status)
      BY DEF ActionsInv
    <2>2. \A b \in Actions : \A end \in Ends :
             <<b, 1, end>> \in observations' <=> actions'[b].status = end
      <3> SUFFICES ASSUME NEW b \in Actions, NEW end \in Ends
                   PROVE  <<b, 1, end>> \in observations' <=> actions'[b].status = end
        OBVIOUS
      <3>1. CASE b = a  BY <3>1
      <3>2. CASE b # a
        <4>1. <<b, 1, end>> \in observations <=> actions[b].status = end  BY DEF ActionsInv
        <4> QED BY <3>2, <4>1
      <3> QED BY <3>1, <3>2
    <2>3. \A b \in Recorded(actions') : b \in Recorded(actions) /\ actions'[b].operation = actions[b].operation
      BY DEF Recorded, CaseTypeOK
    <2>4. \A b, c \in Recorded(actions') : actions'[b].operation = actions'[c].operation => b = c
      BY <2>3 DEF ActionsInv
    <2> QED BY <2>1, <2>2, <2>4 DEF ActionsInv, AttemptOf, Recorded
  <1>5. RecordsInv'
    <2>1. \A b \in Absent(actions') : actions'[b].revision = 0
      <3>1. ASSUME NEW b \in Absent(actions') PROVE b \in Absent(actions) /\ b # a
        BY <3>1 DEF Absent, Recorded, CaseTypeOK
      <3> QED BY <3>1 DEF RecordsInv, Absent, CaseTypeOK
    <2> QED BY <2>1 DEF RecordsInv, Absent, Recorded
  <1>6. JournalTellsRevisions'
    BY <1>2 DEF JournalTellsRevisions
  <1> QED BY <1>3, <1>4, <1>5, <1>6

LEMMA ClaimStep ==
  ASSUME StoreInv, NEW c \in Clients, NEW a \in Actions, ClaimAction(c, a)
  PROVE  StoreInv'
  <1> USE DEF StoreInv
  <1>1. /\ actions \in [Actions -> ActionRecords] /\ observations \subseteq Actions \X {1} \X Ends
        /\ artifacts \subseteq Artifacts
    BY DEF CaseTypeOK
  <1>2. actions[a].attempt = 0 /\ actions[a].status \notin Ends
    BY DEF ClaimAction, Claimable, ActionsInv, AttemptOf, Ends
  <1>3. /\ actions' = [Updated(actions, a, "running") EXCEPT ![a].attempt = @ + 1]
        /\ a \in Recorded(actions)
        /\ Commit({a} \union {}) /\ UNCHANGED <<items, dependencies, hypotheses, observations, artifacts>>
    BY DEF ClaimAction
  <1>4. /\ actions' \in [Actions -> ActionRecords]
        /\ actions'[a].status = "running" /\ actions'[a].revision = actions[a].revision + 1
        /\ actions'[a].attempt = 1 /\ actions'[a].operation = actions[a].operation
        /\ \A b \in Actions \ {a} : actions'[b] = actions[b]
    BY <1>1, <1>2, <1>3, ClaimedAction
  <1>5. actions'[a].attempt = AttemptOf(actions'[a].status)
    BY <1>4 DEF AttemptOf
  <1>6. \A end \in Ends : <<a, 1, end>> \in observations' <=> actions'[a].status = end
    <2>1. "running" \notin Ends  BY DEF Ends
    <2> QED BY <2>1, <1>2, <1>3, <1>4 DEF ActionsInv
  <1>7. PICK produced \in SUBSET Artifacts : produced = {}  OBVIOUS
  <1>8. /\ Commit({a} \union produced) /\ artifacts' \subseteq Artifacts
        /\ observations' \subseteq Actions \X {1} \X Ends /\ observations' = observations
        /\ actions'[a].status # "absent" /\ UNCHANGED <<items, dependencies, hypotheses>>
    BY <1>1, <1>3, <1>4, <1>7
  <1> QED BY <1>3, <1>4, <1>5, <1>6, <1>8, ActionWritten

LEMMA CompleteStep ==
  ASSUME StoreInv, NEW c \in Clients, NEW a \in Actions, CompleteAction(c, a)
  PROVE  StoreInv'
  <1> USE DEF StoreInv
  <1>1. /\ actions \in [Actions -> ActionRecords] /\ observations \subseteq Actions \X {1} \X Ends
        /\ artifacts \subseteq Artifacts
    BY DEF CaseTypeOK
  <1>2. actions[a].attempt = 1 /\ actions[a].status = "running"
    BY DEF CompleteAction, ActionsInv, AttemptOf
  <1>3. PICK end \in Ends, produced \in SUBSET (Artifacts \ artifacts) :
          /\ observations' = observations \union {<<a, actions[a].attempt, end>>}
          /\ artifacts' = artifacts \union produced
          /\ actions' = Updated(actions, a, end)
          /\ Commit({a} \union produced)
    BY DEF CompleteAction
  <1>4. a \in Recorded(actions) /\ UNCHANGED <<items, dependencies, hypotheses>>
    BY DEF CompleteAction
  <1>5. /\ actions' \in [Actions -> ActionRecords]
        /\ actions'[a].status = end /\ actions'[a].revision = actions[a].revision + 1
        /\ actions'[a].attempt = actions[a].attempt /\ actions'[a].operation = actions[a].operation
        /\ \A b \in Actions \ {a} : actions'[b] = actions[b]
    BY <1>1, <1>3, UpdatedAction
  <1>6. actions'[a].attempt = AttemptOf(actions'[a].status)
    BY <1>2, <1>5 DEF AttemptOf
  <1>7. \A x \in Ends : <<a, 1, x>> \in observations' <=> actions'[a].status = x
    <2>1. "running" \notin Ends  BY DEF Ends
    <2>2. \A x \in Ends : <<a, 1, x>> \notin observations
      BY <1>2, <2>1 DEF ActionsInv
    <2> QED BY <2>2, <1>2, <1>3, <1>5
  <1>8. /\ observations' \subseteq Actions \X {1} \X Ends
        /\ \A b \in Actions \ {a} : \A x \in Ends :
              <<b, 1, x>> \in observations' <=> <<b, 1, x>> \in observations
    BY <1>1, <1>2, <1>3
  <1>9. end # "absent"  BY DEF Ends
  <1> QED BY <1>1, <1>3, <1>4, <1>5, <1>6, <1>7, <1>8, <1>9, ActionWritten

LEMMA RegisterStep ==
  ASSUME StoreInv, NEW x \in Artifacts, RegisterExternalArtifact(x)
  PROVE  StoreInv'
  <1> USE DEF StoreInv
  <1>1. /\ Commit({x}) /\ artifacts' = artifacts \union {x}
        /\ UNCHANGED <<items, dependencies, hypotheses, actions, observations>>
    BY DEF RegisterExternalArtifact
  <1>2. /\ version' \in Nat \ {0} /\ events' \in [Items \union Actions -> Nat]
        /\ \A y \in Items \union Actions : events'[y] = IF y \in {x} THEN events[y] + 1 ELSE events[y]
        /\ \A c \in Clients : seen'[c].version \in 1 .. version'
    BY <1>1, Committed
  <1>3. \A y \in Items \union Actions : events'[y] = events[y]
    BY <1>2, IdsAssumption DEF IdsAssumption
  <1>4. CaseTypeOK'  BY <1>1, <1>2 DEF CaseTypeOK
  <1>5. ActionsInv' /\ RecordsInv'
    BY <1>1 DEF ActionsInv, RecordsInv, AttemptOf, Recorded, Absent
  <1>6. JournalTellsRevisions'  BY <1>1, <1>3 DEF JournalTellsRevisions
  <1> QED BY <1>4, <1>5, <1>6

\* What a decision writes: the status of its WorkItem, along ItemStep.
LEMMA DecisionWrites ==
  ASSUME StoreInv, NEW c \in Clients, NEW i \in Items, ApplyDecision(c, i)
  PROVE  /\ i \in Recorded(items) /\ items' \in [Items -> ItemRecords]
         /\ \E to \in ItemStep[items[i].status] :
               /\ to \in ItemStatuses /\ items'[i].status = to
               /\ to = "resolved" => ChildrenResolved(i)
         /\ items'[i].revision = items[i].revision + 1
         /\ items'[i].parent = items[i].parent /\ items'[i].required = items[i].required
         /\ \A k \in Items \ {i} : items'[k] = items[k]
  <1>1. items \in [Items -> ItemRecords]  BY DEF StoreInv, CaseTypeOK
  <1>2. i \in Recorded(items)  BY DEF ApplyDecision
  <1>3. items[i].status \in ItemStatuses
    BY <1>1, <1>2 DEF Recorded, ItemRecords
  <1>4. ItemStep[items[i].status] \subseteq ItemStatuses
    BY <1>3 DEF ItemStep, ItemStatuses
  <1>5. PICK to \in ItemStep[items[i].status] :
          (to = "resolved" => ChildrenResolved(i)) /\ items' = Updated(items, i, to)
    BY DEF ApplyDecision
  <1>6. to \in ItemStatuses  BY <1>4
  <1> QED BY <1>1, <1>2, <1>5, <1>6, UpdatedItem

LEMMA DecisionStep ==
  ASSUME StoreInv, NEW c \in Clients, NEW i \in Items, ApplyDecision(c, i)
  PROVE  StoreInv'
  <1> USE DEF StoreInv
  <1>1. /\ i \in Recorded(items) /\ items' \in [Items -> ItemRecords] /\ items'[i].status \in ItemStatuses
        /\ items'[i].revision = items[i].revision + 1 /\ items'[i].parent = items[i].parent
        /\ \A k \in Items \ {i} : items'[k] = items[k]
    BY DecisionWrites
  <1>2. Commit({i}) /\ UNCHANGED <<dependencies, actions, observations, artifacts>>
    BY DEF ApplyDecision
  <1>3. /\ version' \in Nat \ {0} /\ events' \in [Items \union Actions -> Nat]
        /\ \A y \in Items \union Actions : events'[y] = IF y \in {i} THEN events[y] + 1 ELSE events[y]
        /\ \A d \in Clients : seen'[d].version \in 1 .. version'
    BY <1>2, Committed
  <1>4. /\ events'[i] = events[i] + 1 /\ \A k \in Items \ {i} : events'[k] = events[k]
        /\ \A a \in Actions : events'[a] = events[a]
    BY <1>3, IdsAssumption DEF IdsAssumption
  <1>5. hypotheses' \in [CaseHypotheses -> HypothesisRecords]
    <2>1. CASE UNCHANGED hypotheses  BY <2>1 DEF CaseTypeOK
    <2>2. CASE \E h \in Recorded(hypotheses), to \in HypothesisStatuses :
                 hypotheses' = Updated(hypotheses, h, to)
      <3>1. PICK h \in Recorded(hypotheses), to \in HypothesisStatuses :
                   hypotheses' = Updated(hypotheses, h, to)
        BY <2>2
      <3>2. hypotheses \in [CaseHypotheses -> HypothesisRecords] /\ h \in CaseHypotheses
        BY DEF CaseTypeOK, Recorded
      <3> QED BY <3>1, <3>2, UpdatedHypothesis
    <2> QED BY <2>1, <2>2 DEF ApplyDecision
  <1>6. CaseTypeOK'  BY <1>1, <1>2, <1>3, <1>5 DEF CaseTypeOK
  <1>7. ActionsInv'  BY <1>2 DEF ActionsInv, AttemptOf, Recorded
  <1>8. RecordsInv'
    <2>1. Recorded(items') = Recorded(items)
      <3>1. "absent" \notin ItemStatuses  BY DEF ItemStatuses
      <3>2. DOMAIN items = Items /\ DOMAIN items' = Items  BY <1>1 DEF CaseTypeOK
      <3> QED BY <1>1, <3>1, <3>2 DEF Recorded
    <2>2. \A k \in Recorded(items) : items'[k].parent = items[k].parent
      BY <1>1 DEF Recorded, CaseTypeOK
    <2>3. \A k \in Absent(items') : items'[k].revision = 0
      <3>1. ASSUME NEW k \in Absent(items') PROVE k \in Absent(items) /\ k # i /\ k \in Items
        BY <3>1, <2>1, <1>1 DEF Absent, CaseTypeOK
      <3> QED BY <3>1, <1>1 DEF RecordsInv
    <2>4. \A k \in Recorded(items') : items'[k].parent \in Recorded(items') \union {Nobody}
      BY <2>1, <2>2 DEF RecordsInv
    <2>5. \A a \in Absent(actions') : actions'[a].revision = 0
      BY <1>2 DEF RecordsInv, Absent, Recorded
    <2> QED BY <2>3, <2>4, <2>5 DEF RecordsInv, Recorded, Absent
  <1>9. JournalTellsRevisions'  BY <1>1, <1>2, <1>4 DEF JournalTellsRevisions
  <1> QED BY <1>6, <1>7, <1>8, <1>9

LEMMA LookStep ==
  ASSUME StoreInv, NEW c \in Clients, Look(c)
  PROVE  StoreInv'
  <1>1. /\ \A d \in Clients : seen'[d].version \in 1 .. version
        /\ UNCHANGED <<records, version, events>>
    BY DEF StoreInv, CaseTypeOK, Look, Snapshot
  <1> QED BY <1>1 DEF StoreInv, CaseTypeOK, ActionsInv, RecordsInv, JournalTellsRevisions, AttemptOf,
                      Recorded, Absent, records

LEMMA StoreStep == StoreInv /\ [CaseNext]_caseVars => StoreInv'
  <1> SUFFICES ASSUME StoreInv, [CaseNext]_caseVars PROVE StoreInv'
    OBVIOUS
  <1>1. CASE UNCHANGED caseVars
    BY <1>1 DEF caseVars, records, StoreInv, CaseTypeOK, ActionsInv, RecordsInv, JournalTellsRevisions,
                AttemptOf, Recorded, Absent
  <1>2. CASE CaseNext
    BY <1>2, PlanStep, RegisterStep, LookStep, ClaimStep, CompleteStep, DecisionStep DEF CaseNext
  <1> QED BY <1>1, <1>2

LEMMA StoreKept == CaseSpec => []StoreInv
  BY StoreInit, StoreStep, PTL DEF CaseSpec

(***************************************************************************)
(* The theorems.                                                           *)
(***************************************************************************)
(* Records and snapshots keep their shape, and an action is attempted at   *)
(* most once, whichever clients claim it.                                  *)
THEOREM CaseTypes == CaseSpec => []CaseTypeOK
  BY StoreKept, PTL DEF StoreInv

(* However many clients write with stale snapshots, the journal names each *)
(* WorkItem and action as often as it was written.                         *)
THEOREM JournalAccounts == CaseSpec => []JournalTellsRevisions
  BY StoreKept, PTL DEF StoreInv

LEMMA OnceFromInv == StoreInv => OperationsObservedOnce
  <1> SUFFICES ASSUME StoreInv, NEW op \in Operations
               PROVE  LET mine == {a \in Recorded(actions) : actions[a].operation = op}
                          tried == {a \in mine : actions[a].attempt > 0}
                      IN /\ Cardinality({o \in observations : o[1] \in mine}) <= 1
                         /\ Cardinality(tried) <= 1
                         /\ \A a \in tried : actions[a].status \in Ends \union {"running"}
                         /\ \A a \in mine :
                               actions[a].status \in Ends
                                  <=> <<a, actions[a].attempt, actions[a].status>> \in observations
    BY DEF OperationsObservedOnce
  <1> DEFINE mine == {a \in Recorded(actions) : actions[a].operation = op}
             tried == {a \in mine : actions[a].attempt > 0}
             observed == {o \in observations : o[1] \in mine}
  <1>1. /\ actions \in [Actions -> ActionRecords] /\ observations \subseteq Actions \X {1} \X Ends
        /\ mine \subseteq Actions
    BY DEF StoreInv, CaseTypeOK, Recorded
  <1>2. \A a, b \in mine : a = b  BY DEF StoreInv, ActionsInv
  <1>3. Cardinality(tried) <= 1  BY <1>2, AtMostOneElement
  <1>4. \A o, p \in observed : o = p
    <2>1. ASSUME NEW o \in observed
          PROVE  \E end \in Ends : o = <<o[1], 1, end>> /\ actions[o[1]].status = end /\ o[1] \in mine
      <3>1. PICK a \in Actions, end \in Ends : o = <<a, 1, end>>  BY <1>1
      <3> QED BY <3>1 DEF StoreInv, ActionsInv
    <2>2. ASSUME NEW o \in observed, NEW p \in observed PROVE o = p
      <3>1. o[1] = p[1]  BY <2>1, <1>2
      <3> QED BY <2>1, <3>1
    <2> QED BY <2>2
  <1>5. Cardinality(observed) <= 1  BY <1>4, AtMostOneElement
  <1>6. \A a \in tried : actions[a].status \in Ends \union {"running"}
    BY <1>1 DEF StoreInv, ActionsInv, AttemptOf
  <1>7. \A a \in mine : actions[a].status \in Ends
                           <=> <<a, actions[a].attempt, actions[a].status>> \in observations
    <2> SUFFICES ASSUME NEW a \in mine
                 PROVE  actions[a].status \in Ends
                           <=> <<a, actions[a].attempt, actions[a].status>> \in observations
      OBVIOUS
    <2>1. CASE actions[a].status \in Ends
      <3>1. actions[a].attempt = 1  BY <2>1, <1>1 DEF StoreInv, ActionsInv, AttemptOf
      <3> QED BY <2>1, <3>1, <1>1 DEF StoreInv, ActionsInv
    <2>2. CASE actions[a].status \notin Ends  BY <2>2, <1>1
    <2> QED BY <2>1, <2>2
  <1> HIDE DEF mine, tried, observed
  <1> QED BY <1>3, <1>5, <1>6, <1>7 DEF mine, tried, observed

(* For any number of plans, clients and snapshots an operation is run and  *)
(* observed at most once, and its action ends with that observation.       *)
THEOREM ObservedOnce == CaseSpec => []OperationsObservedOnce
  BY StoreKept, OnceFromInv, PTL

\* What was open under a resolved WorkItem after a step was so before, or was just planned.
LEMMA UpwardsStep ==
  ASSUME StoreInv, [CaseNext]_caseVars
  PROVE  OpenUnderResolved' \subseteq OpenUnderResolved \union Absent(items)
  <1> SUFFICES ASSUME NEW k \in Recorded(items), k \in OpenUnderResolved'
               PROVE  k \in OpenUnderResolved
    <2>1. DOMAIN items = Items /\ DOMAIN items' = Items
      BY StoreStep DEF StoreInv, CaseTypeOK
    <2>2. \A k \in OpenUnderResolved' : k \in Items
      BY <2>1 DEF OpenUnderResolved, Recorded
    <2> QED BY <2>1, <2>2 DEF Absent
  <1> DEFINE p == items[k].parent
  <1>1. items \in [Items -> ItemRecords] /\ k \in Items /\ p \in Recorded(items) \union {Nobody}
    BY DEF StoreInv, CaseTypeOK, RecordsInv, Recorded
  <1>2. /\ items'[k].required /\ items'[k].status # "resolved"
        /\ items'[k].parent # Nobody /\ items'[items'[k].parent].status = "resolved"
    BY DEF OpenUnderResolved
  <1>3. CASE UNCHANGED items  BY <1>3, <1>2 DEF OpenUnderResolved
  <1>4. CASE ApplyPlanDelta
    <2>1. \A i \in Recorded(items) : items'[i] = items[i]
      <3>1. PICK addI \in SUBSET Absent(items) : \E newI \in NewItems(addI) : items' = Extended(items, newI)
        BY <1>4 DEF ApplyPlanDelta
      <3>2. PICK newI \in NewItems(addI) : items' = Extended(items, newI)  BY <3>1
      <3>3. DOMAIN newI = addI  BY DEF NewItems
      <3> QED BY <3>2, <3>3 DEF Extended, Absent, Recorded
    <2>2. items'[k] = items[k]  BY <2>1
    <2>3. p \in Recorded(items)  BY <1>1, <1>2, <2>2
    <2> QED BY <1>2, <2>1, <2>2, <2>3 DEF OpenUnderResolved
  <1>5. ASSUME NEW c \in Clients, NEW i \in Items, ApplyDecision(c, i)
        PROVE  k \in OpenUnderResolved
    <2>1. /\ i \in Recorded(items)
          /\ \E to \in ItemStep[items[i].status] :
                items'[i].status = to /\ (to = "resolved" => ChildrenResolved(i))
          /\ items'[i].parent = items[i].parent /\ items'[i].required = items[i].required
          /\ \A j \in Items \ {i} : items'[j] = items[j]
      BY <1>5, DecisionWrites
    <2>2. PICK to \in ItemStep[items[i].status] :
             items'[i].status = to /\ (to = "resolved" => ChildrenResolved(i))
      BY <2>1
    <2>3. items'[k].parent = p /\ items'[k].required = items[k].required
      BY <2>1, <1>1
    <2>4. p \in Recorded(items) /\ p # Nobody /\ items'[p].status = "resolved"
      BY <1>1, <1>2, <2>3
    <2>5. items[i].status = "resolved" => to = "resolved"
      BY <2>2 DEF ItemStep
    <2>6. items[k].status # "resolved"
      BY <1>1, <1>2, <2>1, <2>2, <2>5
    <2>7. items[p].status = "resolved"
      <3>1. CASE p # i  BY <3>1, <2>1, <2>4, <1>1 DEF Recorded
      <3>2. CASE p = i
        <4>1. ChildrenResolved(i)  BY <3>2, <2>2, <2>4
        <4> QED BY <4>1, <3>2, <1>2, <2>3, <2>6 DEF ChildrenResolved
      <3> QED BY <3>1, <3>2
    <2> QED BY <1>2, <2>3, <2>4, <2>6, <2>7 DEF OpenUnderResolved
  <1>6. UNCHANGED items \/ ApplyPlanDelta \/ \E c \in Clients, i \in Items : ApplyDecision(c, i)
    <2>1. CASE UNCHANGED caseVars  BY <2>1 DEF caseVars, records
    <2>2. ASSUME NEW x, RegisterExternalArtifact(x) PROVE UNCHANGED items
      BY <2>2 DEF RegisterExternalArtifact
    <2>3. ASSUME NEW c, Look(c) PROVE UNCHANGED items
      BY <2>3 DEF Look, records
    <2>4. ASSUME NEW c, NEW a, ClaimAction(c, a) \/ CompleteAction(c, a) PROVE UNCHANGED items
      BY <2>4 DEF ClaimAction, CompleteAction
    <2> QED BY <2>1, <2>2, <2>3, <2>4 DEF CaseNext
  <1> QED BY <1>3, <1>4, <1>5, <1>6

(* No decision, with a snapshot of any age, resolves a WorkItem over an    *)
(* open required child or opens such a child again; only a plan can.       *)
THEOREM ResolvedUpwards == CaseSpec => DecisionsResolveUpwards
  <1>1. StoreInv /\ [CaseNext]_caseVars => [OpenUnderResolved' \subseteq OpenUnderResolved \union Absent(items)]_caseVars
    BY UpwardsStep
  <1> QED BY <1>1, StoreKept, PTL DEF CaseSpec, DecisionsResolveUpwards
=============================================================================
