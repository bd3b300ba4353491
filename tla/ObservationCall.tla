--------------------------- MODULE ObservationCall ---------------------------
(***************************************************************************)
(* The call that judges fetched texts (structured_json.py), from the loop  *)
(* that makes it to the store.  Every WorkItem with a new text gets a      *)
(* session of its own; the sessions run in a pool until a deadline, next   *)
(* to the search for a next action of other WorkItems.  What is reported   *)
(* as settled is audited by a second pool.  The loop checks the merged     *)
(* answer, repairs the parts that break the contract, and on a timeout     *)
(* keeps what was finished and goes to the final answer.                   *)
(***************************************************************************)
EXTENDS Naturals, FiniteSets

CONSTANTS
    WorkItems,     \* WorkItems of the case, with one Hypothesis each
    Parent,        \* parent_work_item_id
    NoParent,      \* the parent of a WorkItem at the root
    MaxAttempts,   \* MAX_SOLVER_DECISION_ATTEMPTS
    MaxFetches,    \* bound: rounds of fetched texts
    Traced         \* bound: WorkItems that have Graph candidates

ASSUME ObservationAssumption ==
    /\ IsFiniteSet(WorkItems)
    /\ Parent \in [WorkItems -> WorkItems \union {NoParent}]
    /\ NoParent \notin WorkItems
    /\ MaxAttempts \in Nat \ {0}
    /\ MaxFetches \in Nat

VARIABLES
    item,         \* state of each WorkItem
    hypothesis,   \* its Hypothesis
    dependency,   \* its stored dependency decision
    arrived,      \* WorkItems with a fetched text no call has integrated
    stepTimeout,  \* cycle_step_timeout
    fetches,      \* rounds of fetched texts so far
    deferred,     \* WorkItems with a Graph candidate put off and not fetched
    phase,        \* where the run is
    attempt,      \* decision_attempt
    scope,        \* WorkItems with a session in this call
    task,         \* the future of each WorkItem
    reply,        \* what the call has for each WorkItem
    retained,     \* retained_observation_decisions
    heard,        \* history: what a session made of each Hypothesis
    confirmed     \* history: what an audit made of each dependency

store == <<item, hypothesis, dependency, arrived, stepTimeout>>
call == <<attempt, scope, task, reply, retained>>
vars == <<store, fetches, deferred, phase, call, heard, confirmed>>

\* unresolved: no judgment yet; gaps: text is still missing, whatever the
\* judgment; settled: judged on evidence and nothing is missing.
Views == {"unresolved", "gaps", "settled"}
Statuses == {"not_required", "needs_action", "resolved"}
Completed == {"not_required", "resolved"}

\* The part of a SolverDecision about one WorkItem.
Reply == [view : Views, updates : BOOLEAN, status : Statuses \union {"none"},
          asks : BOOLEAN, resolves : BOOLEAN]
NoReply == [view |-> "unresolved", updates |-> FALSE, status |-> "none",
            asks |-> FALSE, resolves |-> FALSE]
Nothing == [w \in WorkItems |-> NoReply]

Open == {w \in WorkItems : item[w] = "open"}
Children(w) == {c \in WorkItems : Parent[c] = w}

Init ==
    /\ item = [w \in WorkItems |-> "open"]
    /\ hypothesis \in [WorkItems -> {"unresolved", "gaps"}]
    /\ dependency = [w \in WorkItems |-> "none"]
    /\ arrived = {}
    /\ stepTimeout = FALSE
    /\ fetches = 0
    /\ deferred = {}
    /\ phase = "research"
    /\ attempt = 1
    /\ scope = {}
    /\ task = [w \in WorkItems |-> "none"]
    /\ reply = Nothing
    /\ retained = Nothing
    /\ heard = [w \in WorkItems |-> "none"]
    /\ confirmed = [w \in WorkItems |-> "none"]

\* Between two calls the loop searches, fetches texts for open WorkItems and
\* reviews Graph candidates, of which it may put some off.
Fetch ==
    /\ phase = "research" /\ arrived = {}
    /\ fetches < MaxFetches
    /\ fetches' = fetches + 1
    /\ arrived' \in SUBSET Open \ {{}}
    /\ deferred' \in SUBSET (Open \intersect Traced)
    /\ UNCHANGED <<item, hypothesis, dependency, stepTimeout, phase, call, heard, confirmed>>

\* One batch of sessions.
Batch(observed) ==
    /\ phase' = "sessions"
    /\ scope' = observed
    /\ task' = [w \in WorkItems |-> IF w \in observed THEN "running" ELSE "none"]
    /\ reply' = Nothing

Call ==
    /\ phase = "research" /\ arrived # {}
    /\ attempt' = 1
    /\ retained' = Nothing
    /\ Batch(arrived)
    /\ UNCHANGED <<store, fetches, deferred, heard, confirmed>>

-----------------------------------------------------------------------------
End(w, how) == task' = [task EXCEPT ![w] = how]

\* The histories follow the answer that counts: a valid part is not replaced.
Note(history, w, what) ==
    IF retained[w] = NoReply THEN [history EXCEPT ![w] = what] ELSE history

\* A session judges the text: it may update the Hypothesis and decide about the
\* lower norm.
Session(w) ==
    /\ phase = "sessions" /\ task[w] = "running"
    /\ End(w, "done")
    /\ \E view \in Views, updates \in BOOLEAN, status \in Statuses \union {"none"} :
          /\ updates \/ view = hypothesis[w]
          /\ reply' = [reply EXCEPT ![w] =
               [view |-> view, updates |-> updates, status |-> status, asks |-> FALSE,
                resolves |-> FALSE]]
          /\ heard' = Note(heard, w, view)
    /\ UNCHANGED <<store, fetches, deferred, phase, attempt, scope, retained, confirmed>>

\* The provider gives an answer that is none.  A provider that gives none in
\* time is a future that still runs at the deadline.
Break(w) ==
    /\ phase \in {"sessions", "audit"} /\ task[w] = "running"
    /\ End(w, "protocol_error")
    /\ UNCHANGED <<store, fetches, deferred, phase, attempt, scope, reply, retained, heard, confirmed>>

\* Fault: The audit keeps the gaps but not its verdict.
AuditedGaps(w, verdict) ==
    [reply[w] EXCEPT !.view =
        IF verdict = "needs_action" /\ hypothesis[w] = "gaps" THEN "gaps" ELSE @]

\* Second opinion on a settled dependency.  One that is reported as confirmed
\* without the texts of two Articles counts as needs_action.  When a WorkItem
\* is reopened, a Hypothesis does not lose its last gap.
Audited(w, verdict) ==
    [reply[w] EXCEPT
        !.status = verdict,
        !.view = IF /\ verdict = "needs_action"
                    /\ hypothesis[w] = "gaps" /\ reply[w].updates
                 THEN "gaps" ELSE reply[w].view]

Audit(w) ==
    /\ phase = "audit" /\ task[w] = "running"
    /\ End(w, "done")
    /\ \E verdict \in Statuses :
          /\ reply' = [reply EXCEPT ![w] = Audited(w, verdict)]
          /\ heard' = Note(heard, w, Audited(w, verdict).view)
          /\ confirmed' = Note(confirmed, w, verdict)
    /\ UNCHANGED <<store, fetches, deferred, phase, attempt, scope, retained>>

-----------------------------------------------------------------------------
\* The state a decision leads to.
ViewAfter(d, w) == IF d[w].updates THEN d[w].view ELSE hypothesis[w]
StatusAfter(d, w) == IF d[w].status # "none" THEN d[w].status ELSE dependency[w]
ItemAfter(d, w) == IF d[w].resolves THEN "resolved" ELSE item[w]

\* Fault: A dependency of an earlier call does not count.
ReadyByReply(d) ==
    {w \in Open \ deferred : d[w].status # "needs_action" /\ ViewAfter(d, w) = "settled"}

\* WorkItems the adapter closes: nothing of theirs is open or put off, nor of their
\* children.
Ready(d) ==
    {w \in Open \ deferred :
        StatusAfter(d, w) # "needs_action" /\ ViewAfter(d, w) = "settled"}
Resolvable(d) ==
    UNION {S \in SUBSET Ready(d) :
             \A w \in S : Children(w) \subseteq S \union (WorkItems \ Open)}
Derived(d) == [w \in WorkItems |-> [d[w] EXCEPT !.resolves = w \in Resolvable(d)]]

\* validation.py: the rules that the parts of a decision can break together.
ClosedTree(d) ==
    \A w \in WorkItems : \A c \in Children(w) :
        ItemAfter(d, w) = "resolved" => ItemAfter(d, c) = "resolved"
Valid(d) ==
    /\ ClosedTree(d)
    /\ \A w \in WorkItems :
          /\ d[w].asks \/ d[w].status = "needs_action" => ItemAfter(d, w) = "open"
          /\ d[w].status = "needs_action" /\ d[w].updates => d[w].view = "gaps"

Only(d, S) == [w \in WorkItems |-> IF w \in S THEN d[w] ELSE NoReply]
Said(d) == {w \in WorkItems : d[w] # NoReply}

\* The loop is done with the texts, one way or the other.
EndCall ==
    /\ attempt' = 1
    /\ scope' = {}
    /\ task' = [w \in WorkItems |-> "none"]
    /\ reply' = Nothing
    /\ retained' = Nothing
    /\ heard' = [w \in WorkItems |-> "none"]
    /\ confirmed' = [w \in WorkItems |-> "none"]

\* SolverCheckpointTimeout: what was finished is stored if it is valid, and the
\* run turns to its final answer.  A checkpoint holds no dependency decision.
Checkpoint(d) ==
    LET kept == [w \in WorkItems |-> [d[w] EXCEPT !.status = "none", !.asks = FALSE]]
    IN  /\ stepTimeout' = TRUE
        /\ phase' = "closing"
        /\ IF Valid(kept)
           THEN /\ hypothesis' = [w \in WorkItems |-> ViewAfter(kept, w)]
                /\ item' = [w \in WorkItems |-> ItemAfter(kept, w)]
           ELSE UNCHANGED <<hypothesis, item>>
        /\ UNCHANGED <<dependency, arrived>>
        /\ EndCall

Fail == phase' = "failed" /\ EndCall /\ UNCHANGED store

\* wait(): every future has ended, or the deadline has passed; what runs on is
\* forgotten.
CollectSessions ==
    /\ phase = "sessions"
    /\ LET late == {w \in scope : task[w] = "running"}
           audited == {w \in scope : reply[w].status \in Completed}
       IN  IF \E w \in scope : task[w] = "protocol_error"
           THEN Fail
           ELSE IF late # {}
           THEN Checkpoint(Derived(reply))
           ELSE /\ task' = [w \in WorkItems |-> IF w \in audited THEN "running" ELSE "none"]
                /\ phase' = IF audited = {} THEN "decide" ELSE "audit"
                /\ UNCHANGED <<store, attempt, scope, reply, retained, heard, confirmed>>
    /\ UNCHANGED <<fetches, deferred>>

\* A future without an answer ends by the deadline or by the timeout of its own
\* request; then the order of the futures says which failure counts.
CollectAudits ==
    /\ phase = "audit"
    /\ \/ /\ \E w \in WorkItems : task[w] = "running"
          /\ Checkpoint(reply)
       \/ /\ \E w \in WorkItems : task[w] = "protocol_error"
          /\ Fail
       \/ /\ \A w \in WorkItems : task[w] \in {"none", "done"}
          /\ phase' = "decide"
          /\ UNCHANGED <<store, call, heard, confirmed>>
    /\ UNCHANGED <<fetches, deferred>>

\* A WorkItem whose lower norm is still missing and that got no new text: the
\* same batch looks for its next action.
PendingActions ==
    IF scope = {} THEN {} ELSE {w \in Open \ arrived : dependency[w] = "needs_action"}

\* Tool requests come with the sessions' answers, from the pending actions and,
\* where an action is needed and none was named, from one more question.  None
\* of them has to come.  A pending action repeats the stored dependency.
Requested(d, asking) ==
    [w \in WorkItems |->
       [d[w] EXCEPT !.asks = w \in asking,
                    !.status = IF w \in asking \intersect PendingActions
                               THEN dependency[w] ELSE @]]

\* The loop gets the decision: what an earlier attempt had right goes before
\* what this one says.
Decide ==
    /\ phase = "decide"
    /\ \E asking \in SUBSET (scope \union PendingActions) :
         LET full == Derived(Requested(reply, asking))
         IN  reply' = [w \in WorkItems |->
                         IF retained[w] # NoReply THEN retained[w] ELSE full[w]]
    /\ phase' = "apply"
    /\ UNCHANGED <<store, fetches, deferred, attempt, scope, task, retained, heard, confirmed>>

Store ==
    /\ phase = "apply" /\ Valid(reply)
    /\ hypothesis' = [w \in WorkItems |-> ViewAfter(reply, w)]
    /\ dependency' = [w \in WorkItems |-> StatusAfter(reply, w)]
    /\ item' = [w \in WorkItems |-> ItemAfter(reply, w)]
    /\ arrived' = {}
    /\ phase' = "research"
    /\ EndCall
    /\ UNCHANGED <<stepTimeout, fetches, deferred>>

\* Fault: A repair forgets the valid parts.
RetryForgetting(again, keep) ==
    IF attempt = MaxAttempts
    THEN Fail
    ELSE /\ attempt' = attempt + 1
         /\ retained' = Nothing
         /\ Batch(again)
         /\ UNCHANGED <<store, heard, confirmed>>

\* The next attempt, of the WorkItems in `again`; after the last one the run fails.
Retry(again, keep) ==
    IF attempt = MaxAttempts
    THEN Fail
    ELSE /\ attempt' = attempt + 1
         /\ retained' = keep
         /\ Batch(again)
         /\ UNCHANGED <<store, heard, confirmed>>

\* Requests for what was done before are dropped and the rest is applied, or
\* the whole call is made again.
Reject ==
    /\ phase = "apply"
    /\ \E asking \in SUBSET {w \in WorkItems : reply[w].asks} \ {{}} :
         LET rest == [w \in WorkItems |-> [reply[w] EXCEPT !.asks = @ /\ w \notin asking]]
         IN  IF Valid(rest)
             THEN /\ reply' = rest
                  /\ UNCHANGED <<store, phase, attempt, scope, task, retained, heard,
                                 confirmed>>
             ELSE Retry(arrived, retained)
    /\ UNCHANGED <<fetches, deferred>>

\* A decision that breaks the contract: the parts that hold on their own are
\* kept and only the others are asked for again.
Repair ==
    /\ phase = "apply" /\ ~Valid(reply)
    /\ LET valid == {w \in Said(reply) : Valid(Only(reply, {w}))}
           invalid == Said(reply) \ valid
       IN  IF valid # {} /\ invalid # {}
           THEN Retry(arrived \intersect invalid, Only(reply, valid))
           ELSE Retry(arrived, retained)
    /\ UNCHANGED <<fetches, deferred>>

-----------------------------------------------------------------------------
\* Finalization may name an open WorkItem only with a reason that it is open; a
\* candidate put off is one.
Explained(w) ==
    hypothesis[w] # "settled" \/ dependency[w] = "needs_action" \/ w \in deferred

\* The research ends: limits, or the Solver has what it needs.
Close ==
    /\ phase = "research" /\ arrived = {}
    /\ phase' = "closing"
    /\ UNCHANGED <<store, fetches, deferred, call, heard, confirmed>>

Finalize ==
    /\ phase = "closing"
    /\ \/ (\A w \in Open : Explained(w)) /\ phase' = "answered"
       \/ phase' = "failed"
    /\ UNCHANGED <<store, fetches, deferred, call, heard, confirmed>>

Futures == \E w \in WorkItems : Session(w) \/ Break(w) \/ Audit(w)
Next ==
    \/ Fetch \/ Call \/ Futures \/ CollectSessions \/ CollectAudits
    \/ Decide \/ Store \/ Reject \/ Repair \/ Close \/ Finalize

Spec == Init /\ [][Next]_vars

-----------------------------------------------------------------------------
(* Properties *)

\* A call has sessions for the WorkItems with new texts only, its attempts are
\* bounded, and what a future leaves is a part of a decision.
TypeOK ==
    /\ item \in [WorkItems -> {"open", "resolved"}]
    /\ hypothesis \in [WorkItems -> Views]
    /\ dependency \in [WorkItems -> Statuses \union {"none"}]
    /\ arrived \subseteq WorkItems
    /\ stepTimeout \in BOOLEAN
    /\ fetches \in 0 .. MaxFetches
    /\ deferred \subseteq WorkItems
    /\ phase \in {"research", "sessions", "audit", "decide", "apply", "closing",
                  "answered", "failed"}
    /\ attempt \in 1 .. MaxAttempts
    /\ scope \subseteq arrived
    /\ task \in [WorkItems -> {"none", "running", "done", "protocol_error"}]
    /\ reply \in [WorkItems -> Reply]
    /\ retained \in [WorkItems -> Reply]
    /\ heard \in [WorkItems -> Views \union {"none"}]
    /\ confirmed \in [WorkItems -> Statuses \union {"none"}]

\* A lower norm is recorded as not needed or as confirmed only when an audit of
\* these texts came to the same result.
SettledByAudit ==
    [][\A w \in WorkItems :
         dependency'[w] # dependency[w] /\ dependency'[w] \in Completed
           => confirmed[w] = dependency'[w]]_vars

\* A closed WorkItem has nothing left to find: its Hypothesis is judged without
\* gaps and its lower norm is not waited for (agent_contract_semantics.md).
Complete(w) == hypothesis[w] = "settled" /\ dependency[w] # "needs_action"
ResolvedIsComplete == \A w \in WorkItems : item[w] = "resolved" => Complete(w)

\* No call that ends in time closes a WorkItem too early, whatever the audits, the
\* repairs and the calls before it have left (_derive_observation_work_item_updates).
ResolvedInTimeIsComplete == stepTimeout \/ ResolvedIsComplete

\* Texts count as integrated only together with what a session said of them,
\* however often the other parts of the decision had to be repaired.
AssessmentsKept ==
    [][arrived' = {} => \A w \in arrived : hypothesis'[w] = heard[w]]_vars
=============================================================================
