-------------------------- MODULE CaseTransactions --------------------------
(***************************************************************************)
(* One case of the transactional store: agent_core/transactions.py on top  *)
(* of adapters/persistence/in_memory.py.  A unit of work holds the lock of *)
(* the store from begin to commit or rollback, so that each transaction is *)
(* one action; between two transactions a client holds what it read in a   *)
(* snapshot and other clients may commit.  A transaction that is refused   *)
(* leaves the store as it is.                                              *)
(***************************************************************************)
EXTENDS Integers, FiniteSets

CONSTANTS
    Items,          \* WorkItem ids
    Root,           \* the WorkItem of create_case
    CaseHypotheses, \* Hypothesis ids
    Actions,        \* Action ids
    Operations,     \* client_operation_id
    Artifacts,      \* Artifact ids
    Clients,        \* threads that use the store
    BirthStatuses,  \* bound: statuses plans give new WorkItems and Hypotheses
    MaxDelta,       \* bound: records a plan adds
    MaxVersion      \* bound: commits of the case

ItemStatuses ==
    {"proposed", "ready", "in_progress", "resolved", "insufficient", "blocked", "cancelled"}
HypothesisStatuses ==
    {"proposed", "testing", "supported", "partially_supported", "refuted", "inconclusive",
     "superseded"}
Ends == {"succeeded", "failed", "timeout", "cancelled"}

ASSUME TransactionsAssumption ==
    /\ IsFiniteSet(Items) /\ Root \in Items
    /\ IsFiniteSet(Actions) /\ IsFiniteSet(Operations)
    /\ MaxDelta \in Nat /\ MaxVersion \in Nat \ {0}

\* new_stable_id: an id begins with the kind of its record; a dependency is known by its ends.
ASSUME IdsAssumption ==
    /\ Items \intersect (Actions \union CaseHypotheses \union Artifacts) = {}
    /\ Actions \intersect (CaseHypotheses \union Artifacts) = {}
    /\ \A i, j \in Items : <<i, j>> \notin Items \union Actions

VARIABLES
    items,          \* WorkItem records
    dependencies,   \* <<dependent, prerequisite>>
    hypotheses,     \* Hypothesis records
    actions,        \* Action records
    observations,   \* Observation records: <<action, attempt, status>>
    artifacts,      \* Artifact records
    version,        \* case_version
    events,         \* CaseEvent records, as the number of those that name a record
    seen            \* the snapshot a client works with

records == <<items, dependencies, hypotheses, actions, observations, artifacts>>
caseVars == <<records, version, events, seen>>

Nobody == "none"

NoItem == [status |-> "absent", parent |-> Nobody, required |-> FALSE, revision |-> 0]
NoHypothesis == [status |-> "absent", item |-> Root, revision |-> 0]
NoAction == [status |-> "absent", operation |-> Nobody, attempt |-> 0, revision |-> 0]

Recorded(r) == {x \in DOMAIN r : r[x].status # "absent"}
Absent(r) == DOMAIN r \ Recorded(r)

Snapshot == [items |-> items, hypotheses |-> hypotheses, actions |-> actions,
             version |-> version]

CaseInit ==
    /\ items = [i \in Items |->
          IF i = Root THEN [status |-> "ready", parent |-> Nobody, required |-> TRUE,
                            revision |-> 1]
          ELSE NoItem]
    /\ dependencies = {}
    /\ hypotheses = [h \in CaseHypotheses |-> NoHypothesis]
    /\ actions = [a \in Actions |-> NoAction]
    /\ observations = {}
    /\ artifacts = {}
    /\ version = 1
    /\ events = [x \in Items \union Actions |-> IF x = Root THEN 1 ELSE 0]
    /\ seen = [c \in Clients |-> Snapshot]

\* store.snapshot; with no commit since the last one nothing new is seen.
Look(c) ==
    /\ seen[c].version # version
    /\ seen' = [seen EXCEPT ![c] = Snapshot]
    /\ UNCHANGED <<records, version, events>>

\* One version more and its event, in the same assignment as the records.
Commit(refs) ==
    /\ version < MaxVersion
    /\ version' = version + 1
    /\ events' = [x \in DOMAIN events |-> IF x \in refs THEN events[x] + 1 ELSE events[x]]
    /\ UNCHANGED seen

-----------------------------------------------------------------------------
(* Plans *)

Acyclic(edges) ==
    \A S \in SUBSET Items \ {{}} : \E i \in S : \A j \in S : <<i, j>> \notin edges

Parents(all) == {<<i, all[i].parent>> : i \in {k \in Items : all[k].parent # Nobody}}

Related(all, edges) ==
    /\ \A i \in Recorded(all) : all[i].parent \in Recorded(all) \union {Nobody}
    /\ \A d \in edges : d[1] \in Recorded(all) /\ d[2] \in Recorded(all)
    /\ Acyclic(Parents(all))
    /\ Acyclic(edges)

\* Fault: the operations of the plan are only compared with one another.
FreshInPlan(added, operation) ==
    \A a \in added : \A b \in added \ {a} : operation[b] # operation[a]

\* Every action has a client operation; the code does not compare those that have none.
Fresh(added, operation) ==
    \A a \in added :
       /\ \A b \in Recorded(actions) : actions[b].operation # operation[a]
       /\ \A b \in added \ {a} : operation[b] # operation[a]

NewItems(added) ==
    [added -> [status : BirthStatuses \intersect ItemStatuses, parent : Items \union {Nobody},
               required : BOOLEAN, revision : {1}]]

NewHypotheses(added) ==
    [added -> [status : BirthStatuses \intersect HypothesisStatuses, item : Items, revision : {1}]]

NewActions(added) ==
    [added -> [status : {"proposed", "queued"}, operation : Operations, attempt : {0},
               revision : {1}]]

Extended(r, new) == [x \in DOMAIN r |-> IF x \in DOMAIN new THEN new[x] ELSE r[x]]

\* WorkItems, dependencies, CaseHypotheses and Actions in one commit.  A plan made
\* for another case version may be refused: nothing happens then.
ApplyPlanDelta ==
    /\ \E addI \in SUBSET Absent(items), addD \in SUBSET ((Items \X Items) \ dependencies),
          addH \in SUBSET Absent(hypotheses), addA \in SUBSET Absent(actions) :
          /\ Cardinality(addI) + Cardinality(addD) + Cardinality(addH) + Cardinality(addA)
                \in 1 .. MaxDelta
          /\ \E newI \in NewItems(addI), newH \in NewHypotheses(addH), newA \in NewActions(addA) :
                /\ Related(Extended(items, newI), dependencies \union addD)
                /\ \A h \in addH : newH[h].item \in Recorded(items) \union addI
                /\ Fresh(addA, [a \in addA |-> newA[a].operation])
                /\ items' = Extended(items, newI)
                /\ dependencies' = dependencies \union addD
                /\ hypotheses' = Extended(hypotheses, newH)
                /\ actions' = Extended(actions, newA)
                /\ Commit(addI \union addD \union addH \union addA)
    /\ UNCHANGED <<observations, artifacts>>

-----------------------------------------------------------------------------
(* Actions: claimed before the tool runs, completed with its result *)

\* Fault: the record keeps its revision.
StatusOnly(r, x, status) == [r EXCEPT ![x].status = status]

\* model_copy with the next revision.
Updated(r, x, status) == [r EXCEPT ![x].status = status, ![x].revision = @ + 1]

\* A write of a record that the client knows as it is.
Current(c, kind, x, r) == seen[c][kind][x].revision = r[x].revision

Claimable(a) == actions[a].status \in {"proposed", "queued"}

ClaimAction(c, a) ==
    /\ a \in Recorded(actions)
    /\ Current(c, "actions", a, actions)
    /\ Claimable(a)
    /\ actions' = [Updated(actions, a, "running") EXCEPT ![a].attempt = @ + 1]
    /\ Commit({a})
    /\ UNCHANGED <<items, dependencies, hypotheses, observations, artifacts>>

CompleteAction(c, a) ==
    /\ a \in Recorded(actions)
    /\ Current(c, "actions", a, actions)
    /\ actions[a].status = "running"
    /\ seen[c].actions[a].attempt = actions[a].attempt
    /\ \E end \in Ends, produced \in SUBSET (Artifacts \ artifacts) :
          /\ observations' = observations \union {<<a, actions[a].attempt, end>>}
          /\ artifacts' = artifacts \union produced
          /\ actions' = Updated(actions, a, end)
          /\ Commit({a} \union produced)
    /\ UNCHANGED <<items, dependencies, hypotheses>>

RegisterExternalArtifact(x) ==
    /\ x \notin artifacts
    /\ artifacts' = artifacts \union {x}
    /\ Commit({x})
    /\ UNCHANGED <<items, dependencies, hypotheses, actions, observations>>

-----------------------------------------------------------------------------
(* Decisions *)

ItemStep ==
    [proposed |-> {"proposed", "ready", "in_progress", "cancelled", "blocked"},
     ready |-> {"ready", "in_progress", "resolved", "cancelled", "blocked"},
     in_progress |-> {"in_progress", "resolved", "insufficient", "blocked", "cancelled"},
     resolved |-> {"resolved"}, insufficient |-> {"insufficient"},
     blocked |-> {"blocked", "ready"}, cancelled |-> {"cancelled"}]

HypothesisStep(from, to) ==
    IF from \in {"proposed", "testing"}
    THEN from = "testing" => to # "proposed"
    ELSE to \in {from, "superseded"}

Evidence == artifacts \union {o[1] : o \in observations}

\* Fault: only the children that still wait count as open.
ChildrenStarted(i) ==
    \A k \in Recorded(items) :
       items[k].parent = i /\ items[k].required => items[k].status \notin {"proposed", "ready"}

ChildrenResolved(i) ==
    \A k \in Recorded(items) :
       items[k].parent = i /\ items[k].required => items[k].status = "resolved"

\* A judgement of a WorkItem, with or without one of its CaseHypotheses.
ApplyDecision(c, i) ==
    /\ i \in Recorded(items)
    /\ Current(c, "items", i, items)
    /\ \E to \in ItemStep[items[i].status] :
          /\ to = "resolved" => ChildrenResolved(i)
          /\ items' = Updated(items, i, to)
    /\ \/ UNCHANGED hypotheses
       \/ \E h \in Recorded(hypotheses), to \in HypothesisStatuses :
             /\ hypotheses[h].item = i
             /\ Current(c, "hypotheses", h, hypotheses)
             /\ HypothesisStep(hypotheses[h].status, to)
             /\ to \in {"supported", "refuted"} => Evidence # {}
             /\ hypotheses' = Updated(hypotheses, h, to)
    /\ Commit({i})
    /\ UNCHANGED <<dependencies, actions, observations, artifacts>>

CaseNext ==
    \/ ApplyPlanDelta
    \/ \E x \in Artifacts : RegisterExternalArtifact(x)
    \/ \E c \in Clients :
          \/ Look(c)
          \/ \E a \in Actions : ClaimAction(c, a) \/ CompleteAction(c, a)
          \/ \E i \in Items : ApplyDecision(c, i)

CaseSpec == CaseInit /\ [][CaseNext]_caseVars

-----------------------------------------------------------------------------
(* Properties *)

ItemRecords == [status : ItemStatuses \union {"absent"}, parent : Items \union {Nobody},
                required : BOOLEAN, revision : Nat]
HypothesisRecords == [status : HypothesisStatuses \union {"absent"}, item : Items,
                      revision : Nat]
ActionRecords == [status : {"absent", "proposed", "queued", "running"} \union Ends,
                  operation : Operations \union {Nobody}, attempt : {0, 1}, revision : Nat]

\* The records, and the snapshots of the clients, keep the shape of the models,
\* and an action is attempted at most once.
CaseTypeOK ==
    /\ items \in [Items -> ItemRecords]
    /\ dependencies \subseteq Items \X Items
    /\ hypotheses \in [CaseHypotheses -> HypothesisRecords]
    /\ actions \in [Actions -> ActionRecords]
    /\ observations \subseteq Actions \X {1} \X Ends
    /\ artifacts \subseteq Artifacts
    /\ version \in Nat \ {0}
    /\ events \in [Items \union Actions -> Nat]
    /\ \A c \in Clients : seen[c].version \in 1 .. version

\* An operation of a client is run and observed once, however often its plan is
\* sent again and whichever clients claim and complete its actions with stale
\* snapshots (client_operation_id, claim_action, complete_action).
OperationsObservedOnce ==
    \A op \in Operations :
       LET mine == {a \in Recorded(actions) : actions[a].operation = op}
           tried == {a \in mine : actions[a].attempt > 0}
       IN /\ Cardinality({o \in observations : o[1] \in mine}) <= 1
          /\ Cardinality(tried) <= 1
          /\ \A a \in tried : actions[a].status \in Ends \union {"running"}
          /\ \A a \in mine :
                actions[a].status \in Ends
                   <=> <<a, actions[a].attempt, actions[a].status>> \in observations

\* The journal accounts for each write: a WorkItem or an action has as many
\* revisions as events name it.  (decision.applied leaves out the Hypothesis.)
JournalTellsRevisions ==
    /\ \A i \in Items : items[i].revision = events[i]
    /\ \A a \in Actions : actions[a].revision = events[a]

OpenUnderResolved ==
    {i \in Recorded(items) :
        /\ items[i].required /\ items[i].status # "resolved"
        /\ items[i].parent # Nobody /\ items[items[i].parent].status = "resolved"}

\* Only a plan can leave a required WorkItem open under a resolved one: no
\* decision resolves a parent too early or opens a child again.
DecisionsResolveUpwards ==
    [][OpenUnderResolved' \subseteq OpenUnderResolved \union Absent(items)]_caseVars
=============================================================================
