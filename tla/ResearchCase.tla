----------------------------- MODULE ResearchCase -----------------------------
(***************************************************************************)
(* The case of one question (research_case_store.py): the Tasks made of    *)
(* the model's actions, of what tools discover and of what a Checkpoint    *)
(* asks for, and which Articles' texts have been read.  The texts, claims, *)
(* relations and review marks a Task leaves behind are data nothing here   *)
(* decides on.                                                             *)
(***************************************************************************)
EXTENDS Naturals, Sequences, FiniteSets

CONSTANT Articles

ASSUME ResearchCaseAssumption == IsFiniteSet(Articles)

VARIABLES
    task,       \* tasks, in the order of their references
    graphTask,  \* _graph_task_by_article: 0 for none
    keyTask,    \* _action_task_keys: the last Task of an action
    text        \* status of each Article

case == <<task, graphTask, keyTask, text>>

TaskStatuses == {"candidate", "pending", "running", "completed", "failed"}
Tools == {"search_corpus", "fetch_articles", "expand_graph"}

\* What the model can ask for.  A search has a query, the others have Articles.
Action ==
    [tool : {"search_corpus"}, articles : {{}}]
        \union [tool : {"fetch_articles", "expand_graph"}, articles : SUBSET Articles \ {{}}]

Task == [tool : Tools, articles : SUBSET Articles, status : TaskStatuses]
NewTask(action, status) ==
    [tool |-> action.tool, articles |-> action.articles, status |-> status]
FetchOf(a) == [tool |-> "fetch_articles", articles |-> {a}]

Known == {a \in Articles : text[a] # "unknown"}
Fetched == {a \in Articles : text[a] = "fetched"}

InitCase ==
    /\ task = <<>>
    /\ graphTask = [a \in Articles |-> 0]
    /\ keyTask = [x \in Action |-> 0]
    /\ text = [a \in Articles |-> "unknown"]

-----------------------------------------------------------------------------
\* The Task of an Article that is to be fetched alone.
GraphTask(action) ==
    IF \E a \in Articles : action = FetchOf(a)
    THEN graphTask[CHOOSE a \in Articles : action = FetchOf(a)]
    ELSE 0

\* Fault: A completed Task is taken up again.
ContinuedAgain(action) == {GraphTask(action), keyTask[action]} \ {0}

\* Tasks an action goes on with: a completed one is history.
Continued(action) ==
    {t \in {GraphTask(action), keyTask[action]} \ {0} : task[t].status # "completed"}

\* register_action: the Task of the Article comes before that of the action.
Reference(action) ==
    IF Continued(action) = {} THEN Len(task) + 1
    ELSE IF GraphTask(action) \in Continued(action) THEN GraphTask(action)
    ELSE keyTask[action]

Registered(action) ==
    LET r == Reference(action)
    IN  IF r > Len(task)
        THEN Append(task, NewTask(action, "pending"))
        ELSE [task EXCEPT ![r].status =
                IF @ \in {"candidate", "failed"} THEN "pending" ELSE @]

RegisterKey(action) ==
    keyTask' = IF Reference(action) > Len(task)
               THEN [keyTask EXCEPT ![action] = Reference(action)] ELSE keyTask

\* start_task raises unless the Task waits and no other one runs.
Startable(tasks, r) ==
    /\ tasks[r].status \in {"pending", "failed"}
    /\ \A t \in DOMAIN tasks : tasks[t].status # "running"
Started(tasks, r) == [tasks EXCEPT ![r].status = "running"]

-----------------------------------------------------------------------------
\* What a tool brings back (llm_research_tools.py): texts of Articles, Articles
\* it came across, and those of them that become candidates.  A search or a
\* fetch that fails brings nothing; the graph is asked in two parts, and what
\* the first one found stays when the second fails.
Execution == [error : BOOLEAN, texts : SUBSET Articles, found : SUBSET Articles,
              targets : SUBSET Articles]
Executions(action) ==
    {e \in Execution :
        \/ /\ action.tool = "search_corpus"
           /\ e.texts = {} /\ e.targets = e.found \ Known
           /\ e.error => e.found = {}
        \/ /\ action.tool = "fetch_articles"
           /\ e.texts \subseteq action.articles
           /\ e.found = {} /\ e.targets = {}
           /\ e.error => e.texts = {}
        \/ /\ action.tool = "expand_graph"
           /\ e.texts = {} /\ e.targets \subseteq e.found}

TextAfter(e) ==
    [a \in Articles |->
        IF a \in e.texts THEN "fetched"
        ELSE IF a \in e.found /\ text[a] = "unknown" THEN "discovered"
        ELSE text[a]]

\* A text that was read settles every waiting Task that only asks for it.
Reconciled(tasks, fetched) ==
    [t \in DOMAIN tasks |->
        IF /\ tasks[t].tool = "fetch_articles"
           /\ tasks[t].status \in {"candidate", "pending", "failed"}
           /\ tasks[t].articles \subseteq fetched
        THEN [tasks[t] EXCEPT !.status = "completed"] ELSE tasks[t]]

\* The orders in which the Articles of a set may be named.
Orders(S) ==
    {s \in [1 .. Cardinality(S) -> S] : \A i, j \in DOMAIN s : s[i] = s[j] => i = j}

\* New Tasks for Articles that have none, one after the other.
AddTasks(tasks, S, status) ==
    \E order \in Orders({a \in S : graphTask[a] = 0}) :
        /\ task' = tasks \o [i \in DOMAIN order |-> NewTask(FetchOf(order[i]), status)]
        /\ graphTask' = [a \in Articles |->
              IF \E i \in DOMAIN order : order[i] = a
              THEN Len(tasks) + (CHOOSE i \in DOMAIN order : order[i] = a)
              ELSE graphTask[a]]

CompleteToolTask(r, e) ==
    LET fetched == Fetched \union e.texts
        ended == [task EXCEPT ![r].status = IF e.error THEN "failed" ELSE "completed"]
        others == Reconciled(ended, fetched)
    IN  /\ text' = TextAfter(e)
        /\ AddTasks([others EXCEPT ![r] = ended[r]], e.targets \ fetched, "candidate")
        /\ UNCHANGED keyTask

-----------------------------------------------------------------------------
\* Fault: A Task that brought no text is opened again.
PromotedAgain(asked) ==
    [t \in DOMAIN task |->
        IF \E a \in asked \ Fetched : graphTask[a] = t
        THEN [task[t] EXCEPT !.status = "pending"] ELSE task[t]]

\* create_checkpoint: the Articles it asks for are to be fetched next.
Promoted(asked) ==
    [t \in DOMAIN task |->
        IF /\ \E a \in asked \ Fetched : graphTask[a] = t
           /\ task[t].status \in {"candidate", "failed"}
        THEN [task[t] EXCEPT !.status = "pending"] ELSE task[t]]

CreateCheckpoint(asked) ==
    /\ AddTasks(Promoted(asked), asked \ Fetched, "pending")
    /\ UNCHANGED <<keyTask, text>>

\* runnable_tasks: what a Checkpoint left to do.
Runnable ==
    {t \in DOMAIN task :
        /\ task[t].status = "pending"
        /\ ~(task[t].tool = "fetch_articles" /\ task[t].articles \subseteq Fetched)}

\* ready_blocking_article_ids: texts the case waits for.
Blocking(named) ==
    (named \union UNION {task[t].articles : t \in {r \in Runnable : task[r].tool = "fetch_articles"}})
        \ Fetched

\* Each reference leads to a Task of the case.
TypeOKCase ==
    /\ task \in Seq(Task)
    /\ graphTask \in [Articles -> 0 .. Len(task)]
    /\ keyTask \in [Action -> 0 .. Len(task)]
    /\ text \in [Articles -> {"unknown", "discovered", "fetched"}]
=============================================================================
