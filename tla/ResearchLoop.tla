----------------------------- MODULE ResearchLoop -----------------------------
(***************************************************************************)
(* The iterative research of one question (llm_research_loop.py): in each  *)
(* cycle the Tasks the last Checkpoint left, two stages in which the model *)
(* asks for tools, and an integration that makes the next Checkpoint.      *)
(***************************************************************************)
EXTENDS ResearchCase

CONSTANTS
    NoArticle,     \* an open item without an Article
    MaxCycles,     \* llm_research_max_turns
    MaxActions,    \* llm_research_max_actions_per_turn
    MaxToolCalls   \* llm_research_max_tool_calls

ASSUME ResearchLoopAssumption ==
    /\ NoArticle \notin Articles
    /\ MaxCycles \in Nat /\ MaxActions \in Nat /\ MaxToolCalls \in Nat

VARIABLES
    phase,       \* where the loop is
    stage,       \* resume_pending, explore or deepen
    cycle,       \* cycles started
    resume,      \* Tasks to run before the model is asked
    queue,       \* actions of the turn still to be run
    toolCalls,   \* tool_calls
    selected,    \* the last valid turn of the cycle selected evidence
    checkpoint,  \* the last valid Checkpoint
    outcome      \* status of the research

turn == <<stage, resume, queue, selected>>
vars == <<case, phase, turn, cycle, toolCalls, checkpoint, outcome>>

Verdicts == {"continue", "ready", "insufficient"}
Items == Articles \union {NoArticle}
Checkpoint == [status : Verdicts, named : SUBSET Articles]

Init ==
    /\ InitCase
    /\ phase = "cycle"
    /\ stage = "resume"
    /\ cycle = 0
    /\ resume = <<>>
    /\ queue = <<>>
    /\ toolCalls = 0
    /\ selected = FALSE
    /\ checkpoint = [status |-> "continue", named |-> {}]
    /\ outcome = "none"

SmallerOf(m, n) == IF m < n THEN m ELSE n
RunningTask == CHOOSE t \in DOMAIN task : task[t].status = "running"

\* The research ends with a failure, or with what the last Checkpoint says.
Finish(status) ==
    /\ phase' = "done"
    /\ outcome' = status

\* The oldest runnable Tasks, as many as the budget allows.
Resumed ==
    LET n == SmallerOf(MaxActions, MaxToolCalls - toolCalls)
        older(t) == Cardinality({r \in Runnable : r < t})
        first == {t \in Runnable : older(t) < n}
    IN  [i \in 1 .. Cardinality(first) |-> CHOOSE t \in first : older(t) = i - 1]

BeginCycle ==
    /\ phase = "cycle"
    /\ \/ cycle = MaxCycles /\ Finish(checkpoint.status)
          /\ UNCHANGED <<turn, cycle>>
       \/ cycle < MaxCycles /\ Finish("timeout")
          /\ UNCHANGED <<turn, cycle>>
       \/ /\ cycle < MaxCycles
          /\ cycle' = cycle + 1
          /\ phase' = "act"
          /\ stage' = "resume"
          /\ resume' = Resumed
          /\ queue' = <<>>
          /\ selected' = FALSE
          /\ UNCHANGED outcome
    /\ UNCHANGED <<case, toolCalls, checkpoint>>

\* start_task; what it raises ends the research.
Start(tasks, r) ==
    IF Startable(tasks, r)
    THEN task' = Started(tasks, r) /\ phase' = "tool"
    ELSE task' = tasks /\ phase' = "error"

ResumeTask ==
    /\ phase = "act" /\ resume # <<>>
    /\ Start(task, Head(resume))
    /\ resume' = Tail(resume)
    /\ UNCHANGED <<graphTask, keyTask, text, stage, queue, selected, cycle, toolCalls,
                   checkpoint, outcome>>

TakeAction ==
    /\ phase = "act" /\ queue # <<>>
    /\ toolCalls < MaxToolCalls
    /\ Start(Registered(Head(queue)), Reference(Head(queue)))
    /\ RegisterKey(Head(queue))
    /\ queue' = Tail(queue)
    /\ UNCHANGED <<graphTask, text, stage, resume, selected, cycle, toolCalls, checkpoint,
                   outcome>>

\* The tool answers: one version of the case holds the result and the Task's end.
Complete ==
    /\ phase = "tool"
    /\ \E e \in Executions([tool |-> task[RunningTask].tool,
                            articles |-> task[RunningTask].articles]) :
          CompleteToolTask(RunningTask, e)
    /\ toolCalls' = toolCalls + 1
    /\ phase' = "act"
    /\ UNCHANGED <<turn, cycle, checkpoint, outcome>>

NextStage(from) == CASE from = "resume" -> "explore"
                     [] from = "explore" -> "deepen"
                     [] from = "deepen" -> "integrate"

\* Nothing is left to run, or the time for it is over.
EndActions ==
    /\ phase = "act"
    /\ phase' = NextStage(stage)
    /\ resume' = <<>>
    /\ queue' = <<>>
    /\ UNCHANGED <<case, stage, selected, cycle, toolCalls, checkpoint, outcome>>

-----------------------------------------------------------------------------
\* Actions of a valid turn are about Articles of the catalog.
Actions(n) ==
    UNION {[1 .. k -> {x \in Action : x.articles \subseteq Known}] : k \in 0 .. n}

\* A stage: the model's turn, an answer that breaks the contract, no answer in
\* time or no time to ask, or an error that ends the research.
Stage ==
    /\ phase \in {"explore", "deepen"}
    /\ \/ /\ queue' \in Actions(SmallerOf(MaxActions, MaxToolCalls - toolCalls))
          /\ selected' \in BOOLEAN
          /\ stage' = phase
          /\ phase' = "act"
          /\ UNCHANGED outcome
       \/ phase' = NextStage(phase) /\ UNCHANGED <<stage, queue, selected, outcome>>
       \/ phase' = "integrate" /\ UNCHANGED <<stage, queue, selected, outcome>>
       \/ Finish("failed") /\ UNCHANGED <<stage, queue, selected>>
    /\ UNCHANGED <<case, resume, cycle, toolCalls, checkpoint>>

-----------------------------------------------------------------------------
\* What the integration may answer.  unresolved: open items, core: those the
\* conclusion depends on (one of them tells it); strays: references to texts it was not shown.  An
\* answer whose structure cannot be used is none.
Answer ==
    {c \in [status : Verdicts, next : SUBSET Articles, unresolved : SUBSET Items,
            core : SUBSET Items, strays : BOOLEAN] :
        c.core \subseteq c.unresolved /\ Cardinality(c.core) <= 1}

\* Articles whose text the answer asks for.
Named(c) == c.next \union (c.unresolved \ {NoArticle})

Final == cycle = MaxCycles

\* validate_research_checkpoint
Valid(c) ==
    /\ ~c.strays
    /\ Named(c) \subseteq Known
    /\ c.status = "ready" => c.core = {}
    /\ c.status = "continue" => ~Final /\ c.next \union c.unresolved # {}

\* sanitize_research_checkpoint: what is unknown is taken out, and an answer
\* from which something was taken is not ready.
Sanitized(c) ==
    LET seen == Known \union {NoArticle}
        rest == [c EXCEPT !.next = @ \intersect Known,
                          !.unresolved = @ \intersect seen,
                          !.core = @ \intersect seen,
                          !.strays = FALSE]
    IN  IF rest # c \/ (c.status = "ready" /\ rest.core # {})
        THEN [rest EXCEPT !.status = "continue"] ELSE c

\* Fault: Tasks that still wait do not defer the answer.
DeferredNamed(c) ==
    LET blocking == Named(c) \ Fetched
    IN  IF c.status = "ready" /\ blocking # {}
        THEN [c EXCEPT !.status = IF Final THEN "insufficient" ELSE "continue",
                       !.next = @ \union blocking]
        ELSE c

\* _defer_ready_for_case_tasks: not ready while the case waits for a text.
Deferred(c) ==
    LET blocking == Blocking(Named(c))
    IN  IF c.status = "ready" /\ blocking # {}
        THEN [c EXCEPT !.status = IF Final THEN "insufficient" ELSE "continue",
                       !.next = @ \union blocking]
        ELSE c

Accept(c) ==
    /\ CreateCheckpoint(c.next)
    /\ checkpoint' = [status |-> c.status, named |-> Named(c)]

\* _checkpoint_from_stage_selection: the evidence of the last turn is kept; the
\* research is not ready.
Fallback ==
    /\ checkpoint' = IF selected THEN [checkpoint EXCEPT !.status = "continue"]
                     ELSE checkpoint
    /\ UNCHANGED case

NextCycle == phase' = "cycle" /\ UNCHANGED outcome

Integrate ==
    /\ phase = "integrate"
    /\ UNCHANGED <<turn, cycle, toolCalls>>
    /\ \E c \in Answer :
         \/ /\ Valid(c)
            /\ Accept(Deferred(c))
            /\ NextCycle
         \/ /\ ~Valid(c) /\ Sanitized(c) # c /\ Valid(Sanitized(c))
            /\ Accept(Deferred(Sanitized(c)))
            /\ NextCycle

\* No usable answer.
IntegrationFails ==
    /\ phase = "integrate"
    /\ UNCHANGED <<turn, cycle, toolCalls>>
    /\ \/ Fallback /\ NextCycle
       \/ Fallback /\ Final /\ Finish("timeout")
       \/ Fallback /\ Finish("failed")
       \/ Finish("timeout") /\ UNCHANGED <<case, checkpoint>>

Next ==
    \/ BeginCycle \/ ResumeTask \/ TakeAction \/ Complete \/ EndActions
    \/ Stage \/ Integrate \/ IntegrationFails

Spec == Init /\ [][Next]_vars

-----------------------------------------------------------------------------
(* Properties *)

\* References lead to Tasks of the case, and neither cycles nor tool calls pass
\* their limits.
TypeOK ==
    /\ TypeOKCase
    /\ phase \in {"cycle", "act", "tool", "explore", "deepen", "integrate", "done", "error"}
    /\ stage \in {"resume", "explore", "deepen"}
    /\ cycle \in 0 .. MaxCycles
    /\ resume \in Seq(DOMAIN task)
    /\ queue \in Seq(Action)
    /\ toolCalls \in 0 .. MaxToolCalls
    /\ selected \in BOOLEAN
    /\ checkpoint \in Checkpoint
    /\ outcome \in Verdicts \union {"none", "timeout", "failed"}

\* A Task is never refused when the loop starts it: it waits, and no other runs.
StartsAreAllowed == phase # "error"

\* A Task that was completed stays so: a second attempt is a Task of its own.
CompletedIsHistory ==
    [][\A t \in DOMAIN task :
         task[t].status = "completed" => task'[t].status = "completed"]_vars

\* The research is ready only when the Checkpoint's Articles were read and no
\* Task waits for a text.
ReadyHasItsTexts ==
    outcome = "ready" =>
        /\ checkpoint.named \subseteq Fetched
        /\ \A t \in DOMAIN task :
              task[t].tool = "fetch_articles" /\ task[t].status = "pending"
                => task[t].articles \subseteq Fetched
=============================================================================
