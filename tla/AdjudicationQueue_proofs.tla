---------------------- MODULE AdjudicationQueue_proofs ----------------------
(***************************************************************************)
(* Theorems about the relation-adjudication queue.                         *)
(***************************************************************************)
EXTENDS AdjudicationQueue, FiniteSetTheorems, TLAPS

\* What survives a crash, and what a run of the program holds.
StoredOK ==
    /\ files \in [Shards -> Artifacts]
    /\ threads \in [Shards -> SUBSET {"worker", "reviewer"}]
    /\ repairs \in [Shards -> SUBSET Repairs]
    /\ imported \subseteq Shards
    /\ graph \in [Shards -> {"none"} \union Decisions]

RunOK ==
    /\ runs \in 0 .. MaxRuns
    /\ running \in BOOLEAN /\ apply \in BOOLEAN /\ stop \in BOOLEAN
    /\ queue \subseteq Shards
    /\ failures \in Nat

\* An answer that is being written is one its session can give, only a repair
\* is counted, and only answers of the Worker are bound.
StepsOK ==
    /\ step \in [Shards -> Steps]
    /\ kind \in [Shards -> Kinds]
    /\ reply \in [Shards -> {"none", "invalid"} \union Bindable \union Reviews]
    /\ \A s \in Shards :
           /\ step[s] = "write" => reply[s] \in Replies(kind[s])
           /\ step[s] = "save" => kind[s] \in Repairs
           /\ step[s] = "bind" => kind[s] \in DOMAIN Bound

TypeInv == StoredOK /\ RunOK /\ StepsOK

-----------------------------------------------------------------------------
(* What a file takes.                                                      *)

\* The answer of a session, or the mark of one half written, fits its file,
\* which is never an output of the shard.
LEMMA AnswerFits ==
    ASSUME NEW f \in Artifacts, NEW k \in Kinds, NEW r,
           r = "partial" \/ r \in Replies(k)
    PROVE  /\ [f EXCEPT ![Target[k]] = r] \in Artifacts
           /\ [f EXCEPT ![Target[k]] = r].approved = f.approved
           /\ [f EXCEPT ![Target[k]] = r].unresolved = f.unresolved
<1>1. CASE k \in {"worker", "workerRepair"}
  BY <1>1 DEF Artifacts, Kinds, Replies, Target, Raw, Reviewing, Bindable
<1>2. CASE k \in {"review", "reviewRepair"}
  BY <1>2 DEF Artifacts, Kinds, Replies, Target, Reviewed, Reviewing, Reviews
<1>3. CASE k \in {"revision", "revisedRepair"}
  BY <1>3 DEF Artifacts, Kinds, Replies, Target, Raw, Reviewing, Bindable
<1>4. CASE k = "final"
  BY <1>4 DEF Artifacts, Kinds, Replies, Target, Reviewed, Reviewing, Reviews
<1> QED BY <1>1, <1>2, <1>3, <1>4 DEF Kinds, Repairs

\* So does a decision whose ids are bound.
LEMMA DecisionFits ==
    ASSUME NEW f \in Artifacts, NEW k \in DOMAIN Bound, NEW r \in Bindable
    PROVE  /\ [f EXCEPT ![Bound[k]] = r] \in Artifacts
           /\ [f EXCEPT ![Bound[k]] = r].approved = f.approved
           /\ [f EXCEPT ![Bound[k]] = r].unresolved = f.unresolved
<1>1. CASE k \in {"worker", "workerRepair"}
  BY <1>1 DEF Artifacts, Bound, Bindable
<1>2. CASE k \in {"revision", "revisedRepair"}
  BY <1>2 DEF Artifacts, Bound, Bindable
<1> QED BY <1>1, <1>2 DEF Bound

\* So does a verdict.
LEMMA OutputFits ==
    ASSUME NEW f \in Artifacts, NEW d \in Decisions
    PROVE  /\ [f EXCEPT !.approved = d] \in Artifacts
           /\ [f EXCEPT !.unresolved = d] \in Artifacts
BY DEF Artifacts

-----------------------------------------------------------------------------
(* What ends a step of a shard.                                            *)

LEMMA GoKeeps ==
    ASSUME RunOK, StepsOK, NEW s \in Shards, NEW place \in Steps \ {"write"},
           NEW k \in Kinds, place = "save" => k \in Repairs,
           place = "bind" => k \in DOMAIN Bound, Go(s, place, k)
    PROVE  RunOK' /\ StepsOK'
BY DEF RunOK, StepsOK, Go, QueueGoes, RunFrame

LEMMA SucceedKeeps ==
    ASSUME RunOK, StepsOK, NEW s \in Shards, Succeed(s)
    PROVE  RunOK' /\ StepsOK'
BY DEF RunOK, StepsOK, Succeed, RunFrame, Steps, Kinds

LEMMA FailKeeps ==
    ASSUME RunOK, StepsOK, NEW s \in Shards, Fail(s)
    PROVE  RunOK' /\ StepsOK' /\ imported' = imported \ {s}
<1>1. failures' \in Nat /\ stop' \in BOOLEAN
  BY QueueAssumption DEF RunOK, Fail
<1> QED BY <1>1 DEF RunOK, StepsOK, Fail, RunFrame, Steps, Kinds

LEMMA ResumeKeeps ==
    ASSUME RunOK, StepsOK, NEW s \in Shards, NEW session, NEW k \in Kinds,
           Resume(s, session, k)
    PROVE  RunOK' /\ StepsOK' /\ imported' \in {imported, imported \ {s}}
BY GoKeeps, FailKeeps DEF Resume, Steps

LEMMA RetryKeeps ==
    ASSUME RunOK, StepsOK, NEW s \in Shards, Retry(s)
    PROVE  RunOK' /\ StepsOK' /\ imported' \in {imported, imported \ {s}}
<1>1. kind[s] \in DOMAIN Repair => Repair[kind[s]] \in Kinds
  BY DEF Repair, Kinds, Repairs
<1> QED BY <1>1, ResumeKeeps, FailKeeps DEF Retry

LEMMA AfterWorkerKeeps ==
    ASSUME RunOK, StepsOK, NEW s \in Shards, AfterWorker(s)
    PROVE  RunOK' /\ StepsOK'
<1>1. "review" \in Kinds /\ {"ask", "prepare"} \subseteq Steps \ {"write"}
  BY DEF Kinds, Steps
<1> QED BY <1>1, GoKeeps DEF AfterWorker

LEMMA AfterRevisionKeeps ==
    ASSUME RunOK, StepsOK, NEW s \in Shards, AfterRevision(s)
    PROVE  RunOK' /\ StepsOK' /\ imported' \in {imported, imported \ {s}}
<1>1. "final" \in Kinds /\ "merge" \in Steps \ {"write"}
  BY DEF Kinds, Steps
<1> QED BY <1>1, GoKeeps, ResumeKeeps DEF AfterRevision

LEMMA HandleKeeps ==
    ASSUME RunOK, StepsOK, NEW s \in Shards, Handle(s)
    PROVE  RunOK' /\ StepsOK'
<1>1. kind[s] \in Kinds
  BY DEF StepsOK
<1>2. \/ kind[s] \in DOMAIN Bound
      \/ kind[s] \in {"review", "reviewRepair"}
      \/ kind[s] = "final"
  BY <1>1 DEF Kinds, Repairs, Bound
<1>3. {"bind", "prepare", "merge"} \subseteq Steps \ {"write"}
  BY DEF Steps
<1>4. \/ Go(s, "bind", kind[s]) /\ kind[s] \in DOMAIN Bound
      \/ \E place \in {"prepare", "merge"} : Go(s, place, kind[s])
  BY <1>2 DEF Handle
<1> QED BY <1>1, <1>3, <1>4, GoKeeps

-----------------------------------------------------------------------------
(* Types.                                                                  *)

LEMMA TypeInit == Init => TypeInv
<1> SUFFICES ASSUME Init PROVE TypeInv
  OBVIOUS
<1>1. NoFiles \in Artifacts
  BY DEF NoFiles, Artifacts, Raw, Reviewed
<1>2. StoredOK
  BY <1>1 DEF Init, StoredOK
<1>3. RunOK
  <2>1. runs \in 0 .. MaxRuns /\ failures \in Nat /\ queue \subseteq Shards
    BY QueueAssumption DEF Init
  <2>2. running \in BOOLEAN /\ apply \in BOOLEAN /\ stop \in BOOLEAN
    BY Zenon DEF Init
  <2> QED BY <2>1, <2>2, Zenon DEF RunOK
<1>4. StepsOK
  BY DEF Init, StepsOK, Kinds, Steps
<1> QED BY <1>2, <1>3, <1>4 DEF TypeInv

\* The steps of the run itself.
LEMMA TypeOfRun ==
    ASSUME TypeInv, StartRun \/ EndRun \/ Crash \/ \E s \in Shards : Take(s)
    PROVE  TypeInv'
<1> USE DEF TypeInv, StoredOK, RunOK, StepsOK
<1>1. CASE StartRun
  <2>1. runs' \in 0 .. MaxRuns /\ failures' \in Nat
    BY <1>1, QueueAssumption DEF StartRun
  <2>2. running' \in BOOLEAN /\ apply' \in BOOLEAN /\ stop' \in BOOLEAN
    BY <1>1, Zenon DEF StartRun
  <2>3. queue' \subseteq Shards
    BY <1>1 DEF StartRun, Pending
  <2>4. StoredOK' /\ StepsOK'
    BY <1>1 DEF StartRun, stored
  <2> QED BY <2>1, <2>2, <2>3, <2>4, Zenon
<1>2. CASE EndRun
  BY <1>2 DEF EndRun, stored
<1>3. CASE Crash
  BY <1>3 DEF Crash, stored, Steps, Kinds
<1>4. ASSUME NEW s \in Shards, Take(s)  PROVE TypeInv'
  BY <1>4 DEF Take, stored, Steps
<1> QED BY <1>1, <1>2, <1>3, <1>4

\* The steps of a shard.
LEMMA TypeOfShard ==
    ASSUME TypeInv, NEW s \in Shards, Process(s),
           step[s] = "import" => files[s].approved # "absent"
    PROVE  TypeInv'
<1> USE DEF TypeInv
<1>1. kind[s] \in Kinds /\ step[s] \in Steps /\ files[s] \in Artifacts
  BY DEF StepsOK, StoredOK
<1>2. /\ {"worker", "review", "final"} \subseteq Kinds
      /\ Steps \ {"write"} = {"idle", "begin", "ask", "wait", "save", "bind", "prepare",
                              "merge", "mergeRest", "import", "mark"}
  BY DEF Kinds, Steps
<1>3. CASE Begin(s)
  <2>1. StoredOK'
    BY <1>3 DEF Begin, StoredOK
  <2>2. "worker" \in DOMAIN Bound
    BY DEF Bound
  <2>3. RunOK' /\ StepsOK'
    BY <1>2, <1>3, <2>2, AfterWorkerKeeps, GoKeeps DEF Begin
  <2> QED BY <2>1, <2>3
<1>4. CASE Ask(s)
  <2>1. StoredOK'
    BY <1>4 DEF Ask, StoredOK
  <2>2. RunOK' /\ StepsOK'
    BY <1>1, <1>2, <1>4, GoKeeps DEF Ask
  <2> QED BY <2>1, <2>2
<1>5. CASE Answer(s)
  <2>1. [files[s] EXCEPT ![Target[kind[s]]] = "partial"] \in Artifacts
    BY <1>1, AnswerFits
  <2>2. files' \in [Shards -> Artifacts]
    BY <1>5, <2>1 DEF Answer, StoredOK
  <2>4. PICK r \in Replies(kind[s]) : reply' = [reply EXCEPT ![s] = r]
    BY <1>5 DEF Answer
  <2>5. r \in {"none", "invalid"} \union Bindable \union Reviews
    BY DEF Replies
  <2>6. RunOK' /\ StepsOK'
    BY <1>5, <2>4, <2>5 DEF Answer, QueueGoes, RunFrame, RunOK, StepsOK, Steps
  <2> QED BY <1>5, <2>2, <2>6 DEF Answer, StoredOK
<1>6. CASE SessionFails(s)
  <2>1. StoredOK'
    BY <1>6, FailKeeps DEF SessionFails, StoredOK
  <2> QED BY <1>6, <2>1, FailKeeps DEF SessionFails
<1>7. CASE Written(s)
  <2>1. reply[s] \in Replies(kind[s])
    BY <1>7 DEF Written, StepsOK
  <2>2. [files[s] EXCEPT ![Target[kind[s]]] = reply[s]] \in Artifacts
    BY <1>1, <2>1, AnswerFits
  <2>3. StoredOK'
    BY <1>7, <2>2 DEF Written, StoredOK
  <2>4. RunOK' /\ StepsOK'
    BY <1>1, <1>2, <1>7, GoKeeps, HandleKeeps DEF Written
  <2> QED BY <2>3, <2>4
<1>8. CASE Save(s)
  <2>1. kind[s] \in Repairs
    BY <1>8 DEF Save, StepsOK
  <2>2. StoredOK'
    BY <1>8, <2>1 DEF Save, StoredOK
  <2>3. RunOK' /\ StepsOK'
    BY <1>8, HandleKeeps DEF Save
  <2> QED BY <2>2, <2>3
<1>9. CASE Bind(s)
  <2> DEFINE raw == files[s][Target[kind[s]]]
  <2>1. CASE raw \in Bindable
    <3>1. kind[s] \in DOMAIN Bound
      BY <1>9 DEF Bind, StepsOK
    <3>2. [files[s] EXCEPT ![Bound[kind[s]]] = raw] \in Artifacts
      BY <1>1, <2>1, <3>1, DecisionFits
    <3>3. RunOK' /\ StepsOK' /\ imported' \in {imported, imported \ {s}}
      BY <1>9, <2>1, AfterWorkerKeeps, AfterRevisionKeeps DEF Bind
    <3>4. StoredOK'
      BY <1>9, <2>1, <3>2, <3>3 DEF Bind, StoredOK
    <3> QED BY <3>3, <3>4
  <2>2. CASE raw \notin Bindable
    <3>1. RunOK' /\ StepsOK' /\ imported' \in {imported, imported \ {s}}
      BY <1>9, <2>2, RetryKeeps DEF Bind
    <3>2. StoredOK'
      BY <1>9, <2>2, <3>1 DEF Bind, StoredOK
    <3> QED BY <3>1, <3>2
  <2> QED BY <2>1, <2>2
<1>10. CASE Prepare(s)
  <2>1. RunOK' /\ StepsOK' /\ imported' \in {imported, imported \ {s}}
    BY <1>1, <1>2, <1>10, GoKeeps, RetryKeeps, AfterRevisionKeeps, ResumeKeeps
    DEF Prepare, Kinds
  <2> QED BY <1>10, <2>1 DEF Prepare, StoredOK
<1>11. CASE Merge(s)
  <2>1. RunOK' /\ StepsOK' /\ imported' \in {imported, imported \ {s}}
    BY <1>1, <1>2, <1>11, GoKeeps, FailKeeps DEF Merge
  <2>2. files' \in [Shards -> Artifacts]
    BY <1>1, <1>11, OutputFits DEF Merge, StoredOK, Verdict, Decisions
  <2> QED BY <1>11, <2>1, <2>2 DEF Merge, StoredOK
<1>12. CASE MergeRest(s)
  <2>1. RunOK' /\ StepsOK'
    BY <1>1, <1>2, <1>12, GoKeeps, SucceedKeeps DEF MergeRest
  <2>2. files' \in [Shards -> Artifacts]
    BY <1>1, <1>12, OutputFits DEF MergeRest, StoredOK, Verdict, Decisions
  <2> QED BY <1>12, <2>1, <2>2 DEF MergeRest, StoredOK
<1>13. CASE Import(s)
  <2>1. files[s].approved \in Decisions
    BY <1>1, <1>13 DEF Import, Artifacts
  <2>2. RunOK' /\ StepsOK' /\ imported' \in {imported, imported \ {s}}
    BY <1>1, <1>2, <1>13, GoKeeps, FailKeeps DEF Import
  <2> QED BY <1>13, <2>1, <2>2 DEF Import, StoredOK
<1>14. CASE ImportFails(s)
  <2>1. RunOK' /\ StepsOK' /\ imported' = imported \ {s}
    BY <1>14, FailKeeps DEF ImportFails
  <2> QED BY <1>14, <2>1 DEF ImportFails, StoredOK
<1>15. CASE Mark(s)
  <2>1. RunOK' /\ StepsOK'
    BY <1>15, SucceedKeeps DEF Mark
  <2> QED BY <1>15, <2>1 DEF Mark, StoredOK
<1> QED BY <1>3, <1>4, <1>5, <1>6, <1>7, <1>8, <1>9, <1>10, <1>11, <1>12, <1>13, <1>14,
           <1>15 DEF Process

-----------------------------------------------------------------------------
(* Decisions.  An output exists only when its answers are complete, and no *)
(* session is asked any more from then on: so the verdict cannot change,   *)
(* and what the graph has taken stays the verdict.                         *)

Asking == {"ask", "wait", "write", "save", "bind"}

Decided(s) ==
    /\ files[s].approved # "absent" =>
           /\ Mergeable(files[s])
           /\ files[s].approved = Verdict(files[s])
           /\ step[s] \notin Asking
    /\ files[s].unresolved # "absent" => files[s].unresolved = files[s].approved
    /\ step[s] \in {"mergeRest", "import", "mark"} => files[s].approved # "absent"
    /\ step[s] = "mark" => graph[s] = files[s].approved
    /\ graph[s] # "none" => graph[s] = files[s].approved

Inv == TypeInv /\ \A s \in Shards : Decided(s)

\* A step that keeps the outputs of a shard and its record in the graph, and
\* takes the shard neither to a session nor past its merge, keeps its decision.
LEMMA DecidedKept ==
    ASSUME NEW s, Decided(s),
           files'[s] = files[s], graph'[s] = graph[s],
           step'[s] \in {"idle", "begin", "prepare", "merge"}
    PROVE  Decided(s)'
BY DEF Decided, Asking

\* A step of a shard without outputs may also ask a session.
LEMMA UndecidedKept ==
    ASSUME NEW s, Decided(s), files[s].approved = "absent",
           files'[s].approved = "absent", files'[s].unresolved = files[s].unresolved,
           graph'[s] = graph[s], step'[s] \notin {"mergeRest", "import", "mark"}
    PROVE  Decided(s)'
BY DEF Decided

\* Where a shard goes that leaves a step.
LEMMA GoesTo ==
    ASSUME StepsOK, NEW s \in Shards
    PROVE  /\ \A place, k : Go(s, place, k) => step' = [step EXCEPT ![s] = place]
           /\ Fail(s) \/ Succeed(s) => step' = [step EXCEPT ![s] = "idle"]
           /\ \A session, k : Resume(s, session, k) =>
                  \E place \in {"ask", "idle"} : step' = [step EXCEPT ![s] = place]
           /\ Retry(s) \/ AfterWorker(s) \/ AfterRevision(s) \/ Handle(s) =>
                  \E place \in {"ask", "idle", "bind", "prepare", "merge"} :
                      step' = [step EXCEPT ![s] = place]
<1>1. \A place, k : Go(s, place, k) => step' = [step EXCEPT ![s] = place]
  BY DEF Go
<1>2. Fail(s) \/ Succeed(s) => step' = [step EXCEPT ![s] = "idle"]
  BY DEF Fail, Succeed
<1>3. \A session, k : Resume(s, session, k) =>
          \E place \in {"ask", "idle"} : step' = [step EXCEPT ![s] = place]
  BY <1>1, <1>2 DEF Resume
<1>4. Retry(s) => \E place \in {"ask", "idle"} : step' = [step EXCEPT ![s] = place]
  BY <1>2, <1>3 DEF Retry
<1>5. AfterWorker(s) =>
          \E place \in {"ask", "prepare"} : step' = [step EXCEPT ![s] = place]
  BY <1>1 DEF AfterWorker
<1>6. AfterRevision(s) =>
          \E place \in {"ask", "idle", "merge"} : step' = [step EXCEPT ![s] = place]
  BY <1>1, <1>3 DEF AfterRevision
<1>7. Handle(s) =>
          \E place \in {"bind", "prepare", "merge"} : step' = [step EXCEPT ![s] = place]
  <2>1. \/ kind[s] \in DOMAIN Bound
        \/ kind[s] \in {"review", "reviewRepair"}
        \/ kind[s] = "final"
    BY DEF StepsOK, Kinds, Repairs, Bound
  <2> QED BY <1>1, <2>1 DEF Handle
<1> QED BY <1>1, <1>2, <1>3, <1>4, <1>5, <1>6, <1>7

\* What a step of a shard makes of its own decision.
LEMMA DecidedByOwnStep ==
    ASSUME TypeInv, NEW s \in Shards, Decided(s), Process(s)
    PROVE  Decided(s)'
<1> USE DEF TypeInv
<1>1. /\ files \in [Shards -> Artifacts] /\ step \in [Shards -> Steps]
      /\ kind[s] \in Kinds /\ files[s] \in Artifacts
  BY DEF StepsOK, StoredOK
<1>2. CASE Begin(s)
  <2>1. CASE files[s].approved = "absent"
    <3>1. \E place \in {"ask", "idle", "bind", "prepare", "merge"} :
              step' = [step EXCEPT ![s] = place]
      BY <1>2, GoesTo DEF Begin
    <3> QED BY <1>1, <1>2, <2>1, <3>1, UndecidedKept DEF Begin
  <2>2. CASE files[s].approved # "absent"
    <3>1. files[s].worker = "valid" /\ files[s].review # "absent"
      BY <2>2 DEF Decided, Mergeable, Accepted, Reviews
    <3>2. Go(s, "prepare", "review")
      BY <1>2, <3>1 DEF Begin, AfterWorker
    <3> QED BY <1>1, <1>2, <3>2, GoesTo, DecidedKept DEF Begin
  <2> QED BY <2>1, <2>2
<1>3. CASE Ask(s)
  <2>1. files[s].approved = "absent"
    BY <1>3 DEF Ask, Decided, Asking
  <2> QED BY <1>1, <1>3, <2>1, GoesTo, UndecidedKept DEF Ask
<1>4. CASE Answer(s)
  <2>1. files[s].approved = "absent"
    BY <1>4 DEF Answer, Decided, Asking
  <2>2. files'[s] = [files[s] EXCEPT ![Target[kind[s]]] = "partial"]
    BY <1>1, <1>4 DEF Answer
  <2>3. files'[s].approved = "absent" /\ files'[s].unresolved = files[s].unresolved
    BY <1>1, <2>1, <2>2, AnswerFits
  <2> QED BY <1>1, <1>4, <2>1, <2>3, UndecidedKept DEF Answer
<1>5. CASE SessionFails(s)
  BY <1>1, <1>5, GoesTo, DecidedKept DEF SessionFails
<1>6. CASE Written(s)
  <2>1. files[s].approved = "absent"
    BY <1>6 DEF Written, Decided, Asking
  <2>2. /\ files'[s] = [files[s] EXCEPT ![Target[kind[s]]] = reply[s]]
        /\ reply[s] \in Replies(kind[s])
    BY <1>1, <1>6 DEF Written, StepsOK
  <2>3. files'[s].approved = "absent" /\ files'[s].unresolved = files[s].unresolved
    BY <1>1, <2>1, <2>2, AnswerFits
  <2>4. \E place \in {"save", "ask", "idle", "bind", "prepare", "merge"} :
            step' = [step EXCEPT ![s] = place]
    BY <1>6, GoesTo DEF Written
  <2> QED BY <1>1, <1>6, <2>1, <2>3, <2>4, UndecidedKept DEF Written
<1>7. CASE Save(s)
  <2>1. files[s].approved = "absent"
    BY <1>7 DEF Save, Decided, Asking
  <2>2. \E place \in {"ask", "idle", "bind", "prepare", "merge"} :
            step' = [step EXCEPT ![s] = place]
    BY <1>7, GoesTo DEF Save
  <2> QED BY <1>1, <1>7, <2>1, <2>2, UndecidedKept DEF Save
<1>8. CASE Bind(s)
  <2> DEFINE raw == files[s][Target[kind[s]]]
  <2>1. files[s].approved = "absent" /\ kind[s] \in DOMAIN Bound
    BY <1>8 DEF Bind, Decided, Asking, StepsOK
  <2>2. \E place \in {"ask", "idle", "bind", "prepare", "merge"} :
            step' = [step EXCEPT ![s] = place]
    BY <1>8, GoesTo DEF Bind
  <2>3. \/ files' = files
        \/ raw \in Bindable /\ files' = [files EXCEPT ![s][Bound[kind[s]]] = raw]
    BY <1>8 DEF Bind
  <2>4. \/ files'[s] = files[s]
        \/ raw \in Bindable /\ files'[s] = [files[s] EXCEPT ![Bound[kind[s]]] = raw]
    BY <1>1, <2>3
  <2>5. files'[s].approved = "absent" /\ files'[s].unresolved = files[s].unresolved
    <3>1. ASSUME raw \in Bindable
          PROVE  /\ [files[s] EXCEPT ![Bound[kind[s]]] = raw].approved = files[s].approved
                 /\ [files[s] EXCEPT ![Bound[kind[s]]] = raw].unresolved = files[s].unresolved
      BY <1>1, <2>1, <3>1, DecisionFits
    <3> HIDE DEF raw
    <3> QED BY <2>1, <2>4, <3>1
  <2> QED BY <1>1, <1>8, <2>1, <2>2, <2>5, UndecidedKept DEF Bind
<1>9. CASE Prepare(s)
  <2>1. CASE files[s].approved = "absent"
    <3>1. \E place \in {"ask", "idle", "bind", "prepare", "merge"} :
              step' = [step EXCEPT ![s] = place]
      BY <1>9, GoesTo DEF Prepare
    <3> QED BY <1>1, <1>9, <2>1, <3>1, UndecidedKept DEF Prepare
  <2>2. CASE files[s].approved # "absent"
    <3>1. Mergeable(files[s])
      BY <2>2 DEF Decided
    <3>2. \/ files[s].review = "approve"
          \/ files[s].revised # "absent" /\ files[s].final # "absent"
      BY <3>1 DEF Mergeable, Accepted, Reviews
    <3>3. \E k \in Kinds : Go(s, "merge", k)
      BY <1>1, <1>9, <3>1, <3>2 DEF Prepare, Mergeable, AfterRevision, Kinds
    <3> QED BY <1>1, <1>9, <3>3, GoesTo, DecidedKept DEF Prepare
  <2> QED BY <2>1, <2>2
<1>10. CASE Merge(s)
  <2>1. CASE Mergeable(files[s])
    <3>1. files'[s] = [files[s] EXCEPT !.approved = Verdict(files[s])]
      BY <1>1, <1>10, <2>1 DEF Merge
    <3>2. /\ Mergeable(files'[s])
          /\ files'[s].approved = Verdict(files[s])
          /\ Verdict(files'[s]) = Verdict(files[s])
          /\ files'[s].unresolved = files[s].unresolved
      BY <1>1, <2>1, <3>1 DEF Mergeable, Accepted, Verdict, Artifacts
    <3>3. files[s].approved \in {"absent", Verdict(files[s])}
      BY DEF Decided
    <3>4. step'[s] = "mergeRest" /\ graph'[s] = graph[s]
      BY <1>1, <1>10, <2>1, GoesTo DEF Merge
    <3>5. graph[s] # "absent"
      BY DEF StoredOK, Decisions
    <3>6. files'[s].unresolved # "absent" => files'[s].unresolved = files'[s].approved
      BY <3>2, <3>3 DEF Decided
    <3>7. graph'[s] # "none" => graph'[s] = files'[s].approved
      BY <3>2, <3>3, <3>4, <3>5 DEF Decided
    <3> QED BY <3>2, <3>4, <3>6, <3>7 DEF Decided, Asking, Verdict
  <2>2. CASE ~Mergeable(files[s])
    BY <1>1, <1>10, <2>2, GoesTo, DecidedKept DEF Merge
  <2> QED BY <2>1, <2>2
<1>11. CASE MergeRest(s)
  <2>1. files'[s] = [files[s] EXCEPT !.unresolved = Verdict(files[s])]
    BY <1>1, <1>11 DEF MergeRest
  <2>2. files[s].approved # "absent"
    BY <1>11 DEF MergeRest, Decided
  <2>3. /\ Mergeable(files'[s]) <=> Mergeable(files[s])
        /\ files'[s].approved = files[s].approved
        /\ Verdict(files'[s]) = Verdict(files[s])
        /\ files'[s].unresolved = Verdict(files[s])
    BY <1>1, <2>1 DEF Mergeable, Accepted, Verdict, Artifacts
  <2>4. step'[s] \in {"import", "idle"} /\ graph'[s] = graph[s]
    BY <1>1, <1>11, GoesTo DEF MergeRest
  <2> QED BY <2>2, <2>3, <2>4 DEF Decided, Asking
<1>12. CASE Import(s)
  <2>1. CASE graph[s] \in {"none", files[s].approved}
    <3>1. graph'[s] = files[s].approved /\ step'[s] = "mark" /\ files'[s] = files[s]
      BY <1>1, <1>12, <2>1, GoesTo DEF Import, StoredOK
    <3>2. files[s].approved # "absent"
      BY <1>12 DEF Import, Decided
    <3> QED BY <3>1, <3>2 DEF Decided, Asking
  <2>2. CASE graph[s] \notin {"none", files[s].approved}
    BY <1>1, <1>12, <2>2, GoesTo, DecidedKept DEF Import
  <2> QED BY <2>1, <2>2
<1>13. CASE ImportFails(s)
  BY <1>1, <1>13, GoesTo, DecidedKept DEF ImportFails
<1>14. CASE Mark(s)
  BY <1>1, <1>14, GoesTo, DecidedKept DEF Mark
<1> QED BY <1>2, <1>3, <1>4, <1>5, <1>6, <1>7, <1>8, <1>9, <1>10, <1>11, <1>12, <1>13,
           <1>14 DEF Process

\* No step disturbs another shard.
LEMMA DecidedByOtherStep ==
    ASSUME TypeInv, NEW s \in Shards, NEW t \in Shards \ {s}, Decided(t), Process(s)
    PROVE  Decided(t)'
<1>1. \/ files' = files
      \/ \E f : files' = [files EXCEPT ![s] = f]
  BY DEF Process, Begin, Ask, Answer, SessionFails, Written, Save, Bind, Prepare, Merge,
         MergeRest, Import, ImportFails, Mark
<1>2. graph' = graph \/ \E d : graph' = [graph EXCEPT ![s] = d]
  BY DEF Process, Begin, Ask, Answer, SessionFails, Written, Save, Bind, Prepare, Merge,
         MergeRest, Import, ImportFails, Mark
<1>3. \E place : step' = [step EXCEPT ![s] = place]
  BY GoesTo DEF TypeInv, Process, Begin, Ask, Answer, SessionFails, Written, Save, Bind,
         Prepare, Merge, MergeRest, Import, ImportFails, Mark
<1>4. files'[t] = files[t] /\ graph'[t] = graph[t] /\ step'[t] = step[t]
  BY <1>1, <1>2, <1>3 DEF TypeInv, StoredOK, StepsOK
<1> QED BY <1>4 DEF Decided

LEMMA InvInit == Init => Inv
<1> SUFFICES ASSUME Init PROVE \A s \in Shards : Decided(s)
  BY TypeInit DEF Inv
<1> QED BY DEF Init, Decided, NoFiles

LEMMA InvNext == Inv /\ [Next]_vars => Inv'
<1> SUFFICES ASSUME Inv, [Next]_vars PROVE Inv'
  OBVIOUS
<1>1. ASSUME NEW s \in Shards, Process(s) PROVE Inv'
  <2>1. TypeInv'
    BY <1>1, TypeOfShard DEF Inv, Decided
  <2>2. \A t \in Shards : Decided(t)'
    BY <1>1, DecidedByOwnStep, DecidedByOtherStep DEF Inv
  <2> QED BY <2>1, <2>2 DEF Inv
<1>2. ASSUME StartRun \/ EndRun \/ Crash \/ \E s \in Shards : Take(s) PROVE Inv'
  <2>1. TypeInv'
    BY <1>2, TypeOfRun DEF Inv
  <2>2. files' = files /\ graph' = graph
    BY <1>2 DEF StartRun, EndRun, Crash, Take, stored
  <2>3. ASSUME NEW t \in Shards PROVE step'[t] \in {step[t], "idle", "begin"}
    BY <1>2 DEF StartRun, EndRun, Crash, Take, Inv, TypeInv, StepsOK
  <2>4. \A t \in Shards : Decided(t)'
    BY <2>2, <2>3 DEF Inv, Decided, Asking
  <2> QED BY <2>1, <2>4 DEF Inv
<1>3. CASE UNCHANGED vars
  BY <1>3 DEF Inv, TypeInv, StoredOK, RunOK, StepsOK, Decided, vars, stored, volatile
<1> QED BY <1>1, <1>2, <1>3 DEF Next

THEOREM Invariance == Spec => []Inv
BY InvInit, InvNext, PTL DEF Spec

\* The variables keep their types in every run and across crashes.
THEOREM TypeCorrect == Spec => []TypeOK
<1>1. Inv => TypeOK
  BY DEF Inv, TypeInv, StoredOK, RunOK, StepsOK, TypeOK
<1> QED BY <1>1, Invariance, PTL

\* The graph holds only decisions that a review of the same answers supports.
THEOREM OnlyReviewed == Spec => []OnlyReviewedRecorded
<1>1. Inv => OnlyReviewedRecorded
  <2> SUFFICES ASSUME Inv, NEW s \in Shards
               PROVE  /\ graph[s] = "approved" =>
                             \/ ApprovedAtOnce(files[s])
                             \/ RevisedReviewed(files[s]) /\ files[s].final = "approve"
                      /\ graph[s] = "unresolved" =>
                             RevisedReviewed(files[s]) /\ files[s].final = "change"
                      /\ Complete(s) => files[s].approved = files[s].unresolved
    BY DEF OnlyReviewedRecorded
  <2>1. Decided(s)
    BY DEF Inv
  <2> QED BY <2>1 DEF Decided, Mergeable, Accepted, Verdict, ApprovedAtOnce, RevisedReviewed,
             Complete, Reviews
<1> QED BY <1>1, Invariance, PTL

\* No run asks a session for a shard that has its outputs.
THEOREM Reuse == Spec => []DoneShardsAreReused
<1>1. Inv => DoneShardsAreReused
  BY DEF Inv, Decided, DoneShardsAreReused, Complete, Asking
<1> QED BY <1>1, Invariance, PTL

-----------------------------------------------------------------------------
(* The queue implements the ledger of its outputs.                         *)

Outputs == [s \in Shards |-> files[s].approved]

\* What a step of a shard is in the ledger.
LEMMA StepInLedger ==
    ASSUME Inv, NEW s \in Shards, Process(s)
    PROVE  Ledger!Next \/ UNCHANGED <<Outputs, graph, imported>>
<1> DEFINE Quiet == Outputs' = Outputs /\ graph' = graph
           Reopened == imported' = imported \ {s}
<1>1. /\ files \in [Shards -> Artifacts] /\ files[s] \in Artifacts
      /\ kind[s] \in Kinds /\ graph \in [Shards -> {"none"} \union Decisions]
      /\ StepsOK /\ RunOK /\ Decided(s)
  BY DEF Inv, TypeInv, StoredOK, StepsOK
<1>2. ASSUME Quiet, Reopened \/ imported' = imported
      PROVE  Ledger!Next \/ UNCHANGED <<Outputs, graph, imported>>
  <2>1. CASE Reopened
    <3>1. Ledger!Reopen(s)
      BY <1>2, <2>1 DEF Ledger!Reopen, Outputs
    <3> QED BY <3>1 DEF Ledger!Next
  <2> QED BY <1>2, <2>1
<1>3. ASSUME NEW f, files' = [files EXCEPT ![s] = f], f.approved = files[s].approved
      PROVE  Outputs' = Outputs
  BY <1>1, <1>3 DEF Outputs
<1>4. CASE Begin(s)
  BY <1>4, <1>2 DEF Begin, Outputs
<1>5. CASE Ask(s)
  BY <1>5, <1>2 DEF Ask, Outputs
<1>6. CASE Answer(s)
  <2> DEFINE opened == [files[s] EXCEPT ![Target[kind[s]]] = "partial"]
  <2>1. opened.approved = files[s].approved
    BY <1>1, AnswerFits
  <2>2. files' = [files EXCEPT ![s] = opened]
    BY <1>1, <1>6 DEF Answer
  <2> HIDE DEF opened
  <2> QED BY <1>2, <1>3, <1>6, <2>1, <2>2 DEF Answer
<1>7. CASE SessionFails(s)
  BY <1>1, <1>2, <1>7, FailKeeps DEF SessionFails, Outputs
<1>8. CASE Written(s)
  <2>1. reply[s] \in Replies(kind[s])
    BY <1>1, <1>8 DEF Written, StepsOK
  <2> QED BY <1>1, <1>2, <1>3, <1>8, <2>1, AnswerFits DEF Written
<1>9. CASE Save(s)
  BY <1>2, <1>9 DEF Save, Outputs
<1>10. CASE Bind(s)
  <2> DEFINE raw == files[s][Target[kind[s]]]
             bound == [files[s] EXCEPT ![Bound[kind[s]]] = raw]
  <2>1. kind[s] \in DOMAIN Bound
    BY <1>1, <1>10 DEF Bind, StepsOK
  <2>2. files' = files \/ (raw \in Bindable /\ files' = [files EXCEPT ![s] = bound])
    BY <1>1, <1>10 DEF Bind
  <2>3. raw \in Bindable => bound.approved = files[s].approved
    BY <1>1, <2>1, DecisionFits
  <2> HIDE DEF raw, bound
  <2>4. Outputs' = Outputs
    BY <1>3, <2>2, <2>3 DEF Outputs
  <2>5. graph' = graph /\ imported' \in {imported, imported \ {s}}
    BY <1>1, <1>10, AfterRevisionKeeps, RetryKeeps DEF Bind
  <2> QED BY <1>2, <2>4, <2>5
<1>11. CASE Prepare(s)
  <2>1. imported' \in {imported, imported \ {s}}
    BY <1>1, <1>11, RetryKeeps, AfterRevisionKeeps, ResumeKeeps
    DEF Prepare, Kinds
  <2> QED BY <1>2, <1>11, <2>1 DEF Prepare, Outputs
<1>12. CASE Merge(s)
  <2>1. CASE Mergeable(files[s])
    <3>1. /\ Outputs' = [Outputs EXCEPT ![s] = Verdict(files[s])]
          /\ graph' = graph /\ imported' = imported
      BY <1>1, <1>12, <2>1 DEF Merge, Outputs, Artifacts
    <3>2. CASE files[s].approved = "absent"
      <4>1. Verdict(files[s]) \in Ledger!Decisions
        BY DEF Verdict, Ledger!Decisions
      <4>2. Ledger!Decide(s)
        BY <3>1, <3>2, <4>1 DEF Ledger!Decide, Outputs
      <4> QED BY <4>2 DEF Ledger!Next
    <3>3. CASE files[s].approved # "absent"
      BY <1>1, <3>1, <3>3 DEF Decided, Outputs
    <3> QED BY <3>2, <3>3
  <2>2. CASE ~Mergeable(files[s])
    BY <1>1, <1>2, <1>12, <2>2, FailKeeps DEF Merge, Outputs
  <2> QED BY <2>1, <2>2
<1>13. CASE MergeRest(s)
  <2>1. [files[s] EXCEPT !.unresolved = Verdict(files[s])].approved = files[s].approved
    BY <1>1 DEF Artifacts
  <2> QED BY <1>1, <1>2, <1>3, <1>13, <2>1 DEF MergeRest
<1>14. CASE Import(s)
  <2>1. files[s].approved \in Ledger!Decisions
    BY <1>1, <1>14 DEF Import, Decided, Artifacts, Decisions, Ledger!Decisions
  <2>2. CASE graph[s] = "none"
    <3>1. Ledger!Record(s)
      BY <1>14, <2>1, <2>2 DEF Import, Ledger!Record, Outputs
    <3> QED BY <3>1 DEF Ledger!Next
  <2>3. CASE graph[s] = files[s].approved
    BY <1>1, <1>14, <2>3 DEF Import, Outputs
  <2>4. CASE graph[s] \notin {"none", files[s].approved}
    BY <1>1, <1>2, <1>14, <2>4, FailKeeps DEF Import, Outputs
  <2> QED BY <2>2, <2>3, <2>4
<1>15. CASE ImportFails(s)
  BY <1>1, <1>2, <1>15, FailKeeps DEF ImportFails, Outputs
<1>16. CASE Mark(s)
  <2>1. Ledger!Mark(s)
    BY <1>1, <1>16 DEF Mark, Decided, Ledger!Mark, Outputs
  <2> QED BY <2>1 DEF Ledger!Next
<1> QED BY <1>4, <1>5, <1>6, <1>7, <1>8, <1>9, <1>10, <1>11, <1>12, <1>13, <1>14, <1>15,
           <1>16 DEF Process

\* Each shard is decided once, recorded once as decided, and marked only when
\* recorded, whatever crashes and restarts come between.
THEOREM Implementation == Spec => ImplementsLedger
<1>1. Init => Ledger!Init
  BY DEF Init, Ledger!Init, NoFiles
<1>2. Inv /\ [Next]_vars => [Ledger!Next]_<<Outputs, graph, imported>>
  <2> SUFFICES ASSUME Inv, [Next]_vars
               PROVE  Ledger!Next \/ UNCHANGED <<Outputs, graph, imported>>
    OBVIOUS
  <2>1. CASE UNCHANGED vars
    BY <2>1 DEF vars, stored, Outputs
  <2>2. CASE StartRun \/ EndRun \/ Crash \/ \E s \in Shards : Take(s)
    BY <2>2 DEF StartRun, EndRun, Crash, Take, stored, Outputs
  <2> QED BY <2>1, <2>2, StepInLedger DEF Next
<1> QED BY <1>1, <1>2, Invariance, PTL DEF Spec, ImplementsLedger, Ledger!Spec, Outputs

-----------------------------------------------------------------------------
(* The limit of failures in a row.                                         *)

\* Before the queue is stopped, the failures are below the limit and the
\* consumers as many as the sessions; after that nothing is taken any more.
Limit ==
    /\ FailuresStopQueue
    /\ ~stop => failures < MaxFailures
    /\ Cardinality(Active) <= Sessions

LEMMA ActiveFinite == IsFiniteSet(Active) /\ Cardinality(Active) \in Nat
<1>1. IsFiniteSet(Shards)
  BY QueueAssumption, FS_Interval DEF Shards
<1>2. IsFiniteSet(Active)
  BY <1>1, FS_Subset DEF Active
<1> QED BY <1>2, FS_CardinalityType

\* A step of a shard either keeps its consumer busy or ends it.
Moves(s) ==
    \/ Fail(s) \/ Succeed(s)
    \/ /\ \E place : step' = [step EXCEPT ![s] = place]
       /\ UNCHANGED <<stop, failures>>

LEMMA ShardMoves ==
    ASSUME StepsOK, NEW s \in Shards, Process(s)
    PROVE  Moves(s)
<1>1. \A place, k : Go(s, place, k) => Moves(s)
  BY DEF Go, QueueGoes, Moves
<1>2. Fail(s) \/ Succeed(s) => Moves(s)
  BY DEF Moves
<1>3. \A session, k : Resume(s, session, k) => Moves(s)
  BY <1>1, <1>2 DEF Resume
<1>4. Retry(s) => Moves(s)
  BY <1>2, <1>3 DEF Retry
<1>5. AfterWorker(s) => Moves(s)
  BY <1>1 DEF AfterWorker
<1>6. AfterRevision(s) => Moves(s)
  BY <1>1, <1>3 DEF AfterRevision
<1>7. Handle(s) => Moves(s)
  <2>1. \/ kind[s] \in DOMAIN Bound
        \/ kind[s] \in {"review", "reviewRepair"}
        \/ kind[s] = "final"
    BY DEF StepsOK, Kinds, Repairs, Bound
  <2> QED BY <1>1, <2>1 DEF Handle
<1>8. Answer(s) => Moves(s)
  BY DEF Answer, QueueGoes, Moves
<1>9. Begin(s) \/ Ask(s) \/ SessionFails(s) \/ Written(s) \/ Save(s) => Moves(s)
  BY <1>1, <1>2, <1>5, <1>7 DEF Begin, Ask, SessionFails, Written, Save
<1>10. Bind(s) \/ Prepare(s) => Moves(s)
  BY <1>1, <1>3, <1>4, <1>5, <1>6 DEF Bind, Prepare
<1>11. Merge(s) \/ MergeRest(s) \/ Import(s) \/ ImportFails(s) \/ Mark(s) => Moves(s)
  BY <1>1, <1>2 DEF Merge, MergeRest, Import, ImportFails, Mark
<1> QED BY <1>8, <1>9, <1>10, <1>11 DEF Process

LEMMA LimitOfShard ==
    ASSUME Inv, Limit, NEW s \in Shards, Process(s)
    PROVE  Limit'
<1>1. step \in [Shards -> Steps] /\ failures \in Nat /\ StepsOK
  BY DEF Inv, TypeInv, StepsOK, RunOK
<1>2. s \in Active
  BY DEF Active, Process, Begin, Ask, Answer, SessionFails, Written, Save, Bind, Prepare,
         Merge, MergeRest, Import, ImportFails, Mark
<1>3. IsFiniteSet(Active) /\ Cardinality(Active) \in Nat
  BY ActiveFinite
<1>4. MaxFailures \in Nat \ {0} /\ Sessions \in Nat \ {0}
  BY QueueAssumption
<1>5. CASE Fail(s) \/ Succeed(s)
  <2>1. Active' = Active \ {s}
    BY <1>1, <1>5 DEF Active, Fail, Succeed
  <2>2. Cardinality(Active') = Cardinality(Active) - 1
    BY <1>2, <1>3, <2>1, FS_RemoveElement
  <2>3. CASE Fail(s)
    <3>1. failures' = failures + 1
      BY <2>3 DEF Fail
    <3>2. ~stop' => ~(failures' >= MaxFailures)
      BY <2>3, Zenon DEF Fail
    <3> QED BY <1>1, <1>3, <1>4, <2>2, <3>1, <3>2 DEF Limit, FailuresStopQueue
  <2>4. CASE Succeed(s)
    BY <1>1, <1>3, <1>4, <2>2, <2>4 DEF Limit, FailuresStopQueue, Succeed
  <2> QED BY <1>5, <2>3, <2>4
<1>6. CASE /\ \E place : step' = [step EXCEPT ![s] = place]
           /\ UNCHANGED <<stop, failures>>
  <2>1. Active' \subseteq Active
    BY <1>1, <1>2, <1>6 DEF Active
  <2>2. Cardinality(Active') <= Cardinality(Active) /\ Cardinality(Active') \in Nat
    BY <1>3, <2>1, FS_Subset, FS_CardinalityType
  <2> QED BY <1>1, <1>3, <1>4, <1>6, <2>2 DEF Limit, FailuresStopQueue
<1> QED BY <1>1, <1>5, <1>6, ShardMoves DEF Moves

\* A queue that sees its shards fail in a row leaves the rest alone.
THEOREM StopsOnFailures == Spec => []FailuresStopQueue
<1>1. Init => Limit
  <2> SUFFICES ASSUME Init PROVE Limit
    OBVIOUS
  <2>1. Active = {}
    BY DEF Init, Active
  <2>2. Cardinality(Active) = 0
    BY <2>1, FS_EmptySet
  <2> QED BY <2>2, QueueAssumption DEF Init, Limit, FailuresStopQueue
<1>2. Inv /\ Limit /\ [Next]_vars => Limit'
  <2> SUFFICES ASSUME Inv, Limit, [Next]_vars PROVE Limit'
    OBVIOUS
  <2>1. /\ step \in [Shards -> Steps] /\ failures \in Nat
        /\ IsFiniteSet(Active) /\ Cardinality(Active) \in Nat
        /\ MaxFailures \in Nat \ {0} /\ Sessions \in Nat \ {0}
    BY ActiveFinite, QueueAssumption DEF Inv, TypeInv, StepsOK, RunOK
  <2>2. ASSUME NEW s \in Shards, Take(s) PROVE Limit'
    <3>1. Active' = Active \union {s}
      BY <2>1, <2>2 DEF Take, Active
    <3>2. Cardinality(Active') <= Cardinality(Active) + 1 /\ Cardinality(Active') \in Nat
      <4>1. Cardinality(Active \union {s}) \in {Cardinality(Active), Cardinality(Active) + 1}
        BY <2>1, FS_AddElement
      <4> QED BY <2>1, <3>1, <4>1
    <3> QED BY <2>1, <2>2, <3>2 DEF Take, Limit, FailuresStopQueue
  <2>3. CASE StartRun
    <3>1. Active' = Active
      BY <2>3 DEF StartRun, Active
    <3> QED BY <2>1, <2>3, <3>1 DEF StartRun, Limit, FailuresStopQueue
  <2>4. CASE EndRun
    <3>1. Active' = Active
      BY <2>4 DEF EndRun, Active
    <3> QED BY <2>4, <3>1 DEF EndRun, Limit, FailuresStopQueue
  <2>5. CASE Crash
    <3>1. Active' = {}
      BY <2>5 DEF Crash, Active
    <3>2. Cardinality(Active') = 0
      BY <3>1, FS_EmptySet
    <3> QED BY <2>1, <2>5, <3>2 DEF Crash, Limit, FailuresStopQueue
  <2>6. CASE UNCHANGED vars
    BY <2>6 DEF vars, volatile, Limit, FailuresStopQueue, Active
  <2> QED BY <2>2, <2>3, <2>4, <2>5, <2>6, LimitOfShard DEF Next
<1>3. Limit => FailuresStopQueue
  BY DEF Limit
<1> QED BY <1>1, <1>2, <1>3, Invariance, PTL DEF Spec

-----------------------------------------------------------------------------
(* What a review was made of.  A file is reviewed only when it exists, and *)
(* its Worker is asked only while it does not.                             *)

FilesOrder(f) ==
    /\ f.review # "absent" => f.worker # "absent"
    /\ f.final # "absent" => f.revised # "absent"

PlaceOrder(f, place, k) ==
    /\ place \in Asking =>
           /\ f.worker = "absent" <=> k \in {"worker", "workerRepair"}
           /\ k \in {"revision", "revisedRepair"} => f.revised = "absent"
           /\ k = "final" => f.revised # "absent"
    /\ place = "prepare" => k \in {"review", "reviewRepair"} /\ f.worker # "absent"

Order(s) == FilesOrder(files[s]) /\ PlaceOrder(files[s], step[s], kind[s])

Kept(s) ==
    /\ files[s].review # "absent" => files'[s].worker = files[s].worker
    /\ files[s].final # "absent" => files'[s].revised = files[s].revised

\* A shard that is taken to another place, or leaves the queue, with its files
\* as they are.
LEMMA OrderAtPlace ==
    ASSUME TypeInv, NEW s \in Shards, FilesOrder(files'[s]),
           \/ Fail(s) \/ Succeed(s)
           \/ \E place, k : Go(s, place, k) /\ PlaceOrder(files'[s], place, k)
    PROVE  Order(s)'
<1>1. CASE Fail(s) \/ Succeed(s)
  <2>1. step'[s] = "idle"
    BY <1>1 DEF Fail, Succeed, TypeInv, StepsOK
  <2> QED BY <2>1 DEF Order, PlaceOrder, Asking
<1>2. ASSUME NEW place, NEW k, Go(s, place, k), PlaceOrder(files'[s], place, k)
      PROVE  Order(s)'
  <2>1. step'[s] = place /\ kind'[s] = k
    BY <1>2 DEF Go, TypeInv, StepsOK
  <2> QED BY <1>2, <2>1 DEF Order
<1> QED BY <1>1, <1>2

\* Where a shard goes whose Worker's answer is bound, whose revision is bound,
\* and that repairs an answer.
LEMMA OrderAfterWorker ==
    ASSUME TypeInv, NEW s \in Shards, FilesOrder(files'[s]), AfterWorker(s),
           files'[s].worker # "absent"
    PROVE  Order(s)'
<1>1. \E place \in {"ask", "prepare"} : Go(s, place, "review")
  BY DEF AfterWorker
<1>2. \A place : PlaceOrder(files'[s], place, "review")
  BY DEF PlaceOrder
<1> QED BY <1>1, <1>2, OrderAtPlace

LEMMA OrderAfterRevision ==
    ASSUME TypeInv, NEW s \in Shards, FilesOrder(files'[s]), AfterRevision(s),
           files'[s].worker # "absent", files'[s].revised # "absent"
    PROVE  Order(s)'
<1>1. Fail(s) \/ Go(s, "ask", "final") \/ Go(s, "merge", "final")
  BY DEF AfterRevision, Resume
<1>2. PlaceOrder(files'[s], "ask", "final") /\ PlaceOrder(files'[s], "merge", "final")
  BY DEF PlaceOrder, Asking
<1> QED BY <1>1, <1>2, OrderAtPlace

LEMMA OrderAfterRetry ==
    ASSUME TypeInv, NEW s \in Shards, Order(s), Retry(s), files' = files,
           step[s] \in {"bind", "prepare"}
    PROVE  Order(s)'
<1>1. CASE kind[s] \in DOMAIN Repair
  <2>1. Fail(s) \/ Go(s, "ask", Repair[kind[s]])
    BY DEF Retry, Resume
  <2>2. PlaceOrder(files[s], "ask", Repair[kind[s]])
    BY <1>1 DEF Order, PlaceOrder, Asking, Repair
  <2> QED BY <2>1, <2>2, OrderAtPlace DEF Order
<1>2. CASE kind[s] \notin DOMAIN Repair
  BY <1>2, OrderAtPlace DEF Retry, Order
<1> QED BY <1>1, <1>2

\* What is done with an answer that is written.
LEMMA OrderAfterAnswer ==
    ASSUME TypeInv, NEW s \in Shards, Order(s), FilesOrder(files'[s]),
           files'[s].worker = files[s].worker, files'[s].revised = files[s].revised,
           step[s] \in {"write", "save"}, Handle(s)
    PROVE  Order(s)'
<1>1. kind[s] \in Kinds
  BY DEF TypeInv, StepsOK
<1>2. CASE kind[s] \in DOMAIN Bound
  <2>1. Go(s, "bind", kind[s])
    BY <1>2 DEF Handle, Bound
  <2>2. PlaceOrder(files'[s], "bind", kind[s])
    BY <1>2 DEF Order, PlaceOrder, Asking, Bound
  <2> QED BY <2>1, <2>2, OrderAtPlace
<1>3. CASE kind[s] \in {"review", "reviewRepair"}
  <2>1. Go(s, "prepare", kind[s])
    BY <1>3 DEF Handle, Bound
  <2>2. PlaceOrder(files'[s], "prepare", kind[s])
    BY <1>3 DEF Order, PlaceOrder, Asking
  <2> QED BY <2>1, <2>2, OrderAtPlace
<1>4. CASE kind[s] = "final"
  <2>1. Go(s, "merge", kind[s])
    BY <1>4 DEF Handle, Bound
  <2>2. PlaceOrder(files'[s], "merge", kind[s])
    BY DEF PlaceOrder, Asking
  <2> QED BY <2>1, <2>2, OrderAtPlace
<1> QED BY <1>1, <1>2, <1>3, <1>4 DEF Kinds, Repairs, Bound

\* Opening or filling the file of a session.
LEMMA AnswerKeepsOrder ==
    ASSUME NEW f \in Artifacts, NEW k \in Kinds, NEW r,
           FilesOrder(f), PlaceOrder(f, "wait", k)
    PROVE  LET g == [f EXCEPT ![Target[k]] = r]
           IN  FilesOrder(g) /\ g.worker = f.worker /\ g.revised = f.revised
<1>1. CASE k \in {"worker", "workerRepair"}
  BY <1>1 DEF Artifacts, Target, FilesOrder
<1>2. CASE k \in {"review", "reviewRepair"}
  BY <1>2 DEF Artifacts, Target, FilesOrder, PlaceOrder, Asking
<1>3. CASE k \in {"revision", "revisedRepair"}
  BY <1>3 DEF Artifacts, Target, FilesOrder
<1>4. CASE k = "final"
  BY <1>4 DEF Artifacts, Target, FilesOrder, PlaceOrder, Asking
<1> QED BY <1>1, <1>2, <1>3, <1>4 DEF Kinds, Repairs

\* A step of a shard keeps the order of its own files, and what was reviewed.
LEMMA OrderByOwnStep ==
    ASSUME TypeInv, NEW s \in Shards, Order(s), Process(s)
    PROVE  Order(s)' /\ Kept(s)
<1>1. /\ files \in [Shards -> Artifacts] /\ step \in [Shards -> Steps]
      /\ kind \in [Shards -> Kinds]
      /\ kind[s] \in Kinds /\ files[s] \in Artifacts
      /\ FilesOrder(files[s]) /\ PlaceOrder(files[s], step[s], kind[s])
  BY DEF TypeInv, StepsOK, StoredOK, Order
<1>2. ASSUME files' = files, Fail(s) \/ Succeed(s)
      PROVE  Order(s)' /\ Kept(s)
  BY <1>1, <1>2, OrderAtPlace DEF Kept
<1>3. CASE Begin(s)
  <2>1. files' = files /\ FilesOrder(files'[s])
    BY <1>1, <1>3 DEF Begin
  <2>2. CASE files[s].worker # "absent"
    <3>1. AfterWorker(s) /\ files'[s].worker # "absent" /\ Kept(s)
      BY <1>3, <2>1, <2>2 DEF Begin, Kept
    <3> QED BY <2>1, <3>1, OrderAfterWorker
  <2>3. CASE files[s].worker = "absent"
    <3>1. Go(s, "bind", "worker") \/ Go(s, "ask", "worker")
      BY <1>3, <2>3 DEF Begin
    <3>2. \A place \in Asking : PlaceOrder(files'[s], place, "worker")
      BY <2>1, <2>3 DEF PlaceOrder, Asking
    <3>3. "bind" \in Asking /\ "ask" \in Asking
      BY DEF Asking
    <3> QED BY <2>1, <3>1, <3>2, <3>3, OrderAtPlace DEF Kept
  <2> QED BY <2>2, <2>3
<1>4. CASE Ask(s)
  <2>1. files' = files /\ Go(s, "wait", kind[s]) /\ step[s] = "ask"
    BY <1>4 DEF Ask
  <2>2. PlaceOrder(files'[s], "wait", kind[s])
    BY <1>1, <2>1 DEF PlaceOrder, Asking
  <2> QED BY <1>1, <2>1, <2>2, OrderAtPlace DEF Kept
<1>5. CASE Answer(s)
  <2>1. /\ step[s] = "wait" /\ step'[s] = "write" /\ kind'[s] = kind[s]
        /\ files'[s] = [files[s] EXCEPT ![Target[kind[s]]] = "partial"]
    BY <1>1, <1>5 DEF Answer
  <2>2. FilesOrder(files'[s]) /\ files'[s].worker = files[s].worker
        /\ files'[s].revised = files[s].revised
    BY <1>1, <2>1, AnswerKeepsOrder
  <2>3. PlaceOrder(files'[s], "write", kind[s])
    BY <1>1, <2>1, <2>2 DEF PlaceOrder, Asking
  <2> QED BY <2>1, <2>2, <2>3 DEF Order, Kept
<1>6. CASE SessionFails(s)
  BY <1>2, <1>6 DEF SessionFails
<1>7. CASE Written(s)
  <2>1. /\ step[s] = "write"
        /\ files'[s] = [files[s] EXCEPT ![Target[kind[s]]] = reply[s]]
        /\ Go(s, "save", kind[s]) \/ Handle(s)
    BY <1>1, <1>7 DEF Written
  <2>2. PlaceOrder(files[s], "wait", kind[s])
    BY <1>1, <2>1 DEF PlaceOrder, Asking
  <2>3. FilesOrder(files'[s]) /\ files'[s].worker = files[s].worker
        /\ files'[s].revised = files[s].revised
    BY <1>1, <2>1, <2>2, AnswerKeepsOrder
  <2>4. PlaceOrder(files'[s], "save", kind[s])
    BY <1>1, <2>1, <2>3 DEF PlaceOrder, Asking
  <2> QED BY <2>1, <2>3, <2>4, OrderAtPlace, OrderAfterAnswer DEF Kept
<1>8. CASE Save(s)
  <2>1. files' = files /\ step[s] = "save" /\ Handle(s)
    BY <1>8 DEF Save
  <2> QED BY <1>1, <2>1, OrderAfterAnswer DEF Kept
<1>9. CASE Bind(s)
  <2> DEFINE raw == files[s][Target[kind[s]]]
  <2>1. step[s] = "bind" /\ kind[s] \in {"worker", "workerRepair", "revision", "revisedRepair"}
    BY <1>9 DEF Bind, TypeInv, StepsOK, Bound
  <2>2. CASE raw \notin Bindable
    <3>1. Retry(s) /\ files' = files /\ Kept(s)
      BY <1>9, <2>2 DEF Bind, Kept
    <3> QED BY <2>1, <3>1, OrderAfterRetry
  <2>3. CASE raw \in Bindable /\ kind[s] \in {"worker", "workerRepair"}
    <3>1. Bound[kind[s]] = "worker"
      BY <2>3 DEF Bound
    <3>2. files'[s] = [files[s] EXCEPT !.worker = raw] /\ AfterWorker(s)
      BY <1>1, <1>9, <2>3, <3>1 DEF Bind
    <3>3. files[s].worker = "absent" /\ raw # "absent"
      BY <1>1, <2>1, <2>3 DEF PlaceOrder, Asking, Bindable
    <3> HIDE DEF raw
    <3>4. /\ FilesOrder(files'[s]) /\ files'[s].worker # "absent"
          /\ files'[s].revised = files[s].revised /\ files[s].review = "absent"
      BY <1>1, <3>2, <3>3 DEF FilesOrder, Artifacts
    <3> QED BY <3>2, <3>4, OrderAfterWorker DEF Kept
  <2>4. CASE raw \in Bindable /\ kind[s] \in {"revision", "revisedRepair"}
    <3>1. Bound[kind[s]] = "revised"
      BY <2>4 DEF Bound
    <3>2. files'[s] = [files[s] EXCEPT !.revised = raw] /\ AfterRevision(s)
      BY <1>1, <1>9, <2>4, <3>1 DEF Bind
    <3>3. files[s].revised = "absent" /\ raw # "absent" /\ files[s].worker # "absent"
      BY <1>1, <2>1, <2>4 DEF PlaceOrder, Asking, Bindable
    <3> HIDE DEF raw
    <3>4. /\ FilesOrder(files'[s]) /\ files'[s].revised # "absent"
          /\ files'[s].worker = files[s].worker /\ files[s].final = "absent"
      BY <1>1, <3>2, <3>3 DEF FilesOrder, Artifacts
    <3> QED BY <3>2, <3>3, <3>4, OrderAfterRevision DEF Kept
  <2> QED BY <2>1, <2>2, <2>3, <2>4
<1>10. CASE Prepare(s)
  <2>1. /\ files' = files /\ step[s] = "prepare" /\ Kept(s)
        /\ files'[s].worker # "absent"
    BY <1>1, <1>10 DEF Prepare, PlaceOrder, Kept
  <2>2. CASE Retry(s)
    BY <2>1, <2>2, OrderAfterRetry
  <2>3. CASE Go(s, "merge", kind[s])
    <3>1. PlaceOrder(files'[s], "merge", kind[s])
      BY DEF PlaceOrder, Asking
    <3> QED BY <1>1, <2>1, <2>3, <3>1, OrderAtPlace
  <2>4. CASE files[s].revised # "absent" /\ AfterRevision(s)
    BY <1>1, <2>1, <2>4, OrderAfterRevision
  <2>5. CASE files[s].revised = "absent" /\ Resume(s, "worker", "revision")
    <3>1. PlaceOrder(files'[s], "ask", "revision")
      BY <2>1, <2>5 DEF PlaceOrder
    <3> QED BY <1>1, <2>1, <2>5, <3>1, OrderAtPlace DEF Resume
  <2> QED BY <1>10, <2>2, <2>3, <2>4, <2>5 DEF Prepare
<1>11. ASSUME NEW place \in {"mergeRest", "import", "mark"}, Go(s, place, kind[s]),
              FilesOrder(files'[s]), Kept(s)
       PROVE  Order(s)' /\ Kept(s)
  <2>1. PlaceOrder(files'[s], place, kind[s])
    BY DEF PlaceOrder, Asking
  <2> QED BY <1>11, <2>1, OrderAtPlace
<1>12. CASE Merge(s) \/ MergeRest(s)
  <2>1. FilesOrder(files'[s]) /\ Kept(s)
    BY <1>1, <1>12 DEF Merge, MergeRest, FilesOrder, Kept, Artifacts
  <2> QED BY <1>11, <1>12, <2>1, OrderAtPlace DEF Merge, MergeRest
<1>13. CASE Import(s) \/ ImportFails(s) \/ Mark(s)
  <2>1. files' = files
    BY <1>13 DEF Import, ImportFails, Mark
  <2> QED BY <1>1, <1>2, <1>11, <1>13, <2>1 DEF Import, ImportFails, Mark, Kept
<1> QED BY <1>3, <1>4, <1>5, <1>6, <1>7, <1>8, <1>9, <1>10, <1>12, <1>13 DEF Process

\* No step of another shard touches them.
LEMMA OrderByOtherStep ==
    ASSUME TypeInv, NEW s \in Shards, NEW t \in Shards \ {s}, Order(t), Process(s)
    PROVE  Order(t)' /\ Kept(t)
<1>1. \/ files' = files
      \/ \E f : files' = [files EXCEPT ![s] = f]
  BY DEF Process, Begin, Ask, Answer, SessionFails, Written, Save, Bind, Prepare, Merge,
         MergeRest, Import, ImportFails, Mark
<1>2. /\ \A place, k : Go(s, place, k) => step'[t] = step[t] /\ kind'[t] = kind[t]
      /\ Fail(s) \/ Succeed(s) => step'[t] = step[t] /\ kind'[t] = kind[t]
  BY DEF Go, Fail, Succeed, TypeInv, StepsOK
<1>3. /\ \A session, k : Resume(s, session, k) => step'[t] = step[t] /\ kind'[t] = kind[t]
      /\ AfterWorker(s) => step'[t] = step[t] /\ kind'[t] = kind[t]
  BY <1>2 DEF Resume, AfterWorker
<1>4. Retry(s) \/ AfterRevision(s) => step'[t] = step[t] /\ kind'[t] = kind[t]
  BY <1>2, <1>3 DEF Retry, AfterRevision
<1>5. Handle(s) => step'[t] = step[t] /\ kind'[t] = kind[t]
  <2>1. \/ kind[s] \in DOMAIN Bound
        \/ kind[s] \in {"review", "reviewRepair"}
        \/ kind[s] = "final"
    BY DEF TypeInv, StepsOK, Kinds, Repairs, Bound
  <2> QED BY <1>2, <2>1 DEF Handle
<1>6. step'[t] = step[t] /\ kind'[t] = kind[t]
  BY <1>2, <1>3, <1>4, <1>5 DEF TypeInv, StepsOK, Process, Begin, Ask, Answer, SessionFails,
         Written, Save, Bind, Prepare, Merge, MergeRest, Import, ImportFails, Mark
<1>7. files'[t] = files[t]
  BY <1>1 DEF TypeInv, StoredOK
<1> QED BY <1>6, <1>7 DEF Order, Kept

\* Through all runs and crashes, the decision that a review was made of stays
\* the one it is merged with.
THEOREM ReviewedStays == Spec => ReviewedDecisionIsKept
<1> DEFINE OrderInv == \A s \in Shards : Order(s)
<1>1. Init => OrderInv
  BY DEF Init, Order, FilesOrder, PlaceOrder, NoFiles, Asking
<1>2. Inv /\ OrderInv /\ [Next]_vars => OrderInv' /\ \A s \in Shards : Kept(s)
  <2> SUFFICES ASSUME Inv, OrderInv, [Next]_vars, NEW t \in Shards
               PROVE  Order(t)' /\ Kept(t)
    OBVIOUS
  <2>1. ASSUME NEW s \in Shards, Process(s) PROVE Order(t)' /\ Kept(t)
    BY <2>1, OrderByOwnStep, OrderByOtherStep DEF Inv
  <2>2. CASE UNCHANGED vars
    BY <2>2 DEF vars, stored, volatile, Order, Kept
  <2>3. CASE StartRun \/ EndRun \/ Crash \/ \E s \in Shards : Take(s)
    <3>1. files' = files
      BY <2>3 DEF StartRun, EndRun, Crash, Take, stored
    <3>2. \/ step'[t] \in {"idle", "begin"}
          \/ step'[t] = step[t] /\ kind'[t] = kind[t]
      BY <2>3 DEF StartRun, EndRun, Crash, Take, Inv, TypeInv, StepsOK
    <3> QED BY <3>1, <3>2 DEF Order, PlaceOrder, Asking, Kept
  <2> QED BY <2>1, <2>2, <2>3 DEF Next
<1>3. Inv /\ OrderInv /\ [Next]_vars =>
         [\A s \in Shards :
            /\ files[s].review # "absent" => files'[s].worker = files[s].worker
            /\ files[s].final # "absent" => files'[s].revised = files[s].revised]_vars
  BY <1>2 DEF Kept
<1> HIDE DEF OrderInv
<1>4. Spec => []OrderInv
  BY <1>1, <1>2, Invariance, PTL DEF Spec
<1> QED BY <1>3, <1>4, Invariance, PTL DEF Spec, ReviewedDecisionIsKept
=============================================================================
