------------------------ MODULE ResearchAnswer_proofs ------------------------
(***************************************************************************)
(* Proofs about ResearchLoop and about AnswerService, for every value of   *)
(* their constants: any number of Articles and any limits of cycles,       *)
(* actions and tool calls of the research; any questions, evidence and     *)
(* replies of the models for the answer.                                   *)
(***************************************************************************)
EXTENDS ResearchLoop, AnswerService, FiniteSetTheorems, SequenceTheorems, WellFoundedInduction,
        TLAPS

(* The research. *)

(***************************************************************************)
(* The inductive invariant.  Only Checkpoints leave Tasks that wait, and   *)
(* each of these is the one Task that fetches its Article; this is why no  *)
(* Task that is resumed can settle another one of the same batch.          *)
(***************************************************************************)
Running(t) == task[t].status = "running"
Waits(t)   == task[t].status = "pending"

GraphTasks ==
    \A a \in Articles : graphTask[a] # 0 =>
        task[graphTask[a]].tool = "fetch_articles" /\ task[graphTask[a]].articles = {a}

OneRuns ==
    IF phase = "tool"
    THEN \E t \in DOMAIN task : \A r \in DOMAIN task : Running(r) <=> r = t
    ELSE \A t \in DOMAIN task : ~Running(t)

WaitsForArticle ==
    \A t \in DOMAIN task : Waits(t) => \E a \in Articles : graphTask[a] = t

\* What is resumed waits for a text that nobody has read, each for its own.
Resuming ==
    /\ \A i \in DOMAIN resume : Waits(resume[i]) /\ ~(task[resume[i]].articles \subseteq Fetched)
    /\ \A i, j \in DOMAIN resume : resume[i] = resume[j] => i = j
    /\ resume # <<>> =>
         /\ phase \in {"act", "tool"} /\ queue = <<>>
         /\ \A t \in DOMAIN task : Running(t) => \E a \in Articles : graphTask[a] = t
    /\ toolCalls + Len(resume) + (IF phase = "tool" THEN 1 ELSE 0) <= MaxToolCalls

HasItsTexts ==
    /\ checkpoint.named \subseteq Fetched
    /\ \A t \in DOMAIN task :
          task[t].tool = "fetch_articles" /\ Waits(t) => task[t].articles \subseteq Fetched

ReadyInv ==
    /\ checkpoint.status = "ready" => HasItsTexts
    /\ outcome = "ready" => phase = "done" /\ checkpoint.status = "ready"

IInv == TypeOK /\ GraphTasks /\ OneRuns /\ WaitsForArticle /\ Resuming /\ ReadyInv /\ phase # "error"

(***************************************************************************)
(* Lemmas about Tasks and the lists of them.                               *)
(***************************************************************************)
LEMMA TaskFields ==
  ASSUME NEW x \in Task
  PROVE  /\ x.tool \in Tools /\ x.articles \in SUBSET Articles /\ x.status \in TaskStatuses
         /\ x = [tool |-> x.tool, articles |-> x.articles, status |-> x.status]
  BY DEF Task

LEMMA WithStatus ==
  ASSUME NEW x \in Task, NEW s \in TaskStatuses
  PROVE  LET m == [x EXCEPT !.status = s] IN
         m \in Task /\ m.tool = x.tool /\ m.articles = x.articles /\ m.status = s
  BY DEF Task

LEMMA NewTaskIs ==
  ASSUME NEW a \in Articles, NEW s \in TaskStatuses
  PROVE  LET x == NewTask(FetchOf(a), s) IN
         x \in Task /\ x.tool = "fetch_articles" /\ x.articles = {a} /\ x.status = s
  BY DEF NewTask, FetchOf, Task, Tools

LEMMA ActionIs ==
  ASSUME NEW x \in Action
  PROVE  x.tool \in Tools /\ x.articles \in SUBSET Articles
  BY DEF Action, Tools

LEMMA SeqIs ==
  ASSUME NEW tasks \in Seq(Task)
  PROVE  /\ Len(tasks) \in Nat /\ DOMAIN tasks = 1 .. Len(tasks)
         /\ \A t \in DOMAIN tasks : tasks[t] \in Task
  OBVIOUS

\* A function like a list of Tasks is one.
LEMMA IsTasks ==
  ASSUME NEW n \in Nat, NEW f, DOMAIN f = 1 .. n, f = [t \in DOMAIN f |-> f[t]],
         \A t \in 1 .. n : f[t] \in Task
  PROVE  f \in Seq(Task) /\ Len(f) = n
  <1>1. f \in [1 .. n -> Task]  OBVIOUS
  <1> QED BY <1>1

LEMMA StartedIs ==
  ASSUME NEW tasks \in Seq(Task), NEW r \in DOMAIN tasks
  PROVE  LET m == Started(tasks, r) IN
         /\ m \in Seq(Task) /\ Len(m) = Len(tasks) /\ DOMAIN m = DOMAIN tasks
         /\ m[r].status = "running" /\ m[r].tool = tasks[r].tool /\ m[r].articles = tasks[r].articles
         /\ \A t \in DOMAIN tasks : t # r => m[t] = tasks[t]
  <1>1. PICK x \in Task : x = tasks[r]  OBVIOUS
  <1>2. PICK y : y = [x EXCEPT !.status = "running"]  OBVIOUS
  <1>3. y \in Task /\ y.tool = x.tool /\ y.articles = x.articles /\ y.status = "running"
    BY <1>2, WithStatus DEF TaskStatuses
  <1>4. Started(tasks, r) = [tasks EXCEPT ![r] = y]  BY <1>1, <1>2 DEF Started
  <1> QED BY <1>1, <1>3, <1>4

(***************************************************************************)
(* Registering an action.                                                  *)
(***************************************************************************)
LEMMA ReferenceIs ==
  ASSUME TypeOKCase, NEW action \in Action
  PROVE  /\ Reference(action) \in 1 .. Len(task) + 1
         /\ Reference(action) \in DOMAIN task => task[Reference(action)].status # "completed"
  <1>1. GraphTask(action) \in 0 .. Len(task)
    BY DEF GraphTask, TypeOKCase
  <1>2. keyTask[action] \in 0 .. Len(task)
    BY DEF TypeOKCase
  <1>3. Len(task) \in Nat /\ DOMAIN task = 1 .. Len(task)
    BY DEF TypeOKCase
  <1>4. Continued(action) \subseteq {GraphTask(action), keyTask[action]} \ {0}
    BY DEF Continued
  <1>5. \A t \in Continued(action) : task[t].status # "completed"
    BY DEF Continued
  <1>6. CASE Continued(action) = {}  BY <1>3, <1>6 DEF Reference
  <1>7. CASE Continued(action) # {}
    <2>1. Reference(action) \in Continued(action)
      BY <1>4, <1>7 DEF Reference
    <2> QED BY <1>1, <1>2, <1>3, <1>4, <1>5, <2>1
  <1> QED BY <1>6, <1>7

\* The Task of an action waits to be started, and the others are as before.
LEMMA RegisteredIs ==
  ASSUME TypeOKCase, \A t \in DOMAIN task : ~Running(t), NEW action \in Action
  PROVE  LET m == Registered(action)
             r == Reference(action) IN
         /\ m \in Seq(Task) /\ r \in DOMAIN m /\ m[r].status = "pending"
         /\ Len(m) >= Len(task) /\ Len(m) <= Len(task) + 1
         /\ \A t \in DOMAIN task : /\ t # r => m[t] = task[t]
                                   /\ m[t].tool = task[t].tool /\ m[t].articles = task[t].articles
                                   /\ t = r => task[t].status # "completed"
         /\ \A t \in DOMAIN m : t \notin DOMAIN task => t = r
         /\ r > Len(task) <=> Len(m) = Len(task) + 1
  <1> DEFINE r == Reference(action)
  <1>1. r \in 1 .. Len(task) + 1 /\ (r \in DOMAIN task => task[r].status # "completed")
    BY ReferenceIs
  <1>2. task \in Seq(Task) /\ Len(task) \in Nat /\ DOMAIN task = 1 .. Len(task)
    BY DEF TypeOKCase
  <1>3. CASE r > Len(task)
    <2>1. PICK x : x = NewTask(action, "pending")  OBVIOUS
    <2>2. x \in Task /\ x.status = "pending"
      BY <2>1, ActionIs DEF NewTask, Task, TaskStatuses
    <2>3. Registered(action) = Append(task, x)
      BY <1>3, <2>1 DEF Registered
    <2>4. r = Len(task) + 1  BY <1>1, <1>2, <1>3
    <2> HIDE DEF r
    <2> QED BY <1>2, <2>2, <2>3, <2>4 DEF r
  <1>4. CASE ~(r > Len(task))
    <2>1. r \in DOMAIN task  BY <1>1, <1>2, <1>4
    <2>2. PICK x \in Task : x = task[r]  BY <1>2, <2>1
    <2>3. x.status \in {"candidate", "pending", "failed"}
      BY <1>1, <2>1, <2>2, TaskFields DEF Running, TaskStatuses
    <2>4. PICK y : y = [x EXCEPT !.status = "pending"]  OBVIOUS
    <2>5. y \in Task /\ y.tool = x.tool /\ y.articles = x.articles /\ y.status = "pending"
      BY <2>4, WithStatus DEF TaskStatuses
    <2>6. Registered(action) = [task EXCEPT ![r] = y]
      <3>1. Registered(action) = [task EXCEPT ![r].status =
                IF @ \in {"candidate", "failed"} THEN "pending" ELSE @]
        BY <1>4 DEF Registered
      <3>2. (IF x.status \in {"candidate", "failed"} THEN "pending" ELSE x.status) = "pending"
        BY <2>3
      <3> HIDE DEF r
      <3> QED BY <2>2, <2>4, <3>1, <3>2
    <2>7. PICK m : m = [task EXCEPT ![r] = y]  OBVIOUS
    <2>8. m = Registered(action)  BY <2>6, <2>7
    <2> HIDE DEF r
    <2>9. m \in Seq(Task) /\ Len(m) = Len(task) /\ DOMAIN m = DOMAIN task /\ m[r] = y
      BY <1>2, <2>1, <2>5, <2>7
    <2>10. \A t \in DOMAIN task : t # r => m[t] = task[t]  BY <2>7
    <2>11. \A t \in DOMAIN task : /\ m[t].tool = task[t].tool /\ m[t].articles = task[t].articles
                                  /\ t = r => task[t].status # "completed"
      BY <1>1, <2>2, <2>5, <2>9, <2>10
    <2>12. m[r].status = "pending" /\ r \in DOMAIN m  BY <2>1, <2>5, <2>9
    <2>13. Len(m) >= Len(task) /\ Len(m) <= Len(task) + 1 /\ Len(m) # Len(task) + 1
      <3>1. Len(task) \in Nat /\ Len(m) = Len(task)  BY <1>2, <2>9
      <3> QED BY <3>1
    <2>14. \A t \in DOMAIN m : t \notin DOMAIN task => t = r  BY <2>9
    <2> QED BY <1>4, <2>8, <2>9, <2>10, <2>11, <2>12, <2>13, <2>14, Zenon DEF r
  <1> QED BY <1>3, <1>4

(***************************************************************************)
(* The lists that a tool's end and a Checkpoint leave.                     *)
(***************************************************************************)
LEMMA ReconciledIs ==
  ASSUME NEW tasks \in Seq(Task), NEW fetched
  PROVE  LET m == Reconciled(tasks, fetched) IN
         /\ m \in Seq(Task) /\ Len(m) = Len(tasks) /\ DOMAIN m = DOMAIN tasks
         /\ \A t \in DOMAIN tasks :
              /\ m[t].tool = tasks[t].tool /\ m[t].articles = tasks[t].articles
              /\ \/ m[t].status = tasks[t].status
                 \/ /\ tasks[t].status \in {"candidate", "pending", "failed"}
                    /\ m[t].status = "completed" /\ m[t].articles \subseteq fetched
  <1>1. PICK m : m = Reconciled(tasks, fetched)  OBVIOUS
  <1>2. DOMAIN m = DOMAIN tasks /\ m = [t \in DOMAIN m |-> m[t]]
    BY <1>1 DEF Reconciled
  <1>3. ASSUME NEW t \in DOMAIN tasks
        PROVE  /\ m[t] \in Task
               /\ m[t].tool = tasks[t].tool /\ m[t].articles = tasks[t].articles
               /\ \/ m[t].status = tasks[t].status
                  \/ /\ tasks[t].status \in {"candidate", "pending", "failed"}
                     /\ m[t].status = "completed" /\ m[t].articles \subseteq fetched
    <2>1. PICK x \in Task : x = tasks[t]  OBVIOUS
    <2>2. PICK y : y = [x EXCEPT !.status = "completed"]  OBVIOUS
    <2>3. y \in Task /\ y.tool = x.tool /\ y.articles = x.articles /\ y.status = "completed"
      BY <2>2, WithStatus DEF TaskStatuses
    <2>4. m[t] = IF /\ x.tool = "fetch_articles" /\ x.status \in {"candidate", "pending", "failed"}
                    /\ x.articles \subseteq fetched
                 THEN y ELSE x
      BY <1>1, <2>1, <2>2 DEF Reconciled
    <2> QED BY <2>1, <2>3, <2>4
  <1>4. m \in Seq(Task) /\ Len(m) = Len(tasks)
    <2>1. Len(tasks) \in Nat /\ DOMAIN tasks = 1 .. Len(tasks)  OBVIOUS
    <2> QED BY <1>2, <1>3, <2>1, IsTasks
  <1> QED BY <1>1, <1>2, <1>3, <1>4

LEMMA PromotedIs ==
  ASSUME TypeOKCase, NEW asked
  PROVE  LET m == Promoted(asked) IN
         /\ m \in Seq(Task) /\ Len(m) = Len(task) /\ DOMAIN m = DOMAIN task
         /\ \A t \in DOMAIN task :
              /\ m[t].tool = task[t].tool /\ m[t].articles = task[t].articles
              /\ \/ m[t] = task[t]
                 \/ /\ task[t].status \in {"candidate", "failed"} /\ m[t].status = "pending"
                    /\ \E a \in asked \ Fetched : graphTask[a] = t
  <1> USE DEF TypeOKCase
  <1>1. PICK m : m = Promoted(asked)  OBVIOUS
  <1>2. DOMAIN m = DOMAIN task /\ m = [t \in DOMAIN m |-> m[t]]
    BY <1>1 DEF Promoted
  <1>3. ASSUME NEW t \in DOMAIN task
        PROVE  /\ m[t] \in Task
               /\ m[t].tool = task[t].tool /\ m[t].articles = task[t].articles
               /\ \/ m[t] = task[t]
                  \/ /\ task[t].status \in {"candidate", "failed"} /\ m[t].status = "pending"
                     /\ \E a \in asked \ Fetched : graphTask[a] = t
    <2>1. PICK x \in Task : x = task[t]  OBVIOUS
    <2>2. PICK y : y = [x EXCEPT !.status = "pending"]  OBVIOUS
    <2>3. y \in Task /\ y.tool = x.tool /\ y.articles = x.articles /\ y.status = "pending"
      BY <2>2, WithStatus DEF TaskStatuses
    <2>4. m[t] = IF (\E a \in asked \ Fetched : graphTask[a] = t) /\ x.status \in {"candidate", "failed"}
                 THEN y ELSE x
      BY <1>1, <2>1, <2>2 DEF Promoted
    <2> QED BY <2>1, <2>3, <2>4
  <1>4. m \in Seq(Task) /\ Len(m) = Len(task)
    <2>1. Len(task) \in Nat /\ DOMAIN task = 1 .. Len(task)  OBVIOUS
    <2> QED BY <1>2, <1>3, <2>1, IsTasks
  <1> QED BY <1>1, <1>2, <1>3, <1>4

\* New Tasks come after the others, and each is the graph task of its Article.
LEMMA AddTasksIs ==
  ASSUME NEW tasks \in Seq(Task), graphTask \in [Articles -> 0 .. Len(tasks)],
         NEW S \in SUBSET Articles, NEW status \in TaskStatuses, AddTasks(tasks, S, status)
  PROVE  /\ task' \in Seq(Task) /\ Len(task') >= Len(tasks)
         /\ graphTask' \in [Articles -> 0 .. Len(task')]
         /\ \A t \in DOMAIN tasks : t \in DOMAIN task' /\ task'[t] = tasks[t]
         /\ \A t \in DOMAIN task' : t \in DOMAIN tasks \/
              \E a \in Articles : task'[t] = NewTask(FetchOf(a), status) /\ graphTask'[a] = t
         /\ \A a \in Articles : graphTask[a] # 0 => graphTask'[a] = graphTask[a]
         /\ \A a \in Articles : graphTask'[a] = graphTask[a]
                                \/ task'[graphTask'[a]] = NewTask(FetchOf(a), status)
         /\ S = {} => Len(task') = Len(tasks)
  <1> DEFINE T == {a \in S : graphTask[a] = 0}
  <1>1. PICK order \in Orders(T) :
           /\ task' = tasks \o [i \in DOMAIN order |-> NewTask(FetchOf(order[i]), status)]
           /\ graphTask' = [a \in Articles |->
                 IF \E i \in DOMAIN order : order[i] = a
                 THEN Len(tasks) + (CHOOSE i \in DOMAIN order : order[i] = a)
                 ELSE graphTask[a]]
    BY DEF AddTasks
  <1>2. PICK n \in Nat : n = Cardinality(T) /\ (S = {} => n = 0)
    <2>1. IsFiniteSet(T)
      BY FS_Subset, ResearchCaseAssumption DEF ResearchCaseAssumption
    <2>2. Cardinality(T) \in Nat  BY <2>1, FS_CardinalityType
    <2>3. S = {} => Cardinality(T) = 0
      <3>1. S = {} => T = {}  OBVIOUS
      <3> HIDE DEF T
      <3> QED BY <3>1, FS_EmptySet
    <2> HIDE DEF T
    <2> QED BY <2>2, <2>3
  <1>3. /\ order \in [1 .. n -> T] /\ \A i, j \in DOMAIN order : order[i] = order[j] => i = j
    BY <1>1, <1>2 DEF Orders
  <1>4. PICK new : new = [i \in 1 .. n |-> NewTask(FetchOf(order[i]), status)]  OBVIOUS
  <1>5. \A i \in 1 .. n : order[i] \in Articles /\ graphTask[order[i]] = 0  BY <1>3
  <1>6. new \in Seq(Task) /\ Len(new) = n
    <2>1. \A i \in 1 .. n : NewTask(FetchOf(order[i]), status) \in Task  BY <1>5, NewTaskIs
    <2>2. DOMAIN new = 1 .. n /\ new = [t \in DOMAIN new |-> new[t]] /\ \A t \in 1 .. n : new[t] \in Task
      BY <1>4, <2>1
    <2> QED BY <2>2, IsTasks
  <1>7. task' = tasks \o new  BY <1>1, <1>3, <1>4
  <1>8. PICK L \in Nat : L = Len(tasks) /\ DOMAIN tasks = 1 .. L  OBVIOUS
  <1>9. /\ task' \in Seq(Task) /\ Len(task') = L + n /\ DOMAIN task' = 1 .. L + n
        /\ \A t \in 1 .. L : task'[t] = tasks[t]
        /\ \A i \in 1 .. n : task'[L + i] = NewTask(FetchOf(order[i]), status)
    <2>1. /\ task' \in Seq(Task) /\ Len(task') = L + n
          /\ \A t \in 1 .. L + n : task'[t] = IF t <= L THEN tasks[t] ELSE new[t - L]
      <3>1. PICK both : both = tasks \o new  OBVIOUS
      <3>2. /\ both \in Seq(Task) /\ Len(both) = Len(tasks) + Len(new)
            /\ \A t \in 1 .. Len(tasks) + Len(new) :
                  both[t] = IF t <= Len(tasks) THEN tasks[t] ELSE new[t - Len(tasks)]
        BY <1>6, <3>1, ConcatProperties
      <3> QED BY <1>6, <1>7, <1>8, <3>1, <3>2
    <2>2. ASSUME NEW i \in 1 .. n PROVE task'[L + i] = NewTask(FetchOf(order[i]), status)
      <3>1. L + i \in 1 .. L + n /\ ~(L + i <= L) /\ (L + i) - L = i  BY <1>2, <1>8
      <3>2. task'[L + i] = new[i]  BY <2>1, <3>1
      <3> QED BY <1>4, <3>2
    <2> QED BY <1>8, <2>1, <2>2
  <1>10. ASSUME NEW i \in 1 .. n PROVE graphTask'[order[i]] = L + i
    <2>1. (CHOOSE j \in DOMAIN order : order[j] = order[i]) = i  BY <1>3
    <2>2. \E j \in DOMAIN order : order[j] = order[i]  BY <1>3
    <2> QED BY <1>1, <1>5, <1>8, <2>1, <2>2
  <1>11. \A a \in Articles : (\E i \in 1 .. n : a = order[i]) \/ graphTask'[a] = graphTask[a]
    BY <1>1, <1>3
  <1>12. graphTask' \in [Articles -> 0 .. Len(task')]
    <2>1. \A a \in Articles : graphTask'[a] \in 0 .. L + n
      BY <1>2, <1>8, <1>10, <1>11
    <2>2. PICK g : g = graphTask'  OBVIOUS
    <2>3. DOMAIN g = Articles /\ g = [a \in DOMAIN g |-> g[a]]  BY <1>1, <2>2
    <2> QED BY <1>9, <2>1, <2>2, <2>3
  <1>13. \A a \in Articles : /\ graphTask[a] # 0 => graphTask'[a] = graphTask[a]
                             /\ \/ graphTask'[a] = graphTask[a]
                                \/ task'[graphTask'[a]] = NewTask(FetchOf(a), status)
    BY <1>5, <1>9, <1>10, <1>11
  <1>14. ASSUME NEW t \in DOMAIN task', t \notin DOMAIN tasks
         PROVE  \E a \in Articles : task'[t] = NewTask(FetchOf(a), status) /\ graphTask'[a] = t
    <2>1. PICK i \in 1 .. n : t = L + i
      <3>1. t \in 1 .. L + n /\ t \notin 1 .. L  BY <1>8, <1>9, <1>14
      <3>2. t - L \in 1 .. n /\ t = L + (t - L)  BY <1>2, <1>8, <3>1
      <3> QED BY <3>2
    <2> QED BY <1>5, <1>9, <1>10, <2>1
  <1>15. S = {} => Len(task') = Len(tasks)
    <2>1. S = {} => n = 0  BY <1>2
    <2> QED BY <1>8, <1>9, <2>1
  <1>16. Len(task') >= Len(tasks) /\ \A t \in DOMAIN tasks : t \in DOMAIN task' /\ task'[t] = tasks[t]
    <2>1. L + n >= L /\ \A t \in 1 .. L : t \in 1 .. L + n  OBVIOUS
    <2> QED BY <1>8, <1>9, <2>1
  <1> QED BY <1>9, <1>12, <1>13, <1>14, <1>15, <1>16

(***************************************************************************)
(* The Tasks that a cycle resumes.                                         *)
(***************************************************************************)
Before(R, t) == {r \in R : r < t}

\* The members of a finite set of numbers stand at the places below its size.
LEMMA Places ==
  ASSUME NEW R \in SUBSET Nat, IsFiniteSet(R)
  PROVE  /\ Cardinality(R) \in Nat
         /\ \A t \in R : Cardinality(Before(R, t)) \in 0 .. Cardinality(R) - 1
         /\ \A t, u \in R : Cardinality(Before(R, t)) = Cardinality(Before(R, u)) => t = u
         /\ \A k \in 0 .. Cardinality(R) - 1 : \E t \in R : Cardinality(Before(R, t)) = k
  <1>1. PICK C \in Nat : C = Cardinality(R)  BY FS_CardinalityType
  <1>2. ASSUME NEW t \in R
        PROVE  IsFiniteSet(Before(R, t)) /\ Cardinality(Before(R, t)) \in 0 .. C - 1
    <2>0. \A r \in Before(R, t) : r \in R /\ r # t  BY DEF Before
    <2>1. PICK B \in SUBSET (R \ {t}) : B = Before(R, t)  BY <2>0
    <2>2. IsFiniteSet(R \ {t}) /\ Cardinality(R \ {t}) = C - 1  BY <1>1, FS_RemoveElement
    <2>3. IsFiniteSet(B) /\ Cardinality(B) <= C - 1  BY <2>2, FS_Subset
    <2>4. Cardinality(B) \in Nat  BY <2>3, FS_CardinalityType
    <2> QED BY <2>1, <2>3, <2>4
  <1>3. ASSUME NEW t \in R, NEW u \in R, t < u
        PROVE  Cardinality(Before(R, t)) # Cardinality(Before(R, u))
    <2>1. PICK B : B = Before(R, t) \union {t}  OBVIOUS
    <2>2. t \notin Before(R, t)  BY DEF Before
    <2>3. IsFiniteSet(B) /\ Cardinality(B) = Cardinality(Before(R, t)) + 1
      BY <1>2, <2>1, <2>2, FS_AddElement
    <2>4. B \in SUBSET Before(R, u)
      <3>1. \A r \in Before(R, t) : r \in R /\ r < u  BY <1>3 DEF Before
      <3>2. \A r \in B : r \in R /\ r < u  BY <1>3, <2>1, <3>1
      <3> QED BY <3>2 DEF Before
    <2>5. Cardinality(B) <= Cardinality(Before(R, u))  BY <1>2, <2>4, FS_Subset
    <2> QED BY <1>2, <2>3, <2>5
  <1>4. \A t, u \in R : Cardinality(Before(R, t)) = Cardinality(Before(R, u)) => t = u
    BY <1>3
  <1>5. PICK f : f = [t \in R |-> Cardinality(Before(R, t))]  OBVIOUS
  <1>6. f \in Injection(R, 0 .. C - 1)
    BY <1>2, <1>4, <1>5 DEF Injection, IsInjective
  <1>7. IsFiniteSet(0 .. C - 1) /\ Cardinality(0 .. C - 1) = C
    <2>1. IsFiniteSet(0 .. C - 1) /\ Cardinality(0 .. C - 1) = IF 0 > C - 1 THEN 0 ELSE (C - 1) - 0 + 1
      BY FS_Interval
    <2> QED BY <2>1
  <1>8. f \in Surjection(R, 0 .. C - 1)  BY <1>1, <1>6, <1>7, FS_Injection
  <1>9. \A k \in 0 .. C - 1 : \E t \in R : Cardinality(Before(R, t)) = k
    BY <1>5, <1>8 DEF Surjection
  <1> QED BY <1>1, <1>2, <1>4, <1>9

LEMMA ResumedIs ==
  ASSUME TypeOK
  PROVE  /\ Resumed \in Seq(DOMAIN task)
         /\ Len(Resumed) + toolCalls <= MaxToolCalls
         /\ \A i \in DOMAIN Resumed : Resumed[i] \in Runnable
         /\ \A i, j \in DOMAIN Resumed : Resumed[i] = Resumed[j] => i = j
  <1> DEFINE n == SmallerOf(MaxActions, MaxToolCalls - toolCalls)
             R == Runnable
             first == {t \in R : Cardinality(Before(R, t)) < n}
             m == Cardinality(first)
             rs == [i \in 1 .. m |-> CHOOSE t \in first : Cardinality(Before(R, t)) = i - 1]
  <1>1. Resumed = rs  BY DEF Resumed, Before
  <1>2. n \in Nat /\ n + toolCalls <= MaxToolCalls
    BY ResearchLoopAssumption DEF ResearchLoopAssumption, TypeOK, SmallerOf
  <1>3. R \in SUBSET DOMAIN task  BY DEF Runnable
  <1>4. DOMAIN task \in SUBSET Nat /\ IsFiniteSet(DOMAIN task)
    <2>1. Len(task) \in Nat /\ DOMAIN task = 1 .. Len(task)  BY DEF TypeOK, TypeOKCase
    <2>2. IsFiniteSet(1 .. Len(task))  BY <2>1, FS_Interval
    <2> QED BY <2>1, <2>2
  <1>5. R \in SUBSET Nat /\ IsFiniteSet(R)  BY <1>3, <1>4, FS_Subset
  <1> HIDE DEF n, R
  <1>6. /\ Cardinality(R) \in Nat
        /\ \A t \in R : Cardinality(Before(R, t)) \in 0 .. Cardinality(R) - 1
        /\ \A t, u \in R : Cardinality(Before(R, t)) = Cardinality(Before(R, u)) => t = u
        /\ \A k \in 0 .. Cardinality(R) - 1 : \E t \in R : Cardinality(Before(R, t)) = k
    BY <1>5, Places
  <1>7. IsFiniteSet(first) /\ m \in Nat /\ m <= Cardinality(R)
    <2>1. first \in SUBSET R  OBVIOUS
    <2> HIDE DEF first
    <2> QED BY <1>5, <2>1, FS_Subset, FS_CardinalityType
  <1>8. m <= n
    <2>1. PICK f : f = [t \in first |-> Cardinality(Before(R, t))]  OBVIOUS
    <2>2. f \in Injection(first, 0 .. n - 1)
      BY <1>2, <1>6, <2>1 DEF Injection, IsInjective
    <2>3. IsFiniteSet(0 .. n - 1) /\ Cardinality(0 .. n - 1) = IF 0 > n - 1 THEN 0 ELSE (n - 1) - 0 + 1
      BY <1>2, FS_Interval
    <2>4. Cardinality(0 .. n - 1) = n  BY <1>2, <2>3
    <2> HIDE DEF first
    <2> QED BY <2>2, <2>3, <2>4, FS_Injection
  <1>9. ASSUME NEW i \in 1 .. m
        PROVE  rs[i] \in first /\ Cardinality(Before(R, rs[i])) = i - 1
    <2>1. i - 1 \in 0 .. Cardinality(R) - 1 /\ i - 1 < n
      BY <1>2, <1>6, <1>7, <1>8
    <2>2. \E t \in first : Cardinality(Before(R, t)) = i - 1
      BY <1>6, <2>1
    <2> HIDE DEF first
    <2> QED BY <2>2
  <1>10. Len(rs) = m /\ rs \in [1 .. m -> DOMAIN task]
    <2>1. \A i \in 1 .. m : rs[i] \in DOMAIN task  BY <1>3, <1>9
    <2>2. DOMAIN rs = 1 .. m /\ rs = [i \in DOMAIN rs |-> rs[i]]  OBVIOUS
    <2> HIDE DEF rs, m
    <2> QED BY <1>7, <2>1, <2>2
  <1>11. rs \in Seq(DOMAIN task) /\ Len(rs) + toolCalls <= MaxToolCalls
    <2>1. toolCalls \in Nat /\ MaxToolCalls \in Nat
      BY ResearchLoopAssumption DEF ResearchLoopAssumption, TypeOK
    <2> HIDE DEF rs, m
    <2> QED BY <1>2, <1>7, <1>8, <1>10, <2>1
  <1>12. \A i \in DOMAIN rs : rs[i] \in R  BY <1>9
  <1>13. \A i, j \in DOMAIN rs : rs[i] = rs[j] => i = j
    <2>1. DOMAIN rs = 1 .. m  OBVIOUS
    <2> HIDE DEF rs, m
    <2> QED BY <1>7, <1>9, <2>1
  <1> HIDE DEF rs
  <1> QED BY <1>1, <1>11, <1>12, <1>13 DEF R

(***************************************************************************)
(* Each step keeps the invariant.                                          *)
(***************************************************************************)
LEMMA InitIInv == Init => IInv
  <1> SUFFICES ASSUME Init PROVE IInv
    OBVIOUS
  <1> USE DEF Init, InitCase
  <1>1. TypeOK
    <2>1. task \in Seq(Task) /\ Len(task) = 0 /\ DOMAIN task = {}  OBVIOUS
    <2>2. resume \in Seq(DOMAIN task) /\ queue \in Seq(Action)  OBVIOUS
    <2>3. cycle \in 0 .. MaxCycles /\ toolCalls \in 0 .. MaxToolCalls
      BY ResearchLoopAssumption DEF ResearchLoopAssumption
    <2>4. checkpoint \in Checkpoint  BY DEF Checkpoint, Verdicts
    <2>5. TypeOKCase
      <3>1. graphTask \in [Articles -> 0 .. 0] /\ keyTask \in [Action -> 0 .. 0]  OBVIOUS
      <3> QED BY <2>1, <3>1 DEF TypeOKCase
    <2>6. outcome \in Verdicts \union {"none", "timeout", "failed"} /\ selected \in BOOLEAN
      OBVIOUS
    <2> QED BY <2>2, <2>3, <2>4, <2>5, <2>6 DEF TypeOK
  <1>2. GraphTasks /\ OneRuns /\ WaitsForArticle  BY DEF GraphTasks, OneRuns, WaitsForArticle
  <1>3. Resuming
    BY ResearchLoopAssumption DEF ResearchLoopAssumption, Resuming
  <1>4. ReadyInv  BY DEF ReadyInv
  <1> QED BY <1>1, <1>2, <1>3, <1>4 DEF IInv

\* Between the cycles and for a stage, the case is as it was.
LEMMA SameCase ==
  ASSUME IInv, UNCHANGED <<case, toolCalls>>, phase # "tool", phase' # "tool",
         checkpoint' \in Checkpoint, checkpoint' = checkpoint \/ checkpoint'.status # "ready",
         phase' \in {"cycle", "act", "explore", "deepen", "integrate", "done"},
         stage' \in {"resume", "explore", "deepen"}, cycle' \in 0 .. MaxCycles,
         resume' = <<>>, queue' \in Seq(Action), selected' \in BOOLEAN,
         outcome' \in Verdicts \union {"none", "timeout", "failed"},
         outcome' = "ready" => phase' = "done" /\ checkpoint'.status = "ready"
  PROVE  IInv'
  <1> USE DEF IInv
  <1>1. UNCHANGED <<task, graphTask, keyTask, text>>  BY DEF case
  <1>2. TypeOK'  BY <1>1 DEF TypeOK, TypeOKCase
  <1>3. GraphTasks' /\ OneRuns' /\ WaitsForArticle'
    BY <1>1 DEF GraphTasks, OneRuns, WaitsForArticle, Running, Waits
  <1>4. Resuming'
    <2>1. toolCalls + Len(<<>>) + 0 <= MaxToolCalls
      BY ResearchLoopAssumption DEF ResearchLoopAssumption, TypeOK
    <2> QED BY <2>1 DEF Resuming
  <1>5. ReadyInv'  BY <1>1 DEF ReadyInv, HasItsTexts, Waits, Fetched
  <1> QED BY <1>2, <1>3, <1>4, <1>5

LEMMA BeginCycleStep == IInv /\ BeginCycle => IInv'
  <1> SUFFICES ASSUME IInv, BeginCycle PROVE IInv'
    OBVIOUS
  <1> USE DEF IInv
  <1>1. phase = "cycle" /\ UNCHANGED <<case, toolCalls, checkpoint>> /\ resume = <<>>
    BY DEF BeginCycle, Resuming
  <1>2. UNCHANGED <<task, graphTask, keyTask, text>>  BY <1>1 DEF case
  <1>3. ASSUME NEW status \in {checkpoint.status, "timeout"}, Finish(status), UNCHANGED <<turn, cycle>>
        PROVE  IInv'
    <2>1. checkpoint.status \in Verdicts  BY DEF TypeOK, Checkpoint
    <2> QED BY <1>1, <1>3, <2>1, SameCase DEF Finish, turn, TypeOK
  <1>4. CASE /\ cycle < MaxCycles /\ cycle' = cycle + 1 /\ phase' = "act" /\ stage' = "resume"
             /\ resume' = Resumed /\ queue' = <<>> /\ selected' = FALSE /\ UNCHANGED outcome
    <2>1. /\ Resumed \in Seq(DOMAIN task) /\ Len(Resumed) + toolCalls <= MaxToolCalls
          /\ \A i \in DOMAIN Resumed : Resumed[i] \in Runnable
          /\ \A i, j \in DOMAIN Resumed : Resumed[i] = Resumed[j] => i = j
      BY ResumedIs
    <2>2. TypeOK'
      <3>1. cycle' \in 0 .. MaxCycles
        BY <1>4, ResearchLoopAssumption DEF TypeOK, ResearchLoopAssumption
      <3>2. queue' \in Seq(Action)  BY <1>4
      <3> QED BY <1>1, <1>2, <1>4, <2>1, <3>1, <3>2 DEF TypeOK, TypeOKCase
    <2>3. GraphTasks' /\ OneRuns' /\ WaitsForArticle'
      BY <1>1, <1>2, <1>4 DEF GraphTasks, OneRuns, WaitsForArticle, Running, Waits
    <2>4. \A t \in Runnable : t \in DOMAIN task /\ Waits(t) /\ ~(task[t].articles \subseteq Fetched)
      <3>1. ASSUME NEW t \in Runnable PROVE task[t].tool = "fetch_articles"
        BY DEF Runnable, WaitsForArticle, GraphTasks, Waits, TypeOK, TypeOKCase
      <3> QED BY <3>1 DEF Runnable, Waits
    <2>5. Resuming'
      <3>1. toolCalls + Len(Resumed) + 0 <= MaxToolCalls
        BY <2>1, ResearchLoopAssumption DEF ResearchLoopAssumption, TypeOK
      <3>2. \A t \in DOMAIN task : ~Running(t)  BY <1>1 DEF OneRuns
      <3>3. \A i \in DOMAIN Resumed : Waits(Resumed[i]) /\ ~(task[Resumed[i]].articles \subseteq Fetched)
        BY <2>1, <2>4
      <3> QED BY <1>1, <1>2, <1>4, <2>1, <3>1, <3>2, <3>3 DEF Resuming, Running, Waits, Fetched
    <2>6. ReadyInv'  BY <1>1, <1>2, <1>4 DEF ReadyInv, HasItsTexts, Waits, Fetched
    <2> QED BY <1>4, <2>2, <2>3, <2>5, <2>6
  <1> QED BY <1>3, <1>4 DEF BeginCycle

\* A Task that may start runs, and no other one has changed.
LEMMA TailIs ==
  ASSUME NEW S, NEW s \in Seq(S), s # <<>>
  PROVE  /\ Head(s) = s[1] /\ 1 \in DOMAIN s /\ Tail(s) \in Seq(S) /\ Len(Tail(s)) = Len(s) - 1
         /\ Len(s) \in Nat
         /\ \A i \in DOMAIN Tail(s) : i + 1 \in DOMAIN s /\ i + 1 # 1 /\ Tail(s)[i] = s[i + 1]
  OBVIOUS

LEMMA ResumeStep == IInv /\ ResumeTask => IInv'
  <1> SUFFICES ASSUME IInv, ResumeTask PROVE IInv'
    OBVIOUS
  <1> USE DEF IInv
  <1> DEFINE r == Head(resume)
  <1>1. /\ phase = "act" /\ resume # <<>> /\ Start(task, r) /\ resume' = Tail(resume)
        /\ UNCHANGED <<graphTask, keyTask, text, stage, queue, selected, cycle, toolCalls,
                       checkpoint, outcome>>
    BY DEF ResumeTask
  <1>2. /\ r = resume[1] /\ 1 \in DOMAIN resume /\ Len(resume) \in Nat
        /\ Tail(resume) \in Seq(DOMAIN task) /\ Len(Tail(resume)) = Len(resume) - 1
        /\ \A i \in DOMAIN Tail(resume) :
              i + 1 \in DOMAIN resume /\ i + 1 # 1 /\ Tail(resume)[i] = resume[i + 1]
    <2>1. PICK s \in Seq(DOMAIN task) : s = resume  BY DEF TypeOK
    <2> QED BY <1>1, <2>1, TailIs
  <1>3. r \in DOMAIN task  BY <1>2 DEF TypeOK
  <1>4. Waits(r)  BY <1>2 DEF Resuming
  <1> HIDE DEF r
  <1>5. task' = Started(task, r) /\ phase' = "tool"
    <2>1. Startable(task, r)
      BY <1>1, <1>4 DEF Startable, OneRuns, Running, Waits
    <2> QED BY <1>1, <2>1 DEF Start
  <1>6. /\ task' \in Seq(Task) /\ Len(task') = Len(task) /\ DOMAIN task' = DOMAIN task
        /\ task'[r].status = "running" /\ task'[r].tool = task[r].tool
        /\ task'[r].articles = task[r].articles
        /\ \A t \in DOMAIN task : t # r => task'[t] = task[t]
    BY <1>3, <1>5, StartedIs DEF TypeOK, TypeOKCase
  <1>7. TypeOK'
    BY <1>1, <1>2, <1>5, <1>6 DEF TypeOK, TypeOKCase
  <1>8. \A t \in DOMAIN task : task'[t].tool = task[t].tool /\ task'[t].articles = task[t].articles
    BY <1>6
  <1>9. GraphTasks'
    <2>1. \A a \in Articles : graphTask[a] # 0 => graphTask[a] \in DOMAIN task
      BY DEF TypeOK, TypeOKCase
    <2> QED BY <1>1, <1>8, <2>1 DEF GraphTasks
  <1>10. \A t \in DOMAIN task : (Running(t)' <=> t = r) /\ (Waits(t)' => Waits(t))
    <2>1. \A t \in DOMAIN task : ~Running(t)  BY <1>1 DEF OneRuns
    <2> QED BY <1>6, <2>1 DEF Running, Waits
  <1>11. OneRuns'  BY <1>3, <1>5, <1>6, <1>10 DEF OneRuns
  <1>12. WaitsForArticle'  BY <1>1, <1>6, <1>10 DEF WaitsForArticle
  <1>13. Resuming'
    <2>1. ASSUME NEW i \in DOMAIN resume'
          PROVE  /\ task'[resume'[i]].status = "pending"
                 /\ ~(task'[resume'[i]].articles \subseteq Fetched)
      <3>1. PICK k \in DOMAIN resume : k # 1 /\ resume'[i] = resume[k]  BY <1>1, <1>2
      <3>2. resume[k] # r /\ resume[k] \in DOMAIN task  BY <1>2, <3>1 DEF Resuming, TypeOK
      <3>3. task'[resume[k]] = task[resume[k]]  BY <1>6, <3>2
      <3> QED BY <3>1, <3>3 DEF Resuming, Waits
    <2>2. \A i \in DOMAIN resume' : resume'[i] = resume[i + 1] /\ i + 1 \in DOMAIN resume /\ i \in Nat
      BY <1>1, <1>2
    <2>3. \A i, j \in DOMAIN resume' : resume'[i] = resume'[j] => i = j
      BY <2>2 DEF Resuming
    <2>4. toolCalls + (Len(resume) - 1) + 1 <= MaxToolCalls
      BY <1>1, <1>2, ResearchLoopAssumption DEF Resuming, TypeOK, ResearchLoopAssumption
    <2>5. \A t \in DOMAIN task : Running(t)' => \E a \in Articles : graphTask[a] = t
      BY <1>3, <1>4, <1>10 DEF WaitsForArticle
    <2>6. Fetched' = Fetched /\ queue = <<>>  BY <1>1 DEF Fetched, Resuming
    <2>7. toolCalls' + Len(resume') + (IF phase' = "tool" THEN 1 ELSE 0) <= MaxToolCalls
      BY <1>1, <1>2, <1>5, <2>4
    <2> QED BY <1>1, <1>5, <1>6, <2>1, <2>3, <2>5, <2>6, <2>7 DEF Resuming, Waits
  <1>14. ReadyInv'
    BY <1>1, <1>6, <1>8, <1>10 DEF ReadyInv, HasItsTexts, Fetched
  <1> QED BY <1>5, <1>7, <1>9, <1>11, <1>12, <1>13, <1>14

LEMMA TakeStep == IInv /\ TakeAction => IInv'
  <1> SUFFICES ASSUME IInv, TakeAction PROVE IInv'
    OBVIOUS
  <1> USE DEF IInv
  <1>1. PICK action \in Action : action = Head(queue)
    <2>1. PICK s \in Seq(Action) : s = queue  BY DEF TypeOK
    <2> QED BY <2>1, TailIs DEF TakeAction
  <1>2. PICK m, r : m = Registered(action) /\ r = Reference(action)  OBVIOUS
  <1>3. /\ phase = "act" /\ queue # <<>> /\ toolCalls < MaxToolCalls
        /\ Start(m, r)
        /\ keyTask' = IF r > Len(task) THEN [keyTask EXCEPT ![action] = r] ELSE keyTask
        /\ queue' = Tail(queue)
        /\ UNCHANGED <<graphTask, text, stage, resume, selected, cycle, toolCalls, checkpoint,
                       outcome>>
    BY <1>1, <1>2 DEF TakeAction, RegisterKey
  <1>4. \A t \in DOMAIN task : ~Running(t)  BY <1>3 DEF OneRuns
  <1>5. /\ m \in Seq(Task) /\ r \in DOMAIN m /\ m[r].status = "pending"
        /\ Len(m) >= Len(task) /\ Len(m) <= Len(task) + 1
        /\ \A t \in DOMAIN task : /\ t # r => m[t] = task[t]
                                  /\ m[t].tool = task[t].tool /\ m[t].articles = task[t].articles
                                  /\ t = r => task[t].status # "completed"
        /\ \A t \in DOMAIN m : t \notin DOMAIN task => t = r
        /\ r > Len(task) <=> Len(m) = Len(task) + 1
    BY <1>2, <1>4, RegisteredIs DEF TypeOK
  <1>6. PICK L \in Nat, M \in Nat : /\ L = Len(task) /\ DOMAIN task = 1 .. L
                                    /\ M = Len(m) /\ DOMAIN m = 1 .. M
    <2>1. Len(task) \in Nat /\ DOMAIN task = 1 .. Len(task) /\ Len(m) \in Nat /\ DOMAIN m = 1 .. Len(m)
      BY <1>5, SeqIs DEF TypeOK, TypeOKCase
    <2> QED BY <2>1
  <1>7. L <= M /\ r \in 1 .. M /\ \A t \in DOMAIN task : t \in DOMAIN m
    <2>1. M >= L /\ r \in 1 .. M  BY <1>5, <1>6
    <2> QED BY <1>6, <2>1
  <1>8. task' = Started(m, r) /\ phase' = "tool"
    <2>1. \A t \in DOMAIN m : m[t].status # "running"
      BY <1>4, <1>5 DEF Running
    <2>2. Startable(m, r)  BY <1>5, <2>1 DEF Startable
    <2> QED BY <1>3, <2>2 DEF Start
  <1>9. /\ task' \in Seq(Task) /\ Len(task') = Len(m) /\ DOMAIN task' = DOMAIN m
        /\ task'[r].status = "running" /\ task'[r].tool = m[r].tool /\ task'[r].articles = m[r].articles
        /\ \A t \in DOMAIN m : t # r => task'[t] = m[t]
    BY <1>5, <1>8, StartedIs
  <1>10. resume = <<>>  BY <1>3 DEF Resuming
  <1>11. TypeOK'
    <2>1. graphTask' \in [Articles -> 0 .. Len(task')]
      <3>1. graphTask \in [Articles -> 0 .. L]  BY <1>6 DEF TypeOK, TypeOKCase
      <3>2. 0 .. L \subseteq 0 .. M  BY <1>7
      <3> QED BY <1>3, <1>6, <1>9, <3>1, <3>2
    <2>2. keyTask' \in [Action -> 0 .. Len(task')]
      <3>1. keyTask \in [Action -> 0 .. L]  BY <1>6 DEF TypeOK, TypeOKCase
      <3>2. 0 .. L \subseteq 0 .. M /\ r \in 0 .. M  BY <1>7
      <3>3. keyTask' \in [Action -> 0 .. M]  BY <1>3, <3>1, <3>2
      <3> QED BY <1>6, <1>9, <3>3
    <2>3. queue' \in Seq(Action)
      <3>1. PICK s \in Seq(Action) : s = queue  BY DEF TypeOK
      <3> QED BY <1>3, <3>1, TailIs
    <2>4. resume' \in Seq(DOMAIN task')  BY <1>3, <1>10
    <2> QED BY <1>3, <1>8, <1>9, <2>1, <2>2, <2>3, <2>4 DEF TypeOK, TypeOKCase
  <1>12. \A t \in DOMAIN task' : Running(t)' <=> t = r
    BY <1>4, <1>5, <1>9 DEF Running
  <1>13. \A t \in DOMAIN task' : Waits(t)' => t \in DOMAIN task /\ t # r /\ task'[t] = task[t]
    BY <1>5, <1>9 DEF Waits
  <1>14. GraphTasks'
    <2>1. \A a \in Articles : graphTask[a] # 0 => graphTask[a] \in DOMAIN task
      BY DEF TypeOK, TypeOKCase
    <2>2. \A t \in DOMAIN task : task'[t].tool = task[t].tool /\ task'[t].articles = task[t].articles
      BY <1>5, <1>7, <1>9
    <2> QED BY <1>3, <2>1, <2>2 DEF GraphTasks
  <1>15. OneRuns'
    <2>1. r \in DOMAIN task'  BY <1>5, <1>9
    <2>2. \E t \in DOMAIN task' : \A u \in DOMAIN task' : Running(u)' <=> u = t
      BY <1>12, <2>1
    <2> QED BY <1>8, <2>2 DEF OneRuns
  <1>16. WaitsForArticle'  BY <1>3, <1>13 DEF WaitsForArticle, Waits
  <1>17. Resuming'
    <2>1. toolCalls + Len(<<>>) + 1 <= MaxToolCalls
      BY <1>3, ResearchLoopAssumption DEF ResearchLoopAssumption, TypeOK
    <2> QED BY <1>3, <1>8, <1>10, <2>1 DEF Resuming
  <1>18. ReadyInv'  BY <1>3, <1>13 DEF ReadyInv, HasItsTexts, Fetched, Waits
  <1> QED BY <1>8, <1>11, <1>14, <1>15, <1>16, <1>17, <1>18

LEMMA RunningIs ==
  ASSUME IInv, phase = "tool"
  PROVE  RunningTask \in DOMAIN task /\ \A t \in DOMAIN task : Running(t) <=> t = RunningTask
  BY DEF IInv, OneRuns, RunningTask, Running

\* What the end of a tool call leaves of the case.
LEMMA CompleteIs ==
  ASSUME TypeOKCase, NEW r \in DOMAIN task, Running(r), NEW e \in Execution, CompleteToolTask(r, e)
  PROVE  /\ task' \in Seq(Task) /\ Len(task') >= Len(task)
         /\ graphTask' \in [Articles -> 0 .. Len(task')]
         /\ \A a \in Articles : graphTask[a] # 0 => graphTask'[a] = graphTask[a]
         /\ \A a \in Articles : graphTask'[a] = graphTask[a]
                                \/ task'[graphTask'[a]] = NewTask(FetchOf(a), "candidate")
         /\ task'[r].status \in {"completed", "failed"}
         /\ \A t \in DOMAIN task :
              /\ t \in DOMAIN task' /\ task'[t].tool = task[t].tool
              /\ task'[t].articles = task[t].articles
              /\ t # r =>
                   \/ task'[t].status = task[t].status
                   \/ /\ task[t].status \in {"candidate", "pending", "failed"}
                      /\ task'[t].status = "completed"
                      /\ task[t].articles \subseteq Fetched \union e.texts
         /\ \A t \in DOMAIN task' : t \in DOMAIN task \/ task'[t].status = "candidate"
         /\ keyTask' = keyTask /\ text' \in [Articles -> {"unknown", "discovered", "fetched"}]
         /\ Fetched' = Fetched \union e.texts
  <1> USE DEF TypeOKCase
  <1> DEFINE fetched == Fetched \union e.texts
             ended == [task EXCEPT ![r].status = IF e.error THEN "failed" ELSE "completed"]
             others == Reconciled(ended, fetched)
             base == [others EXCEPT ![r] = ended[r]]
  <1>1. /\ text' = TextAfter(e) /\ AddTasks(base, e.targets \ fetched, "candidate")
        /\ keyTask' = keyTask
    BY DEF CompleteToolTask
  <1>2. e.texts \in SUBSET Articles /\ e.targets \in SUBSET Articles  BY DEF Execution
  <1>3. PICK x \in Task : x = task[r]  OBVIOUS
  <1>4. PICK s \in {"failed", "completed"} : s = IF e.error THEN "failed" ELSE "completed"
    OBVIOUS
  <1>5. PICK y : y = [x EXCEPT !.status = s]  OBVIOUS
  <1>6. y \in Task /\ y.tool = x.tool /\ y.articles = x.articles /\ y.status = s
    <2>1. s \in TaskStatuses  BY DEF TaskStatuses
    <2> QED BY <1>5, <2>1, WithStatus
  <1>7. ended = [task EXCEPT ![r] = y]  BY <1>3, <1>4, <1>5
  <1>8. ended \in Seq(Task) /\ Len(ended) = Len(task) /\ DOMAIN ended = DOMAIN task
        /\ ended[r] = y /\ \A t \in DOMAIN task : t # r => ended[t] = task[t]
    <2>1. PICK f : f = [task EXCEPT ![r] = y]  OBVIOUS
    <2>2. f \in Seq(Task) /\ Len(f) = Len(task) /\ DOMAIN f = DOMAIN task
          /\ f[r] = y /\ \A t \in DOMAIN task : t # r => f[t] = task[t]
      BY <1>6, <2>1
    <2> HIDE DEF ended
    <2> QED BY <1>7, <2>1, <2>2
  <1> HIDE DEF ended
  <1>9. /\ others \in Seq(Task) /\ Len(others) = Len(ended) /\ DOMAIN others = DOMAIN ended
        /\ \A t \in DOMAIN ended :
             /\ others[t].tool = ended[t].tool /\ others[t].articles = ended[t].articles
             /\ \/ others[t].status = ended[t].status
                \/ /\ ended[t].status \in {"candidate", "pending", "failed"}
                   /\ others[t].status = "completed" /\ others[t].articles \subseteq fetched
    <2> HIDE DEF fetched
    <2> QED BY <1>8, ReconciledIs
  <1> HIDE DEF others
  <1>10. /\ base \in Seq(Task) /\ Len(base) = Len(task) /\ DOMAIN base = DOMAIN task
         /\ base[r] = y /\ \A t \in DOMAIN task : t # r => base[t] = others[t]
    BY <1>6, <1>8, <1>9
  <1> HIDE DEF base
  <1>11. PICK S \in SUBSET Articles : S = e.targets \ fetched  BY <1>2
  <1>12. /\ task' \in Seq(Task) /\ Len(task') >= Len(base)
         /\ graphTask' \in [Articles -> 0 .. Len(task')]
         /\ \A t \in DOMAIN base : t \in DOMAIN task' /\ task'[t] = base[t]
         /\ \A t \in DOMAIN task' : t \in DOMAIN base \/
              \E a \in Articles : task'[t] = NewTask(FetchOf(a), "candidate") /\ graphTask'[a] = t
         /\ \A a \in Articles : graphTask[a] # 0 => graphTask'[a] = graphTask[a]
         /\ \A a \in Articles : graphTask'[a] = graphTask[a]
                                \/ task'[graphTask'[a]] = NewTask(FetchOf(a), "candidate")
    <2>0. PICK B \in Seq(Task), candidate \in TaskStatuses : B = base /\ candidate = "candidate"
      BY <1>10 DEF TaskStatuses
    <2>1. AddTasks(B, S, candidate)  BY <1>1, <1>11, <2>0, Zenon
    <2>2. graphTask \in [Articles -> 0 .. Len(B)]  BY <1>10, <2>0
    <2>3. /\ task' \in Seq(Task) /\ Len(task') >= Len(B)
          /\ graphTask' \in [Articles -> 0 .. Len(task')]
          /\ \A t \in DOMAIN B : t \in DOMAIN task' /\ task'[t] = B[t]
          /\ \A t \in DOMAIN task' : t \in DOMAIN B \/
               \E a \in Articles : task'[t] = NewTask(FetchOf(a), candidate) /\ graphTask'[a] = t
          /\ \A a \in Articles : graphTask[a] # 0 => graphTask'[a] = graphTask[a]
          /\ \A a \in Articles : graphTask'[a] = graphTask[a]
                                 \/ task'[graphTask'[a]] = NewTask(FetchOf(a), candidate)
          /\ S = {} => Len(task') = Len(B)
      BY <2>1, <2>2, AddTasksIs, Zenon
    <2> QED BY <2>0, <2>3, Zenon
  <1>13. task'[r] = y /\ y.status \in {"completed", "failed"}
    BY <1>6, <1>10, <1>12
  <1>14. \A t \in DOMAIN task :
              /\ t \in DOMAIN task' /\ task'[t].tool = task[t].tool
              /\ task'[t].articles = task[t].articles
              /\ t # r =>
                   \/ task'[t].status = task[t].status
                   \/ /\ task[t].status \in {"candidate", "pending", "failed"}
                      /\ task'[t].status = "completed"
                      /\ task[t].articles \subseteq fetched
    <2> SUFFICES ASSUME NEW t \in DOMAIN task
                 PROVE  /\ t \in DOMAIN task' /\ task'[t].tool = task[t].tool
                        /\ task'[t].articles = task[t].articles
                        /\ t # r =>
                             \/ task'[t].status = task[t].status
                             \/ /\ task[t].status \in {"candidate", "pending", "failed"}
                                /\ task'[t].status = "completed"
                                /\ task[t].articles \subseteq fetched
      OBVIOUS
    <2> HIDE DEF fetched
    <2>1. t \in DOMAIN task' /\ task'[t] = base[t]  BY <1>10, <1>12
    <2>2. CASE t = r  BY <1>3, <1>6, <1>13, <2>1, <2>2
    <2>3. CASE t # r
      <3>1. task'[t] = others[t] /\ ended[t] = task[t]  BY <1>8, <1>10, <2>1, <2>3
      <3> QED BY <1>8, <1>9, <2>1, <3>1
    <2> QED BY <2>2, <2>3
  <1>15. \A t \in DOMAIN task' : t \in DOMAIN task \/ task'[t].status = "candidate"
    <2>1. \A a \in Articles : NewTask(FetchOf(a), "candidate").status = "candidate"
      BY DEF NewTask
    <2> QED BY <1>10, <1>12, <2>1
  <1>16. text' \in [Articles -> {"unknown", "discovered", "fetched"}] /\ Fetched' = Fetched \union e.texts
    BY <1>1, <1>2 DEF TextAfter, Fetched
  <1> QED BY <1>1, <1>10, <1>12, <1>13, <1>14, <1>15, <1>16

LEMMA CompleteStep == IInv /\ Complete => IInv'
  <1> SUFFICES ASSUME IInv, Complete PROVE IInv'
    OBVIOUS
  <1> USE DEF IInv
  <1>1. PICK r : r = RunningTask  OBVIOUS
  <1>2. phase = "tool" /\ phase' = "act" /\ toolCalls' = toolCalls + 1
        /\ UNCHANGED <<stage, resume, queue, selected, cycle, checkpoint, outcome>>
    BY DEF Complete, turn
  <1>3. r \in DOMAIN task /\ \A t \in DOMAIN task : Running(t) <=> t = r
    BY <1>1, <1>2, RunningIs
  <1>4. PICK e \in Executions([tool |-> task[r].tool, articles |-> task[r].articles]) :
           CompleteToolTask(r, e)
    BY <1>1 DEF Complete
  <1>5. e \in Execution
        /\ (task[r].tool = "fetch_articles" => e.texts \subseteq task[r].articles)
    BY <1>4 DEF Executions
  <1>6. /\ task' \in Seq(Task) /\ Len(task') >= Len(task)
        /\ graphTask' \in [Articles -> 0 .. Len(task')]
        /\ \A a \in Articles : graphTask[a] # 0 => graphTask'[a] = graphTask[a]
        /\ \A a \in Articles : graphTask'[a] = graphTask[a]
                               \/ task'[graphTask'[a]] = NewTask(FetchOf(a), "candidate")
        /\ task'[r].status \in {"completed", "failed"}
        /\ \A t \in DOMAIN task :
             /\ t \in DOMAIN task' /\ task'[t].tool = task[t].tool
             /\ task'[t].articles = task[t].articles
             /\ t # r =>
                  \/ task'[t].status = task[t].status
                  \/ /\ task[t].status \in {"candidate", "pending", "failed"}
                     /\ task'[t].status = "completed"
                     /\ task[t].articles \subseteq Fetched \union e.texts
        /\ \A t \in DOMAIN task' : t \in DOMAIN task \/ task'[t].status = "candidate"
        /\ keyTask' = keyTask /\ text' \in [Articles -> {"unknown", "discovered", "fetched"}]
        /\ Fetched' = Fetched \union e.texts
    BY <1>3, <1>4, <1>5, CompleteIs DEF TypeOK
  <1>7. PICK L \in Nat, M \in Nat : /\ L = Len(task) /\ DOMAIN task = 1 .. L
                                    /\ M = Len(task') /\ DOMAIN task' = 1 .. M /\ L <= M
    <2>1. Len(task) \in Nat /\ DOMAIN task = 1 .. Len(task)
          /\ Len(task') \in Nat /\ DOMAIN task' = 1 .. Len(task')
      BY <1>6, SeqIs DEF TypeOK, TypeOKCase
    <2> QED BY <1>6, <2>1
  <1>8. toolCalls + Len(resume) + 1 <= MaxToolCalls /\ Len(resume) \in Nat /\ toolCalls \in Nat
    BY <1>2 DEF Resuming, TypeOK
  <1>9. TypeOK'
    <2>1. TypeOKCase'
      <3>1. keyTask' \in [Action -> 0 .. M]
        <4>1. keyTask \in [Action -> 0 .. L] /\ 0 .. L \subseteq 0 .. M
          BY <1>7 DEF TypeOK, TypeOKCase
        <4> QED BY <1>6, <4>1
      <3> QED BY <1>6, <1>7, <3>1 DEF TypeOKCase
    <2>2. resume' \in Seq(DOMAIN task')
      <3>1. resume \in Seq(1 .. L)  BY <1>7 DEF TypeOK
      <3>2. 1 .. L \subseteq 1 .. M  BY <1>7
      <3>3. resume \in Seq(1 .. M)  BY <3>1, <3>2
      <3> QED BY <1>2, <1>7, <3>3
    <2>3. toolCalls' \in 0 .. MaxToolCalls
      BY <1>2, <1>8, ResearchLoopAssumption DEF ResearchLoopAssumption
    <2> QED BY <1>2, <2>1, <2>2, <2>3 DEF TypeOK
  <1>10. GraphTasks'
    <2> SUFFICES ASSUME NEW a \in Articles, graphTask'[a] # 0
                 PROVE  task'[graphTask'[a]].tool = "fetch_articles"
                        /\ task'[graphTask'[a]].articles = {a}
      BY DEF GraphTasks
    <2>1. CASE task'[graphTask'[a]] = NewTask(FetchOf(a), "candidate")
      BY <2>1 DEF NewTask, FetchOf
    <2>2. CASE graphTask'[a] = graphTask[a]
      <3>1. graphTask[a] # 0 /\ graphTask[a] \in DOMAIN task
        BY <2>2 DEF TypeOK, TypeOKCase
      <3> QED BY <1>6, <2>2, <3>1 DEF GraphTasks
    <2> QED BY <1>6, <2>1, <2>2
  <1>11. \A t \in DOMAIN task' :
            ~Running(t)' /\ (Waits(t)' => t \in DOMAIN task /\ t # r /\ Waits(t))
    <2> SUFFICES ASSUME NEW t \in DOMAIN task'
                 PROVE  task'[t].status # "running"
                        /\ (task'[t].status = "pending" => t \in DOMAIN task /\ t # r
                                                          /\ task[t].status = "pending")
      BY DEF Running, Waits
    <2>1. CASE t \notin DOMAIN task  BY <1>6, <2>1
    <2>2. CASE t = r  BY <1>6, <2>2
    <2>3. CASE t \in DOMAIN task /\ t # r  BY <1>3, <1>6, <2>3 DEF Running
    <2> QED BY <2>1, <2>2, <2>3
  <1>12. OneRuns'  BY <1>2, <1>11 DEF OneRuns
  <1>13. WaitsForArticle'
    <2> SUFFICES ASSUME NEW t \in DOMAIN task', Waits(t)'
                 PROVE  \E a \in Articles : graphTask'[a] = t
      BY DEF WaitsForArticle
    <2>1. t \in DOMAIN task /\ Waits(t) /\ t # 0  BY <1>7, <1>11
    <2>2. PICK a \in Articles : graphTask[a] = t  BY <2>1 DEF WaitsForArticle
    <2> QED BY <1>6, <2>1, <2>2
  <1>14. Resuming'
    <2>1. ASSUME NEW i \in DOMAIN resume
          PROVE  /\ task'[resume[i]].status = "pending"
                 /\ ~(task'[resume[i]].articles \subseteq Fetched')
      <3>1. PICK t \in DOMAIN task : t = resume[i] /\ Waits(t) /\ ~(task[t].articles \subseteq Fetched)
        BY DEF Resuming, TypeOK
      <3>2. resume # <<>>  OBVIOUS
      <3>3. PICK a \in Articles : graphTask[a] = t  BY <3>1 DEF WaitsForArticle
      <3>4. PICK b \in Articles : graphTask[b] = r  BY <1>3, <3>2 DEF Resuming
      <3>5. t # r /\ t # 0 /\ r # 0 /\ a # b
        <4>1. t # r  BY <1>3, <3>1 DEF Running, Waits
        <4> QED BY <1>3, <1>7, <3>3, <3>4, <4>1
      <3>6. task[t].articles = {a} /\ task[r].articles = {b} /\ task[r].tool = "fetch_articles"
        BY <3>3, <3>4, <3>5 DEF GraphTasks
      <3>7. ~({a} \subseteq Fetched \union e.texts)
        BY <1>5, <3>1, <3>5, <3>6
      <3> QED BY <1>6, <3>1, <3>5, <3>6, <3>7 DEF Waits
    <2>2. toolCalls' + Len(resume') + 0 <= MaxToolCalls  BY <1>2, <1>8
    <2>3. \A t \in DOMAIN task' : ~Running(t)'  BY <1>11
    <2>4. resume # <<>> => queue = <<>>  BY DEF Resuming
    <2>5. \A i, j \in DOMAIN resume : resume[i] = resume[j] => i = j  BY DEF Resuming
    <2> QED BY <1>2, <2>1, <2>2, <2>3, <2>4, <2>5 DEF Resuming, Waits
  <1>15. ReadyInv'
    <2>1. ASSUME checkpoint'.status = "ready" PROVE HasItsTexts'
      <3>1. HasItsTexts  BY <1>2, <2>1 DEF ReadyInv
      <3>2. Fetched \subseteq Fetched'  BY <1>6
      <3>3. \A t \in DOMAIN task' : Waits(t)' => /\ t \in DOMAIN task /\ Waits(t)
               /\ task'[t].tool = task[t].tool /\ task'[t].articles = task[t].articles
        BY <1>6, <1>11
      <3> QED BY <1>2, <3>1, <3>2, <3>3 DEF HasItsTexts
    <2> QED BY <1>2, <2>1 DEF ReadyInv
  <1> QED BY <1>2, <1>9, <1>10, <1>12, <1>13, <1>14, <1>15

LEMMA EndActionsStep == IInv /\ EndActions => IInv'
  <1> SUFFICES ASSUME IInv, EndActions PROVE IInv'
    OBVIOUS
  <1>1. /\ phase = "act" /\ phase' = NextStage(stage) /\ resume' = <<>> /\ queue' = <<>>
        /\ UNCHANGED <<case, stage, selected, cycle, toolCalls, checkpoint, outcome>>
    BY DEF EndActions
  <1>2. phase' \in {"explore", "deepen", "integrate"}
    BY <1>1 DEF NextStage, IInv, TypeOK
  <1>3. queue' \in Seq(Action)  BY <1>1
  <1>4. outcome # "ready"  BY <1>1 DEF IInv, ReadyInv
  <1>5. /\ checkpoint' \in Checkpoint /\ stage' \in {"resume", "explore", "deepen"}
        /\ cycle' \in 0 .. MaxCycles /\ selected' \in BOOLEAN
        /\ outcome' \in Verdicts \union {"none", "timeout", "failed"}
    BY <1>1 DEF IInv, TypeOK
  <1> QED BY <1>1, <1>2, <1>3, <1>4, <1>5, SameCase

LEMMA ActionsAre ==
  ASSUME NEW n, NEW s \in Actions(n)
  PROVE  s \in Seq(Action)
  <1>1. PICK k \in 0 .. n : s \in [1 .. k -> {x \in Action : x.articles \subseteq Known}]
    BY DEF Actions
  <1>2. k \in Nat /\ s \in [1 .. k -> Action]  BY <1>1
  <1> QED BY <1>2

LEMMA StageStep == IInv /\ Stage => IInv'
  <1> SUFFICES ASSUME IInv, Stage PROVE IInv'
    OBVIOUS
  <1>1. phase \in {"explore", "deepen"} /\ UNCHANGED <<case, resume, cycle, toolCalls, checkpoint>>
    BY DEF Stage
  <1>2. resume' = <<>>  BY <1>1 DEF IInv, Resuming
  <1>3. outcome # "ready"  BY <1>1 DEF IInv, ReadyInv
  <1>4. /\ checkpoint' \in Checkpoint /\ cycle' \in 0 .. MaxCycles
        /\ stage \in {"resume", "explore", "deepen"} /\ selected \in BOOLEAN /\ queue \in Seq(Action)
        /\ outcome \in Verdicts \union {"none", "timeout", "failed"}
    BY <1>1 DEF IInv, TypeOK
  <1>5. PICK n : n = SmallerOf(MaxActions, MaxToolCalls - toolCalls)  OBVIOUS
  <1>6. \/ /\ queue' \in Actions(n) /\ selected' \in BOOLEAN /\ stage' = phase
           /\ phase' = "act" /\ UNCHANGED outcome
        \/ /\ phase' \in {NextStage(phase), "integrate"}
           /\ UNCHANGED <<stage, queue, selected, outcome>>
        \/ phase' = "done" /\ outcome' = "failed" /\ UNCHANGED <<stage, queue, selected>>
    BY <1>5 DEF Stage, Finish
  <1>7. NextStage(phase) \in {"deepen", "integrate"}  BY <1>1 DEF NextStage
  <1>8. queue' \in Seq(Action)  BY <1>4, <1>6, ActionsAre
  <1>9. /\ phase' \in {"act", "deepen", "integrate", "done"}
        /\ stage' \in {"resume", "explore", "deepen"} /\ selected' \in BOOLEAN
        /\ outcome' \in {outcome, "failed"}
    BY <1>1, <1>4, <1>6, <1>7
  <1> QED BY <1>1, <1>2, <1>3, <1>4, <1>8, <1>9, SameCase

LEMMA IntegrationFailsStep == IInv /\ IntegrationFails => IInv'
  <1> SUFFICES ASSUME IInv, IntegrationFails PROVE IInv'
    OBVIOUS
  <1>1. phase = "integrate" /\ UNCHANGED <<stage, resume, queue, selected, cycle, toolCalls>>
    BY DEF IntegrationFails, turn
  <1>2. UNCHANGED case /\ checkpoint' \in {checkpoint, [checkpoint EXCEPT !.status = "continue"]}
    BY DEF IntegrationFails, Fallback
  <1>3. checkpoint' \in Checkpoint /\ (checkpoint' = checkpoint \/ checkpoint'.status # "ready")
    <2>1. PICK c \in Checkpoint : c = checkpoint  BY DEF IInv, TypeOK
    <2>2. PICK d : d = [c EXCEPT !.status = "continue"]  OBVIOUS
    <2>3. d \in Checkpoint /\ d.status # "ready"  BY <2>2 DEF Checkpoint, Verdicts
    <2> QED BY <1>2, <2>1, <2>2, <2>3
  <1>4. phase' \in {"cycle", "done"} /\ outcome' \in {outcome, "timeout", "failed"}
    BY DEF IntegrationFails, NextCycle, Finish
  <1>5. resume' = <<>>  BY <1>1 DEF IInv, Resuming
  <1>6. outcome # "ready"  BY <1>1 DEF IInv, ReadyInv
  <1>7. /\ stage' \in {"resume", "explore", "deepen"} /\ queue' \in Seq(Action)
        /\ cycle' \in 0 .. MaxCycles /\ selected' \in BOOLEAN
        /\ outcome' \in Verdicts \union {"none", "timeout", "failed"}
    BY <1>1, <1>4 DEF IInv, TypeOK
  <1> QED BY <1>1, <1>2, <1>3, <1>4, <1>5, <1>6, <1>7, SameCase

\* What the integration answers, as it is and after anything was taken out.
Draft == [status : Verdicts, next : SUBSET Articles, unresolved : SUBSET Items,
          core : SUBSET Items, strays : BOOLEAN]

LEMMA SanitizedIs ==
  ASSUME NEW c \in Draft
  PROVE  Sanitized(c) \in Draft
  <1> DEFINE seen == Known \union {NoArticle}
             rest == [c EXCEPT !.next = @ \intersect Known, !.unresolved = @ \intersect seen,
                               !.core = @ \intersect seen, !.strays = FALSE]
  <1>1. PICK n \in SUBSET Articles, u \in SUBSET Items, k \in SUBSET Items :
           n = c.next \intersect Known /\ u = c.unresolved \intersect seen /\ k = c.core \intersect seen
    <2>1. c.next \intersect Known \in SUBSET Articles /\ c.unresolved \intersect seen \in SUBSET Items
          /\ c.core \intersect seen \in SUBSET Items
      BY DEF Draft
    <2> QED BY <2>1
  <1>2. PICK d : d = [c EXCEPT !.next = n, !.unresolved = u, !.core = k, !.strays = FALSE]
    OBVIOUS
  <1>3. rest = d  BY <1>1, <1>2
  <1>4. d \in Draft  BY <1>2 DEF Draft
  <1>5. [d EXCEPT !.status = "continue"] \in Draft  BY <1>4 DEF Draft, Verdicts
  <1>6. Sanitized(c) \in {[d EXCEPT !.status = "continue"], c}
    BY <1>3 DEF Sanitized
  <1> QED BY <1>5, <1>6

\* An answer that stays ready names nothing the case waits for.
LEMMA DeferredIs ==
  ASSUME TypeOKCase, NEW c \in Draft
  PROVE  /\ Deferred(c) \in Draft
         /\ Deferred(c).status = "ready" => Blocking(Named(Deferred(c))) = {}
  <1>1. Named(c) \in SUBSET Articles  BY DEF Draft, Named, Items
  <1>2. PICK B : B = Blocking(Named(c))  OBVIOUS
  <1>3. PICK d : d = Deferred(c)  OBVIOUS
  <1>4. CASE c.status = "ready" /\ B # {}
    <2>1. PICK v \in {"insufficient", "continue"} : v = IF Final THEN "insufficient" ELSE "continue"
      OBVIOUS
    <2>2. d = [c EXCEPT !.status = v, !.next = @ \union B]
      BY <1>2, <1>3, <1>4, <2>1 DEF Deferred
    <2>3. PICK next \in SUBSET Articles : next = c.next \union B
      <3>1. B \subseteq Articles
        <4>1. \A t \in Runnable : task[t].articles \subseteq Articles
          <5>1. \A t \in Runnable : task[t] \in Task  BY SeqIs DEF TypeOKCase, Runnable
          <5> QED BY <5>1, TaskFields
        <4> QED BY <1>1, <1>2, <4>1 DEF Blocking
      <3> QED BY <3>1 DEF Draft
    <2>4. d = [c EXCEPT !.status = v, !.next = next]  BY <2>2, <2>3 DEF Draft
    <2>5. d \in Draft /\ d.status = v  BY <2>1, <2>3, <2>4 DEF Draft, Verdicts
    <2> QED BY <1>3, <2>1, <2>5
  <1>5. CASE ~(c.status = "ready" /\ B # {})
    <2>1. d = c  BY <1>2, <1>3, <1>5 DEF Deferred
    <2> QED BY <1>2, <1>3, <1>5, <2>1
  <1> QED BY <1>4, <1>5

\* A Checkpoint opens the Tasks of the Articles it asks for.  When it is ready
\* there are none.
LEMMA AcceptStep ==
  ASSUME IInv, phase = "integrate", phase' = "cycle",
         UNCHANGED <<turn, cycle, toolCalls, outcome>>,
         NEW d \in Draft, d.status = "ready" => Blocking(Named(d)) = {}, Accept(d)
  PROVE  IInv' /\ \A t \in DOMAIN task : task[t].status = "completed" => task'[t].status = "completed"
  <1> USE DEF IInv
  <1>1. /\ UNCHANGED <<stage, resume, queue, selected, cycle, toolCalls, outcome, keyTask, text>>
        /\ checkpoint' = [status |-> d.status, named |-> Named(d)]
        /\ AddTasks(Promoted(d.next), d.next \ Fetched, "pending")
    BY DEF Accept, CreateCheckpoint, turn
  <1>2. d.status \in Verdicts /\ d.next \in SUBSET Articles /\ d.unresolved \in SUBSET Items
    BY DEF Draft
  <1>3. PICK named \in SUBSET Articles : named = Named(d) /\ d.next \subseteq named
    BY <1>2 DEF Named, Items
  <1>4. PICK B : B = Promoted(d.next)  OBVIOUS
  <1>5. /\ B \in Seq(Task) /\ Len(B) = Len(task) /\ DOMAIN B = DOMAIN task
        /\ \A t \in DOMAIN task :
             /\ B[t].tool = task[t].tool /\ B[t].articles = task[t].articles
             /\ \/ B[t] = task[t]
                \/ /\ task[t].status \in {"candidate", "failed"} /\ B[t].status = "pending"
                   /\ \E a \in d.next \ Fetched : graphTask[a] = t
    <2>1. TypeOKCase  BY DEF TypeOK
    <2>2. PICK asked : asked = d.next  OBVIOUS
    <2>3. B = Promoted(asked)  BY <1>4, <2>2
    <2>4. /\ B \in Seq(Task) /\ Len(B) = Len(task) /\ DOMAIN B = DOMAIN task
          /\ \A t \in DOMAIN task :
               /\ B[t].tool = task[t].tool /\ B[t].articles = task[t].articles
               /\ \/ B[t] = task[t]
                  \/ /\ task[t].status \in {"candidate", "failed"} /\ B[t].status = "pending"
                     /\ \E a \in asked \ Fetched : graphTask[a] = t
      BY <2>1, <2>3, PromotedIs
    <2> QED BY <2>2, <2>4
  <1>6. PICK S \in SUBSET Articles, waiting \in TaskStatuses :
           S = d.next \ Fetched /\ waiting = "pending"
    BY <1>2 DEF TaskStatuses
  <1>7. AddTasks(B, S, waiting)  BY <1>1, <1>4, <1>6, Zenon
  <1>8. graphTask \in [Articles -> 0 .. Len(B)]  BY <1>5 DEF TypeOK, TypeOKCase
  <1>9. /\ task' \in Seq(Task) /\ Len(task') >= Len(B)
        /\ graphTask' \in [Articles -> 0 .. Len(task')]
        /\ \A t \in DOMAIN B : t \in DOMAIN task' /\ task'[t] = B[t]
        /\ \A t \in DOMAIN task' : t \in DOMAIN B \/
             \E a \in Articles : task'[t] = NewTask(FetchOf(a), waiting) /\ graphTask'[a] = t
        /\ \A a \in Articles : graphTask[a] # 0 => graphTask'[a] = graphTask[a]
        /\ \A a \in Articles : graphTask'[a] = graphTask[a]
                               \/ task'[graphTask'[a]] = NewTask(FetchOf(a), waiting)
        /\ S = {} => Len(task') = Len(B)
    BY <1>5, <1>7, <1>8, AddTasksIs, Zenon
  <1>10. PICK L \in Nat, M \in Nat : /\ L = Len(task) /\ DOMAIN task = 1 .. L
                                     /\ M = Len(task') /\ DOMAIN task' = 1 .. M /\ L <= M
    <2>1. Len(task) \in Nat /\ DOMAIN task = 1 .. Len(task)
          /\ Len(task') \in Nat /\ DOMAIN task' = 1 .. Len(task')
      BY <1>9, SeqIs DEF TypeOK, TypeOKCase
    <2> QED BY <1>5, <1>9, <2>1
  <1>11. \A t \in DOMAIN task :
            /\ t \in DOMAIN task' /\ task'[t] = B[t]
            /\ task'[t].tool = task[t].tool /\ task'[t].articles = task[t].articles
            /\ task'[t].status \in {task[t].status, "pending"}
            /\ task[t].status = "completed" => task'[t].status = "completed"
    BY <1>5, <1>9
  <1>12. TypeOK'
    <2>1. keyTask' \in [Action -> 0 .. M]
      <3>1. keyTask \in [Action -> 0 .. L] /\ 0 .. L \subseteq 0 .. M
        BY <1>10 DEF TypeOK, TypeOKCase
      <3> QED BY <1>1, <3>1
    <2>2. TypeOKCase'
      <3>1. text' \in [Articles -> {"unknown", "discovered", "fetched"}]
        BY <1>1 DEF TypeOK, TypeOKCase
      <3> QED BY <1>9, <1>10, <2>1, <3>1 DEF TypeOKCase
    <2>3. resume' = <<>>  BY <1>1 DEF Resuming
    <2>4. checkpoint' \in Checkpoint  BY <1>1, <1>2, <1>3 DEF Checkpoint
    <2>5. resume' \in Seq(DOMAIN task')  BY <2>3
    <2> QED BY <1>1, <2>2, <2>4, <2>5 DEF TypeOK
  <1>13. GraphTasks'
    <2> SUFFICES ASSUME NEW a \in Articles, graphTask'[a] # 0
                 PROVE  task'[graphTask'[a]].tool = "fetch_articles"
                        /\ task'[graphTask'[a]].articles = {a}
      BY DEF GraphTasks
    <2>1. CASE task'[graphTask'[a]] = NewTask(FetchOf(a), waiting)
      BY <2>1 DEF NewTask, FetchOf
    <2>2. CASE graphTask'[a] = graphTask[a]
      <3>1. graphTask[a] # 0 /\ graphTask[a] \in DOMAIN task
        BY <2>2 DEF TypeOK, TypeOKCase
      <3> QED BY <1>11, <2>2, <3>1 DEF GraphTasks
    <2> QED BY <1>9, <2>1, <2>2
  <1>14. \A a \in Articles : NewTask(FetchOf(a), waiting).status = "pending"
    BY <1>6 DEF NewTask
  <1>15. OneRuns'
    <2>1. \A t \in DOMAIN task : ~Running(t)  BY DEF OneRuns
    <2> SUFFICES ASSUME NEW t \in DOMAIN task' PROVE task'[t].status # "running"
      BY DEF OneRuns, Running
    <2>2. CASE t \in DOMAIN task  BY <1>11, <2>1, <2>2 DEF Running
    <2>3. CASE t \notin DOMAIN task  BY <1>5, <1>9, <1>14, <2>3
    <2> QED BY <2>2, <2>3
  <1>16. WaitsForArticle'
    <2> SUFFICES ASSUME NEW t \in DOMAIN task', task'[t].status = "pending"
                 PROVE  \E a \in Articles : graphTask'[a] = t
      BY DEF WaitsForArticle, Waits
    <2>1. CASE t \notin DOMAIN task  BY <1>5, <1>9, <2>1
    <2>2. CASE t \in DOMAIN task
      <3>1. t # 0  BY <1>10, <2>2
      <3>2. \E a \in Articles : graphTask[a] = t
        BY <1>2, <1>5, <1>11, <2>2 DEF WaitsForArticle, Waits
      <3> QED BY <1>9, <3>1, <3>2
    <2> QED BY <2>1, <2>2
  <1>17. Resuming'
    <2>1. resume' = <<>>  BY <1>1 DEF Resuming
    <2>2. toolCalls' + Len(<<>>) + 0 <= MaxToolCalls
      BY <1>1, ResearchLoopAssumption DEF ResearchLoopAssumption, TypeOK
    <2> QED BY <2>1, <2>2 DEF Resuming
  <1>18. ReadyInv'
    <2>1. Fetched' = Fetched  BY <1>1 DEF Fetched
    <2>2. ASSUME d.status = "ready" PROVE HasItsTexts'
      <3>1. Blocking(named) = {}  BY <1>3, <2>2
      <3>2. named \subseteq Fetched  BY <3>1 DEF Blocking
      <3>3. S = {} /\ Len(task') = Len(B)
        <4>1. S = {}  BY <1>3, <1>6, <3>2
        <4> QED BY <1>9, <4>1
      <3>4. \A t \in DOMAIN task' : t \in DOMAIN task /\ task'[t] = task[t]
        <4>1. DOMAIN task' = DOMAIN task  BY <1>5, <1>10, <3>3
        <4>2. \A t \in DOMAIN task : B[t] = task[t]  BY <1>3, <1>5, <3>2
        <4> QED BY <1>11, <4>1, <4>2
      <3>5. ASSUME NEW t \in DOMAIN task, task[t].tool = "fetch_articles", task[t].status = "pending"
            PROVE  task[t].articles \subseteq Fetched
        <4> SUFFICES ASSUME ~(task[t].articles \subseteq Fetched) PROVE FALSE
          OBVIOUS
        <4>1. t \in {r \in Runnable : task[r].tool = "fetch_articles"}
          BY <3>5 DEF Runnable
        <4>2. task[t].articles \subseteq
                 UNION {task[u].articles : u \in {r \in Runnable : task[r].tool = "fetch_articles"}}
          BY <4>1
        <4> QED BY <3>1, <4>2 DEF Blocking
      <3>6. checkpoint'.named \subseteq Fetched'  BY <1>1, <1>3, <2>1, <3>2
      <3> QED BY <2>1, <3>4, <3>5, <3>6 DEF HasItsTexts, Waits
    <2>3. checkpoint'.status = d.status  BY <1>1
    <2>4. outcome' # "ready"  BY <1>1 DEF ReadyInv
    <2> QED BY <2>2, <2>3, <2>4 DEF ReadyInv
  <1> QED BY <1>11, <1>12, <1>13, <1>15, <1>16, <1>17, <1>18

LEMMA IntegrateStep ==
  IInv /\ Integrate =>
    IInv' /\ \A t \in DOMAIN task : task[t].status = "completed" => task'[t].status = "completed"
  <1> SUFFICES ASSUME IInv, Integrate
               PROVE  IInv' /\ \A t \in DOMAIN task :
                        task[t].status = "completed" => task'[t].status = "completed"
    OBVIOUS
  <1>1. PICK c \in Answer : /\ Accept(Deferred(c)) \/ Accept(Deferred(Sanitized(c)))
                            /\ NextCycle
    BY DEF Integrate
  <1>2. PICK b \in Draft : Accept(Deferred(b))
    <2>1. c \in Draft  BY DEF Answer, Draft
    <2>2. Sanitized(c) \in Draft  BY <2>1, SanitizedIs
    <2> QED BY <1>1, <2>1, <2>2
  <1>3. PICK d \in Draft : d = Deferred(b) /\ (d.status = "ready" => Blocking(Named(d)) = {})
    <2>1. TypeOKCase  BY DEF IInv, TypeOK
    <2> QED BY <2>1, DeferredIs
  <1>4. Accept(d)  BY <1>2, <1>3
  <1>5. /\ phase = "integrate" /\ phase' = "cycle"
        /\ UNCHANGED <<turn, cycle, toolCalls, outcome>>
    BY <1>1 DEF Integrate, NextCycle
  <1> QED BY <1>3, <1>4, <1>5, AcceptStep

LEMMA Inductive == IInv /\ [Next]_vars => IInv'
  <1> SUFFICES ASSUME IInv, [Next]_vars PROVE IInv'
    OBVIOUS
  <1>1. CASE BeginCycle  BY <1>1, BeginCycleStep
  <1>2. CASE ResumeTask  BY <1>2, ResumeStep
  <1>3. CASE TakeAction  BY <1>3, TakeStep
  <1>4. CASE Complete  BY <1>4, CompleteStep
  <1>5. CASE EndActions  BY <1>5, EndActionsStep
  <1>6. CASE Stage  BY <1>6, StageStep
  <1>7. CASE Integrate  BY <1>7, IntegrateStep
  <1>8. CASE IntegrationFails  BY <1>8, IntegrationFailsStep
  <1>9. CASE UNCHANGED vars
    <2>1. UNCHANGED <<task, graphTask, keyTask, text, phase, stage, resume, queue, selected,
                      cycle, toolCalls, checkpoint, outcome>>
      BY <1>9 DEF vars, case, turn
    <2>2. TypeOK'  BY <2>1 DEF IInv, TypeOK, TypeOKCase
    <2>3. GraphTasks' /\ OneRuns' /\ WaitsForArticle'
      BY <2>1 DEF IInv, GraphTasks, OneRuns, WaitsForArticle, Running, Waits
    <2>4. Resuming'  BY <2>1 DEF IInv, Resuming, Running, Waits, Fetched
    <2>5. ReadyInv'  BY <2>1 DEF IInv, ReadyInv, HasItsTexts, Waits, Fetched
    <2> QED BY <2>1, <2>2, <2>3, <2>4, <2>5 DEF IInv
  <1> QED BY <1>1, <1>2, <1>3, <1>4, <1>5, <1>6, <1>7, <1>8, <1>9 DEF Next

(***************************************************************************)
(* No step takes a completed Task up again.                                *)
(***************************************************************************)
CompletedStay == \A t \in DOMAIN task : task[t].status = "completed" => task'[t].status = "completed"

LEMMA StartKeeps ==
  ASSUME NEW m \in Seq(Task), NEW r \in DOMAIN m, Start(m, r)
  PROVE  \A t \in DOMAIN m : m[t].status = "completed" => task'[t].status = "completed"
  <1>1. CASE Startable(m, r)
    <2>1. task' = Started(m, r) /\ m[r].status # "completed"
      BY <1>1 DEF Start, Startable
    <2>2. \A t \in DOMAIN m : t # r => task'[t] = m[t]  BY <2>1, StartedIs
    <2> QED BY <2>1, <2>2
  <1>2. CASE ~Startable(m, r)  BY <1>2 DEF Start
  <1> QED BY <1>1, <1>2

LEMMA StepKeeps == IInv /\ Next => CompletedStay
  <1> SUFFICES ASSUME IInv, Next PROVE CompletedStay
    OBVIOUS
  <1>1. CASE UNCHANGED task  BY <1>1 DEF CompletedStay
  <1>2. CASE BeginCycle \/ EndActions \/ Stage \/ IntegrationFails
    BY <1>1, <1>2 DEF BeginCycle, EndActions, Stage, IntegrationFails, Fallback, case
  <1>3. CASE ResumeTask
    <2>1. PICK r : r = Head(resume)  OBVIOUS
    <2>2. r \in DOMAIN task /\ task \in Seq(Task)
      <3>1. PICK s \in Seq(DOMAIN task) : s = resume  BY DEF IInv, TypeOK
      <3>2. s # <<>>  BY <1>3, <3>1 DEF ResumeTask
      <3>3. Head(s) \in DOMAIN task  BY <3>2
      <3> QED BY <2>1, <3>1, <3>3 DEF IInv, TypeOK, TypeOKCase
    <2>3. Start(task, r)  BY <1>3, <2>1 DEF ResumeTask
    <2>4. PICK m \in Seq(Task) : m = task  BY <2>2
    <2> QED BY <2>2, <2>3, <2>4, StartKeeps DEF CompletedStay
  <1>4. CASE TakeAction
    <2>1. PICK action \in Action : action = Head(queue)
      <3>1. PICK s \in Seq(Action) : s = queue  BY DEF IInv, TypeOK
      <3> QED BY <1>4, <3>1, TailIs DEF TakeAction
    <2>2. PICK m, r : m = Registered(action) /\ r = Reference(action)  OBVIOUS
    <2>3. \A t \in DOMAIN task : ~Running(t)  BY <1>4 DEF TakeAction, IInv, OneRuns
    <2>4. /\ m \in Seq(Task) /\ r \in DOMAIN m /\ m[r].status = "pending"
          /\ Len(m) >= Len(task) /\ Len(m) <= Len(task) + 1
          /\ \A t \in DOMAIN task : /\ t # r => m[t] = task[t]
                                    /\ m[t].tool = task[t].tool /\ m[t].articles = task[t].articles
                                    /\ t = r => task[t].status # "completed"
          /\ \A t \in DOMAIN m : t \notin DOMAIN task => t = r
          /\ r > Len(task) <=> Len(m) = Len(task) + 1
      BY <2>2, <2>3, RegisteredIs DEF IInv, TypeOK
    <2>5. Start(m, r)  BY <1>4, <2>1, <2>2 DEF TakeAction
    <2>6. \A t \in DOMAIN m : m[t].status = "completed" => task'[t].status = "completed"
      BY <2>4, <2>5, StartKeeps
    <2>7. \A t \in DOMAIN task : t \in DOMAIN m
      <3>1. PICK L \in Nat, M \in Nat : /\ L = Len(task) /\ DOMAIN task = 1 .. L
                                        /\ M = Len(m) /\ DOMAIN m = 1 .. M
        <4>1. Len(task) \in Nat /\ DOMAIN task = 1 .. Len(task)
              /\ Len(m) \in Nat /\ DOMAIN m = 1 .. Len(m)
          BY <2>4, SeqIs DEF IInv, TypeOK, TypeOKCase
        <4> QED BY <4>1
      <3>2. M >= L  BY <2>4, <3>1
      <3> QED BY <3>1, <3>2
    <2> QED BY <2>4, <2>6, <2>7 DEF CompletedStay
  <1>5. CASE Complete
    <2>1. PICK r : r = RunningTask  OBVIOUS
    <2>2. r \in DOMAIN task /\ \A t \in DOMAIN task : Running(t) <=> t = r
      BY <1>5, <2>1, RunningIs DEF Complete
    <2>3. PICK e \in Executions([tool |-> task[r].tool, articles |-> task[r].articles]) :
             CompleteToolTask(r, e)
      BY <1>5, <2>1 DEF Complete
    <2>4. e \in Execution  BY <2>3 DEF Executions
    <2>5. \A t \in DOMAIN task : t # r => task'[t].status \in {task[t].status, "completed"}
      BY <2>2, <2>3, <2>4, CompleteIs DEF IInv, TypeOK
    <2>6. task[r].status = "running"  BY <2>2 DEF Running
    <2> QED BY <2>5, <2>6 DEF CompletedStay
  <1>6. CASE Integrate  BY <1>6, IntegrateStep DEF CompletedStay
  <1> QED BY <1>2, <1>3, <1>4, <1>5, <1>6 DEF Next

(***************************************************************************)
(* Theorems.                                                               *)
(***************************************************************************)
LEMMA Invariant == Spec => []IInv
  <1>1. Init => IInv  BY InitIInv
  <1>2. IInv /\ [Next]_vars => IInv'  BY Inductive
  <1> QED BY <1>1, <1>2, PTL DEF Spec

\* References lead to Tasks of the case, and neither cycles nor tool calls pass
\* their limits.
THEOREM TypeCorrect == Spec => []TypeOK
  <1>1. IInv => TypeOK  BY DEF IInv
  <1> QED BY <1>1, Invariant, PTL

\* start_task never raises: what the loop starts waits, and nothing else runs,
\* even for a Task that was put on the list to be resumed before others ran.
THEOREM StartsAllowed == Spec => []StartsAreAllowed
  <1>1. IInv => StartsAreAllowed  BY DEF IInv, StartsAreAllowed
  <1> QED BY <1>1, Invariant, PTL

\* Research that ends as ready has read what its Checkpoint names, and the case
\* waits for no text.
THEOREM ReadyTexts == Spec => []ReadyHasItsTexts
  <1>1. IInv => ReadyHasItsTexts
    BY DEF IInv, ReadyInv, HasItsTexts, ReadyHasItsTexts, Waits
  <1> QED BY <1>1, Invariant, PTL

\* A Task that was completed is history: no action, no tool's end and no
\* Checkpoint opens it again.
THEOREM CompletedStays == Spec => CompletedIsHistory
  <1>1. IInv /\ [Next]_vars =>
          [\A t \in DOMAIN task : task[t].status = "completed" => task'[t].status = "completed"]_vars
    BY StepKeeps DEF CompletedStay
  <1> QED BY <1>1, Invariant, PTL DEF Spec, CompletedIsHistory

-----------------------------------------------------------------------------
(* The answer: the review of it.                                           *)

Supported(version) == [verdict |-> "supported", of |-> version]

(***************************************************************************)
(* A review is about the version that is judged, an answer waits to be     *)
(* returned only with a review that supports it, and nothing is returned   *)
(* twice.                                                                  *)
(***************************************************************************)
ReviewInv ==
    /\ step # "done" => response.kind = "none"
    /\ step = "judge" => reviewed = [verdict |-> reviewed.verdict, of |-> final.version]
    /\ step = "answered" /\ Reviews => reviewed = Supported(final.version)
    /\ response.kind = "answered" /\ Reviews => reviewed = Supported(response.version)

LEMMA ReviewInit == AnswerInit => ReviewInv
  BY DEF AnswerInit, ReviewInv, NoReply

LEMMA Responds ==
  ASSUME NEW kind, NEW result, Respond(kind, result)
  PROVE  step' = "done" /\ response'.kind = kind /\ response'.version = result.version
  BY DEF Respond

\* Before the answer the phases only lead to each other, or end without an answer.
LEMMA SearchingStep ==
  ASSUME ReviewInv,
         \/ Plan \/ Search \/ MarkFocused \/ LookUpNamed \/ LookUpGuidance \/ Evaluate
         \/ Expand \/ FollowUp \/ EndFollowUp \/ Rank \/ SearchFails \/ Layered \/ Research
  PROVE  ReviewInv'
  <1> USE DEF ReviewInv
  <1>1. CASE SearchFails  BY <1>1 DEF SearchFails, NoReply, Reviews
  <1>2. CASE Research  BY <1>2 DEF Research, NoReply, Reviews
  <1>3. CASE FollowUp
    <2>1. step = "follow" /\ step' \in {"rank", "follow"} /\ UNCHANGED <<response, reviewed, final>>
      BY <1>3 DEF FollowUp, answer
    <2> QED BY <2>1
  <1>4. CASE Rank
    <2>1. step = "rank" /\ step' = "ranked" /\ UNCHANGED <<response, reviewed, final>>
      BY <1>4 DEF Rank
    <2> QED BY <2>1
  <1>5. CASE MarkFocused
    <2>1. step = "search" /\ step' = "named" /\ UNCHANGED <<response, reviewed, final>>
      BY <1>5 DEF MarkFocused, answer
    <2> QED BY <2>1
  <1>6. CASE LookUpGuidance
    <2>1. step = "guidance" /\ step' = "evaluate" /\ UNCHANGED <<response, reviewed, final>>
      BY <1>6 DEF LookUpGuidance, answer
    <2> QED BY <2>1
  <1>7. CASE Plan  BY <1>7 DEF Plan, answer
  <1>8. CASE Search  BY <1>8 DEF Search, answer
  <1>9. CASE LookUpNamed  BY <1>9 DEF LookUpNamed, answer
  <1>10. CASE Evaluate  BY <1>10 DEF Evaluate, answer
  <1>11. CASE Expand  BY <1>11 DEF Expand, answer
  <1>12. CASE EndFollowUp  BY <1>12 DEF EndFollowUp, answer
  <1>13. CASE Layered  BY <1>13 DEF Layered
  <1> QED BY <1>1, <1>2, <1>3, <1>4, <1>5, <1>6, <1>7, <1>8, <1>9, <1>10, <1>11, <1>12, <1>13

LEMMA ReviewStep == ReviewInv /\ [AnswerNext]_answerVars => ReviewInv'
  <1> SUFFICES ASSUME ReviewInv, [AnswerNext]_answerVars PROVE ReviewInv'
    OBVIOUS
  <1> USE DEF ReviewInv
  <1>1. CASE Elapse  BY <1>1 DEF Elapse, answer, Reviews
  <1>2. CASE Compose
    <2>1. step = "compose" /\ UNCHANGED <<question, path, reviewed, final>>
      BY <1>2 DEF Compose
    <2>2. \/ step' = "main" /\ UNCHANGED response
          \/ step' = "done" /\ response'.kind \in {"refused", "no_evidence"}
      BY <1>2, Responds DEF Compose
    <2> QED BY <2>1, <2>2
  <1>3. CASE Generate
    <2>1. step \in {"main", "main_again"} /\ UNCHANGED <<question, path, response>>
          /\ step' = IF Reviews THEN "review" ELSE "answered"
      BY <1>3 DEF Generate
    <2> QED BY <2>1 DEF Reviews
  <1>4. CASE Regenerate  BY <1>4 DEF Regenerate, answer
  <1>5. CASE NoAnswer
    <2>1. step' = "done" /\ response'.kind = "unverified"
      BY <1>5, Responds DEF NoAnswer
    <2> QED BY <2>1
  <1>6. CASE NoRevision
    <2>1. step' = "done" /\ response'.kind = "suppressed"
      BY <1>6, Responds DEF NoRevision
    <2> QED BY <2>1
  <1>7. CASE Review
    <2>1. step \in {"review", "review_again"} /\ step' = "judge" /\ UNCHANGED <<response, final>>
          /\ reviewed' = [verdict |-> reviewed'.verdict, of |-> final.version]
      BY <1>7 DEF Review
    <2> QED BY <2>1
  <1>8. CASE ReviewAgain  BY <1>8 DEF ReviewAgain, answer
  <1>9. CASE NoReviewCame
    <2>1. step' = "done" /\ response'.kind = "suppressed"
      BY <1>9, Responds DEF NoReviewCame
    <2> QED BY <2>1
  <1>10. CASE Judge
    <2>1. step = "judge" /\ UNCHANGED <<question, path, reviewed, final>>
      BY <1>10 DEF Judge
    <2>2. \/ step' = "answered" /\ UNCHANGED response /\ reviewed.verdict = "supported"
          \/ step' = "done" /\ response'.kind = "suppressed"
          \/ step' \in {"more", "main"} /\ UNCHANGED response
      BY <1>10, Responds DEF Judge
    <2> QED BY <2>1, <2>2 DEF Supported
  <1>11. CASE ResearchMore
    <2>1. \/ step = "more" /\ step' = "main" /\ UNCHANGED response
          \/ step' = "done" /\ response'.kind = "suppressed"
      BY <1>11, Responds DEF ResearchMore
    <2> QED BY <2>1
  <1>12. CASE Answered
    <2>1. step = "answered" /\ UNCHANGED <<question, path, answer>>
      BY <1>12 DEF Answered
    <2>2. step' = "done" /\ response'.version = final.version
      BY <1>12, Responds DEF Answered
    <2> QED BY <2>1, <2>2 DEF answer, Reviews
  <1>13. CASE UNCHANGED answerVars  BY <1>13 DEF answerVars, answer, Reviews
  <1> QED BY <1>1, <1>2, <1>3, <1>4, <1>5, <1>6, <1>7, <1>8, <1>9, <1>10, <1>11, <1>12, <1>13,
             SearchingStep DEF AnswerNext

(* A directed answer is returned in the version that its review found      *)
(* supported (_compose_answer), for all questions, evidence and limits.    *)
THEOREM OnlySupported == AnswerSpec => []SupportedIsReturned
  <1>1. ReviewInv => SupportedIsReturned
    BY DEF ReviewInv, SupportedIsReturned, Supported
  <1> QED BY <1>1, ReviewInit, ReviewStep, PTL DEF AnswerSpec

-----------------------------------------------------------------------------
(* Sets in an order.                                                       *)

LEMMA LeastExists ==
  ASSUME NEW S \in SUBSET Nat, S # {}
  PROVE  \E m \in S : \A n \in S : m <= n
  <1>1. PICK m \in S : \A n \in S : ~ (<<n, m>> \in OpToRel(<, Nat))
    BY NatLessThanWellFounded, WFMin
  <1>2. \A n \in S : ~ (n < m)
    BY <1>1 DEF OpToRel
  <1> QED BY <1>2

\* R orders S, each member before or after each other one.
RanksAll(S, R) ==
    /\ \A m \in S : <<m, m>> \notin R
    /\ \A m, n \in S : m # n => <<m, n>> \in R \/ <<n, m>> \in R
    /\ \A m, n, o \in S : <<m, n>> \in R /\ <<n, o>> \in R => <<m, o>> \in R

\* p lists S as R orders it.
ListsBy(p, S, R) ==
    \E n \in Nat : /\ n = Cardinality(S)
                   /\ p \in [1..n -> S]
                   /\ \A m \in S : \E k \in 1..n : p[k] = m
                   /\ \A j, k \in 1..n : p[j] = p[k] => j = k
                   /\ \A j, k \in 1..n : j < k <=> <<p[j], p[k]>> \in R

LEMMA LinedIs ==
  ASSUME NEW S, IsFiniteSet(S), NEW R, RanksAll(S, R)
  PROVE  ListsBy(Lined(S, R), S, R)
  <1> DEFINE Prior(t) == {j \in S : <<j, t>> \in R}
             p == Lined(S, R)
  <1>1. PICK C \in Nat : C = Cardinality(S)  BY FS_CardinalityType
  <1>2. ASSUME NEW t \in S
        PROVE  IsFiniteSet(Prior(t)) /\ Cardinality(Prior(t)) \in 0..(C - 1)
    <2>1. Prior(t) \in SUBSET (S \ {t})  BY DEF RanksAll
    <2>2. IsFiniteSet(S \ {t}) /\ Cardinality(S \ {t}) = C - 1  BY <1>1, FS_RemoveElement
    <2> HIDE DEF Prior
    <2>3. IsFiniteSet(Prior(t)) /\ Cardinality(Prior(t)) <= C - 1  BY <2>1, <2>2, FS_Subset
    <2>4. Cardinality(Prior(t)) \in Nat  BY <2>3, FS_CardinalityType
    <2> QED BY <2>3, <2>4
  <1>3. ASSUME NEW t \in S, NEW u \in S, <<t, u>> \in R
        PROVE  Cardinality(Prior(t)) < Cardinality(Prior(u))
    <2>1. Prior(t) \cup {t} \in SUBSET Prior(u) /\ t \notin Prior(t)  BY <1>3 DEF RanksAll
    <2> HIDE DEF Prior
    <2>2. /\ IsFiniteSet(Prior(t) \cup {t})
          /\ Cardinality(Prior(t) \cup {t}) = Cardinality(Prior(t)) + 1
      BY <1>2, <2>1, FS_AddElement
    <2>3. Cardinality(Prior(t) \cup {t}) <= Cardinality(Prior(u))  BY <1>2, <2>1, FS_Subset
    <2>4. Cardinality(Prior(t)) \in Nat /\ Cardinality(Prior(u)) \in Nat  BY <1>2
    <2> QED BY <2>2, <2>3, <2>4
  <1>4. \A t, u \in S : Cardinality(Prior(t)) = Cardinality(Prior(u)) => t = u
    <2> SUFFICES ASSUME NEW t \in S, NEW u \in S, Cardinality(Prior(t)) = Cardinality(Prior(u)), t # u
                 PROVE  FALSE
      OBVIOUS
    <2>1. Cardinality(Prior(t)) \in Int /\ Cardinality(Prior(u)) \in Int  BY <1>2
    <2>2. <<t, u>> \in R \/ <<u, t>> \in R  BY DEF RanksAll
    <2> HIDE DEF Prior
    <2> QED BY <1>3, <2>1, <2>2
  <1> DEFINE f == [t \in S |-> Cardinality(Prior(t))]
  <1>5. f \in Injection(S, 0..(C - 1))
    <2>1. f \in [S -> 0..(C - 1)]  BY <1>2
    <2>2. \A t, u \in S : f[t] = f[u] => t = u  BY <1>4
    <2> HIDE DEF f
    <2> QED BY <2>1, <2>2 DEF Injection, IsInjective
  <1>6. IsFiniteSet(0..(C - 1)) /\ Cardinality(0..(C - 1)) = C
    <2>1. 0 \in Int /\ C - 1 \in Int /\ (0 > C - 1 => C = 0) /\ (C - 1) - 0 + 1 = C  OBVIOUS
    <2> QED BY <2>1, FS_Interval
  <1>7. \A k \in 0..(C - 1) : \E t \in S : Cardinality(Prior(t)) = k
    <2>1. f \in Surjection(S, 0..(C - 1))
      <3> HIDE DEF f
      <3> QED BY <1>1, <1>5, <1>6, FS_Injection
    <2>2. \A k \in 0..(C - 1) : \E t \in S : f[t] = k
      <3> HIDE DEF f
      <3> QED BY <2>1 DEF Surjection
    <2> QED BY <2>2
  <1>8. p = [k \in 1..C |-> CHOOSE m \in S : Cardinality(Prior(m)) = k - 1]
    BY <1>1 DEF Lined
  <1> HIDE DEF p, f
  <1>9. \A k \in 1..C : p[k] \in S /\ Cardinality(Prior(p[k])) = k - 1
    <2> TAKE k \in 1..C
    <2>1. k - 1 \in 0..(C - 1)  OBVIOUS
    <2> HIDE DEF Prior
    <2> QED BY <1>7, <1>8, <2>1
  <1>10. p \in [1..C -> S]  BY <1>8, <1>9
  <1>11. \A m \in S : \E k \in 1..C : p[k] = m
    <2> TAKE m \in S
    <2> DEFINE k == Cardinality(Prior(m)) + 1
    <2> HIDE DEF Prior
    <2>0. Cardinality(Prior(m)) \in 0..(C - 1)  BY <1>2
    <2>1. k \in 1..C /\ k - 1 = Cardinality(Prior(m))  BY <2>0
    <2> HIDE DEF k
    <2>2. p[k] = m  BY <1>4, <1>9, <2>1
    <2> QED BY <2>1, <2>2
  <1>12. \A j, k \in 1..C : p[j] = p[k] => j = k
    <2> TAKE j, k \in 1..C
    <2> HAVE p[j] = p[k]
    <2> HIDE DEF Prior
    <2>1. j - 1 = k - 1  BY <1>9
    <2> QED BY <2>1
  <1>13. ASSUME NEW j \in 1..C, NEW k \in 1..C
         PROVE  j < k <=> <<p[j], p[k]>> \in R
    <2>1. /\ p[j] \in S /\ Cardinality(Prior(p[j])) = j - 1
          /\ p[k] \in S /\ Cardinality(Prior(p[k])) = k - 1
      BY <1>9
    <2>2. j # k => p[j] # p[k]  BY <1>12
    <2> HIDE DEF Prior
    <2>3. <<p[j], p[k]>> \in R => j - 1 < k - 1  BY <1>3, <2>1
    <2>4. <<p[k], p[j]>> \in R => k - 1 < j - 1  BY <1>3, <2>1
    <2>5. j # k => <<p[j], p[k]>> \in R \/ <<p[k], p[j]>> \in R
      BY <2>1, <2>2 DEF RanksAll
    <2> QED BY <2>3, <2>4, <2>5
  <1>14. ListsBy(p, S, R)  BY <1>1, <1>10, <1>11, <1>12, <1>13 DEF ListsBy
  <1> QED BY <1>14 DEF p

\* p lists a set of numbers in their order.
Rises(p, S) ==
    \E n \in Nat : /\ n = Cardinality(S)
                   /\ p \in [1..n -> S]
                   /\ \A m \in S : \E k \in 1..n : p[k] = m
                   /\ \A j, k \in 1..n : p[j] = p[k] => j = k
                   /\ \A j, k \in 1..n : j < k <=> p[j] < p[k]

LEMMA AscendingIs ==
  ASSUME NEW S \in SUBSET Int, IsFiniteSet(S)
  PROVE  Rises(Ascending(S), S)
  <1> DEFINE R == {e \in S \X S : e[1] < e[2]}
  <1>1. \A m, n \in S : <<m, n>> \in R <=> m < n  OBVIOUS
  <1>2. S \subseteq Int  OBVIOUS
  <1> HIDE DEF R
  <1>3. RanksAll(S, R)
    <2>1. \A m \in S : ~(m < m)  OBVIOUS
    <2>2. \A m, n \in S : m # n => m < n \/ n < m  OBVIOUS
    <2>3. \A m, n, o \in S : m < n /\ n < o => m < o  OBVIOUS
    <2> QED BY <1>1, <2>1, <2>2, <2>3 DEF RanksAll
  <1>4. ListsBy(Ascending(S), S, R)  BY <1>3, LinedIs DEF Ascending, R
  <1> QED BY <1>1, <1>4 DEF ListsBy, Rises

LEMMA DescendingIs ==
  ASSUME NEW S \in SUBSET Int, IsFiniteSet(S)
  PROVE  \E n \in Nat : /\ n = Cardinality(S) /\ Descending(S) \in [1..n -> S]
                        /\ \A j, k \in 1..n : Descending(S)[j] = Descending(S)[k] => j = k
  <1> DEFINE R == {e \in S \X S : e[1] > e[2]}
  <1>1. \A m, n \in S : <<m, n>> \in R <=> m > n  OBVIOUS
  <1> HIDE DEF R
  <1>2. RanksAll(S, R)
    <2>1. \A m \in S : ~(m > m)  OBVIOUS
    <2>2. \A m, n \in S : m # n => m > n \/ n > m  OBVIOUS
    <2>3. \A m, n, o \in S : m > n /\ n > o => m > o  OBVIOUS
    <2> QED BY <1>1, <2>1, <2>2, <2>3 DEF RanksAll
  <1>3. ListsBy(Descending(S), S, R)  BY <1>2, LinedIs DEF Descending, R
  <1> QED BY <1>3 DEF ListsBy

\* What is kept, and at which places it was.
LEMMA KeptIs ==
  ASSUME NEW s, NEW S \in SUBSET Int, IsFiniteSet(S)
  PROVE  \E p : Rises(p, S) /\ Kept(s, S) = [k \in 1..Cardinality(S) |-> s[p[k]]]
  <1> DEFINE p == Ascending(S)
  <1>1. Rises(p, S)  BY AscendingIs
  <1> HIDE DEF p
  <1>2. DOMAIN p = 1..Cardinality(S)  BY <1>1 DEF Rises
  <1>3. Kept(s, S) = [k \in 1..Cardinality(S) |-> s[p[k]]]  BY <1>2 DEF Kept, InOrder, p
  <1> QED BY <1>1, <1>3

LEMMA KeptSet ==
  ASSUME NEW s, NEW S \in SUBSET Int, IsFiniteSet(S)
  PROVE  /\ Cardinality(S) \in Nat /\ DOMAIN Kept(s, S) = 1..Cardinality(S)
         /\ Kept(s, S) = [k \in 1..Cardinality(S) |-> Kept(s, S)[k]]
         /\ ToSet(Kept(s, S)) = {s[k] : k \in S}
  <1>1. PICK p : Rises(p, S) /\ Kept(s, S) = [k \in 1..Cardinality(S) |-> s[p[k]]]
    BY KeptIs
  <1>2. PICK n \in Nat : /\ n = Cardinality(S) /\ p \in [1..n -> S]
                         /\ \A m \in S : \E k \in 1..n : p[k] = m
    BY <1>1 DEF Rises
  <1>3. DOMAIN Kept(s, S) = 1..n /\ \A k \in 1..n : Kept(s, S)[k] = s[p[k]]  BY <1>1, <1>2
  <1>4. ToSet(Kept(s, S)) = {Kept(s, S)[k] : k \in 1..n}  BY <1>3 DEF ToSet
  <1>5. \A m \in S : \E k \in 1..n : Kept(s, S)[k] = s[m]  BY <1>2, <1>3
  <1>6. \A k \in 1..n : \E m \in S : Kept(s, S)[k] = s[m]  BY <1>2, <1>3
  <1>7. ToSet(Kept(s, S)) = {s[k] : k \in S}
    <2>1. \A x \in ToSet(Kept(s, S)) : \E m \in S : x = s[m]  BY <1>4, <1>6
    <2>2. \A m \in S : s[m] \in ToSet(Kept(s, S))  BY <1>4, <1>5
    <2> QED BY <2>1, <2>2
  <1>8. Kept(s, S) = [k \in 1..Cardinality(S) |-> Kept(s, S)[k]]  BY <1>1
  <1> QED BY <1>2, <1>3, <1>7, <1>8

\* What is kept of a sequence is one.
LEMMA KeptSeq ==
  ASSUME NEW X, NEW s, NEW S \in SUBSET Int, IsFiniteSet(S), \A k \in S : s[k] \in X
  PROVE  Kept(s, S) \in Seq(X) /\ Len(Kept(s, S)) = Cardinality(S)
  <1>1. PICK p : Rises(p, S) /\ Kept(s, S) = [k \in 1..Cardinality(S) |-> s[p[k]]]
    BY KeptIs
  <1>2. PICK n \in Nat : n = Cardinality(S) /\ p \in [1..n -> S]
    BY <1>1 DEF Rises
  <1>3. Kept(s, S) \in [1..n -> X]  BY <1>1, <1>2
  <1> QED BY <1>2, <1>3

\* Induction over the numbers, the greatest of some, and steps repeated n times.
LEMMA Induction ==
  ASSUME NEW T, 0 \in T, \A k \in Nat : k \in T => k + 1 \in T
  PROVE  \A k \in Nat : k \in T
  <1>1. SUFFICES ASSUME Nat \ T # {}
                 PROVE  FALSE
    OBVIOUS
  <1>2. PICK m \in Nat \ T : \A n \in Nat \ T : m <= n
    BY <1>1, LeastExists
  <1>3. m # 0 /\ m - 1 \in Nat /\ ~(m <= m - 1)
    BY <1>2
  <1>4. m - 1 \in T
    BY <1>2, <1>3
  <1>5. (m - 1) + 1 \in T /\ (m - 1) + 1 = m
    BY <1>3, <1>4
  <1>6. QED BY <1>2, <1>5

LEMMA MaxIsMember ==
  ASSUME NEW n \in Nat, NEW T \in SUBSET (1..n), T # {}
  PROVE  Max(T) \in T
  <1> DEFINE S == {k \in 0..n : n - k \in T}
  <1>1. S \in SUBSET Nat /\ S # {}
    <2>1. PICK x \in T : TRUE
      OBVIOUS
    <2>2. x \in 1..n /\ n - x \in 0..n /\ n - (n - x) = x
      OBVIOUS
    <2>3. n - x \in S
      BY <2>1, <2>2
    <2>4. S \in SUBSET Nat
      OBVIOUS
    <2> HIDE DEF S
    <2>5. QED BY <2>3, <2>4
  <1>2. PICK m \in S : \A k \in S : m <= k
    <2> HIDE DEF S
    <2>1. QED BY <1>1, LeastExists
  <1>3. n - m \in T
    BY <1>2
  <1>4. \A y \in T : n - m >= y
    <2>1. TAKE y \in T
    <2>2. y \in 1..n /\ n - y \in 0..n /\ n - (n - y) = y
      OBVIOUS
    <2>3. n - y \in S
      BY <2>2
    <2>4. m <= n - y
      <3> HIDE DEF S
      <3>1. QED BY <1>2, <2>3
    <2>5. m \in 0..n
      BY <1>2
    <2>6. QED BY <2>2, <2>4, <2>5
  <1>5. QED BY <1>3, <1>4 DEF Max

\* g starts with base and takes n steps with op.
Iter(op, base, n, g) ==
    g = [k \in 0..n |-> IF k = 0 THEN base ELSE op[<<k, g[k - 1]>>]]

LEMMA IterExists ==
  ASSUME NEW A, NEW op \in [Nat \X A -> A], NEW base \in A, NEW n \in Nat
  PROVE  \E g \in [0..n -> A] : Iter(op, base, n, g)
  <1> DEFINE Has(k) == \E g \in [0..k -> A] : Iter(op, base, k, g)
             T == {k \in Nat : Has(k)}
  <1>1. 0 \in T
    <2> DEFINE g == [k \in 0..0 |-> base]
    <2>1. g \in [0..0 -> A]
      OBVIOUS
    <2>2. Iter(op, base, 0, g)
      <3>1. g = [k \in 0..0 |-> IF k = 0 THEN base ELSE op[<<k, g[k - 1]>>]]
        OBVIOUS
      <3>2. QED BY <3>1 DEF Iter
    <2>3. Has(0)
      BY <2>1, <2>2
    <2> HIDE DEF Has
    <2>4. QED BY <2>3
  <1>2. ASSUME NEW k \in Nat, k \in T
        PROVE  k + 1 \in T
    <2>1. PICK h \in [0..k -> A] : Iter(op, base, k, h)
      BY <1>2
    <2> DEFINE g == [j \in 0..(k + 1) |-> IF j = k + 1 THEN op[<<k + 1, h[k]>>] ELSE h[j]]
    <2>2. g \in [0..(k + 1) -> A]
      OBVIOUS
    <2>3. \A j \in 0..(k + 1) : g[j] = IF j = 0 THEN base ELSE op[<<j, g[j - 1]>>]
      <3>1. ASSUME NEW j \in 0..(k + 1)
            PROVE  g[j] = IF j = 0 THEN base ELSE op[<<j, g[j - 1]>>]
        <4>1. CASE j = k + 1
          <5>1. j - 1 = k /\ k \in 0..(k + 1) /\ k # k + 1 /\ j # 0
            BY <4>1
          <5>2. g[k] = h[k] /\ g[j] = op[<<j, h[k]>>]
            BY <4>1, <5>1
          <5>3. QED BY <5>1, <5>2
        <4>2. CASE j # k + 1
          <5>1. j \in 0..k /\ g[j] = h[j] /\ (j # 0 => g[j - 1] = h[j - 1])
            BY <4>2
          <5>2. h[j] = IF j = 0 THEN base ELSE op[<<j, h[j - 1]>>]
            BY <2>1, <5>1 DEF Iter
          <5>3. QED BY <5>1, <5>2
        <4>3. QED BY <4>1, <4>2
      <3>2. QED BY <3>1
    <2>4. Iter(op, base, k + 1, g)
      <3> DEFINE f == [j \in 0..(k + 1) |-> IF j = 0 THEN base ELSE op[<<j, g[j - 1]>>]]
      <3>1. DOMAIN g = 0..(k + 1) /\ DOMAIN f = 0..(k + 1) /\ \A j \in 0..(k + 1) : g[j] = f[j]
        BY <2>3
      <3> HIDE DEF g
      <3>2. g = f
        BY <3>1, <2>2
      <3>3. QED BY <3>2 DEF Iter
    <2>5. QED BY <2>2, <2>4
  <1>3. n \in T
    <2> HIDE DEF T
    <2>1. QED BY <1>1, <1>2, Induction
  <1>4. QED BY <1>3

-----------------------------------------------------------------------------
(* Keys.                                                                   *)

LEMMA LessIsTransitive ==
  ASSUME NEW len \in Nat, NEW s \in [1..len -> Int], NEW t \in [1..len -> Int], NEW u \in [1..len -> Int],
         Less(s, t), Less(t, u)
  PROVE  Less(s, u)
  <1>1. DOMAIN s = 1..len /\ DOMAIN t = 1..len  OBVIOUS
  <1>2. PICK i \in 1..len : s[i] < t[i] /\ \A m \in 1..(i - 1) : s[m] = t[m]
    BY <1>1 DEF Less
  <1>3. PICK j \in 1..len : t[j] < u[j] /\ \A m \in 1..(j - 1) : t[m] = u[m]
    BY <1>1 DEF Less
  <1>4. \A m \in 1..len : s[m] \in Int /\ t[m] \in Int /\ u[m] \in Int  OBVIOUS
  <1>5. CASE i < j
    <2>1. i \in 1..(j - 1) /\ \A m \in 1..(i - 1) : m \in 1..(j - 1)  BY <1>5
    <2>2. s[i] < u[i] /\ \A m \in 1..(i - 1) : s[m] = u[m]  BY <1>2, <1>3, <2>1
    <2> QED BY <1>1, <2>2 DEF Less
  <1>6. CASE ~(i < j)
    <2>1. (i = j \/ j \in 1..(i - 1)) /\ \A m \in 1..(j - 1) : m \in 1..(i - 1)  BY <1>6
    <2>2. s[j] < u[j]  BY <1>2, <1>3, <1>4, <2>1
    <2>3. \A m \in 1..(j - 1) : s[m] = u[m]  BY <1>2, <1>3, <2>1
    <2> QED BY <1>1, <2>2, <2>3 DEF Less
  <1> QED BY <1>5, <1>6

LEMMA LessIsTotal ==
  ASSUME NEW len \in Nat, NEW s \in [1..len -> Int], NEW t \in [1..len -> Int],
         NEW d \in 1..len, s[d] # t[d]
  PROVE  Less(s, t) \/ Less(t, s)
  <1> DEFINE D == {n \in 1..len : s[n] # t[n]}
  <1>1. D \in SUBSET Nat /\ d \in D  OBVIOUS
  <1> HIDE DEF D
  <1>2. PICK i \in D : \A n \in D : i <= n  BY <1>1, LeastExists
  <1>3. i \in 1..len /\ s[i] # t[i] /\ s[i] \in Int /\ t[i] \in Int  BY DEF D
  <1>4. \A m \in 1..(i - 1) : s[m] = t[m]
    <2> TAKE m \in 1..(i - 1)
    <2>1. m \in 1..len /\ ~(i <= m)  BY <1>3
    <2> QED BY <1>2, <2>1 DEF D
  <1>5. DOMAIN s = 1..len /\ DOMAIN t = 1..len  OBVIOUS
  <1>6. s[i] < t[i] \/ t[i] < s[i]  BY <1>3
  <1> QED BY <1>3, <1>4, <1>5, <1>6 DEF Less

Keys(n, w, key) == \A k \in 1..n : key[k] \in [1..w -> Int]

Behind(key, j, k) == Less(Append(key[j], j), Append(key[k], k))

\* p is the order of the places that sorting by the keys gives.
SortedBy(p, n, key) ==
    /\ p \in [1..n -> 1..n]
    /\ \A m \in 1..n : \E k \in 1..n : p[k] = m
    /\ \A j, k \in 1..n : p[j] = p[k] => j = k
    /\ \A j, k \in 1..n : j < k <=> Behind(key, p[j], p[k])

LEMMA Placed ==
  ASSUME NEW w \in Nat, NEW s \in [1..w -> Int], NEW k \in Int
  PROVE  /\ Append(s, k) \in [1..(w + 1) -> Int] /\ Append(s, k)[w + 1] = k
         /\ \A i \in 1..w : Append(s, k)[i] = s[i]
  <1>1. s \in Seq(Int) /\ Len(s) = w  OBVIOUS
  <1>2. Append(s, k) \in Seq(Int) /\ Len(Append(s, k)) = w + 1  BY <1>1
  <1>3. Append(s, k)[w + 1] = k /\ \A i \in 1..w : Append(s, k)[i] = s[i]  BY <1>1
  <1>4. \A q \in Seq(Int) : q \in [1..Len(q) -> Int]  OBVIOUS
  <1>5. Append(s, k) \in [1..(w + 1) -> Int]
    <2>1. Append(s, k) \in [1..Len(Append(s, k)) -> Int]  BY <1>2, <1>4
    <2> QED BY <1>2, <2>1
  <1> QED BY <1>3, <1>5

LEMMA SortedIs ==
  ASSUME NEW n \in Nat, NEW s, DOMAIN s = 1..n, NEW w \in Nat, NEW key, Keys(n, w, key)
  PROVE  \E p : SortedBy(p, n, key) /\ Sorted(s, key) = [k \in 1..n |-> s[p[k]]]
  <1> DEFINE S == 1..n
             R == {e \in S \X S : Behind(key, e[1], e[2])}
             p == Lined(S, R)
  <1>1. \A j, k \in S : <<j, k>> \in R <=> Behind(key, j, k)  OBVIOUS
  <1>2. IsFiniteSet(S) /\ Cardinality(S) = n
    <2>1. 1 \in Int /\ n \in Int /\ (1 > n => n = 0) /\ n - 1 + 1 = n  OBVIOUS
    <2> QED BY <2>1, FS_Interval
  <1>3. \A k \in S : /\ Append(key[k], k) \in [1..(w + 1) -> Int] /\ Append(key[k], k)[w + 1] = k
    <2> TAKE k \in S
    <2>1. key[k] \in [1..w -> Int] /\ k \in Int  BY DEF Keys
    <2> QED BY <2>1, Placed
  <1>4. RanksAll(S, R)
    <2> HIDE DEF R
    <2>0. w + 1 \in Nat /\ w + 1 \in 1..(w + 1)  OBVIOUS
    <2>1. \A m \in S : ~Behind(key, m, m)
      <3> TAKE m \in S
      <3>1. PICK q \in [1..(w + 1) -> Int] : q = Append(key[m], m)  BY <1>3
      <3>2. \A i \in DOMAIN q : ~(q[i] < q[i])  OBVIOUS
      <3> QED BY <3>1, <3>2 DEF Behind, Less
    <2>2. \A m, o \in S : m # o => Behind(key, m, o) \/ Behind(key, o, m)
      <3> TAKE m, o \in S
      <3> HAVE m # o
      <3> QED BY <1>3, <2>0, LessIsTotal DEF Behind
    <2>3. ASSUME NEW m \in S, NEW o \in S, NEW q \in S, Behind(key, m, o), Behind(key, o, q)
          PROVE  Behind(key, m, q)
      BY <1>3, <2>0, <2>3, LessIsTransitive DEF Behind
    <2> QED BY <1>1, <2>1, <2>2, <2>3 DEF RanksAll
  <1>5. ListsBy(p, S, R)
    <2> HIDE DEF S, R
    <2> QED BY <1>2, <1>4, LinedIs
  <1>6. Sorted(s, key) = InOrder(s, p)  BY DEF Sorted, Behind
  <1> HIDE DEF p
  <1>7. SortedBy(p, n, key) /\ DOMAIN p = 1..n
    <2> HIDE DEF R
    <2> QED BY <1>1, <1>2, <1>5 DEF ListsBy, SortedBy
  <1>8. Sorted(s, key) = [k \in 1..n |-> s[p[k]]]  BY <1>6, <1>7 DEF InOrder
  <1> QED BY <1>7, <1>8

\* Sorting keeps what there is.
LEMMA SortedSeq ==
  ASSUME NEW X, NEW s \in Seq(X), NEW w \in Nat, NEW key, Keys(Len(s), w, key)
  PROVE  /\ Sorted(s, key) \in Seq(X) /\ Len(Sorted(s, key)) = Len(s)
         /\ ToSet(Sorted(s, key)) = ToSet(s)
         /\ IsInjective(s) => IsInjective(Sorted(s, key))
  <1> DEFINE n == Len(s)
             t == Sorted(s, key)
  <1>1. n \in Nat /\ DOMAIN s = 1..n /\ \A k \in 1..n : s[k] \in X  OBVIOUS
  <1>2. PICK p : SortedBy(p, n, key) /\ t = [k \in 1..n |-> s[p[k]]]
    <2> HIDE DEF n
    <2> QED BY <1>1, SortedIs DEF n
  <1> HIDE DEF n, t
  <1>3. p \in [1..n -> 1..n] /\ (\A m \in 1..n : \E k \in 1..n : p[k] = m)
        /\ \A j, k \in 1..n : p[j] = p[k] => j = k
    BY <1>2 DEF SortedBy
  <1>4. t \in [1..n -> X]  BY <1>1, <1>2, <1>3
  <1>5. t \in Seq(X) /\ Len(t) = n  BY <1>1, <1>4
  <1>6. ToSet(t) = ToSet(s)
    <2>1. \A x \in ToSet(t) : \E k \in 1..n : x = s[p[k]]  BY <1>2 DEF ToSet
    <2>2. \A x \in ToSet(t) : x \in ToSet(s)  BY <1>1, <1>3, <2>1 DEF ToSet
    <2>3. \A m \in 1..n : \E k \in 1..n : t[k] = s[m]  BY <1>2, <1>3
    <2>4. \A x \in ToSet(s) : x \in ToSet(t)  BY <1>1, <1>4, <2>3 DEF ToSet
    <2> QED BY <2>2, <2>4
  <1>7. IsInjective(s) => IsInjective(t)
    <2> SUFFICES ASSUME IsInjective(s), NEW j \in DOMAIN t, NEW k \in DOMAIN t, t[j] = t[k]
                 PROVE  j = k
      BY DEF IsInjective
    <2>1. j \in 1..n /\ k \in 1..n /\ s[p[j]] = s[p[k]]  BY <1>2
    <2>2. p[j] \in DOMAIN s /\ p[k] \in DOMAIN s  BY <1>1, <1>3, <2>1
    <2>3. p[j] = p[k]  BY <2>1, <2>2 DEF IsInjective
    <2> QED BY <1>3, <2>1, <2>3
  <1> QED BY <1>5, <1>6, <1>7 DEF n, t

-----------------------------------------------------------------------------
(* Sequences.                                                              *)

\* The places of a sequence, and what the helpers make of it.
LEMMA SeqPlaces ==
  ASSUME NEW X, NEW s \in Seq(X)
  PROVE  /\ Len(s) \in Nat /\ DOMAIN s = 1..Len(s) /\ DOMAIN s \in SUBSET Int
         /\ IsFiniteSet(DOMAIN s) /\ Cardinality(DOMAIN s) = Len(s)
         /\ \A k \in DOMAIN s : s[k] \in X
  <1>1. Len(s) \in Nat /\ DOMAIN s = 1..Len(s) /\ \A k \in DOMAIN s : s[k] \in X  OBVIOUS
  <1>2. 1 \in Int /\ Len(s) \in Int /\ (1 > Len(s) => Len(s) = 0) /\ Len(s) - 1 + 1 = Len(s)
    BY <1>1
  <1>3. IsFiniteSet(1..Len(s)) /\ Cardinality(1..Len(s)) = Len(s)  BY <1>2, FS_Interval
  <1> QED BY <1>1, <1>3

\* So many different members are no more than there are.
LEMMA CountUpTo ==
  ASSUME NEW n \in Nat, NEW T, IsFiniteSet(T), NEW f,
         \A j \in 1..n : f[j] \in T,
         \A j, k \in 1..n : f[j] = f[k] => j = k
  PROVE  n <= Cardinality(T)
  <1> DEFINE g == [j \in 1..n |-> f[j]]
  <1>1. g \in [1..n -> T] /\ \A j, k \in 1..n : g[j] = g[k] => j = k  OBVIOUS
  <1> HIDE DEF g
  <1>2. g \in Injection(1..n, T)  BY <1>1 DEF Injection, IsInjective
  <1>3. Cardinality(1..n) <= Cardinality(T)  BY <1>2, FS_Injection
  <1>4. 1 \in Int /\ n \in Int /\ (1 > n => n = 0) /\ n - 1 + 1 = n  OBVIOUS
  <1>5. Cardinality(1..n) = n  BY <1>4, FS_Interval
  <1> QED BY <1>3, <1>5

LEMMA KeptOf ==
  ASSUME NEW X, NEW s \in Seq(X), NEW S \in SUBSET DOMAIN s
  PROVE  /\ Kept(s, S) \in Seq(X) /\ Len(Kept(s, S)) = Cardinality(S) /\ Cardinality(S) <= Len(s)
         /\ ToSet(Kept(s, S)) = {s[k] : k \in S}
         /\ IsInjective(s) => IsInjective(Kept(s, S))
  <1>1. S \in SUBSET Int /\ IsFiniteSet(S) /\ Cardinality(S) <= Len(s) /\ \A k \in S : s[k] \in X
    <2>1. IsFiniteSet(S) /\ Cardinality(S) <= Cardinality(DOMAIN s)
      BY SeqPlaces, FS_Subset
    <2> QED BY <2>1, SeqPlaces
  <1>2. Kept(s, S) \in Seq(X) /\ Len(Kept(s, S)) = Cardinality(S)  BY <1>1, KeptSeq
  <1>3. ToSet(Kept(s, S)) = {s[k] : k \in S}  BY <1>1, KeptSet
  <1>4. ASSUME IsInjective(s)
        PROVE  IsInjective(Kept(s, S))
    <2>1. PICK p : Rises(p, S) /\ Kept(s, S) = [k \in 1..Cardinality(S) |-> s[p[k]]]
      BY <1>1, KeptIs
    <2>2. PICK n \in Nat : /\ n = Cardinality(S) /\ p \in [1..n -> S]
                           /\ \A j, k \in 1..n : p[j] = p[k] => j = k
      BY <2>1 DEF Rises
    <2>3. Kept(s, S) = [k \in 1..n |-> s[p[k]]]  BY <2>1, <2>2
    <2> SUFFICES ASSUME NEW j \in 1..n, NEW k \in 1..n, s[p[j]] = s[p[k]]
                 PROVE  j = k
      BY <2>3 DEF IsInjective
    <2>4. p[j] \in DOMAIN s /\ p[k] \in DOMAIN s  BY <2>2
    <2>5. p[j] = p[k]  BY <1>4, <2>4 DEF IsInjective
    <2> QED BY <2>2, <2>5
  <1> QED BY <1>1, <1>2, <1>3, <1>4

LEMMA WithoutIs ==
  ASSUME NEW X, NEW s \in Seq(X), NEW S
  PROVE  /\ Without(s, S) \in Seq(X) /\ Len(Without(s, S)) <= Len(s)
         /\ ToSet(Without(s, S)) = ToSet(s) \ S
         /\ IsInjective(s) => IsInjective(Without(s, S))
  <1> DEFINE K == {k \in DOMAIN s : s[k] \notin S}
  <1>1. K \in SUBSET DOMAIN s /\ Without(s, S) = Kept(s, K)  BY DEF Without
  <1>2. {s[k] : k \in K} = ToSet(s) \ S  BY DEF ToSet
  <1> HIDE DEF K
  <1> QED BY <1>1, <1>2, KeptOf

LEMMA ConcatIs ==
  ASSUME NEW X, NEW s \in Seq(X), NEW t \in Seq(X)
  PROVE  /\ s \o t \in Seq(X) /\ Len(s \o t) = Len(s) + Len(t)
         /\ \A k \in 1..Len(s) : (s \o t)[k] = s[k]
         /\ \A k \in 1..Len(t) : (s \o t)[Len(s) + k] = t[k]
         /\ ToSet(s \o t) = ToSet(s) \cup ToSet(t)
         /\ IsInjective(s) /\ IsInjective(t) /\ ToSet(s) \cap ToSet(t) = {} => IsInjective(s \o t)
  <1> DEFINE c == s \o t
             m == Len(s)
             n == Len(t)
  <1>1. c \in Seq(X) /\ Len(c) = m + n /\ m \in Nat /\ n \in Nat
        /\ DOMAIN s = 1..m /\ DOMAIN t = 1..n /\ DOMAIN c = 1..(m + n)
    OBVIOUS
  <1>2. (\A k \in 1..m : c[k] = s[k]) /\ \A k \in 1..n : c[m + k] = t[k]
    OBVIOUS
  <1> HIDE DEF c, m, n
  <1>3. \A k \in 1..(m + n) : k \in 1..m \/ (k - m \in 1..n /\ k = m + (k - m))
    BY <1>1
  <1>4. (\A k \in 1..m : k \in 1..(m + n)) /\ \A k \in 1..n : m + k \in 1..(m + n)
    BY <1>1
  <1>5. ToSet(c) = ToSet(s) \cup ToSet(t)
    <2>1. ToSet(c) \subseteq ToSet(s) \cup ToSet(t)
      <3> SUFFICES ASSUME NEW k \in 1..(m + n) PROVE c[k] \in ToSet(s) \cup ToSet(t)
        BY <1>1 DEF ToSet
      <3>1. CASE k \in 1..m  BY <1>1, <1>2, <3>1 DEF ToSet
      <3>2. CASE k - m \in 1..n /\ k = m + (k - m)
        <4>1. c[k] = t[k - m]  BY <1>2, <3>2
        <4> QED BY <1>1, <3>2, <4>1 DEF ToSet
      <3> QED BY <1>3, <3>1, <3>2
    <2>2. ToSet(s) \subseteq ToSet(c)  BY <1>1, <1>2, <1>4 DEF ToSet
    <2>3. ToSet(t) \subseteq ToSet(c)
      <3> SUFFICES ASSUME NEW k \in 1..n PROVE t[k] \in ToSet(c)
        BY <1>1 DEF ToSet
      <3>1. m + k \in DOMAIN c /\ c[m + k] = t[k]  BY <1>1, <1>2, <1>4
      <3> QED BY <3>1 DEF ToSet
    <2> QED BY <2>1, <2>2, <2>3
  <1>6. ASSUME IsInjective(s), IsInjective(t), ToSet(s) \cap ToSet(t) = {}
        PROVE  IsInjective(c)
    <2> SUFFICES ASSUME NEW j \in 1..(m + n), NEW k \in 1..(m + n), c[j] = c[k]
                 PROVE  j = k
      BY <1>1 DEF IsInjective
    <2>1. (\A i \in 1..m : s[i] \in ToSet(s)) /\ \A i \in 1..n : t[i] \in ToSet(t)
      BY <1>1 DEF ToSet
    <2>2. CASE j \in 1..m /\ k \in 1..m
      BY <1>1, <1>2, <1>6, <2>2 DEF IsInjective
    <2>3. CASE j - m \in 1..n /\ k - m \in 1..n
      <3>1. c[j] = t[j - m] /\ c[k] = t[k - m]
        <4>1. j = m + (j - m) /\ k = m + (k - m)  BY <1>1
        <4> QED BY <1>2, <2>3, <4>1
      <3>2. j - m = k - m  BY <1>1, <1>6, <2>3, <3>1 DEF IsInjective
      <3> QED BY <1>1, <3>2
    <2>4. CASE j \in 1..m /\ k - m \in 1..n
      <3>1. k = m + (k - m)  BY <1>1
      <3>2. c[j] \in ToSet(s) /\ c[k] \in ToSet(t)
        <4>1. c[k] = t[k - m]  BY <1>2, <2>4, <3>1
        <4> QED BY <1>2, <2>1, <2>4, <4>1
      <3> QED BY <1>6, <3>2
    <2>5. CASE j - m \in 1..n /\ k \in 1..m
      <3>1. j = m + (j - m)  BY <1>1
      <3>2. c[k] \in ToSet(s) /\ c[j] \in ToSet(t)
        <4>1. c[j] = t[j - m]  BY <1>2, <2>5, <3>1
        <4> QED BY <1>2, <2>1, <2>5, <4>1
      <3> QED BY <1>6, <3>2
    <2> QED BY <1>3, <2>2, <2>3, <2>4, <2>5
  <1> QED BY <1>1, <1>2, <1>5, <1>6 DEF c, m, n

LEMMA FirstOfIs ==
  ASSUME NEW X, NEW s \in Seq(X), NEW n \in Nat
  PROVE  /\ FirstOf(s, n) \in Seq(X) /\ Len(FirstOf(s, n)) = Smaller(n, Len(s))
         /\ \A k \in 1..Smaller(n, Len(s)) : k \in DOMAIN s /\ FirstOf(s, n)[k] = s[k]
         /\ \A k \in 1..n : k \in DOMAIN s => s[k] \in ToSet(FirstOf(s, n))
         /\ ToSet(FirstOf(s, n)) \subseteq ToSet(s)
         /\ IsInjective(s) => IsInjective(FirstOf(s, n))
  <1> DEFINE m == Smaller(n, Len(s))
             f == FirstOf(s, n)
  <1>1. m \in Nat /\ m <= Len(s) /\ m <= n /\ (m = n \/ m = Len(s)) /\ Len(s) \in Nat
    BY DEF Smaller
  <1> HIDE DEF m
  <1>2. f \in Seq(X) /\ Len(f) = m /\ DOMAIN f = 1..m /\ \A k \in 1..m : f[k] = s[k]
    BY <1>1 DEF FirstOf, m
  <1> HIDE DEF f
  <1>3. \A k \in 1..m : k \in DOMAIN s  BY <1>1
  <1>4. \A k \in 1..n : k \in DOMAIN s => s[k] \in ToSet(f)
    <2>1. \A k \in 1..n : k \in DOMAIN s => k \in 1..m  BY <1>1
    <2> QED BY <1>2, <2>1 DEF ToSet
  <1>5. ToSet(f) \subseteq ToSet(s)  BY <1>2, <1>3 DEF ToSet
  <1>6. IsInjective(s) => IsInjective(f)  BY <1>2, <1>3 DEF IsInjective
  <1> QED BY <1>2, <1>3, <1>4, <1>5, <1>6 DEF f, m

LEMMA RisesBeyond ==
  ASSUME NEW S \in SUBSET (Nat \ {0}), NEW p, Rises(p, S), NEW k \in 1..Cardinality(S)
  PROVE  p[k] \in S /\ k <= p[k]
  <1>1. PICK n \in Nat : /\ n = Cardinality(S) /\ p \in [1..n -> S]
                         /\ \A i, j \in 1..n : p[i] = p[j] => i = j
                         /\ \A i, j \in 1..n : i < j <=> p[i] < p[j]
    BY DEF Rises
  <1>2. k \in 1..n /\ k \in Nat /\ p[k] \in S /\ p[k] \in Nat /\ \A j \in 1..k : j \in 1..n
    <2>1. k \in 1..n  BY <1>1
    <2>2. p[k] \in S  BY <1>1, <2>1
    <2>3. p[k] \in Nat  BY <2>2
    <2>4. n \in Nat  BY <1>1
    <2>5. k \in Nat /\ \A j \in 1..k : j \in 1..n  BY <2>1, <2>4
    <2> QED BY <2>1, <2>2, <2>3, <2>5
  <1>3. ASSUME NEW j \in 1..k
        PROVE  p[j] \in 1..p[k]
    <2>0. j \in 1..n /\ (j = k \/ j < k)  BY <1>2
    <2>1. p[j] \in S  BY <1>1, <2>0
    <2>3. j \in 1..n /\ p[j] \in Nat \ {0} /\ (j = k \/ j < k)  BY <2>0, <2>1
    <2>2. j < k => p[j] < p[k]  BY <1>1, <1>2, <2>0
    <2> QED BY <1>2, <2>2, <2>3
  <1>4. 1 \in Int /\ p[k] \in Int /\ (1 > p[k] => p[k] = 0) /\ p[k] - 1 + 1 = p[k]  BY <1>2
  <1>5. IsFiniteSet(1..p[k]) /\ Cardinality(1..p[k]) = p[k]  BY <1>4, FS_Interval
  <1>6. k <= Cardinality(1..p[k])  BY <1>1, <1>2, <1>3, <1>5, CountUpTo
  <1> QED BY <1>2, <1>5, <1>6

LEMMA UniqueIs ==
  ASSUME NEW X, NEW s \in Seq(X)
  PROVE  /\ Unique(s) \in Seq(X) /\ Len(Unique(s)) <= Len(s)
         /\ ToSet(Unique(s)) = ToSet(s)
         /\ IsInjective(Unique(s))
         /\ \A m \in DOMAIN s : (\A j \in 1..(m - 1) : s[j] # s[m]) =>
               \E k \in DOMAIN Unique(s) : Unique(s)[k] = s[m] /\ k <= m
  <1> DEFINE F == {k \in DOMAIN s : \A j \in 1..(k - 1) : s[j] # s[k]}
             u == Unique(s)
  <1>1. u = Kept(s, F)  BY DEF Unique
  <1>2. F \in SUBSET DOMAIN s  OBVIOUS
  <1>3. Len(s) \in Nat /\ DOMAIN s = 1..Len(s)  OBVIOUS
  <1>4. u \in Seq(X) /\ Len(u) = Cardinality(F) /\ Len(u) <= Len(s) /\ ToSet(u) = {s[k] : k \in F}
    <2> HIDE DEF F, u
    <2> QED BY <1>1, <1>2, KeptOf
  <1>5. ToSet(s) \subseteq ToSet(u)
    <2> SUFFICES ASSUME NEW k \in DOMAIN s PROVE \E m \in F : s[m] = s[k]
      BY <1>4 DEF ToSet
    <2> DEFINE A == {m \in 1..Len(s) : s[m] = s[k]}
    <2>1. A \in SUBSET Nat /\ A # {}  BY <1>3
    <2> HIDE DEF A
    <2>2. PICK m \in A : \A j \in A : m <= j  BY <2>1, LeastExists
    <2>3. m \in 1..Len(s) /\ s[m] = s[k]  BY DEF A
    <2>4. \A j \in 1..(m - 1) : s[j] # s[m]
      <3> TAKE j \in 1..(m - 1)
      <3>1. j \in 1..Len(s) /\ ~(m <= j)  BY <1>3, <2>3
      <3> QED BY <2>2, <2>3, <3>1 DEF A
    <2> QED BY <1>3, <2>3, <2>4
  <1>6. ToSet(u) \subseteq ToSet(s)  BY <1>2, <1>4 DEF ToSet
  <1>7. PICK p : Rises(p, F) /\ u = [k \in 1..Cardinality(F) |-> s[p[k]]]
    <2>1. F \in SUBSET Int /\ IsFiniteSet(F)
      <3> HIDE DEF F
      <3> QED BY <1>2, <1>3, SeqPlaces, FS_Subset
    <2> HIDE DEF F
    <2> QED BY <1>1, <2>1, KeptIs
  <1>8. PICK n \in Nat : /\ n = Cardinality(F) /\ p \in [1..n -> F]
                         /\ \A m \in F : \E k \in 1..n : p[k] = m
                         /\ \A j, k \in 1..n : p[j] = p[k] => j = k
                         /\ \A j, k \in 1..n : j < k <=> p[j] < p[k]
    <2> HIDE DEF F
    <2> QED BY <1>7 DEF Rises
  <1>9. DOMAIN u = 1..n /\ \A k \in 1..n : u[k] = s[p[k]]  BY <1>7, <1>8
  <1>10. IsInjective(u)
    <2> SUFFICES ASSUME NEW j \in 1..n, NEW k \in 1..n, s[p[j]] = s[p[k]], j < k
                 PROVE  FALSE
      <3> SUFFICES ASSUME NEW j \in 1..n, NEW k \in 1..n, s[p[j]] = s[p[k]], j # k
                   PROVE  FALSE
        BY <1>9 DEF IsInjective
      <3> QED OBVIOUS
    <2>1. p[j] < p[k] /\ p[j] \in F /\ p[k] \in F  BY <1>8
    <2>2. p[j] \in 1..(p[k] - 1)  BY <1>3, <2>1
    <2> QED BY <2>1, <2>2
  <1>11. ASSUME NEW m \in DOMAIN s, \A j \in 1..(m - 1) : s[j] # s[m]
         PROVE  \E k \in DOMAIN u : u[k] = s[m] /\ k <= m
    <2>1. m \in F  BY <1>11
    <2>2. PICK k \in 1..n : p[k] = m  BY <1>8, <2>1
    <2>3. F \in SUBSET (Nat \ {0})  BY <1>3
    <2>4. k <= p[k]
      <3> HIDE DEF F
      <3> QED BY <1>7, <1>8, <2>3, RisesBeyond
    <2> QED BY <1>9, <2>2, <2>4
  <1> QED BY <1>4, <1>5, <1>6, <1>10, <1>11

-----------------------------------------------------------------------------
(* The pool.                                                               *)

Fields == {"unit", "score", "ranks", "must", "aspect", "direct", "closure", "relations", "sources",
           "sourceRank", "fromAspect"}

IsItem(i) ==
    /\ DOMAIN i = Fields
    /\ i.unit \in Units /\ i.score \in Int
    /\ i.must \in BOOLEAN /\ i.aspect \in BOOLEAN /\ i.direct \in BOOLEAN /\ i.closure \in BOOLEAN
    /\ i.fromAspect \in BOOLEAN

\* j is i or says more of the same unit.
Tells(j, i) ==
    /\ IsItem(j) /\ j.unit = i.unit
    /\ i.must => j.must
    /\ i.direct => j.direct

PoolOK(items) ==
    /\ items \in Seq(ToSet(items))
    /\ \A n \in DOMAIN items : IsItem(items[n])
    /\ \A m, n \in DOMAIN items : items[m].unit = items[n].unit => m = n

Extends(q, items) ==
    /\ PoolOK(q)
    /\ \A n \in DOMAIN items : n \in DOMAIN q /\ Tells(q[n], items[n])

LEMMA ItemIs ==
  ASSUME NEW u \in Units, NEW score \in Int
  PROVE  /\ IsItem(Item(u, score)) /\ Item(u, score).unit = u
         /\ Item(u, score).must = FALSE /\ Item(u, score).direct = FALSE
  BY DEF Item, IsItem, Fields

LEMMA IsSequence ==
  ASSUME NEW n \in Nat, NEW f, DOMAIN f = 1..n, f = [k \in 1..n |-> f[k]]
  PROVE  f \in Seq(ToSet(f)) /\ Len(f) = n
  <1>1. \A k \in 1..n : f[k] \in ToSet(f)  BY DEF ToSet
  <1>2. f \in [1..n -> ToSet(f)]  BY <1>1
  <1> QED BY <1>2

LEMMA SeqOfMore ==
  ASSUME NEW X, NEW Y, X \subseteq Y, NEW s \in Seq(X)
  PROVE  s \in Seq(Y)
  OBVIOUS

LEMMA HeldIs ==
  ASSUME NEW items
  PROVE  Held(items) = {items[n].unit : n \in DOMAIN items}
  BY DEF Held, UnitsOf, ToSet

Joined(c, items, old, new) ==
    /\ Extends(c, items)
    /\ \A k \in DOMAIN new : \E n \in DOMAIN c : c[n] = new[k]
    /\ \A n \in DOMAIN items : c[n] = old[n]

\* What a merge gives: the items there were, told more of, and items of other units.
LEMMA JoinIs ==
  ASSUME NEW items, PoolOK(items),
         NEW old, DOMAIN old = DOMAIN items, old = [n \in DOMAIN items |-> old[n]],
         \A n \in DOMAIN items : Tells(old[n], items[n]),
         NEW new, new \in Seq(ToSet(new)), \A k \in DOMAIN new : IsItem(new[k]),
         \A j, k \in DOMAIN new : new[j].unit = new[k].unit => j = k,
         \A k \in DOMAIN new : new[k].unit \notin Held(items)
  PROVE  Joined(old \o new, items, old, new)
  <1> DEFINE X == ToSet(old) \cup ToSet(new)
             c == old \o new
             m == Len(items)
             l == Len(new)
  <1>1. DOMAIN items = 1..m /\ m \in Nat  BY DEF PoolOK
  <1>2. old \in Seq(ToSet(old)) /\ Len(old) = m  BY <1>1, IsSequence
  <1>3. old \in Seq(X) /\ new \in Seq(X)  BY <1>2, SeqOfMore
  <1>4. /\ c \in Seq(X) /\ Len(c) = m + l /\ ToSet(c) = X
        /\ \A k \in 1..m : c[k] = old[k]
        /\ \A k \in 1..l : c[m + k] = new[k]
    <2> HIDE DEF X
    <2>1. /\ c \in Seq(X) /\ Len(c) = Len(old) + l /\ ToSet(c) = ToSet(old) \cup ToSet(new)
          /\ \A k \in 1..Len(old) : c[k] = old[k]
          /\ \A k \in 1..l : c[Len(old) + k] = new[k]
      BY <1>3, ConcatIs
    <2> QED BY <1>2, <2>1 DEF X
  <1>5. l \in Nat /\ DOMAIN new = 1..l  OBVIOUS
  <1>6. DOMAIN c = 1..(m + l)  BY <1>4
  <1> HIDE DEF c, m, l
  <1>7. \A k \in 1..(m + l) : k \in 1..m \/ (k - m \in 1..l /\ k = m + (k - m))
    BY <1>1, <1>5
  <1>8. \A n \in 1..m : /\ n \in 1..(m + l) /\ c[n] = old[n] /\ IsItem(c[n])
                        /\ c[n].unit = items[n].unit /\ c[n].unit \in Held(items)
    BY <1>1, <1>4, <1>5, HeldIs DEF Tells
  <1>9. ASSUME NEW n \in 1..(m + l), n - m \in 1..l, n = m + (n - m)
        PROVE  IsItem(c[n]) /\ c[n] = new[n - m] /\ c[n].unit \notin Held(items)
    <2>1. c[n] = new[n - m]  BY <1>4, <1>9
    <2> QED BY <1>5, <1>9, <2>1
  <1>10. \A n \in DOMAIN c : IsItem(c[n])  BY <1>6, <1>7, <1>8, <1>9
  <1>11. ASSUME NEW j \in 1..(m + l), NEW k \in 1..(m + l), c[j].unit = c[k].unit
         PROVE  j = k
    <2>1. CASE j \in 1..m /\ k \in 1..m
      BY <1>1, <1>8, <1>11, <2>1 DEF PoolOK
    <2>2. CASE j - m \in 1..l /\ k - m \in 1..l /\ j = m + (j - m) /\ k = m + (k - m)
      <3>1. new[j - m].unit = new[k - m].unit  BY <1>9, <1>11, <2>2
      <3>2. j - m = k - m  BY <1>5, <2>2, <3>1
      <3> QED BY <1>1, <3>2
    <2>3. CASE j \in 1..m /\ k - m \in 1..l /\ k = m + (k - m)
      BY <1>8, <1>9, <1>11, <2>3
    <2>4. CASE j - m \in 1..l /\ j = m + (j - m) /\ k \in 1..m
      BY <1>8, <1>9, <1>11, <2>4
    <2> QED BY <1>7, <2>1, <2>2, <2>3, <2>4
  <1>12. c \in Seq(ToSet(c))  BY <1>4
  <1>13. Extends(c, items)  BY <1>1, <1>6, <1>8, <1>10, <1>11, <1>12 DEF Extends, PoolOK
  <1>14. \A k \in DOMAIN new : \E n \in DOMAIN c : c[n] = new[k]
    <2> TAKE k \in DOMAIN new
    <2>1. m + k \in 1..(m + l) /\ c[m + k] = new[k]  BY <1>1, <1>4, <1>5
    <2> QED BY <1>6, <2>1
  <1> QED BY <1>1, <1>8, <1>13, <1>14 DEF Joined, c

\* What the index returns.
LEMMA ResultIs ==
  ASSUME NEW units \in Results
  PROVE  /\ units \in Seq(Units) /\ IsInjective(units)
         /\ Len(units) \in Nat /\ DOMAIN units = 1..Len(units)
         /\ \A k \in DOMAIN units : /\ units[k] \in Units /\ units[k] \in ToSet(units)
                                    /\ Place(units, units[k]) = k
         /\ \A u \in ToSet(units) : Place(units, u) \in DOMAIN units /\ units[Place(units, u)] = u
  <1>1. units \in Seq(Units) /\ IsInjective(units)  BY DEF Results
  <1>2. /\ Len(units) \in Nat /\ DOMAIN units = 1..Len(units)
        /\ \A k \in DOMAIN units : units[k] \in Units
    BY <1>1
  <1>3. \A u \in ToSet(units) : Place(units, u) \in DOMAIN units /\ units[Place(units, u)] = u
    <2> TAKE u \in ToSet(units)
    <2>1. \E k \in DOMAIN units : units[k] = u  BY DEF ToSet
    <2> QED BY <2>1 DEF Place
  <1>4. \A k \in DOMAIN units : units[k] \in ToSet(units)  BY DEF ToSet
  <1>5. \A k \in DOMAIN units : Place(units, units[k]) = k
    BY <1>1, <1>3, <1>4 DEF IsInjective
  <1> QED BY <1>1, <1>2, <1>3, <1>4, <1>5

Fresh(items, units) == {k \in DOMAIN units : units[k] \notin Held(items)}

Adds(new, items, units, entry) ==
    /\ new \in Seq(ToSet(new)) /\ \A k \in DOMAIN new : IsItem(new[k])
    /\ \A j, k \in DOMAIN new : new[j].unit = new[k].unit => j = k
    /\ \A k \in DOMAIN new : new[k].unit \notin Held(items)
    /\ \A m \in DOMAIN units : units[m] \notin Held(items) => \E k \in DOMAIN new : new[k] = entry[m]

Entries(entry, units) ==
    /\ DOMAIN entry = DOMAIN units /\ entry = [k \in DOMAIN units |-> entry[k]]
    /\ \A k \in DOMAIN units : IsItem(entry[k]) /\ entry[k].unit = units[k]

\* The new ones of some entries, one for each of the units.
LEMMA NewIs ==
  ASSUME NEW items, NEW units \in Results, NEW entry, Entries(entry, units)
  PROVE  Adds(Kept(entry, Fresh(items, units)), items, units, entry)
  <1> DEFINE S == Fresh(items, units)
             new == Kept(entry, S)
  <1>1. Len(units) \in Nat /\ DOMAIN units = 1..Len(units) /\ units \in Seq(Units) /\ IsInjective(units)
    BY ResultIs
  <1>2. S \in SUBSET DOMAIN units /\ S \in SUBSET Int /\ IsFiniteSet(S)
    <2>1. S \in SUBSET DOMAIN units  BY DEF Fresh
    <2> HIDE DEF S
    <2> QED BY <1>1, <2>1, SeqPlaces, FS_Subset
  <1>3. PICK p : Rises(p, S) /\ new = [k \in 1..Cardinality(S) |-> entry[p[k]]]
    <2> HIDE DEF S
    <2> QED BY <1>2, KeptIs
  <1>4. PICK n \in Nat : /\ n = Cardinality(S) /\ p \in [1..n -> S]
                         /\ \A m \in S : \E k \in 1..n : p[k] = m
                         /\ \A j, k \in 1..n : p[j] = p[k] => j = k
    <2> HIDE DEF S
    <2> QED BY <1>3 DEF Rises
  <1> HIDE DEF new
  <1>5. new = [k \in 1..n |-> entry[p[k]]] /\ DOMAIN new = 1..n  BY <1>3, <1>4 DEF new
  <1>6. \A k \in 1..n : /\ p[k] \in DOMAIN units /\ units[p[k]] \notin Held(items)
                        /\ new[k] = entry[p[k]] /\ new[k].unit = units[p[k]] /\ IsItem(new[k])
    BY <1>4, <1>5 DEF Entries, Fresh
  <1>7. new \in Seq(ToSet(new))
    <2>1. new = [k \in 1..n |-> new[k]]  BY <1>5
    <2> QED BY <1>5, <2>1, IsSequence
  <1>8. \A j, k \in 1..n : new[j].unit = new[k].unit => j = k
    <2> TAKE j, k \in 1..n
    <2> HAVE new[j].unit = new[k].unit
    <2>1. p[j] = p[k]  BY <1>1, <1>6 DEF IsInjective
    <2> QED BY <1>4, <2>1
  <1>9. \A m \in DOMAIN units : units[m] \notin Held(items) => \E k \in 1..n : new[k] = entry[m]
    <2> SUFFICES ASSUME NEW m \in DOMAIN units, units[m] \notin Held(items)
                 PROVE  \E k \in 1..n : new[k] = entry[m]
      OBVIOUS
    <2>1. m \in S  BY DEF Fresh
    <2>2. PICK k \in 1..n : p[k] = m  BY <1>4, <2>1
    <2> QED BY <1>6, <2>2
  <1> QED BY <1>5, <1>6, <1>7, <1>8, <1>9 DEF Adds, new

-----------------------------------------------------------------------------
(* What each step makes of the pool.                                       *)

LEMMA Key1 ==
  ASSUME NEW a \in Int
  PROVE  <<a>> \in [1..1 -> Int]
  OBVIOUS

LEMMA Key2 ==
  ASSUME NEW a \in Int, NEW b \in Int
  PROVE  <<a, b>> \in [1..2 -> Int] /\ <<a, b>>[1] = a /\ <<a, b>>[2] = b
  <1> DEFINE t == <<a, b>>
  <1>1. t \in Seq(Int) /\ Len(t) = 2  OBVIOUS
  <1> HIDE DEF t
  <1>2. t \in [1..Len(t) -> Int]
    <2>1. \A s \in Seq(Int) : s \in [1..Len(s) -> Int]  OBVIOUS
    <2> QED BY <1>1, <2>1
  <1>3. t \in [1..2 -> Int]  BY <1>1, <1>2
  <1> QED BY <1>3 DEF t

LEMMA Key3 ==
  ASSUME NEW a \in Int, NEW b \in Int, NEW c \in Int
  PROVE  /\ <<a, b, c>> \in [1..3 -> Int]
         /\ <<a, b, c>>[1] = a /\ <<a, b, c>>[2] = b /\ <<a, b, c>>[3] = c
  <1> DEFINE t == <<a, b, c>>
  <1>1. t \in Seq(Int) /\ Len(t) = 3  OBVIOUS
  <1> HIDE DEF t
  <1>2. t \in [1..Len(t) -> Int]
    <2>1. \A s \in Seq(Int) : s \in [1..Len(s) -> Int]  OBVIOUS
    <2> QED BY <1>1, <2>1
  <1>3. t \in [1..3 -> Int]  BY <1>1, <1>2
  <1> QED BY <1>3 DEF t

LEMMA MapIs ==
  ASSUME NEW items, PoolOK(items), NEW q, q = [n \in DOMAIN items |-> q[n]],
         \A n \in DOMAIN items : Tells(q[n], items[n])
  PROVE  Extends(q, items) /\ DOMAIN q = DOMAIN items
  <1>1. DOMAIN items = 1..Len(items) /\ Len(items) \in Nat  BY DEF PoolOK
  <1>2. DOMAIN q = 1..Len(items)  BY <1>1
  <1>3. q \in Seq(ToSet(q))  BY <1>1, <1>2, IsSequence
  <1>4. \A n \in DOMAIN q : IsItem(q[n]) /\ q[n].unit = items[n].unit  BY <1>1, <1>2 DEF Tells
  <1> QED BY <1>1, <1>2, <1>3, <1>4 DEF Extends, PoolOK

LEMMA TellsMore ==
  ASSUME NEW i, NEW j, NEW k, Tells(j, i), Tells(k, j)
  PROVE  Tells(k, i)
  BY DEF Tells

LEMMA ExtendsMore ==
  ASSUME NEW p, NEW q, NEW r, Extends(q, p), Extends(r, q)
  PROVE  Extends(r, p)
  <1>1. \A n \in DOMAIN p : n \in DOMAIN r /\ Tells(r[n], q[n]) /\ Tells(q[n], p[n])  BY DEF Extends
  <1> QED BY <1>1, TellsMore DEF Extends

LEMMA ExtendsItself ==
  ASSUME NEW p, PoolOK(p)
  PROVE  Extends(p, p)
  BY DEF Extends, PoolOK, Tells

LEMMA RankScoreIs ==
  ASSUME NEW rank \in Nat \ {0}, NEW source
  PROVE  RankScore(rank, source) \in Int
  <1>1. RrfK + rank \in Nat \ {0}  BY PoolAssumption
  <1>2. \A d \in Nat \ {0} : 1250 \div d \in Int /\ 1000 \div d \in Int  OBVIOUS
  <1> QED BY <1>1, <1>2 DEF RankScore

\* Searches, direct lookups and marks only add to what the pool tells.
LEMMA MergeResultsIs ==
  ASSUME NEW items, PoolOK(items), NEW results \in Results, NEW query, NEW source
  PROVE  Extends(MergeResults(items, results, query, source), items)
  <1> DEFINE Again(i, rank) == [i EXCEPT !.score = @ + RankScore(rank, source),
                                    !.ranks[query] = IF @ = 0 THEN rank ELSE Smaller(@, rank)]
             Entry(rank) == [Item(results[rank], RankScore(rank, source)) EXCEPT !.ranks[query] = rank]
             old == [n \in DOMAIN items |-> IF items[n].unit \in ToSet(results)
                              THEN Again(items[n], Place(results, items[n].unit)) ELSE items[n]]
             entry == [rank \in DOMAIN results |-> Entry(rank)]
             added == Kept(entry, Fresh(items, results))
  <1>1. MergeResults(items, results, query, source) = old \o added  BY DEF MergeResults, Fresh
  <1>2. \A rank \in DOMAIN results : rank \in Nat \ {0} /\ RankScore(rank, source) \in Int
    BY ResultIs, RankScoreIs
  <1>3. \A n \in DOMAIN items : Tells(old[n], items[n])
    <2> SUFFICES ASSUME NEW n \in DOMAIN items PROVE Tells(old[n], items[n])
      OBVIOUS
    <2>1. IsItem(items[n])  BY DEF PoolOK
    <2>2. CASE items[n].unit \notin ToSet(results)
      BY <2>1, <2>2 DEF Tells
    <2>3. CASE items[n].unit \in ToSet(results)
      <3>1. PICK sc \in Int : sc = RankScore(Place(results, items[n].unit), source)
        BY <1>2, <2>3, ResultIs
      <3>2. items[n].score + sc \in Int  BY <2>1 DEF IsItem
      <3>3. old[n] = Again(items[n], Place(results, items[n].unit))  BY <2>3
      <3> HIDE DEF old
      <3>4. /\ DOMAIN old[n] = DOMAIN items[n] /\ old[n].score = items[n].score + sc
            /\ old[n].unit = items[n].unit /\ old[n].must = items[n].must
            /\ old[n].aspect = items[n].aspect /\ old[n].direct = items[n].direct
            /\ old[n].closure = items[n].closure /\ old[n].fromAspect = items[n].fromAspect
        BY <2>1, <3>1, <3>3 DEF IsItem, Fields
      <3> QED BY <2>1, <3>2, <3>4 DEF Tells, IsItem
    <2> QED BY <2>2, <2>3
  <1>4. \A rank \in DOMAIN results : IsItem(entry[rank]) /\ entry[rank].unit = results[rank]
    <2> SUFFICES ASSUME NEW rank \in DOMAIN results
                 PROVE  IsItem(Entry(rank)) /\ Entry(rank).unit = results[rank]
      OBVIOUS
    <2>1. results[rank] \in Units /\ RankScore(rank, source) \in Int  BY <1>2, ResultIs
    <2>2. PICK i : i = Item(results[rank], RankScore(rank, source))  OBVIOUS
    <2>3. IsItem(i) /\ i.unit = results[rank]  BY <2>1, <2>2, ItemIs
    <2>4. Entry(rank) = [i EXCEPT !.ranks[query] = rank]  BY <2>2
    <2> HIDE DEF Entry
    <2>5. /\ DOMAIN Entry(rank) = DOMAIN i /\ Entry(rank).score = i.score
            /\ Entry(rank).unit = i.unit /\ Entry(rank).must = i.must
            /\ Entry(rank).aspect = i.aspect /\ Entry(rank).direct = i.direct
            /\ Entry(rank).closure = i.closure /\ Entry(rank).fromAspect = i.fromAspect
        BY <2>3, <2>4 DEF IsItem, Fields
    <2> QED BY <2>3, <2>5 DEF IsItem
  <1>5. DOMAIN entry = DOMAIN results /\ entry = [k \in DOMAIN results |-> entry[k]]
        /\ DOMAIN old = DOMAIN items /\ old = [n \in DOMAIN items |-> old[n]]
    OBVIOUS
  <1> HIDE DEF old, entry
  <1>6. Entries(entry, results)  BY <1>4, <1>5 DEF Entries
  <1>7. Adds(added, items, results, entry)  BY <1>6, NewIs
  <1> HIDE DEF added
  <1>8. Extends(old \o added, items)  BY <1>3, <1>5, <1>7, JoinIs DEF Adds, Joined
  <1> QED BY <1>1, <1>8

LEMMA WithDirectIs ==
  ASSUME NEW items, PoolOK(items), NEW query, NEW units
  PROVE  Extends(WithDirect(items, query, units), items)
  <1> DEFINE q == WithDirect(items, query, units)
             at(n) == {k \in DOMAIN units : units[k] = items[n].unit}
             told(n) == [items[n] EXCEPT !.ranks[query] = IF @ = 0 THEN Min(at(n)) ELSE Smaller(@, Min(at(n)))]
  <1>1. q = [n \in DOMAIN items |-> IF at(n) = {} THEN items[n] ELSE told(n)]  BY DEF WithDirect
  <1>2. ASSUME NEW n \in DOMAIN items
        PROVE  Tells(q[n], items[n])
    <2>1. IsItem(items[n])  BY DEF PoolOK
    <2>2. q[n] = IF at(n) = {} THEN items[n] ELSE told(n)  BY <1>1
    <2>3. \A v : Tells([items[n] EXCEPT !.ranks = v], items[n])
      BY <2>1 DEF Tells, IsItem, Fields
    <2>4. Tells(told(n), items[n])
      <3>1. \E v : told(n) = [items[n] EXCEPT !.ranks = v]  OBVIOUS
      <3> HIDE DEF told
      <3> QED BY <2>3, <3>1
    <2>5. Tells(items[n], items[n])  BY <2>1 DEF Tells
    <2> HIDE DEF told, at
    <2> QED BY <2>2, <2>4, <2>5
  <1>3. q = [n \in DOMAIN items |-> q[n]]  BY <1>1
  <1> HIDE DEF q
  <1> QED BY <1>2, <1>3, MapIs DEF q

LEMMA MarkAspectsIs ==
  ASSUME NEW items, PoolOK(items), NEW queries, NEW taken, NEW perQuery, NEW limit, NEW apart
  PROVE  Extends(MarkAspects(items, queries, taken, perQuery, limit, apart), items)
  <1> DEFINE q == MarkAspects(items, queries, taken, perQuery, limit, apart)
  <1>1. PICK marked : q = [n \in DOMAIN items |-> [items[n] EXCEPT !.aspect = @ \/ items[n].unit \in marked]]
    BY DEF MarkAspects
  <1>2. ASSUME NEW n \in DOMAIN items
        PROVE  Tells(q[n], items[n])
    <2>1. IsItem(items[n])  BY DEF PoolOK
    <2>2. q[n] = [items[n] EXCEPT !.aspect = items[n].aspect \/ items[n].unit \in marked]  BY <1>1
    <2> QED BY <2>1, <2>2 DEF Tells, IsItem, Fields
  <1>3. q = [n \in DOMAIN items |-> q[n]]  BY <1>1
  <1> HIDE DEF q
  <1> QED BY <1>2, <1>3, MapIs DEF q

\* The item of unit u must be among the evidence, and was named.
Secured(items, u) == \E n \in DOMAIN items : items[n].unit = u /\ items[n].must /\ items[n].direct

LEMMA SecuredRemains ==
  ASSUME NEW p, NEW q, Extends(q, p), NEW u, Secured(p, u)
  PROVE  Secured(q, u)
  BY DEF Secured, Extends, Tells

\* And what stands for a provision that was named must stay from then on.
LEMMA MergeDirectIs ==
  ASSUME NEW items, PoolOK(items), NEW units \in Results, NEW direct \in BOOLEAN, NEW exact
  PROVE  /\ Extends(MergeDirect(items, units, direct, exact), items)
         /\ direct => \A k \in DOMAIN units : Stands(units, k, exact) =>
              Secured(MergeDirect(items, units, direct, exact), units[k])
  <1> DEFINE Again(i) == [i EXCEPT !.must = @ \/ Stands(units, Place(units, i.unit), exact),
                              !.direct = @ \/ direct]
             Entry(k) == [Item(units[k], 0) EXCEPT !.must = Stands(units, k, exact), !.direct = direct]
             old == [n \in DOMAIN items |-> IF items[n].unit \in ToSet(units) THEN Again(items[n]) ELSE items[n]]
             entry == [k \in DOMAIN units |-> Entry(k)]
             added == Kept(entry, Fresh(items, units))
  <1>1. MergeDirect(items, units, direct, exact) = old \o added  BY DEF MergeDirect, Brought, Fresh
  <1>2. \A k : Stands(units, k, exact) \in BOOLEAN  BY DEF Stands
  <1>3. ASSUME NEW n \in DOMAIN items
        PROVE  /\ Tells(old[n], items[n])
               /\ items[n].unit \in ToSet(units) =>
                    /\ old[n].direct = (items[n].direct \/ direct)
                    /\ old[n].must = (items[n].must \/ Stands(units, Place(units, items[n].unit), exact))
    <2>1. IsItem(items[n])  BY DEF PoolOK
    <2>2. CASE items[n].unit \notin ToSet(units)
      BY <2>1, <2>2 DEF Tells
    <2>3. CASE items[n].unit \in ToSet(units)
      <3>1. old[n] = Again(items[n])  BY <2>3
      <3> HIDE DEF old
      <3>2. /\ DOMAIN old[n] = DOMAIN items[n] /\ old[n].score = items[n].score
            /\ old[n].unit = items[n].unit
            /\ old[n].must = (items[n].must \/ Stands(units, Place(units, items[n].unit), exact))
            /\ old[n].aspect = items[n].aspect
            /\ old[n].direct = (items[n].direct \/ direct)
            /\ old[n].closure = items[n].closure /\ old[n].fromAspect = items[n].fromAspect
        BY <2>1, <3>1 DEF IsItem, Fields
      <3>3. old[n].must \in BOOLEAN /\ old[n].direct \in BOOLEAN
        BY <1>2, <2>1, <3>2 DEF IsItem
      <3> QED BY <2>1, <3>2, <3>3 DEF Tells, IsItem
    <2> QED BY <2>2, <2>3
  <1>4. ASSUME NEW k \in DOMAIN units
        PROVE  /\ IsItem(entry[k]) /\ entry[k].unit = units[k]
               /\ entry[k].must = Stands(units, k, exact) /\ entry[k].direct = direct
    <2>1. PICK i : i = Item(units[k], 0)  OBVIOUS
    <2>2. IsItem(i) /\ i.unit = units[k]
      <3>1. units[k] \in Units  BY ResultIs
      <3> QED BY <2>1, <3>1 DEF Item, IsItem, Fields
    <2>3. entry[k] = [i EXCEPT !.must = Stands(units, k, exact), !.direct = direct]  BY <2>1
    <2> HIDE DEF entry
    <2>4. /\ DOMAIN entry[k] = DOMAIN i /\ entry[k].score = i.score
          /\ entry[k].unit = i.unit
          /\ entry[k].must = Stands(units, k, exact)
          /\ entry[k].aspect = i.aspect
          /\ entry[k].direct = direct
          /\ entry[k].closure = i.closure /\ entry[k].fromAspect = i.fromAspect
      BY <2>2, <2>3 DEF IsItem, Fields
    <2> QED BY <1>2, <2>2, <2>4 DEF IsItem
  <1>5. DOMAIN entry = DOMAIN units /\ entry = [k \in DOMAIN units |-> entry[k]]
        /\ DOMAIN old = DOMAIN items /\ old = [n \in DOMAIN items |-> old[n]]
    OBVIOUS
  <1> HIDE DEF old, entry
  <1>6. Entries(entry, units)  BY <1>4, <1>5 DEF Entries
  <1>7. Adds(added, items, units, entry)  BY <1>6, NewIs
  <1> HIDE DEF added
  <1>8. /\ Extends(old \o added, items)
        /\ \A k \in DOMAIN added : \E n \in DOMAIN (old \o added) : (old \o added)[n] = added[k]
        /\ \A n \in DOMAIN items : (old \o added)[n] = old[n]
    <2>1. Joined(old \o added, items, old, added)  BY <1>3, <1>5, <1>7, JoinIs DEF Adds
    <2> QED BY <2>1 DEF Joined
  <1>9. ASSUME direct, NEW k \in DOMAIN units, Stands(units, k, exact)
        PROVE  Secured(old \o added, units[k])
    <2>1. CASE units[k] \in Held(items)
      <3>1. PICK n \in DOMAIN items : items[n].unit = units[k]  BY <2>1, HeldIs
      <3>2. units[k] \in ToSet(units) /\ Place(units, units[k]) = k  BY ResultIs
      <3>3. old[n].unit = units[k] /\ old[n].must /\ old[n].direct
        BY <1>3, <1>9, <3>1, <3>2 DEF Tells
      <3>4. n \in DOMAIN (old \o added) /\ (old \o added)[n] = old[n]
        BY <1>8 DEF Extends
      <3> QED BY <3>3, <3>4 DEF Secured
    <2>2. CASE units[k] \notin Held(items)
      <3>1. PICK j \in DOMAIN added : added[j] = entry[k]  BY <1>7, <2>2 DEF Adds
      <3>2. PICK n \in DOMAIN (old \o added) : (old \o added)[n] = entry[k]  BY <1>8, <3>1
      <3> QED BY <1>4, <1>9, <3>2 DEF Secured
    <2> QED BY <2>1, <2>2
  <1> QED BY <1>1, <1>8, <1>9

LEMMA GraphScoreIs ==
  ASSUME NEW rank \in Nat \ {0}
  PROVE  GraphScore(rank) \in Int
  <1>1. RrfK + rank \in Nat \ {0}  BY PoolAssumption
  <1>2. \A d \in Nat \ {0} : 350 \div d \in Int  OBVIOUS
  <1> QED BY <1>1, <1>2 DEF GraphScore

LEMMA NumberIs ==
  ASSUME NEW b
  PROVE  Number(b) \in Int
  BY DEF Number

\* What sorting or cutting makes of a result is one.
LEMMA SortedResult ==
  ASSUME NEW units \in Results, NEW w \in Nat, NEW key, Keys(Len(units), w, key)
  PROVE  Sorted(units, key) \in Results /\ ToSet(Sorted(units, key)) = ToSet(units)
  BY SortedSeq DEF Results

LEMMA FirstResult ==
  ASSUME NEW units \in Results, NEW n \in Nat
  PROVE  FirstOf(units, n) \in Results /\ ToSet(FirstOf(units, n)) \subseteq ToSet(units)
  BY FirstOfIs DEF Results

LEMMA KeptResult ==
  ASSUME NEW units \in Results, NEW S \in SUBSET DOMAIN units
  PROVE  Kept(units, S) \in Results /\ ToSet(Kept(units, S)) = {units[k] : k \in S}
  BY KeptOf DEF Results

LEMMA ListingIs == Listing \in Results
  BY PoolAssumption DEF Results

\* The graph adds to the pool and lets go of nothing that must stay.
LEMMA EnrichIs ==
  ASSUME NEW items, PoolOK(items), NEW fetched \in Results, NEW must, NEW targets, NEW aspects, NEW last
  PROVE  Extends(Enrich(items, fetched, must, targets, aspects, last), items)
  <1> DEFINE Of(u) == IF ArticleOf[u] \in DOMAIN targets THEN targets[ArticleOf[u]]
                      ELSE [relations |-> {}, sources |-> {}, rank |-> last]
             Told(i, t) ==
               [i EXCEPT !.sources = @ \cup t.sources,
                         !.sourceRank = IF @ = 0 THEN t.rank ELSE Smaller(@, t.rank),
                         !.fromAspect = (i.sources \cup t.sources) \cap aspects # {}]
             Pinned(i, t) ==
               [Told(i, t) EXCEPT !.must = TRUE, !.closure = TRUE, !.relations = @ \cup t.relations]
             Mark(i) == IF i.unit \in must THEN Pinned(i, Of(i.unit)) ELSE i
             Scored(i, units) ==
               IF i.unit \in ToSet(units)
               THEN [i EXCEPT !.score = @ + GraphScore(Place(units, i.unit))] ELSE i
             key == [k \in DOMAIN fetched |-> <<Number(fetched[k] \notin must), 0 - Coverage[fetched[k]]>>]
             units == FirstOf(Sorted(fetched, key), CandidateTopK)
             old == [n \in DOMAIN items |-> Mark(Scored(items[n], units))]
             entry == [k \in DOMAIN units |-> Mark(Told(Item(units[k], GraphScore(k)), Of(units[k])))]
             added == Kept(entry, Fresh(items, units))
  <1>1. Enrich(items, fetched, must, targets, aspects, last) = old \o added  BY DEF Enrich, Fresh
  <1>2. units \in Results
    <2>1. Keys(Len(fetched), 2, key)
      <3> SUFFICES ASSUME NEW k \in 1..Len(fetched) PROVE key[k] \in [1..2 -> Int]
        BY DEF Keys
      <3>1. k \in DOMAIN fetched /\ Coverage[fetched[k]] \in Int  BY ResultIs, PoolAssumption
      <3>2. Number(fetched[k] \notin must) \in Int /\ 0 - Coverage[fetched[k]] \in Int  BY <3>1, NumberIs
      <3>3. key[k] = <<Number(fetched[k] \notin must), 0 - Coverage[fetched[k]]>>  BY <3>1
      <3> QED BY <3>2, <3>3, Key2
    <2> HIDE DEF key
    <2>2. Sorted(fetched, key) \in Results  BY <2>1, SortedResult
    <2>3. CandidateTopK \in Nat  BY PoolAssumption
    <2> QED BY <2>2, <2>3, FirstResult
  <1>3. ASSUME NEW i, IsItem(i), NEW t
        PROVE  Tells(Told(i, t), i)
    <2> DEFINE j == Told(i, t)
    <2>1. /\ DOMAIN j = DOMAIN i /\ j.score = i.score /\ j.unit = i.unit /\ j.must = i.must
          /\ j.aspect = i.aspect /\ j.direct = i.direct /\ j.closure = i.closure /\ j.fromAspect \in BOOLEAN
      BY <1>3 DEF IsItem, Fields
    <2> HIDE DEF j
    <2> QED BY <1>3, <2>1 DEF IsItem, Tells, j
  <1> HIDE DEF Told
  <1>4. ASSUME NEW i, IsItem(i)
        PROVE  Tells(Mark(i), i)
    <2>1. CASE i.unit \notin must  BY <1>4, <2>1 DEF Tells
    <2>2. CASE i.unit \in must
      <3>1. PICK t : t = Of(i.unit)  OBVIOUS
      <3>2. PICK j : j = Told(i, t)  OBVIOUS
      <3>3. Tells(j, i)  BY <1>3, <1>4, <3>2
      <3> DEFINE l == [j EXCEPT !.must = TRUE, !.closure = TRUE, !.relations = @ \cup t.relations]
      <3>4. Mark(i) = l  BY <2>2, <3>1, <3>2
      <3>5. /\ DOMAIN l = DOMAIN j /\ l.score = j.score /\ l.unit = j.unit /\ l.must = TRUE
            /\ l.aspect = j.aspect /\ l.direct = j.direct /\ l.closure = TRUE /\ l.fromAspect = j.fromAspect
        BY <3>3 DEF Tells, IsItem, Fields
      <3> HIDE DEF l
      <3>6. Tells(l, j)  BY <3>3, <3>5 DEF Tells, IsItem
      <3> QED BY <3>3, <3>4, <3>6, TellsMore
    <2> QED BY <2>1, <2>2
  <1> HIDE DEF Of, Mark, units
  <1>5. ASSUME NEW n \in DOMAIN items
        PROVE  Tells(old[n], items[n])
    <2>1. IsItem(items[n])  BY DEF PoolOK
    <2>2. Tells(Scored(items[n], units), items[n])
      <3>1. CASE items[n].unit \notin ToSet(units)  BY <2>1, <3>1 DEF Tells
      <3>2. CASE items[n].unit \in ToSet(units)
        <4>1. Place(units, items[n].unit) \in Nat \ {0}  BY <1>2, <3>2, ResultIs
        <4>2. PICK sc \in Int : sc = GraphScore(Place(units, items[n].unit))  BY <4>1, GraphScoreIs
        <4>3. items[n].score + sc \in Int  BY <2>1 DEF IsItem
        <4>4. Scored(items[n], units) = [items[n] EXCEPT !.score = @ + sc]  BY <3>2, <4>2
        <4> HIDE DEF Scored
        <4> QED BY <2>1, <4>3, <4>4 DEF Tells, IsItem, Fields
      <3> QED BY <3>1, <3>2
    <2> HIDE DEF Scored
    <2>3. Tells(Mark(Scored(items[n], units)), Scored(items[n], units))  BY <1>4, <2>2 DEF Tells
    <2> QED BY <2>2, <2>3, TellsMore
  <1>6. ASSUME NEW k \in DOMAIN units
        PROVE  IsItem(entry[k]) /\ entry[k].unit = units[k]
    <2>1. units[k] \in Units /\ k \in Nat \ {0}  BY <1>2, ResultIs
    <2>2. IsItem(Item(units[k], GraphScore(k))) /\ Item(units[k], GraphScore(k)).unit = units[k]
      BY <2>1, GraphScoreIs, ItemIs
    <2>3. Tells(Told(Item(units[k], GraphScore(k)), Of(units[k])), Item(units[k], GraphScore(k)))
      BY <1>3, <2>2
    <2>4. Tells(entry[k], Told(Item(units[k], GraphScore(k)), Of(units[k])))
      <3>1. IsItem(Told(Item(units[k], GraphScore(k)), Of(units[k])))  BY <2>3 DEF Tells
      <3> QED BY <1>4, <3>1
    <2> HIDE DEF entry
    <2> QED BY <2>2, <2>3, <2>4 DEF Tells
  <1>7. DOMAIN entry = DOMAIN units /\ entry = [k \in DOMAIN units |-> entry[k]]
        /\ DOMAIN old = DOMAIN items /\ old = [n \in DOMAIN items |-> old[n]]
    OBVIOUS
  <1> HIDE DEF old, entry
  <1>8. Entries(entry, units)  BY <1>6, <1>7 DEF Entries
  <1>9. Adds(added, items, units, entry)  BY <1>2, <1>8, NewIs
  <1> HIDE DEF added
  <1>10. Extends(old \o added, items)  BY <1>5, <1>7, <1>9, JoinIs DEF Adds, Joined
  <1> QED BY <1>1, <1>10

LEMMA ExpandGraphIs ==
  ASSUME NEW items, PoolOK(items), NEW taken, NEW perQuery, NEW asks
  PROVE  Extends(ExpandGraph(items, taken, perQuery, asks), items)
  <1>1. \E nodes, must, targets, aspects, last :
          ExpandGraph(items, taken, perQuery, asks) =
            Enrich(items, Kept(Listing, {k \in DOMAIN Listing : {Listing[k], ArticleOf[Listing[k]]}
                                                 \cap (nodes \ Held(items)) # {}}),
                   must, targets, aspects, last)
    BY DEF ExpandGraph
  <1> DEFINE places(nodes) == {k \in DOMAIN Listing : {Listing[k], ArticleOf[Listing[k]]}
                                                 \cap (nodes \ Held(items)) # {}}
  <1>2. PICK nodes, must, targets, aspects, last :
          ExpandGraph(items, taken, perQuery, asks) =
            Enrich(items, Kept(Listing, places(nodes)), must, targets, aspects, last)
    BY <1>1
  <1>4. places(nodes) \in SUBSET DOMAIN Listing  OBVIOUS
  <1> HIDE DEF places
  <1>3. Kept(Listing, places(nodes)) \in Results  BY <1>4, ListingIs, KeptResult
  <1> QED BY <1>2, <1>3, EnrichIs

-----------------------------------------------------------------------------
(* What is selected of the provisions named.                               *)

LEMMA Less4 ==
  ASSUME NEW s \in [1..4 -> Int], NEW t \in [1..4 -> Int]
  PROVE  Less(s, t) <=> \/ s[1] < t[1]
                        \/ s[1] = t[1] /\ s[2] < t[2]
                        \/ s[1] = t[1] /\ s[2] = t[2] /\ s[3] < t[3]
                        \/ s[1] = t[1] /\ s[2] = t[2] /\ s[3] = t[3] /\ s[4] < t[4]
  <1>1. DOMAIN s = {1, 2, 3, 4}  OBVIOUS
  <1>2. /\ 1..(1 - 1) = {} /\ 1..(2 - 1) = {1} /\ 1..(3 - 1) = {1, 2} /\ 1..(4 - 1) = {1, 2, 3}
    OBVIOUS
  <1>3. Less(s, t) <=> \E n \in {1, 2, 3, 4} : s[n] < t[n] /\ \A m \in 1..(n - 1) : s[m] = t[m]
    BY <1>1 DEF Less
  <1> QED BY <1>2, <1>3

LEMMA Behind3 ==
  ASSUME NEW key, NEW j \in Int, NEW k \in Int, key[j] \in [1..3 -> Int], key[k] \in [1..3 -> Int]
  PROVE  Behind(key, j, k) <=>
           \/ key[j][1] < key[k][1]
           \/ key[j][1] = key[k][1] /\ key[j][2] < key[k][2]
           \/ key[j][1] = key[k][1] /\ key[j][2] = key[k][2] /\ key[j][3] < key[k][3]
           \/ key[j][1] = key[k][1] /\ key[j][2] = key[k][2] /\ key[j][3] = key[k][3] /\ j < k
  <1>0. 3 \in Nat  OBVIOUS
  <1>a. ASSUME NEW q \in [1..3 -> Int], NEW m \in Int
        PROVE  \E s \in [1..(3 + 1) -> Int] : s = Append(q, m) /\ s[3 + 1] = m /\ \A i \in 1..3 : s[i] = q[i]
    <2> DEFINE a == Append(q, m)
    <2>1. a \in [1..(3 + 1) -> Int] /\ a[3 + 1] = m /\ \A i \in 1..3 : a[i] = q[i]
      BY <1>0, Placed
    <2> HIDE DEF a
    <2>2. a = Append(q, m)  BY DEF a
    <2> QED BY <2>1, <2>2
  <1>1. PICK s \in [1..(3 + 1) -> Int] : s = Append(key[j], j) /\ s[3 + 1] = j /\ \A i \in 1..3 : s[i] = key[j][i]
    BY <1>a
  <1>2. PICK t \in [1..(3 + 1) -> Int] : t = Append(key[k], k) /\ t[3 + 1] = k /\ \A i \in 1..3 : t[i] = key[k][i]
    BY <1>a
  <1>3. /\ 3 + 1 = 4 /\ s[1] = key[j][1] /\ s[2] = key[j][2] /\ s[3] = key[j][3] /\ s[4] = j
        /\ t[1] = key[k][1] /\ t[2] = key[k][2] /\ t[3] = key[k][3] /\ t[4] = k
    <2>1. 3 + 1 = 4 /\ 1 \in 1..3 /\ 2 \in 1..3 /\ 3 \in 1..3  OBVIOUS
    <2>2. s[1] = key[j][1] /\ s[2] = key[j][2] /\ s[3] = key[j][3]  BY <1>1, <2>1
    <2>3. t[1] = key[k][1] /\ t[2] = key[k][2] /\ t[3] = key[k][3]  BY <1>2, <2>1
    <2>4. s[4] = j /\ t[4] = k  BY <1>1, <1>2, <2>1
    <2> QED BY <2>1, <2>2, <2>3, <2>4
  <1>4. s \in [1..4 -> Int] /\ t \in [1..4 -> Int]  BY <1>3
  <1>5. Behind(key, j, k) <=> Less(s, t)  BY <1>1, <1>2 DEF Behind
  <1> QED BY <1>3, <1>4, <1>5, Less4

\* u is the passage of Article a that is nearest to the question.
Nearest(u, units, a) ==
    /\ u \in units /\ ArticleOf[u] = a
    /\ \A v \in units : ArticleOf[v] = a /\ v # u =>
         \/ Coverage[v] < Coverage[u]
         \/ Coverage[v] = Coverage[u] /\ Place(Listing, u) < Place(Listing, v)

LEMMA OneNearest ==
  ASSUME NEW units \in SUBSET Units, NEW a, NEW u, Nearest(u, units, a), NEW v, Nearest(v, units, a)
  PROVE  u = v
  <1>1. u \in Units /\ v \in Units  BY DEF Nearest
  <1>2. /\ Coverage[u] \in Int /\ Coverage[v] \in Int
        /\ Place(Listing, u) \in Int /\ Place(Listing, v) \in Int
    BY <1>1, ListingIs, ResultIs, PoolAssumption DEF Units
  <1> SUFFICES ASSUME u # v PROVE FALSE
    OBVIOUS
  <1>3. \/ Coverage[v] < Coverage[u]
        \/ Coverage[v] = Coverage[u] /\ Place(Listing, u) < Place(Listing, v)
    BY DEF Nearest
  <1>4. \/ Coverage[u] < Coverage[v]
        \/ Coverage[u] = Coverage[v] /\ Place(Listing, v) < Place(Listing, u)
    BY DEF Nearest
  <1> QED BY <1>2, <1>3, <1>4

\* The units of a set, as the index lists them.
LEMMA ListedIs ==
  ASSUME NEW units \in SUBSET Units
  PROVE  LET listed == Kept(Listing, {k \in DOMAIN Listing : Listing[k] \in units})
         IN  /\ listed \in Results /\ ToSet(listed) = units
             /\ \A j, k \in DOMAIN listed : j < k => Place(Listing, listed[j]) < Place(Listing, listed[k])
  <1> DEFINE S == {k \in DOMAIN Listing : Listing[k] \in units}
             listed == Kept(Listing, S)
  <1>1. S \in SUBSET DOMAIN Listing  OBVIOUS
  <1>2. listed \in Results /\ ToSet(listed) = {Listing[k] : k \in S}
    <2> HIDE DEF S
    <2> QED BY <1>1, ListingIs, KeptResult
  <1>3. ToSet(listed) = units
    <2>1. \A u \in units : Place(Listing, u) \in S /\ Listing[Place(Listing, u)] = u
      BY ListingIs, ResultIs DEF Units
    <2>2. \A k \in S : Listing[k] \in units  OBVIOUS
    <2> HIDE DEF S, listed
    <2> QED BY <1>2, <2>1, <2>2
  <1>4. S \in SUBSET Int /\ IsFiniteSet(S)
    <2>1. Listing \in Seq(Units)  BY PoolAssumption
    <2> HIDE DEF S
    <2> QED BY <1>1, <2>1, SeqPlaces, FS_Subset
  <1>5. PICK p : Rises(p, S) /\ listed = [k \in 1..Cardinality(S) |-> Listing[p[k]]]
    <2> HIDE DEF S
    <2> QED BY <1>4, KeptIs
  <1>6. PICK n \in Nat : /\ n = Cardinality(S) /\ p \in [1..n -> S]
                         /\ \A j, k \in 1..n : j < k <=> p[j] < p[k]
    <2> HIDE DEF S
    <2> QED BY <1>5 DEF Rises
  <1>7. DOMAIN listed = 1..n /\ \A k \in 1..n : listed[k] = Listing[p[k]] /\ p[k] \in DOMAIN Listing
    <2> HIDE DEF listed
    <2> QED BY <1>5, <1>6
  <1>8. \A k \in 1..n : Place(Listing, listed[k]) = p[k]
    <2> HIDE DEF listed, S
    <2> QED BY <1>7, ListingIs, ResultIs
  <1> HIDE DEF listed
  <1>9. \A j, k \in DOMAIN listed : j < k => Place(Listing, listed[j]) < Place(Listing, listed[k])
    BY <1>6, <1>7, <1>8
  <1> QED BY <1>2, <1>3, <1>9 DEF listed

LEMMA LeastOf ==
  ASSUME NEW S \in SUBSET Nat, S # {}
  PROVE  Min(S) \in S /\ \A n \in S : Min(S) <= n
  <1>1. PICK m \in S : \A n \in S : m <= n  BY LeastExists
  <1> QED BY <1>1 DEF Min

\* What a selection of units gives.
Selected(r, units, exact) ==
    /\ r \in Results /\ ToSet(r) \subseteq units
    /\ units \cap exact \subseteq ToSet(r)
    /\ \A a : (\E u \in units : ArticleOf[u] = a) /\ (\A u \in units \cap exact : ArticleOf[u] # a) =>
         \E k \in DOMAIN r : Nearest(r[k], units, a) /\ \A j \in 1..(k - 1) : ArticleOf[r[j]] # a

\* All that were named exactly, and the nearest of each other Article, before its others.
LEMMA SelectDirectIs ==
  ASSUME NEW units \in SUBSET Units, NEW exact
  PROVE  Selected(SelectDirect(units, exact), units, exact)
  <1> DEFINE Of(a) == {u \in units \cap exact : ArticleOf[u] = a}
             Room(a) == Larger(PerArticle, Cardinality(Of(a)))
             First(a) == Min({k \in DOMAIN Listing : Listing[k] \in units /\ ArticleOf[Listing[k]] = a})
             Key(u) == <<First(ArticleOf[u]), Number(u \notin exact), 0 - Coverage[u]>>
             Ahead(s, k) == {j \in 1..(k - 1) : ArticleOf[s[j]] = ArticleOf[s[k]]}
             listed == Kept(Listing, {k \in DOMAIN Listing : Listing[k] \in units})
             key == [k \in DOMAIN listed |-> Key(listed[k])]
             nearest == Sorted(listed, key)
             C == {k \in DOMAIN nearest : Cardinality(Ahead(nearest, k)) < Room(ArticleOf[nearest[k]])}
             r == Kept(nearest, C)
             n == Len(listed)
  <1>1. SelectDirect(units, exact) = r  BY DEF SelectDirect
  <1>2. /\ listed \in Results /\ ToSet(listed) = units
        /\ \A j, k \in DOMAIN listed : j < k => Place(Listing, listed[j]) < Place(Listing, listed[k])
    BY ListedIs
  <1> HIDE DEF listed
  <1>3. n \in Nat /\ DOMAIN listed = 1..n /\ (\A k \in 1..n : listed[k] \in units /\ listed[k] \in Units)
        /\ \A j, k \in 1..n : listed[j] = listed[k] => j = k
    BY <1>2, ResultIs DEF IsInjective
  <1> HIDE DEF n
  <1>4. \A u \in units : First(ArticleOf[u]) \in Int
    <2> TAKE u \in units
    <2> DEFINE S == {k \in DOMAIN Listing : Listing[k] \in units /\ ArticleOf[Listing[k]] = ArticleOf[u]}
    <2>1. Place(Listing, u) \in S  BY ListingIs, ResultIs DEF Units
    <2>2. S \in SUBSET Nat  BY ListingIs, ResultIs
    <2> HIDE DEF S
    <2>3. Min(S) \in Nat  BY <2>1, <2>2, LeastOf
    <2> QED BY <2>3 DEF S
  <1> HIDE DEF First
  <1>5. \A u \in units : /\ Key(u) \in [1..3 -> Int] /\ Key(u)[1] = First(ArticleOf[u])
                         /\ Key(u)[2] = Number(u \notin exact) /\ Key(u)[3] = 0 - Coverage[u]
    <2> TAKE u \in units
    <2>1. Coverage[u] \in Int  BY PoolAssumption
    <2>2. First(ArticleOf[u]) \in Int /\ Number(u \notin exact) \in Int /\ 0 - Coverage[u] \in Int
      BY <1>4, <2>1, NumberIs
    <2> QED BY <2>2, Key3
  <1> HIDE DEF Key
  <1>6. Keys(n, 3, key) /\ \A k \in 1..n : key[k] = Key(listed[k])
    BY <1>3, <1>5 DEF Keys
  <1> HIDE DEF key
  <1>7. PICK p : SortedBy(p, n, key) /\ nearest = [k \in 1..n |-> listed[p[k]]]
    BY <1>3, <1>6, SortedIs
  <1>8. /\ p \in [1..n -> 1..n]
        /\ \A m \in 1..n : \E k \in 1..n : p[k] = m
        /\ \A j, k \in 1..n : p[j] = p[k] => j = k
        /\ \A j, k \in 1..n : j < k <=> Behind(key, p[j], p[k])
    BY <1>7 DEF SortedBy
  <1>9. nearest \in Results /\ ToSet(nearest) = units /\ DOMAIN nearest = 1..n
        /\ \A k \in 1..n : nearest[k] = listed[p[k]] /\ nearest[k] \in units /\ nearest[k] \in Units
    <2>1. nearest \in Results /\ ToSet(nearest) = units
      <3>1. Len(listed) = n /\ 3 \in Nat  BY DEF n
      <3> HIDE DEF nearest
      <3>2. nearest = Sorted(listed, key)  BY DEF nearest
      <3> QED BY <1>2, <1>6, <3>1, <3>2, SortedResult
    <2> HIDE DEF nearest
    <2> QED BY <1>3, <1>7, <1>8, <2>1
  <1> HIDE DEF nearest
  <1>10. ASSUME NEW j \in 1..n, NEW k \in 1..n, j < k, ArticleOf[nearest[j]] = ArticleOf[nearest[k]]
         PROVE  \/ Number(nearest[j] \notin exact) < Number(nearest[k] \notin exact)
                \/ /\ Number(nearest[j] \notin exact) = Number(nearest[k] \notin exact)
                   /\ \/ Coverage[nearest[k]] < Coverage[nearest[j]]
                      \/ /\ Coverage[nearest[k]] = Coverage[nearest[j]]
                         /\ Place(Listing, nearest[j]) < Place(Listing, nearest[k])
    <2>1. p[j] \in 1..n /\ p[k] \in 1..n /\ Behind(key, p[j], p[k])  BY <1>8, <1>10
    <2>2. /\ key[p[j]] = Key(nearest[j]) /\ key[p[k]] = Key(nearest[k])
          /\ nearest[j] \in units /\ nearest[k] \in units
      BY <1>6, <1>9, <2>1
    <2>3. \/ key[p[j]][1] < key[p[k]][1]
          \/ key[p[j]][1] = key[p[k]][1] /\ key[p[j]][2] < key[p[k]][2]
          \/ key[p[j]][1] = key[p[k]][1] /\ key[p[j]][2] = key[p[k]][2] /\ key[p[j]][3] < key[p[k]][3]
          \/ key[p[j]][1] = key[p[k]][1] /\ key[p[j]][2] = key[p[k]][2] /\ key[p[j]][3] = key[p[k]][3] /\ p[j] < p[k]
      <3>1. p[j] \in Int /\ p[k] \in Int  BY <1>3, <2>1
      <3>2. key[p[j]] \in [1..3 -> Int] /\ key[p[k]] \in [1..3 -> Int]  BY <1>5, <2>2
      <3> QED BY <2>1, <3>1, <3>2, Behind3
    <2>4. key[p[j]][1] = key[p[k]][1] /\ First(ArticleOf[nearest[j]]) \in Int
      BY <1>4, <1>5, <1>10, <2>2
    <2>5. /\ key[p[j]][2] = Number(nearest[j] \notin exact) /\ key[p[k]][2] = Number(nearest[k] \notin exact)
          /\ key[p[j]][3] = 0 - Coverage[nearest[j]] /\ key[p[k]][3] = 0 - Coverage[nearest[k]]
      BY <1>5, <2>2
    <2>6. p[j] < p[k] => Place(Listing, nearest[j]) < Place(Listing, nearest[k])
      BY <1>2, <1>3, <1>9, <2>1
    <2>7. Coverage[nearest[j]] \in Int /\ Coverage[nearest[k]] \in Int  BY <1>9, PoolAssumption
    <2>8. key[p[j]][1] \in Int /\ ~(key[p[j]][1] < key[p[j]][1])  BY <1>5, <2>2, <2>4
    <2>9. /\ 0 - Coverage[nearest[j]] < 0 - Coverage[nearest[k]] => Coverage[nearest[k]] < Coverage[nearest[j]]
          /\ 0 - Coverage[nearest[j]] = 0 - Coverage[nearest[k]] => Coverage[nearest[k]] = Coverage[nearest[j]]
      BY <2>7
    <2> QED BY <2>3, <2>4, <2>5, <2>6, <2>8, <2>9
  <1>11. \A a : IsFiniteSet(Of(a)) /\ Cardinality(Of(a)) \in Nat /\ Room(a) \in Nat
                /\ Cardinality(Of(a)) <= Room(a) /\ 0 < Room(a)
    <2> TAKE a
    <2>1. IsFiniteSet(ToSet(Listing))
      <3>1. ToSet(Listing) = Units  BY DEF Units
      <3>2. Listing \in Seq(Units) /\ ToSet(Listing) = {Listing[k] : k \in DOMAIN Listing}
        BY PoolAssumption DEF ToSet
      <3>3. DOMAIN Listing = 1..Len(Listing) /\ Len(Listing) \in Nat /\ IsFiniteSet(DOMAIN Listing)
        BY <3>2, SeqPlaces
      <3>4. Listing \in Surjection(DOMAIN Listing, ToSet(Listing))
        <4>1. Listing \in [DOMAIN Listing -> ToSet(Listing)]  BY <3>1, <3>2
        <4>2. \A u \in ToSet(Listing) : \E k \in DOMAIN Listing : Listing[k] = u  BY <3>2
        <4> QED BY <4>1, <4>2 DEF Surjection
      <3> QED BY <3>3, <3>4, FS_Surjection
    <2>2. Of(a) \in SUBSET ToSet(Listing)  BY DEF Units
    <2> HIDE DEF Of
    <2>3. IsFiniteSet(Of(a)) /\ Cardinality(Of(a)) \in Nat  BY <2>1, <2>2, FS_Subset, FS_CardinalityType
    <2> QED BY <2>3, PoolAssumption DEF Larger
  <1> HIDE DEF Room
  <1>12. C \in SUBSET DOMAIN nearest  OBVIOUS
  <1>13. \A k \in 1..n : Cardinality(Ahead(nearest, k)) < Room(ArticleOf[nearest[k]]) => k \in C
    BY <1>9
  <1> HIDE DEF C, Ahead
  <1>14. r \in Results /\ ToSet(r) = {nearest[k] : k \in C}  BY <1>9, <1>12, KeptResult
  <1>15. units \cap exact \subseteq ToSet(r)
    <2> SUFFICES ASSUME NEW k \in 1..n, nearest[k] \in exact PROVE k \in C
      BY <1>9, <1>14 DEF ToSet
    <2> DEFINE a == ArticleOf[nearest[k]]
               T == Ahead(nearest, k)
               O == Of(a) \ {nearest[k]}
               f == [j \in T |-> nearest[j]]
    <2>1. nearest[k] \in Of(a)  BY <1>9
    <2>2. IsFiniteSet(O) /\ Cardinality(O) = Cardinality(Of(a)) - 1
      <3> HIDE DEF Of
      <3>1. IsFiniteSet(Of(a))  BY <1>11
      <3> QED BY <2>1, <3>1, FS_RemoveElement
    <2>3. ASSUME NEW j \in T
          PROVE  j \in 1..n /\ nearest[j] \in O
      <3>1. j \in 1..n /\ j < k /\ ArticleOf[nearest[j]] = a  BY <1>3 DEF Ahead
      <3>2. nearest[j] # nearest[k]  BY <1>3, <1>9, <3>1 DEF Results, IsInjective
      <3>3. Number(nearest[j] \notin exact) <= Number(nearest[k] \notin exact)
        <4>1. Number(nearest[j] \notin exact) \in Int /\ Number(nearest[k] \notin exact) \in Int  BY NumberIs
        <4> QED BY <1>10, <3>1, <4>1
      <3>4. nearest[j] \in exact  BY <3>3 DEF Number
      <3> QED BY <1>9, <3>1, <3>2, <3>4
    <2>4. f \in Injection(T, O)
      <3>1. f \in [T -> O]  BY <2>3
      <3>2. \A i, j \in T : f[i] = f[j] => i = j
        BY <1>9, <2>3 DEF Results, IsInjective
      <3> HIDE DEF f
      <3> QED BY <3>1, <3>2 DEF Injection, IsInjective
    <2> HIDE DEF f, O, T
    <2>5. Cardinality(T) <= Cardinality(O) /\ IsFiniteSet(T)  BY <2>2, <2>4, FS_Injection
    <2>6. Cardinality(T) \in Nat  BY <2>5, FS_CardinalityType
    <2> HIDE DEF Of
    <2>7. Cardinality(T) < Room(a)
      <3>1. Cardinality(Of(a)) \in Nat /\ Room(a) \in Nat /\ Cardinality(Of(a)) <= Room(a)  BY <1>11
      <3> QED BY <2>2, <2>5, <2>6, <3>1
    <2> QED BY <1>13, <2>7 DEF T
  <1>16. ASSUME NEW a, NEW u \in units, ArticleOf[u] = a, \A v \in units \cap exact : ArticleOf[v] # a
         PROVE  \E k \in DOMAIN r : Nearest(r[k], units, a) /\ \A j \in 1..(k - 1) : ArticleOf[r[j]] # a
    <2> DEFINE D == {k \in 1..n : ArticleOf[nearest[k]] = a}
    <2>1. D \in SUBSET Nat /\ D # {}
      <3>1. PICK k \in 1..n : nearest[k] = u  BY <1>9, <1>16 DEF ToSet
      <3> QED BY <1>3, <1>16, <3>1
    <2> HIDE DEF D
    <2>2. PICK m \in D : \A k \in D : m <= k  BY <2>1, LeastExists
    <2>3. m \in 1..n /\ ArticleOf[nearest[m]] = a  BY DEF D
    <2>4. \A j \in 1..(m - 1) : ArticleOf[nearest[j]] # a
      <3> TAKE j \in 1..(m - 1)
      <3>1. j \in 1..n /\ ~(m <= j)  BY <1>3, <2>3
      <3> QED BY <2>2, <3>1 DEF D
    <2>5. m \in C
      <3>1. Ahead(nearest, m) = {}  BY <2>3, <2>4 DEF Ahead
      <3>2. Cardinality(Ahead(nearest, m)) = 0  BY <3>1, FS_EmptySet
      <3> QED BY <1>11, <1>13, <2>3, <3>2
    <2>6. Nearest(nearest[m], units, a)
      <3>1. ASSUME NEW v \in units, ArticleOf[v] = a, v # nearest[m]
            PROVE  \/ Coverage[v] < Coverage[nearest[m]]
                   \/ Coverage[v] = Coverage[nearest[m]] /\ Place(Listing, nearest[m]) < Place(Listing, v)
        <4>1. PICK k \in 1..n : nearest[k] = v  BY <1>9 DEF ToSet
        <4>2. m < k
          <5>1. k \in D /\ k # m  BY <3>1, <4>1 DEF D
          <5> QED BY <1>3, <2>2, <2>3, <5>1
        <4>3. nearest[m] \notin exact /\ v \notin exact  BY <1>9, <1>16, <2>3, <3>1
        <4>4. Number(nearest[m] \notin exact) = 1 /\ Number(nearest[k] \notin exact) = 1
          BY <4>1, <4>3 DEF Number
        <4> QED BY <1>10, <2>3, <3>1, <4>1, <4>2, <4>4
      <3>2. nearest[m] \in units /\ ArticleOf[nearest[m]] = a  BY <1>9, <2>3
      <3> QED BY <3>1, <3>2 DEF Nearest
    <2>7. C \in SUBSET Int /\ IsFiniteSet(C)
      <3>1. nearest \in Seq(Units)  BY <1>9, ResultIs
      <3> QED BY <1>12, <3>1, SeqPlaces, FS_Subset
    <2>8. PICK q : Rises(q, C) /\ r = [k \in 1..Cardinality(C) |-> nearest[q[k]]]  BY <2>7, KeptIs
    <2>9. PICK l \in Nat : /\ l = Cardinality(C) /\ q \in [1..l -> C]
                           /\ \A i \in C : \E k \in 1..l : q[k] = i
                           /\ \A j, k \in 1..l : j < k <=> q[j] < q[k]
      BY <2>8 DEF Rises
    <2> HIDE DEF r
    <2>10. DOMAIN r = 1..l /\ \A k \in 1..l : r[k] = nearest[q[k]]  BY <2>8, <2>9
    <2>11. PICK k \in 1..l : q[k] = m  BY <2>5, <2>9
    <2>12. \A j \in 1..(k - 1) : ArticleOf[r[j]] # a
      <3> TAKE j \in 1..(k - 1)
      <3>1. j \in 1..l /\ j < k  BY <2>9
      <3>2. q[j] \in C /\ q[j] < m  BY <2>9, <2>11, <3>1
      <3>3. q[j] \in 1..n  BY <1>9, <1>12, <3>2
      <3>4. q[j] \in 1..(m - 1)  BY <1>3, <2>3, <3>2, <3>3
      <3> QED BY <2>4, <2>10, <3>1, <3>4
    <2> QED BY <2>6, <2>10, <2>11, <2>12
  <1>17. ToSet(r) \subseteq units  BY <1>9, <1>12, <1>14
  <1> HIDE DEF r
  <1> QED BY <1>1, <1>14, <1>15, <1>16, <1>17 DEF Selected

-----------------------------------------------------------------------------
(* The evidence gathered.                                                  *)

LEMMA LookedUpIs ==
  ASSUME NEW articles, NEW exact \in SUBSET Units
  PROVE  Selected(LookedUp(articles, exact), UnitsOfArticles(articles) \cup exact, exact)
  <1>1. UnitsOfArticles(articles) \cup exact \in SUBSET Units  BY DEF UnitsOfArticles
  <1> QED BY <1>1, SelectDirectIs DEF LookedUp

\* What the question names stands for its Article among what is looked up.
LEMMA NamedStand ==
  ASSUME question \in Questions, NEW u \in NamedUnits
  PROVE  \E k \in DOMAIN LookedUp(question.articles, question.exact) :
           /\ LookedUp(question.articles, question.exact)[k] = u
           /\ Stands(LookedUp(question.articles, question.exact), k, question.exact)
  <1> DEFINE exact == question.exact
             units == UnitsOfArticles(question.articles) \cup exact
             r == LookedUp(question.articles, exact)
  <1>1. exact \in SUBSET Units /\ question.articles \subseteq {ArticleOf[w] : w \in Units}
    BY AnswerAssumption
  <1>2. Selected(r, units, exact)  BY <1>1, LookedUpIs
  <1> HIDE DEF r
  <1>3. CASE u \in exact
    <2>1. PICK k \in DOMAIN r : r[k] = u  BY <1>2, <1>3 DEF Selected, ToSet
    <2> QED BY <1>3, <2>1 DEF Stands, r
  <1>4. CASE u \notin exact
    <2>1. PICK a \in question.articles : (\A v \in exact : ArticleOf[v] # a) /\ u = LookedUp({a}, {})[1]
      BY <1>4 DEF NamedUnits
    <2> DEFINE one == UnitsOfArticles({a}) \cup {}
               s == LookedUp({a}, {})
    <2>2. Selected(s, one, {})  BY LookedUpIs
    <2> HIDE DEF s
    <2>3. PICK w \in Units : ArticleOf[w] = a  BY <1>1, <2>1
    <2>4. one \in SUBSET Units /\ \A v : v \in one <=> v \in Units /\ ArticleOf[v] = a
      BY DEF UnitsOfArticles
    <2>5. \A v \in units : v \in Units /\ (ArticleOf[v] = a => v \in one)
      BY <1>1, <2>4 DEF UnitsOfArticles
    <2>6. \A v \in one : v \in units  BY <2>1, <2>4 DEF UnitsOfArticles
    <2> HIDE DEF one
    <2>7. PICK k \in DOMAIN s : Nearest(s[k], one, a) /\ \A j \in 1..(k - 1) : ArticleOf[s[j]] # a
      <3>1. \A v \in one \cap {} : ArticleOf[v] # a  OBVIOUS
      <3>2. \E v \in one : ArticleOf[v] = a  BY <2>3, <2>4
      <3> QED BY <2>2, <3>1, <3>2 DEF Selected
    <2>8. Nearest(u, one, a)
      <3>1. Len(s) \in Nat /\ DOMAIN s = 1..Len(s) /\ \A j \in DOMAIN s : s[j] \in ToSet(s)
        BY <2>2, ResultIs DEF Selected
      <3>2. \A j \in DOMAIN s : ArticleOf[s[j]] = a  BY <2>2, <2>4, <3>1 DEF Selected
      <3>3. k = 1
        <4>1. k # 1 => 1 \in 1..(k - 1) /\ 1 \in DOMAIN s  BY <3>1
        <4> QED BY <2>7, <3>2, <4>1
      <3> QED BY <2>1, <2>7, <3>3 DEF s
    <2> HIDE DEF units
    <2>9. PICK l \in DOMAIN r : Nearest(r[l], units, a) /\ \A j \in 1..(l - 1) : ArticleOf[r[j]] # a
      <3>1. \A v \in units \cap exact : ArticleOf[v] # a  BY <2>1
      <3>2. \E v \in units : ArticleOf[v] = a  BY <2>3, <2>4, <2>6
      <3> QED BY <1>2, <3>1, <3>2 DEF Selected
    <2>10. Nearest(r[l], one, a)
      <3>1. r[l] \in one  BY <2>5, <2>9 DEF Nearest
      <3> QED BY <2>6, <2>9, <3>1 DEF Nearest
    <2>11. r[l] = u  BY <2>4, <2>8, <2>10, OneNearest
    <2>12. ArticleOf[u] = a  BY <2>8 DEF Nearest
    <2> QED BY <2>9, <2>11, <2>12 DEF Stands, r
  <1> QED BY <1>3, <1>4

LEMMA SearchEvidenceIs ==
  ASSUME NEW query \in Queries, NEW results \in SearchEvidence(query)
  PROVE  results \in Results
  <1>1. PICK found \in Found, scoped \in {<<>>, InLaw[query]} : results = found \o Without(scoped, ToSet(found))
    BY DEF SearchEvidence
  <1>2. <<>> \in Results  BY DEF Results, IsInjective
  <1>3. found \in Results /\ scoped \in Results
    <2>1. InLaw[query] \in Results  BY AnswerAssumption
    <2>2. found \in Results  BY AnswerAssumption
    <2> QED BY <1>2, <2>1, <2>2
  <1> DEFINE rest == Without(scoped, ToSet(found))
  <1>4. /\ found \in Seq(Units) /\ rest \in Seq(Units) /\ IsInjective(found) /\ IsInjective(rest)
        /\ ToSet(found) \cap ToSet(rest) = {}
    BY <1>3, WithoutIs DEF Results
  <1> HIDE DEF rest
  <1>5. found \o rest \in Seq(Units) /\ IsInjective(found \o rest)  BY <1>4, ConcatIs
  <1> QED BY <1>1, <1>5 DEF Results, rest


NamedHeld == \A u \in NamedUnits : Secured(pool, u)

(***************************************************************************)
(* The inductive invariant of the gathering.  The pool holds each unit     *)
(* once, and once the provisions of the question were looked up, the item  *)
(* of the passage that stands for each of them is marked as one that was   *)
(* named and must stay, whichever searches, guidelines and graph paths     *)
(* come after it.                                                          *)
(***************************************************************************)
SearchInv ==
    /\ question \in Questions
    /\ PoolOK(pool)
    /\ pending \in Seq(Queries)
    /\ retries \in Nat /\ evaluation.queries \in Seq(Queries)
    /\ looked => NamedHeld
    /\ NamedReachesAnswer

LEMMA EmptyPool == PoolOK(<<>>)
  BY DEF PoolOK, ToSet

\* A step of which the pool is the only thing to look at.
LEMMA MorePool ==
  ASSUME SearchInv, Extends(pool', pool), step' # "ranked", UNCHANGED <<question, looked>>,
         pending' \in Seq(Queries), retries' \in Nat, evaluation'.queries \in Seq(Queries)
  PROVE  SearchInv'
  <1>1. PoolOK(pool')  BY DEF Extends
  <1>2. NamedUnits' = NamedUnits  BY DEF NamedUnits
  <1>3. looked' => NamedHeld'  BY <1>2, SecuredRemains DEF SearchInv, NamedHeld
  <1>4. NamedReachesAnswer'  BY DEF NamedReachesAnswer
  <1> QED BY <1>1, <1>3, <1>4 DEF SearchInv

\* A step that changes nothing of it.
LEMMA SameSearch ==
  ASSUME SearchInv, UNCHANGED <<question, search>>, step' # "ranked" \/ UNCHANGED <<step, ranked>>
  PROVE  SearchInv'
  <1>1. UNCHANGED <<question, pool, pending, retries, evaluation, looked>>  BY DEF search
  <1>2. NamedUnits' = NamedUnits  BY <1>1 DEF NamedUnits
  <1>3. NamedReachesAnswer'
    <2>1. CASE step' # "ranked"  BY <2>1 DEF NamedReachesAnswer
    <2>2. CASE UNCHANGED <<step, ranked>>  BY <1>1, <1>2, <2>2 DEF SearchInv, NamedReachesAnswer
    <2> QED BY <2>1, <2>2
  <1> QED BY <1>1, <1>2, <1>3 DEF SearchInv, NamedHeld

LEMMA GatherInit == AnswerInit => SearchInv
  <1> SUFFICES ASSUME AnswerInit PROVE SearchInv
    OBVIOUS
  <1>1. pool = <<>> /\ pending = <<>> /\ retries = 0 /\ looked = FALSE /\ evaluation = NoSearch
        /\ question \in Questions /\ step # "ranked"
    BY DEF AnswerInit
  <1>2. evaluation.queries \in Seq(Queries)  BY <1>1 DEF NoSearch
  <1> QED BY <1>1, <1>2, EmptyPool DEF SearchInv, NamedReachesAnswer

LEMMA PlanStep == SearchInv /\ Plan => SearchInv'
  <1> SUFFICES ASSUME SearchInv, Plan PROVE SearchInv'
    OBVIOUS
  <1>1. step' = "search" /\ UNCHANGED <<question, pool, evaluation, retries, looked>>
    BY DEF Plan
  <1>2. pending' \in Seq(Queries)
    <2>1. <<"broad">> \in Seq(Queries)  BY AnswerAssumption
    <2>2. Plans \subseteq Seq(Queries)  BY AnswerAssumption
    <2> QED BY <2>1, <2>2 DEF Plan
  <1>3. Extends(pool', pool)  BY <1>1, ExtendsItself DEF SearchInv
  <1> QED BY <1>1, <1>2, <1>3, MorePool DEF SearchInv

LEMMA SearchStep == SearchInv /\ Search => SearchInv'
  <1> SUFFICES ASSUME SearchInv, Search PROVE SearchInv'
    OBVIOUS
  <1>1. /\ step = "search" /\ step' = step /\ UNCHANGED <<question, evaluation, retries, looked>>
        /\ pending # <<>> /\ pending' = Tail(pending)
    BY DEF Search
  <1>2. Head(pending) \in Queries /\ Tail(pending) \in Seq(Queries)  BY <1>1 DEF SearchInv
  <1>3. PICK results \in SearchEvidence(Head(pending)) :
          \E source : pool' = MergeResults(pool, results, Head(pending), source)
    BY DEF Search
  <1>4. Extends(pool', pool)  BY <1>2, <1>3, SearchEvidenceIs, MergeResultsIs DEF SearchInv
  <1> QED BY <1>1, <1>2, <1>4, MorePool DEF SearchInv

LEMMA MarkStep == SearchInv /\ MarkFocused => SearchInv'
  <1> SUFFICES ASSUME SearchInv, MarkFocused PROVE SearchInv'
    OBVIOUS
  <1>1. step' = "named" /\ pending' = <<>> /\ UNCHANGED <<question, evaluation, retries, looked>>
    BY DEF MarkFocused
  <1>2. PICK queries, taken : pool' = MarkAspects(pool, queries, taken, AspectPerQuery, MaxAspects, TRUE)
    BY DEF MarkFocused
  <1>3. Extends(pool', pool)  BY <1>2, MarkAspectsIs DEF SearchInv
  <1> QED BY <1>1, <1>3, MorePool DEF SearchInv

LEMMA LookUpStep == SearchInv /\ LookUpNamed => SearchInv'
  <1> SUFFICES ASSUME SearchInv, LookUpNamed PROVE SearchInv'
    OBVIOUS
  <1>1. step' = "guidance" /\ UNCHANGED <<question, pending, evaluation, retries>>
    BY DEF LookUpNamed
  <1>2. CASE UNCHANGED <<pool, calls, looked>>
    <2>1. Extends(pool', pool)  BY <1>2, ExtendsItself DEF SearchInv
    <2> QED BY <1>1, <1>2, <2>1, MorePool DEF SearchInv
  <1>3. CASE pool' = MergeDirect(pool, LookedUp(question.articles, question.exact), TRUE, question.exact)
    <2> DEFINE r == LookedUp(question.articles, question.exact)
    <2>1. question.exact \in SUBSET Units  BY AnswerAssumption DEF SearchInv
    <2>2. r \in Results  BY <2>1, LookedUpIs DEF Selected
    <2>3. \A u \in NamedUnits : \E k \in DOMAIN r : r[k] = u /\ Stands(r, k, question.exact)
      BY NamedStand DEF SearchInv
    <2> HIDE DEF r
    <2>4. /\ Extends(pool', pool)
          /\ \A k \in DOMAIN r : Stands(r, k, question.exact) => Secured(pool', r[k])
      BY <1>3, <2>2, MergeDirectIs DEF SearchInv, r
    <2>5. NamedUnits' = NamedUnits  BY <1>1 DEF NamedUnits
    <2>6. NamedHeld'  BY <2>3, <2>4, <2>5 DEF NamedHeld
    <2>7. PoolOK(pool')  BY <2>4 DEF Extends
    <2> QED BY <1>1, <2>6, <2>7 DEF SearchInv, NamedReachesAnswer
  <1> QED BY <1>2, <1>3 DEF LookUpNamed

LEMMA GuidanceStep == SearchInv /\ LookUpGuidance => SearchInv'
  <1> SUFFICES ASSUME SearchInv, LookUpGuidance PROVE SearchInv'
    OBVIOUS
  <1>1. step' = "evaluate" /\ UNCHANGED <<question, pending, evaluation, retries, looked>>
    BY DEF LookUpGuidance
  <1>2. \/ pool' = pool
        \/ \E articles : pool' = MergeDirect(pool, SelectDirect(UnitsOfArticles(articles), {}), FALSE, {})
    BY DEF LookUpGuidance
  <1>3. ASSUME NEW articles
        PROVE  SelectDirect(UnitsOfArticles(articles), {}) \in Results
    <2>1. UnitsOfArticles(articles) \in SUBSET Units  BY DEF UnitsOfArticles
    <2> QED BY <2>1, SelectDirectIs DEF Selected
  <1>4. Extends(pool', pool)  BY <1>2, <1>3, ExtendsItself, MergeDirectIs DEF SearchInv
  <1> QED BY <1>1, <1>4, MorePool DEF SearchInv

LEMMA EvaluateStep == SearchInv /\ Evaluate => SearchInv'
  <1> SUFFICES ASSUME SearchInv, Evaluate PROVE SearchInv'
    OBVIOUS
  <1>1. step' = "graph" /\ UNCHANGED <<question, pool, pending, retries, looked>>
    BY DEF Evaluate
  <1>2. evaluation'.queries \in FollowUps \/ evaluation'.queries = <<>>
    <2>1. \/ evaluation' \in [queries : FollowUps, graph : BOOLEAN, stop : BOOLEAN]
          \/ evaluation' \in [queries : FollowUps, graph : {question.cue}, stop : {FALSE}]
          \/ evaluation' = NoSearch
      BY DEF Evaluate
    <2>2. \A G, S : \A e \in [queries : FollowUps, graph : G, stop : S] : e.queries \in FollowUps
      OBVIOUS
    <2>3. NoSearch.queries = <<>>  BY DEF NoSearch
    <2>4. PICK e : e = evaluation'  OBVIOUS
    <2> QED BY <2>1, <2>2, <2>3
  <1>3. evaluation'.queries \in Seq(Queries)
    <2>1. FollowUps \subseteq Seq(Queries)  BY AnswerAssumption
    <2>2. <<>> \in Seq(Queries)  OBVIOUS
    <2> QED BY <1>2, <2>1, <2>2
  <1>4. Extends(pool', pool)  BY <1>1, ExtendsItself DEF SearchInv
  <1> QED BY <1>1, <1>3, <1>4, MorePool DEF SearchInv

LEMMA ExpandStep == SearchInv /\ Expand => SearchInv'
  <1> SUFFICES ASSUME SearchInv, Expand PROVE SearchInv'
    OBVIOUS
  <1>1. step' = "follow" /\ UNCHANGED <<question, pending, evaluation, retries, looked>>
    BY DEF Expand
  <1>2. pool' = pool \/ pool' = ExpandGraph(pool, orders, AspectPerQuery, question.asks)  BY DEF Expand
  <1>3. Extends(pool', pool)  BY <1>2, ExtendsItself, ExpandGraphIs DEF SearchInv
  <1> QED BY <1>1, <1>3, MorePool DEF SearchInv

LEMMA FollowStep == SearchInv /\ FollowUp => SearchInv'
  <1> SUFFICES ASSUME SearchInv, FollowUp PROVE SearchInv'
    OBVIOUS
  <1> DEFINE query == evaluation.queries[retries + 1]
  <1>1. /\ step' \in {"rank", "follow"} /\ retries' = retries + 1
        /\ UNCHANGED <<question, pending, evaluation, looked>>
        /\ retries < Smaller(MaxRetryRounds, Len(evaluation.queries))
    BY DEF FollowUp
  <1>2. query \in Queries
    <2>1. MaxRetryRounds \in Nat  BY AnswerAssumption
    <2>2. evaluation.queries \in Seq(Queries) /\ retries \in Nat  BY DEF SearchInv
    <2>3. retries + 1 \in 1..Len(evaluation.queries)  BY <1>1, <2>1, <2>2 DEF Smaller
    <2> QED BY <2>2, <2>3
  <1> HIDE DEF query
  <1>3. PICK results \in SearchEvidence(query),
              units \in {<<>>, LookedUp(NamedIn[query].articles, NamedIn[query].exact)} :
          \E taken, marked :
          /\ marked = MarkAspects(WithDirect(MergeDirect(MergeResults(pool, results, query, "follow_up_search"),
                                                         units, TRUE, NamedIn[query].exact), query, units),
                                  <<query>>, taken, MaxFollowAspects, MaxFollowAspects, FALSE)
          /\ pool' \in {marked, ExpandGraph(marked, orders, AspectPerQuery, question.asks)}
    BY DEF FollowUp, query
  <1>a. PICK taken, marked :
          /\ marked = MarkAspects(WithDirect(MergeDirect(MergeResults(pool, results, query, "follow_up_search"),
                                                         units, TRUE, NamedIn[query].exact), query, units),
                                  <<query>>, taken, MaxFollowAspects, MaxFollowAspects, FALSE)
          /\ pool' \in {marked, ExpandGraph(marked, orders, AspectPerQuery, question.asks)}
    BY <1>3
  <1> DEFINE merged == MergeResults(pool, results, query, "follow_up_search")
             direct == MergeDirect(merged, units, TRUE, NamedIn[query].exact)
             found == WithDirect(direct, query, units)
  <1>4. Extends(merged, pool)  BY <1>2, SearchEvidenceIs, MergeResultsIs DEF SearchInv
  <1>5. units \in Results
    <2>1. <<>> \in Results  BY DEF Results, IsInjective
    <2>2. NamedIn[query].exact \in SUBSET Units  BY <1>2, AnswerAssumption
    <2>3. LookedUp(NamedIn[query].articles, NamedIn[query].exact) \in Results
      BY <2>2, LookedUpIs DEF Selected
    <2> QED BY <2>1, <2>3
  <1> HIDE DEF merged
  <1>6. Extends(direct, merged)  BY <1>4, <1>5, MergeDirectIs DEF Extends
  <1> HIDE DEF direct
  <1>7. Extends(found, direct)  BY <1>6, WithDirectIs DEF Extends
  <1> HIDE DEF found
  <1>8. marked = MarkAspects(found, <<query>>, taken, MaxFollowAspects, MaxFollowAspects, FALSE)
    BY <1>a DEF found, direct, merged
  <1>9. Extends(marked, found)  BY <1>7, <1>8, MarkAspectsIs DEF Extends
  <1>10. Extends(pool', marked)
    <2>1. PoolOK(marked)  BY <1>9 DEF Extends
    <2> QED BY <1>a, <2>1, ExtendsItself, ExpandGraphIs
  <1>11. Extends(pool', pool)  BY <1>4, <1>6, <1>7, <1>9, <1>10, ExtendsMore
  <1>12. retries' \in Nat  BY <1>1 DEF SearchInv
  <1> QED BY <1>1, <1>11, <1>12, MorePool DEF SearchInv

LEMMA LayeredStep == SearchInv /\ Layered => SearchInv'
  <1> SUFFICES ASSUME SearchInv, Layered PROVE SearchInv'
    OBVIOUS
  <1>1. /\ step' = "compose" /\ pool' = <<>> /\ pending' = <<>> /\ evaluation' = NoSearch
        /\ retries' = 0 /\ looked' = FALSE /\ UNCHANGED question
    BY DEF Layered
  <1>2. evaluation'.queries \in Seq(Queries)  BY <1>1 DEF NoSearch
  <1> QED BY <1>1, <1>2, EmptyPool DEF SearchInv, NamedReachesAnswer

-----------------------------------------------------------------------------
(* What is handed on.                                                      *)

LEMMA BehindFirst ==
  ASSUME NEW w \in Nat, 1 <= w, NEW key, NEW j \in Int, NEW k \in Int,
         key[j] \in [1..w -> Int], key[k] \in [1..w -> Int], Behind(key, j, k)
  PROVE  key[j][1] <= key[k][1]
  <1>1. PICK s \in [1..(w + 1) -> Int] : s = Append(key[j], j) /\ \A i \in 1..w : s[i] = key[j][i]
    BY Placed
  <1>2. PICK t \in [1..(w + 1) -> Int] : t = Append(key[k], k) /\ \A i \in 1..w : t[i] = key[k][i]
    BY Placed
  <1>3. PICK n \in 1..(w + 1) : s[n] < t[n] /\ \A m \in 1..(n - 1) : s[m] = t[m]
    BY <1>1, <1>2 DEF Behind, Less
  <1>4. 1 \in 1..w /\ s[1] = key[j][1] /\ t[1] = key[k][1]  BY <1>1, <1>2
  <1>5. s[1] \in Int /\ t[1] \in Int
    <2>1. 1 \in 1..(w + 1)  OBVIOUS
    <2> QED BY <2>1
  <1>6. n = 1 \/ 1 \in 1..(n - 1)  OBVIOUS
  <1> QED BY <1>3, <1>4, <1>5, <1>6

LEMMA MembersFinite ==
  ASSUME NEW X, NEW s \in Seq(X)
  PROVE  IsFiniteSet(ToSet(s))
  <1>1. DOMAIN s = 1..Len(s) /\ Len(s) \in Nat /\ IsFiniteSet(DOMAIN s)  BY SeqPlaces
  <1>2. s \in [DOMAIN s -> ToSet(s)]
    <2>1. s = [k \in DOMAIN s |-> s[k]]  OBVIOUS
    <2>2. \A k \in DOMAIN s : s[k] \in ToSet(s)  BY DEF ToSet
    <2> QED BY <2>1, <2>2
  <1>3. s \in Surjection(DOMAIN s, ToSet(s))
    <2>1. \A u \in ToSet(s) : \E k \in DOMAIN s : s[k] = u  BY DEF ToSet
    <2> QED BY <1>2, <2>1 DEF Surjection
  <1> QED BY <1>1, <1>3, FS_Surjection

LEMMA UnitsAre ==
  ASSUME NEW items
  PROVE  DOMAIN UnitsOf(items) = DOMAIN items /\ \A k \in DOMAIN items : UnitsOf(items)[k] = items[k].unit
  BY DEF UnitsOf

\* The items that must stay and those that were named and stand for an aspect.
Staying(items) == {i \in ToSet(items) : i.must \/ (i.direct /\ i.aspect)}
\* The items that may be put back.
Returning(items) == {i \in ToSet(items) : i.direct /\ (i.must \/ i.aspect)}

LEMMA PoolIs ==
  ASSUME NEW items, PoolOK(items)
  PROVE  /\ items \in Seq(ToSet(items)) /\ Len(items) \in Nat /\ DOMAIN items = 1..Len(items)
         /\ IsInjective(items)
         /\ \A i \in ToSet(items) : IsItem(i)
         /\ \A i, j \in ToSet(items) : i.unit = j.unit => i = j
         /\ IsFiniteSet(Staying(items)) /\ Cardinality(Staying(items)) \in Nat
         /\ IsFiniteSet(Returning(items)) /\ Cardinality(Returning(items)) \in Nat
  <1>1. items \in Seq(ToSet(items))  BY DEF PoolOK
  <1>2. Len(items) \in Nat /\ DOMAIN items = 1..Len(items)  BY <1>1, SeqPlaces
  <1>3. \A i \in ToSet(items) : \E n \in DOMAIN items : items[n] = i  BY DEF ToSet
  <1>4. /\ \A n \in DOMAIN items : IsItem(items[n])
        /\ \A m, n \in DOMAIN items : items[m].unit = items[n].unit => m = n
    BY DEF PoolOK
  <1>5. IsInjective(items)  BY <1>4 DEF IsInjective
  <1>6. IsFiniteSet(ToSet(items))  BY <1>1, MembersFinite
  <1>7. Staying(items) \in SUBSET ToSet(items) /\ Returning(items) \in SUBSET ToSet(items)
    BY DEF Staying, Returning
  <1>8. /\ IsFiniteSet(Staying(items)) /\ Cardinality(Staying(items)) \in Nat
        /\ IsFiniteSet(Returning(items)) /\ Cardinality(Returning(items)) \in Nat
    BY <1>6, <1>7, FS_Subset, FS_CardinalityType
  <1> QED BY <1>1, <1>2, <1>3, <1>4, <1>5, <1>8

\* By the scores, what must stay is among the first as long as it has room.
LEMMA ScoreRankedIs ==
  ASSUME NEW items, PoolOK(items)
  PROVE  /\ ScoreRanked(items) \in Seq(ToSet(items))
         /\ Cardinality(Staying(items)) <= TopK =>
              \A u : Secured(items, u) => u \in ToSet(UnitsOf(ScoreRanked(items)))
  <1> DEFINE key == [n \in DOMAIN items |-> <<Number(~items[n].must), 0 - items[n].score>>]
             n == Len(items)
             sorted == Sorted(items, key)
  <1>1. items \in Seq(ToSet(items)) /\ n \in Nat /\ DOMAIN items = 1..n /\ IsInjective(items)
    BY PoolIs
  <1>2. \A k \in 1..n : /\ key[k] \in [1..2 -> Int] /\ key[k][1] = Number(~items[k].must)
    <2> TAKE k \in 1..n
    <2>1. items[k].score \in Int  BY <1>1 DEF PoolOK, IsItem
    <2>2. Number(~items[k].must) \in Int /\ 0 - items[k].score \in Int  BY <2>1, NumberIs
    <2>3. key[k] = <<Number(~items[k].must), 0 - items[k].score>>  BY <1>1
    <2> QED BY <2>2, <2>3, Key2
  <1> HIDE DEF key
  <1>3. Keys(n, 2, key)  BY <1>2 DEF Keys
  <1>4. PICK p : SortedBy(p, n, key) /\ sorted = [k \in 1..n |-> items[p[k]]]
    <2>1. 2 \in Nat  OBVIOUS
    <2> HIDE DEF n
    <2> QED BY <1>1, <1>3, <2>1, SortedIs
  <1>5. sorted \in Seq(ToSet(items)) /\ Len(sorted) = n
    <2>1. 2 \in Nat  OBVIOUS
    <2> QED BY <1>1, <1>3, <2>1, SortedSeq
  <1>6. TopK \in Nat  BY PoolAssumption
  <1>7. ScoreRanked(items) = FirstOf(sorted, TopK)  BY DEF ScoreRanked, key
  <1> HIDE DEF n, sorted
  <1>8. ASSUME Cardinality(Staying(items)) <= TopK, NEW u, Secured(items, u)
        PROVE  u \in ToSet(UnitsOf(FirstOf(sorted, TopK)))
    <2>1. PICK m \in 1..n : items[m].unit = u /\ items[m].must  BY <1>1, <1>8 DEF Secured
    <2>2. /\ p \in [1..n -> 1..n]
          /\ \A j, k \in 1..n : p[j] = p[k] => j = k
          /\ \A j, k \in 1..n : j < k <=> Behind(key, p[j], p[k])
      BY <1>4 DEF SortedBy
    <2>3. PICK k \in 1..n : p[k] = m  BY <1>4 DEF SortedBy
    <2> DEFINE f == [j \in 1..n |-> items[p[j]]]
    <2>4. ASSUME NEW j \in 1..k
          PROVE  j \in 1..n /\ f[j] \in Staying(items)
      <3>1. j \in 1..n /\ (j = k \/ j < k)  BY <1>1
      <3>2. p[j] \in 1..n /\ p[j] \in Int /\ p[k] \in Int  BY <1>1, <2>2, <3>1
      <3>3. items[p[j]].must
        <4>1. CASE j = k  BY <2>1, <2>3, <4>1
        <4>2. CASE j < k
          <5>1. Behind(key, p[j], p[k])  BY <2>2, <3>1, <4>2
          <5>2. key[p[j]] \in [1..2 -> Int] /\ key[p[k]] \in [1..2 -> Int] /\ 2 \in Nat /\ 1 <= 2
            BY <1>2, <2>3, <3>2
          <5>3. key[p[j]][1] <= key[p[k]][1]  BY <3>2, <5>1, <5>2, BehindFirst
          <5>4. key[p[j]][1] = Number(~items[p[j]].must) /\ key[p[k]][1] = 0
            BY <1>2, <2>1, <2>3, <3>2 DEF Number
          <5> QED BY <5>3, <5>4 DEF Number
        <4> QED BY <3>1, <4>1, <4>2
      <3>4. items[p[j]] \in ToSet(items)  BY <1>1, <3>2 DEF ToSet
      <3> QED BY <3>1, <3>3, <3>4 DEF Staying
    <2>5. \A i, j \in 1..k : f[i] = f[j] => i = j
      <3>1. \A j \in 1..k : j \in 1..n /\ p[j] \in DOMAIN items /\ f[j] = items[p[j]]  BY <1>1, <2>2, <2>4
      <3> QED BY <1>1, <2>2, <3>1 DEF IsInjective
    <2> HIDE DEF f
    <2>6. k \in Nat /\ k <= Cardinality(Staying(items))
      <3>1. k \in Nat  BY <1>1
      <3>2. IsFiniteSet(Staying(items))  BY PoolIs
      <3> QED BY <2>4, <2>5, <3>1, <3>2, CountUpTo
    <2>7. k \in 1..TopK /\ k \in DOMAIN sorted /\ sorted[k].unit = u
      <3>1. Cardinality(Staying(items)) \in Nat  BY PoolIs
      <3>2. k \in 1..TopK  BY <1>1, <1>6, <1>8, <2>6, <3>1
      <3>3. k \in DOMAIN sorted /\ sorted[k] = items[m]  BY <1>4, <2>3
      <3> QED BY <2>1, <3>2, <3>3
    <2>8. sorted[k] \in ToSet(FirstOf(sorted, TopK))  BY <1>5, <1>6, <2>7, FirstOfIs
    <2>9. PICK l \in DOMAIN FirstOf(sorted, TopK) : FirstOf(sorted, TopK)[l] = sorted[k]
      BY <2>8 DEF ToSet
    <2> QED BY <2>7, <2>9, UnitsAre DEF ToSet
  <1>9. FirstOf(sorted, TopK) \in Seq(ToSet(items))  BY <1>5, <1>6, FirstOfIs
  <1> QED BY <1>7, <1>8, <1>9

\* What the reranker is given holds all that must stay.
LEMMA FusionRankedIs ==
  ASSUME NEW items, PoolOK(items), NEW size \in Nat
  PROVE  /\ FusionRanked(items, size) \in Seq(ToSet(items)) /\ IsInjective(FusionRanked(items, size))
         /\ (Cardinality(Staying(items)) <= size \/ Len(items) <= size) =>
              \A i \in ToSet(items) : i.must => i \in ToSet(FusionRanked(items, size))
  <1> DEFINE X == ToSet(items)
             key == [n \in DOMAIN items |-> <<0 - items[n].score>>]
             scored == ByScore(items)
             B == {k \in DOMAIN scored : \A j \in 1..(k - 1) :
                                        DocumentOf[scored[j].unit] # DocumentOf[scored[k].unit]}
             P == {k \in DOMAIN scored : scored[k].must}
             A == {k \in DOMAIN scored : scored[k].aspect /\ ~scored[k].must}
             pinned == Kept(scored, P)
             aspects == Kept(scored, A)
             best == FirstOf(Kept(scored, B), Larger(0, (size \div 2) - Len(pinned) - Len(aspects)))
             fused == pinned \o aspects \o best \o scored
  <1>1. FusionRanked(items, size) = FirstOf(Unique(fused), size)  BY DEF FusionRanked
  <1>2. items \in Seq(X) /\ Len(items) \in Nat /\ DOMAIN items = 1..Len(items) /\ IsInjective(items)
    BY PoolIs
  <1>3. scored \in Seq(X) /\ ToSet(scored) = X /\ IsInjective(scored) /\ Len(scored) = Len(items)
    <2>1. Keys(Len(items), 1, key)
      <3> SUFFICES ASSUME NEW k \in 1..Len(items) PROVE key[k] \in [1..1 -> Int]
        BY DEF Keys
      <3>1. items[k].score \in Int  BY <1>2 DEF PoolOK, IsItem
      <3>2. 0 - items[k].score \in Int /\ key[k] = <<0 - items[k].score>>  BY <1>2, <3>1
      <3> QED BY <3>2, Key1
    <2>2. scored = Sorted(items, key) /\ 1 \in Nat  BY DEF ByScore
    <2> HIDE DEF key, scored, X
    <2> QED BY <1>2, <2>1, <2>2, SortedSeq DEF X
  <1>4. P \in SUBSET DOMAIN scored /\ A \in SUBSET DOMAIN scored /\ B \in SUBSET DOMAIN scored
    OBVIOUS
  <1>5. {scored[k] : k \in P} = {i \in X : i.must}
    <2>1. \A i \in X : \E k \in DOMAIN scored : scored[k] = i  BY <1>3 DEF ToSet
    <2>2. \A k \in DOMAIN scored : scored[k] \in X  BY <1>3, SeqPlaces
    <2> HIDE DEF scored, X
    <2> QED BY <2>1, <2>2
  <1> HIDE DEF P, A, B, scored, X
  <1>6. pinned \in Seq(X) /\ Len(pinned) <= Len(items) /\ ToSet(pinned) = {i \in X : i.must} /\ IsInjective(pinned)
    BY <1>3, <1>4, <1>5, KeptOf
  <1>7. aspects \in Seq(X) /\ Kept(scored, B) \in Seq(X)  BY <1>3, <1>4, KeptOf
  <1> HIDE DEF pinned, aspects
  <1>8. best \in Seq(X)
    <2>1. Len(pinned) \in Nat /\ Len(aspects) \in Nat  BY <1>6, <1>7, SeqPlaces
    <2>2. size \div 2 \in Int  OBVIOUS
    <2>3. Larger(0, (size \div 2) - Len(pinned) - Len(aspects)) \in Nat  BY <2>1, <2>2 DEF Larger
    <2> QED BY <1>7, <2>3, FirstOfIs
  <1> HIDE DEF best
  <1>9. fused \in Seq(X) /\ \A k \in 1..Len(pinned) : k \in DOMAIN fused /\ fused[k] = pinned[k]
    <2>0. Len(pinned) \in Nat /\ Len(aspects) \in Nat /\ Len(best) \in Nat /\ Len(scored) \in Nat
      BY <1>3, <1>6, <1>7, <1>8, SeqPlaces
    <2>1. /\ pinned \o aspects \in Seq(X) /\ Len(pinned \o aspects) = Len(pinned) + Len(aspects)
          /\ \A k \in 1..Len(pinned) : (pinned \o aspects)[k] = pinned[k]
      BY <1>6, <1>7, ConcatIs
    <2> DEFINE two == pinned \o aspects
    <2> HIDE DEF two
    <2>2. /\ two \o best \in Seq(X) /\ Len(two \o best) = Len(two) + Len(best)
          /\ \A k \in 1..Len(two) : (two \o best)[k] = two[k]
      BY <1>8, <2>1, ConcatIs DEF two
    <2> DEFINE three == two \o best
    <2> HIDE DEF three
    <2>3. /\ three \o scored \in Seq(X) /\ Len(three \o scored) = Len(three) + Len(scored)
          /\ \A k \in 1..Len(three) : (three \o scored)[k] = three[k]
      <3>1. three \in Seq(X)  BY <2>2 DEF three
      <3> QED BY <1>3, <3>1, ConcatIs
    <2>4. fused = three \o scored  BY DEF two, three
    <2> DEFINE four == three \o scored
    <2>5. DOMAIN four = 1..Len(four) /\ Len(four) \in Nat  BY <2>3, SeqPlaces
    <2> HIDE DEF four
    <2>6. \A k \in 1..Len(pinned) : k \in 1..Len(two) /\ k \in 1..Len(three) /\ k \in 1..Len(four)
      BY <2>0, <2>1, <2>2, <2>3 DEF two, three, four
    <2>7. \A k \in 1..Len(pinned) : four[k] = pinned[k]
      BY <2>1, <2>2, <2>3, <2>6 DEF two, three, four
    <2>8. four \in Seq(X) /\ fused = four  BY <2>3, <2>4 DEF four
    <2> QED BY <2>5, <2>6, <2>7, <2>8
  <1> HIDE DEF fused
  <1>10. Unique(fused) \in Seq(X) /\ IsInjective(Unique(fused))  BY <1>9, UniqueIs
  <1>11. FirstOf(Unique(fused), size) \in Seq(X) /\ IsInjective(FirstOf(Unique(fused), size))
    BY <1>10, FirstOfIs
  <1>12. ASSUME Cardinality(Staying(items)) <= size \/ Len(items) <= size, NEW i \in X, i.must
         PROVE  i \in ToSet(FirstOf(Unique(fused), size))
    <2>1. Len(pinned) \in Nat /\ DOMAIN pinned = 1..Len(pinned)  BY <1>6, SeqPlaces
    <2>2. Len(pinned) <= Cardinality(Staying(items))
      <3>1. \A k \in 1..Len(pinned) : pinned[k] \in Staying(items)
        <4>1. \A k \in 1..Len(pinned) : pinned[k] \in ToSet(pinned)  BY <2>1 DEF ToSet
        <4> QED BY <1>6, <4>1 DEF Staying, X
      <3>2. \A j, k \in 1..Len(pinned) : pinned[j] = pinned[k] => j = k  BY <1>6, <2>1 DEF IsInjective
      <3>3. IsFiniteSet(Staying(items))  BY PoolIs
      <3> QED BY <2>1, <3>1, <3>2, <3>3, CountUpTo
    <2>3. Len(pinned) <= size
      <3>1. Cardinality(Staying(items)) \in Nat  BY PoolIs
      <3> QED BY <1>2, <1>6, <1>12, <2>1, <2>2, <3>1
    <2>4. PICK k \in 1..Len(pinned) : pinned[k] = i  BY <1>6, <1>12, <2>1 DEF ToSet
    <2>5. k \in DOMAIN fused /\ fused[k] = i /\ \A j \in 1..(k - 1) : fused[j] # fused[k]
      <3>1. \A j \in 1..(k - 1) : j \in 1..Len(pinned) /\ j # k  BY <2>1
      <3>2. \A j \in 1..(k - 1) : pinned[j] # pinned[k]  BY <1>6, <2>1, <3>1 DEF IsInjective
      <3> QED BY <1>9, <2>4, <3>1, <3>2
    <2>6. PICK l \in DOMAIN Unique(fused) : Unique(fused)[l] = i /\ l <= k
      BY <1>9, <2>5, UniqueIs
    <2>7. DOMAIN Unique(fused) = 1..Len(Unique(fused)) /\ Len(Unique(fused)) \in Nat  BY <1>10, SeqPlaces
    <2>8. l \in 1..size  BY <2>1, <2>3, <2>6, <2>7
    <2> QED BY <1>10, <2>6, <2>8, FirstOfIs
  <1> QED BY <1>1, <1>11, <1>12 DEF X

\* Another law takes the place of nothing that must stay.
LEMMA DiversifyLawsIs ==
  ASSUME NEW X, NEW n \in Nat, NEW r \in [1..n -> X], NEW ordered \in Seq(X), NEW rescued
  PROVE  /\ DiversifyLaws(r, ordered, rescued) \in [1..n -> X]
         /\ \A k \in 1..n : r[k].must => DiversifyLaws(r, ordered, rescued)[k] = r[k]
  <1> DEFINE few == Smaller(4, Larger(1, TopK \div 4))
             Law(i) == DocumentOf[i.unit] \in Laws
             Of(t, doc) == {k \in DOMAIN t : DocumentOf[t[k].unit] = doc}
             places(t) == {k \in DOMAIN t : /\ Law(t[k]) /\ ~t[k].must /\ ~t[k].aspect
                                            /\ k > TopK \div 2
                                            /\ t[k].unit \notin rescued
                                            /\ Cardinality(Of(t, DocumentOf[t[k].unit])) > 1}
             Admit(s, c) ==
               IF \/ s.added >= Smaller(3, few) \/ ~Law(c) \/ places(s.ranked) = {}
                  \/ Of(s.ranked, DocumentOf[c.unit]) # {}
               THEN s ELSE [ranked |-> [s.ranked EXCEPT ![Max(places(s.ranked))] = c], added |-> s.added + 1]
             candidates == FirstOf(ordered, TopK + few)
             base == [ranked |-> r, added |-> 0]
             m == Len(candidates)
             Solves(h) == h = [k \in 0..m |-> IF k = 0 THEN base ELSE Admit(h[k - 1], candidates[k])]
             admitted == CHOOSE h : Solves(h)
             A == {s \in [ranked : [1..n -> X], added : Int] : \A k \in 1..n : r[k].must => s.ranked[k] = r[k]}
             op == [q \in Nat \X A |-> IF q[1] \in 1..m THEN Admit(q[2], candidates[q[1]]) ELSE q[2]]
  <1>1. DiversifyLaws(r, ordered, rescued) = admitted[m].ranked  BY DEF DiversifyLaws
  <1>2. m \in Nat /\ \A k \in 1..m : candidates[k] \in X
    <2>1. TopK + few \in Nat
      <3>1. TopK \in Nat  BY PoolAssumption
      <3>2. TopK \div 4 \in Int  BY <3>1
      <3> QED BY <3>1, <3>2 DEF Smaller, Larger
    <2> HIDE DEF few
    <2>2. candidates \in Seq(X)  BY <2>1, FirstOfIs
    <2> HIDE DEF candidates
    <2> QED BY <2>2, SeqPlaces
  <1>3. base \in A  OBVIOUS
  <1> HIDE DEF candidates, m, few, Law, Of
  <1>4. ASSUME NEW s \in A, NEW c \in X
        PROVE  Admit(s, c) \in A
    <2> DEFINE t == s.ranked
               P == places(t)
    <2>1. t \in [1..n -> X] /\ s.added \in Int /\ \A k \in 1..n : r[k].must => t[k] = r[k]
      OBVIOUS
    <2>2. P \in SUBSET (1..n) /\ \A k \in P : ~t[k].must  BY <2>1
    <2> HIDE DEF P, places
    <2>3. P # {} => Max(P) \in P  BY <2>2, MaxIsMember
    <2>4. Admit(s, c) = s \/ (P # {} /\ Admit(s, c) = [ranked |-> [t EXCEPT ![Max(P)] = c], added |-> s.added + 1])
      BY DEF P
    <2> HIDE DEF Admit
    <2>5. CASE Admit(s, c) = s  BY <2>5
    <2>6. CASE P # {} /\ Admit(s, c) = [ranked |-> [t EXCEPT ![Max(P)] = c], added |-> s.added + 1]
      <3> DEFINE z == [t EXCEPT ![Max(P)] = c]
      <3>1. Max(P) \in 1..n /\ ~t[Max(P)].must  BY <2>2, <2>3, <2>6
      <3>2. z \in [1..n -> X] /\ \A k \in 1..n : k # Max(P) => z[k] = t[k]  BY <2>1, <3>1
      <3>3. \A k \in 1..n : r[k].must => z[k] = r[k]
        <4> TAKE k \in 1..n
        <4> HAVE r[k].must
        <4>1. t[k] = r[k]  BY <2>1
        <4>2. k # Max(P)  BY <3>1, <4>1
        <4> QED BY <3>2, <4>1, <4>2
      <3> HIDE DEF z
      <3>4. Admit(s, c) = [ranked |-> z, added |-> s.added + 1]  BY <2>6 DEF z
      <3>5. s.added + 1 \in Int  BY <2>1
      <3> QED BY <3>2, <3>3, <3>4, <3>5
    <2> QED BY <2>4, <2>5, <2>6
  <1> HIDE DEF Admit, A, places, base
  <1>5. op \in [Nat \X A -> A]  BY <1>2, <1>4
  <1>6. PICK g \in [0..m -> A] : Iter(op, base, m, g)
    <2> HIDE DEF op
    <2> QED BY <1>2, <1>3, <1>5, IterExists
  <1>7. Solves(g)
    <2>1. g = [k \in 0..m |-> IF k = 0 THEN base ELSE op[<<k, g[k - 1]>>]]  BY <1>6 DEF Iter
    <2>2. \A k \in 0..m : k # 0 => op[<<k, g[k - 1]>>] = Admit(g[k - 1], candidates[k])
      <3> TAKE k \in 0..m
      <3> HAVE k # 0
      <3>1. k \in 1..m /\ k \in Nat /\ k - 1 \in 0..m  BY <1>2
      <3>2. g[k - 1] \in A  BY <1>6, <3>1
      <3> QED BY <3>1, <3>2
    <2> HIDE DEF op
    <2> QED BY <2>1, <2>2
  <1>8. Solves(admitted)
    <2> HIDE DEF Solves
    <2> QED BY <1>7
  <1>9. admitted[m] \in A
    <2> DEFINE T == {k \in Nat : k \in 0..m => admitted[k] \in A}
    <2>0. \A k \in 0..m : admitted[k] = IF k = 0 THEN base ELSE Admit(admitted[k - 1], candidates[k])
      <3> HIDE DEF admitted
      <3> QED BY <1>8
    <2> HIDE DEF admitted
    <2>1. 0 \in T  BY <1>2, <1>3, <2>0
    <2>2. ASSUME NEW k \in Nat, k \in T
          PROVE  k + 1 \in T
      <3> SUFFICES ASSUME k + 1 \in 0..m PROVE admitted[k + 1] \in A
        OBVIOUS
      <3>1. k \in 0..m /\ k + 1 \in 1..m /\ k + 1 # 0 /\ (k + 1) - 1 = k  BY <1>2
      <3>2. admitted[k] \in A  BY <2>2, <3>1
      <3>3. admitted[k + 1] = Admit(admitted[k], candidates[k + 1])  BY <2>0, <3>1
      <3> QED BY <1>2, <1>4, <3>1, <3>2, <3>3
    <2>3. m \in T
      <3> HIDE DEF T
      <3> QED BY <1>2, <2>1, <2>2, Induction
    <2> QED BY <1>2, <2>3
  <1> HIDE DEF admitted
  <1> QED BY <1>1, <1>9 DEF A

-----------------------------------------------------------------------------
(* What the reranker put too low.                                          *)

\* The parts of PinRanked.
Lower(o) ==
    {n \in DOMAIN o : /\ n > TopK
                      /\ o[n].must \/ o[n].aspect
                      /\ o[n].closure /\ ~o[n].direct => o[n].fromAspect \/ n <= TopK + PinSlack}
LowerKey(o, outside) ==
    [k \in DOMAIN outside |->
       <<Number(~o[outside[k]].direct), Number(~o[outside[k]].fromAspect), Number(~o[outside[k]].must)>>]
Foremost(o) == Sorted(Ascending(Lower(o)), LowerKey(o, Ascending(Lower(o))))
PutBack(o) == FirstOf(Foremost(o), MaxPinned)
Yielding(o) == {k \in DOMAIN FirstOf(o, TopK) : ~FirstOf(o, TopK)[k].must}
Exchanged(o) ==
    [k \in DOMAIN FirstOf(o, TopK) |->
       IF \E j \in DOMAIN PutBack(o) \cap DOMAIN Descending(Yielding(o)) : Descending(Yielding(o))[j] = k
       THEN o[PutBack(o)[CHOOSE j \in DOMAIN PutBack(o) \cap DOMAIN Descending(Yielding(o)) :
                            Descending(Yielding(o))[j] = k]]
       ELSE FirstOf(o, TopK)[k]]

LEMMA PinRankedForm ==
  ASSUME NEW o
  PROVE  \E rescued : PinRanked(o) \in {Exchanged(o), DiversifyLaws(Exchanged(o), o, rescued)}
  BY DEF PinRanked, Exchanged, PutBack, Foremost, LowerKey, Lower, Yielding

\* o arranges items of the pool.
Arranges(o, items) ==
    /\ PoolOK(items) /\ o \in Seq(ToSet(items)) /\ IsInjective(o)

LEMMA ArrangedIs ==
  ASSUME NEW items, NEW o, Arranges(o, items)
  PROVE  /\ Len(o) \in Nat /\ DOMAIN o = 1..Len(o)
         /\ \A k \in DOMAIN o : o[k] \in ToSet(items) /\ IsItem(o[k])
         /\ \A j, k \in DOMAIN o : o[j] = o[k] => j = k
         /\ TopK \in Nat
         /\ Lower(o) \in SUBSET DOMAIN o /\ Lower(o) \in SUBSET Int /\ IsFiniteSet(Lower(o))
         /\ FirstOf(o, TopK) \in Seq(ToSet(items)) /\ Len(FirstOf(o, TopK)) = Smaller(TopK, Len(o))
         /\ \A k \in 1..Smaller(TopK, Len(o)) : k \in DOMAIN o /\ FirstOf(o, TopK)[k] = o[k]
         /\ Yielding(o) \in SUBSET (1..Smaller(TopK, Len(o))) /\ Smaller(TopK, Len(o)) \in Nat
         /\ IsFiniteSet(Yielding(o)) /\ Cardinality(Yielding(o)) \in Nat
  <1>1. o \in Seq(ToSet(items)) /\ IsInjective(o) /\ PoolOK(items)  BY DEF Arranges
  <1>2. Len(o) \in Nat /\ DOMAIN o = 1..Len(o) /\ DOMAIN o \in SUBSET Int /\ IsFiniteSet(DOMAIN o)
        /\ \A k \in DOMAIN o : o[k] \in ToSet(items)
    BY <1>1, SeqPlaces
  <1>3. \A k \in DOMAIN o : IsItem(o[k])  BY <1>1, <1>2, PoolIs
  <1>4. \A j, k \in DOMAIN o : o[j] = o[k] => j = k  BY <1>1 DEF IsInjective
  <1>5. TopK \in Nat  BY PoolAssumption
  <1>6. Lower(o) \in SUBSET DOMAIN o  BY DEF Lower
  <1>7. IsFiniteSet(Lower(o)) /\ Lower(o) \in SUBSET Int  BY <1>2, <1>6, FS_Subset
  <1>8. /\ FirstOf(o, TopK) \in Seq(ToSet(items)) /\ Len(FirstOf(o, TopK)) = Smaller(TopK, Len(o))
        /\ \A k \in 1..Smaller(TopK, Len(o)) : k \in DOMAIN o /\ FirstOf(o, TopK)[k] = o[k]
    BY <1>1, <1>5, FirstOfIs
  <1>9. Smaller(TopK, Len(o)) \in Nat  BY <1>2, <1>5 DEF Smaller
  <1>10. Yielding(o) \in SUBSET (1..Smaller(TopK, Len(o))) /\ IsFiniteSet(DOMAIN FirstOf(o, TopK))
    <2>1. /\ DOMAIN FirstOf(o, TopK) = 1..Smaller(TopK, Len(o)) /\ IsFiniteSet(DOMAIN FirstOf(o, TopK))
      BY <1>8, SeqPlaces
    <2> QED BY <2>1 DEF Yielding
  <1>11. IsFiniteSet(Yielding(o))
    <2>1. Yielding(o) \in SUBSET DOMAIN FirstOf(o, TopK)  BY DEF Yielding
    <2> QED BY <1>10, <2>1, FS_Subset
  <1>12. Cardinality(Yielding(o)) \in Nat  BY <1>11, FS_CardinalityType
  <1> QED BY <1>1, <1>2, <1>3, <1>4, <1>5, <1>6, <1>7, <1>8, <1>9, <1>10, <1>11, <1>12

\* What was named comes before what was not among what may be put back.
LEMMA ForemostIs ==
  ASSUME NEW items, NEW o, Arranges(o, items)
  PROVE  \E n \in Nat :
           /\ Foremost(o) \in [1..n -> Lower(o)]
           /\ \A j, k \in 1..n : Foremost(o)[j] = Foremost(o)[k] => j = k
           /\ \A x \in Lower(o) : o[x].direct =>
                \E k \in 1..n : Foremost(o)[k] = x /\ \A j \in 1..k : o[Foremost(o)[j]].direct
  <1> DEFINE S == Lower(o)
             a == Ascending(S)
             key == LowerKey(o, a)
             n == Cardinality(S)
  <1>1. S \in SUBSET DOMAIN o /\ S \in SUBSET Int /\ IsFiniteSet(S) /\ n \in Nat
    BY ArrangedIs, FS_CardinalityType
  <1>2. /\ a \in [1..n -> S]
        /\ \A m \in S : \E k \in 1..n : a[k] = m
        /\ \A j, k \in 1..n : a[j] = a[k] => j = k
    <2>1. Rises(a, S)
      <3> HIDE DEF S
      <3> QED BY <1>1, AscendingIs
    <2> HIDE DEF a, S
    <2> QED BY <2>1 DEF Rises
  <1>3. Foremost(o) = Sorted(a, key)  BY DEF Foremost
  <1> HIDE DEF a, n, S
  <1>4. \A k \in 1..n : key[k] \in [1..3 -> Int] /\ key[k][1] = Number(~o[a[k]].direct)
    <2> TAKE k \in 1..n
    <2>1. key[k] = <<Number(~o[a[k]].direct), Number(~o[a[k]].fromAspect), Number(~o[a[k]].must)>>
      BY <1>2 DEF LowerKey
    <2> HIDE DEF key
    <2> QED BY <2>1, NumberIs, Key3
  <1> HIDE DEF key
  <1>5. PICK p : SortedBy(p, n, key) /\ Sorted(a, key) = [k \in 1..n |-> a[p[k]]]
    <2>1. DOMAIN a = 1..n /\ 3 \in Nat /\ Keys(n, 3, key)  BY <1>2, <1>4 DEF Keys
    <2> QED BY <1>1, <2>1, SortedIs
  <1>6. /\ p \in [1..n -> 1..n]
        /\ \A m \in 1..n : \E k \in 1..n : p[k] = m
        /\ \A j, k \in 1..n : p[j] = p[k] => j = k
        /\ \A j, k \in 1..n : j < k <=> Behind(key, p[j], p[k])
    BY <1>5 DEF SortedBy
  <1> DEFINE f == Foremost(o)
  <1>7. f = [k \in 1..n |-> a[p[k]]]  BY <1>3, <1>5
  <1> HIDE DEF f
  <1>8. f \in [1..n -> S]  BY <1>2, <1>6, <1>7
  <1>9. \A j, k \in 1..n : f[j] = f[k] => j = k
    <2> TAKE j, k \in 1..n
    <2> HAVE f[j] = f[k]
    <2>1. a[p[j]] = a[p[k]]  BY <1>7
    <2>2. p[j] \in 1..n /\ p[k] \in 1..n  BY <1>6
    <2>3. p[j] = p[k]  BY <1>2, <2>1, <2>2
    <2> QED BY <1>6, <2>3
  <1>10. ASSUME NEW x \in S, o[x].direct
         PROVE  \E k \in 1..n : f[k] = x /\ \A j \in 1..k : o[f[j]].direct
    <2>1. PICK i \in 1..n : a[i] = x  BY <1>2
    <2>2. PICK k \in 1..n : p[k] = i  BY <1>6
    <2>3. f[k] = x  BY <1>7, <2>1, <2>2
    <2>4. ASSUME NEW j \in 1..k
          PROVE  o[f[j]].direct
      <3>1. j \in 1..n /\ (j = k \/ j < k)  BY <1>1
      <3>2. p[j] \in 1..n /\ p[k] \in 1..n /\ p[j] \in Int /\ p[k] \in Int /\ f[j] = a[p[j]]
        <4>1. p[j] \in 1..n /\ p[k] \in 1..n  BY <1>6, <3>1
        <4>2. f[j] = a[p[j]]  BY <1>7, <3>1
        <4> QED BY <4>1, <4>2
      <3>3. CASE j = k  BY <1>10, <2>3, <3>3
      <3>4. CASE j < k
        <4>1. Behind(key, p[j], p[k])  BY <1>6, <3>1, <3>4
        <4>2. key[p[j]] \in [1..3 -> Int] /\ key[p[k]] \in [1..3 -> Int] /\ 3 \in Nat /\ 1 <= 3
          BY <1>4, <3>2
        <4>3. key[p[j]][1] <= key[p[k]][1]  BY <3>2, <4>1, <4>2, BehindFirst
        <4>4. key[p[j]][1] = Number(~o[f[j]].direct) /\ key[p[k]][1] = 0
          BY <1>4, <1>10, <2>1, <2>2, <3>2 DEF Number
        <4> QED BY <4>3, <4>4 DEF Number
      <3> QED BY <3>1, <3>3, <3>4
    <2> QED BY <2>3, <2>4
  <1> QED BY <1>1, <1>8, <1>9, <1>10 DEF f, S

\* Of what was named there is room for each to be put back.
LEMMA RoomIs ==
  ASSUME NEW items, NEW o, Arranges(o, items),
         Cardinality(Staying(items)) <= TopK, Cardinality(Returning(items)) <= MaxPinned,
         NEW x \in DOMAIN o, x > TopK, o[x].must, o[x].direct
  PROVE  \E k \in DOMAIN PutBack(o) : PutBack(o)[k] = x /\ k <= Cardinality(Yielding(o)) /\ k \in Nat \ {0}
  <1>1. PICK n \in Nat :
           /\ Foremost(o) \in [1..n -> Lower(o)]
           /\ \A j, k \in 1..n : Foremost(o)[j] = Foremost(o)[k] => j = k
           /\ \A y \in Lower(o) : o[y].direct =>
                \E k \in 1..n : Foremost(o)[k] = y /\ \A j \in 1..k : o[Foremost(o)[j]].direct
    BY ForemostIs
  <1>2. x \in Lower(o)  BY DEF Lower
  <1> DEFINE f == Foremost(o)
  <1>3. PICK k \in 1..n : f[k] = x /\ \A j \in 1..k : o[f[j]].direct  BY <1>1, <1>2
  <1> HIDE DEF f
  <1>4. /\ Len(o) \in Nat /\ DOMAIN o = 1..Len(o) /\ TopK \in Nat
        /\ (\A i \in DOMAIN o : o[i] \in ToSet(items) /\ IsItem(o[i]))
        /\ (\A i, j \in DOMAIN o : o[i] = o[j] => i = j)
        /\ Lower(o) \in SUBSET DOMAIN o
        /\ IsFiniteSet(Yielding(o)) /\ Cardinality(Yielding(o)) \in Nat
    BY ArrangedIs
  <1>5. k \in Nat \ {0} /\ \A j \in 1..k : /\ j \in 1..n /\ f[j] \in Lower(o) /\ f[j] \in DOMAIN o
                                           /\ f[j] > TopK /\ (o[f[j]].must \/ o[f[j]].aspect)
    <2>1. \A j \in 1..k : j \in 1..n  OBVIOUS
    <2>2. \A j \in 1..n : f[j] \in Lower(o)  BY <1>1 DEF f
    <2>3. \A y \in Lower(o) : y \in DOMAIN o /\ y > TopK /\ (o[y].must \/ o[y].aspect)  BY DEF Lower
    <2> QED BY <2>1, <2>2, <2>3
  <1>6. k <= MaxPinned
    <2> DEFINE g == [j \in 1..k |-> o[f[j]]]
    <2>1. \A j \in 1..k : g[j] \in Returning(items)  BY <1>3, <1>4, <1>5 DEF Returning
    <2>2. \A i, j \in 1..k : g[i] = g[j] => i = j
      <3> TAKE i, j \in 1..k
      <3> HAVE g[i] = g[j]
      <3>1. f[i] = f[j]  BY <1>4, <1>5
      <3> QED BY <1>1, <1>5, <3>1 DEF f
    <2>3. IsFiniteSet(Returning(items)) /\ Cardinality(Returning(items)) \in Nat  BY PoolIs DEF Arranges
    <2> HIDE DEF g
    <2>4. k <= Cardinality(Returning(items))  BY <1>5, <2>1, <2>2, <2>3, CountUpTo
    <2> QED BY <1>5, <2>3, <2>4, PoolAssumption
  <1>7. k <= Cardinality(Yielding(o))
    <2> DEFINE Y == Yielding(o)
               R == (1..TopK) \ Y
               F == {f[j] : j \in 1..k}
               D == R \cup F
               g == [i \in D |-> o[i]]
    <2>1. TopK < Len(o) /\ Smaller(TopK, Len(o)) = TopK
      <3>1. x \in 1..Len(o) /\ Len(o) \in Nat /\ TopK \in Nat  BY <1>4
      <3>2. TopK < Len(o)  BY <3>1
      <3> QED BY <3>2 DEF Smaller
    <2>2. Y \in SUBSET (1..TopK) /\ \A i \in 1..TopK : i \in DOMAIN o /\ FirstOf(o, TopK)[i] = o[i]
      BY <2>1, ArrangedIs
    <2>3. \A i \in R : i \in DOMAIN o /\ o[i].must
      <3>1. DOMAIN FirstOf(o, TopK) = 1..TopK
        <4>1. FirstOf(o, TopK) \in Seq(ToSet(items)) /\ Len(FirstOf(o, TopK)) = TopK  BY <2>1, ArrangedIs
        <4> QED BY <4>1, SeqPlaces
      <3> QED BY <2>2, <3>1 DEF Yielding
    <2>4. IsFiniteSet(1..TopK) /\ Cardinality(1..TopK) = TopK
      <3>1. 1 \in Int /\ TopK \in Int /\ (1 > TopK => TopK = 0) /\ TopK - 1 + 1 = TopK  BY <1>4
      <3> QED BY <3>1, FS_Interval
    <2> HIDE DEF Y
    <2>5. IsFiniteSet(R) /\ Cardinality(R) = TopK - Cardinality(Y)
      <3>1. (1..TopK) \cap Y = Y  BY <2>2
      <3>2. IsFiniteSet(R) /\ Cardinality(R) = TopK - Cardinality((1..TopK) \cap Y)
        BY <2>4, FS_Difference
      <3> QED BY <3>1, <3>2
    <2>6. IsFiniteSet(F) /\ Cardinality(F) \in Nat /\ k <= Cardinality(F)
      <3>1. DOMAIN o = 1..Len(o) /\ IsFiniteSet(DOMAIN o)
        <4>1. o \in Seq(ToSet(items))  BY DEF Arranges
        <4> QED BY <4>1, SeqPlaces
      <3>2. F \in SUBSET DOMAIN o  BY <1>5
      <3>3. \A j \in 1..k : f[j] \in F  OBVIOUS
      <3>4. \A i, j \in 1..k : f[i] = f[j] => i = j  BY <1>1, <1>5 DEF f
      <3> HIDE DEF F
      <3>5. IsFiniteSet(F)  BY <3>1, <3>2, FS_Subset
      <3>6. Cardinality(F) \in Nat  BY <3>5, FS_CardinalityType
      <3>7. k \in Nat  BY <1>5
      <3>8. k <= Cardinality(F)  BY <3>3, <3>4, <3>5, <3>7, CountUpTo
      <3> QED BY <3>5, <3>6, <3>8
    <2>7. R \cap F = {}
      <3>1. \A i \in F : i > TopK /\ i \in DOMAIN o  BY <1>5
      <3>2. \A i \in R : i <= TopK /\ i \in DOMAIN o  BY <1>4, <2>3
      <3> QED BY <1>4, <3>1, <3>2
    <2>8. \A i \in D : i \in DOMAIN o /\ o[i] \in Staying(items)
      <3>1. \A i \in R : o[i] \in Staying(items)  BY <1>4, <2>3 DEF Staying
      <3>2. \A i \in F : i \in DOMAIN o /\ o[i] \in Staying(items)  BY <1>3, <1>4, <1>5 DEF Staying
      <3> QED BY <2>3, <3>1, <3>2
    <2> HIDE DEF R, F
    <2>9. IsFiniteSet(D) /\ Cardinality(D) = Cardinality(R) + Cardinality(F)
      <3>1. Cardinality(R \cap F) = 0  BY <2>7, FS_EmptySet
      <3>2. IsFiniteSet(D) /\ Cardinality(D) = Cardinality(R) + Cardinality(F) - Cardinality(R \cap F)
        BY <2>5, <2>6, FS_Union
      <3>3. Cardinality(R) \in Nat  BY <2>5, FS_CardinalityType
      <3> QED BY <2>6, <3>1, <3>2, <3>3
    <2> HIDE DEF D
    <2>10. g \in Injection(D, Staying(items))
      <3>1. g \in [D -> Staying(items)] /\ \A i, j \in D : g[i] = g[j] => i = j  BY <1>4, <2>8
      <3> HIDE DEF g
      <3> QED BY <3>1 DEF Injection, IsInjective
    <2> HIDE DEF g
    <2>11. IsFiniteSet(Staying(items)) /\ Cardinality(Staying(items)) \in Nat  BY PoolIs DEF Arranges
    <2>12. Cardinality(D) <= Cardinality(Staying(items))  BY <2>10, <2>11, FS_Injection
    <2>13. Cardinality(Y) \in Nat  BY <1>4 DEF Y
    <2>14. k <= Cardinality(Y)  BY <1>4, <1>5, <2>5, <2>6, <2>9, <2>11, <2>12, <2>13
    <2> QED BY <2>14 DEF Y
  <1>8. k \in DOMAIN PutBack(o) /\ PutBack(o)[k] = x
    <2>1. f \in Seq(Lower(o)) /\ Len(f) = n  BY <1>1 DEF f
    <2>2. MaxPinned \in Nat  BY PoolAssumption
    <2>3. k \in 1..Smaller(MaxPinned, Len(f))  BY <1>5, <1>6, <2>1, <2>2 DEF Smaller
    <2>4. /\ FirstOf(f, MaxPinned) \in Seq(Lower(o)) /\ Len(FirstOf(f, MaxPinned)) = Smaller(MaxPinned, Len(f))
          /\ FirstOf(f, MaxPinned)[k] = f[k]
      BY <2>1, <2>2, <2>3, FirstOfIs
    <2>5. k \in DOMAIN FirstOf(f, MaxPinned)  BY <2>3, <2>4, SeqPlaces
    <2> QED BY <1>3, <2>4, <2>5 DEF PutBack, f
  <1> QED BY <1>5, <1>7, <1>8

LEMMA PutBackIs ==
  ASSUME NEW items, NEW o, Arranges(o, items)
  PROVE  \A k \in DOMAIN PutBack(o) : PutBack(o)[k] \in DOMAIN o
  <1>1. PICK n \in Nat : Foremost(o) \in [1..n -> Lower(o)]  BY ForemostIs
  <1> DEFINE f == Foremost(o)
             S == Lower(o)
             p == FirstOf(f, MaxPinned)
  <1>2. f \in Seq(S)  BY <1>1
  <1>3. MaxPinned \in Nat  BY PoolAssumption
  <1>4. S \in SUBSET DOMAIN o  BY ArrangedIs
  <1> HIDE DEF f, S
  <1>5. p \in Seq(S)  BY <1>2, <1>3, FirstOfIs
  <1> HIDE DEF p
  <1>6. \A k \in DOMAIN p : p[k] \in S  BY <1>5, SeqPlaces
  <1>7. p = PutBack(o)  BY DEF p, f, PutBack
  <1> QED BY <1>4, <1>6, <1>7

\* What was named and must stay is among the first, put back if the reranker moved it.
LEMMA ExchangedIs ==
  ASSUME NEW items, NEW o, Arranges(o, items)
  PROVE  /\ Exchanged(o) \in [1..Smaller(TopK, Len(o)) -> ToSet(items)]
         /\ Cardinality(Staying(items)) <= TopK /\ Cardinality(Returning(items)) <= MaxPinned =>
              \A x \in DOMAIN o : o[x].must /\ o[x].direct =>
                \E k \in 1..Smaller(TopK, Len(o)) : Exchanged(o)[k] = o[x]
  <1> DEFINE n == Smaller(TopK, Len(o))
             X == ToSet(items)
             r == FirstOf(o, TopK)
             Y == Yielding(o)
             d == Descending(Y)
             p == PutBack(o)
             J == DOMAIN p \cap DOMAIN d
             e == Exchanged(o)
  <1>1. /\ Len(o) \in Nat /\ DOMAIN o = 1..Len(o) /\ TopK \in Nat /\ n \in Nat
        /\ \A k \in DOMAIN o : o[k] \in X
        /\ r \in Seq(X) /\ Len(r) = n
        /\ \A k \in 1..n : k \in DOMAIN o /\ r[k] = o[k]
        /\ Y \in SUBSET (1..n) /\ IsFiniteSet(Y)
    BY ArrangedIs
  <1>2. DOMAIN r = 1..n  BY <1>1, SeqPlaces
  <1>3. \A k \in Y : ~o[k].must  BY <1>1, <1>2 DEF Yielding
  <1>4. PICK c \in Nat : /\ c = Cardinality(Y) /\ d \in [1..c -> Y]
                         /\ \A j, k \in 1..c : d[j] = d[k] => j = k
    <2>1. Y \in SUBSET Int  BY <1>1
    <2> HIDE DEF Y
    <2> QED BY <1>1, <2>1, DescendingIs
  <1>5. \A k \in DOMAIN p : p[k] \in DOMAIN o  BY PutBackIs
  <1>6. e = [k \in 1..n |-> IF \E j \in J : d[j] = k THEN o[p[CHOOSE j \in J : d[j] = k]] ELSE r[k]]
    BY <1>2 DEF Exchanged
  <1> HIDE DEF n, X, r, Y, d, p, e
  <1>7. \A k \in 1..n : (\E j \in J : d[j] = k) =>
          (CHOOSE j \in J : d[j] = k) \in J /\ d[CHOOSE j \in J : d[j] = k] = k
    OBVIOUS
  <1>8. e \in [1..n -> X]
    <2>1. ASSUME NEW k \in 1..n PROVE e[k] \in X
      <3>1. CASE \E j \in J : d[j] = k
        <4>1. p[CHOOSE j \in J : d[j] = k] \in DOMAIN o  BY <1>5, <1>7, <3>1
        <4>2. e[k] = o[p[CHOOSE j \in J : d[j] = k]]  BY <1>6, <3>1
        <4> QED BY <1>1, <4>1, <4>2
      <3>2. CASE ~\E j \in J : d[j] = k
        <4>1. e[k] = r[k]  BY <1>6, <3>2
        <4> QED BY <1>1, <4>1
      <3> QED BY <3>1, <3>2
    <2>2. DOMAIN e = 1..n /\ e = [k \in 1..n |-> e[k]]  BY <1>6, Zenon
    <2> QED BY <2>1, <2>2
  <1>9. ASSUME Cardinality(Staying(items)) <= TopK, Cardinality(Returning(items)) <= MaxPinned,
               NEW x \in DOMAIN o, o[x].must, o[x].direct
        PROVE  \E k \in 1..n : e[k] = o[x]
    <2>1. CASE x <= TopK
      <3>1. x \in 1..n  BY <1>1, <2>1 DEF Smaller, n
      <3>2. ~\E j \in J : d[j] = x  BY <1>3, <1>4, <1>9
      <3>3. e[x] = r[x] /\ r[x] = o[x]  BY <1>1, <1>6, <3>1, <3>2
      <3> QED BY <3>1, <3>3
    <2>2. CASE x > TopK
      <3>1. PICK l \in DOMAIN p : p[l] = x /\ l <= Cardinality(Y) /\ l \in Nat \ {0}
        BY <1>9, <2>2, RoomIs DEF p, Y
      <3>2. l \in 1..c /\ l \in J  BY <1>4, <3>1
      <3>3. d[l] \in 1..n /\ \E j \in J : d[j] = d[l]  BY <1>1, <1>4, <3>2
      <3> DEFINE i == CHOOSE j \in J : d[j] = d[l]
      <3>4. i \in J /\ d[i] = d[l]  BY <3>3
      <3>5. e[d[l]] = o[p[i]]  BY <1>6, <3>3
      <3> HIDE DEF i
      <3>6. i = l  BY <1>4, <3>2, <3>4
      <3> QED BY <3>1, <3>3, <3>5, <3>6
    <2>3. x \in Nat /\ TopK \in Nat  BY <1>1
    <2> QED BY <2>1, <2>2, <2>3
  <1> QED BY <1>8, <1>9 DEF e, n, X

\* What of it is handed on: items of the pool, and what was named is among them.
LEMMA PinRankedIs ==
  ASSUME NEW items, NEW o, Arranges(o, items)
  PROVE  /\ PinRanked(o) \in Seq(ToSet(items))
         /\ Cardinality(Staying(items)) <= TopK /\ Cardinality(Returning(items)) <= MaxPinned =>
              \A x \in DOMAIN o : o[x].must /\ o[x].direct => o[x] \in ToSet(PinRanked(o))
  <1> DEFINE n == Smaller(TopK, Len(o))
             X == ToSet(items)
             e == Exchanged(o)
             q == PinRanked(o)
  <1>1. n \in Nat /\ o \in Seq(X)  BY ArrangedIs DEF Arranges
  <1>2. /\ e \in [1..n -> X]
        /\ Cardinality(Staying(items)) <= TopK /\ Cardinality(Returning(items)) <= MaxPinned =>
             \A x \in DOMAIN o : o[x].must /\ o[x].direct => \E k \in 1..n : e[k] = o[x]
    BY ExchangedIs
  <1>3. PICK rescued : q \in {e, DiversifyLaws(e, o, rescued)}  BY PinRankedForm
  <1> HIDE DEF n, X, e, q
  <1>4. q \in [1..n -> X] /\ \A k \in 1..n : e[k].must => q[k] = e[k]
    BY <1>1, <1>2, <1>3, DiversifyLawsIs
  <1>5. q \in Seq(X)  BY <1>1, <1>4
  <1>6. ASSUME Cardinality(Staying(items)) <= TopK, Cardinality(Returning(items)) <= MaxPinned,
               NEW x \in DOMAIN o, o[x].must, o[x].direct
        PROVE  o[x] \in ToSet(q)
    <2>1. PICK k \in 1..n : e[k] = o[x]  BY <1>2, <1>6
    <2>2. q[k] = o[x] /\ k \in DOMAIN q  BY <1>4, <1>6, <2>1
    <2> QED BY <2>2 DEF ToSet
  <1> QED BY <1>5, <1>6 DEF q, X

-----------------------------------------------------------------------------
(* The ranking.                                                            *)

LEMMA ListIs ==
  ASSUME NEW S, NEW n, NEW s \in Lists(S, n)
  PROVE  s \in Seq(S) /\ IsInjective(s) /\ ToSet(s) \subseteq S
  <1>1. PICK k \in 0..Smaller(n, Cardinality(S)) : s \in [1..k -> S] /\ IsInjective(s)  BY DEF Lists
  <1>2. k \in Nat  OBVIOUS
  <1>3. s \in Seq(S)  BY <1>1, <1>2
  <1>4. ToSet(s) \subseteq S  BY <1>1 DEF ToSet
  <1> QED BY <1>1, <1>3, <1>4

\* The reranker moves units and loses none.
LEMMA RerankedIs ==
  ASSUME NEW units \in Results, NEW order \in Reranked(units)
  PROVE  order \in Results /\ ToSet(order) = ToSet(units)
  <1>1. PICK front \in Lists(ToSet(units), MaxMoved) : order = front \o Without(units, ToSet(front))
    BY DEF Reranked
  <1> DEFINE rest == Without(units, ToSet(front))
  <1>2. units \in Seq(Units) /\ IsInjective(units) /\ ToSet(units) \subseteq Units
    BY ResultIs DEF Results, ToSet
  <1>3. front \in Seq(Units) /\ IsInjective(front) /\ ToSet(front) \subseteq ToSet(units)
    <2>1. front \in Seq(ToSet(units)) /\ IsInjective(front) /\ ToSet(front) \subseteq ToSet(units)
      BY ListIs
    <2> QED BY <1>2, <2>1, SeqOfMore
  <1>4. /\ rest \in Seq(Units) /\ IsInjective(rest) /\ ToSet(rest) = ToSet(units) \ ToSet(front)
    BY <1>2, WithoutIs
  <1> HIDE DEF rest
  <1>5. ToSet(front) \cap ToSet(rest) = {}  BY <1>4
  <1>6. /\ front \o rest \in Seq(Units) /\ IsInjective(front \o rest)
        /\ ToSet(front \o rest) = ToSet(front) \cup ToSet(rest)
    BY <1>3, <1>4, <1>5, ConcatIs
  <1>7. ToSet(front) \cup ToSet(rest) = ToSet(units)  BY <1>3, <1>4
  <1> QED BY <1>1, <1>6, <1>7 DEF Results, rest

LEMMA UnitsOfPool ==
  ASSUME NEW items, PoolOK(items), NEW s \in Seq(ToSet(items))
  PROVE  /\ UnitsOf(s) \in Seq(Units)
         /\ \A i \in ToSet(s) : i.unit \in ToSet(UnitsOf(s))
         /\ ToSet(UnitsOf(s)) \subseteq Held(items)
         /\ IsInjective(s) => IsInjective(UnitsOf(s))
  <1> DEFINE w == UnitsOf(s)
  <1>1. Len(s) \in Nat /\ DOMAIN s = 1..Len(s) /\ \A k \in DOMAIN s : s[k] \in ToSet(items)  BY SeqPlaces
  <1>2. w = [k \in 1..Len(s) |-> s[k].unit]  BY <1>1 DEF UnitsOf
  <1>3. /\ \A i \in ToSet(items) : IsItem(i)
        /\ \A i, j \in ToSet(items) : i.unit = j.unit => i = j
    BY PoolIs
  <1>4. \A k \in 1..Len(s) : s[k].unit \in Units /\ s[k].unit \in Held(items)
    <2>1. \A i \in ToSet(items) : i.unit \in Held(items)  BY HeldIs DEF ToSet
    <2> QED BY <1>1, <1>3, <2>1 DEF IsItem
  <1> HIDE DEF w
  <1>5. w \in Seq(Units)  BY <1>1, <1>2, <1>4
  <1>6. \A i \in ToSet(s) : i.unit \in ToSet(w)
    <2>1. \A i \in ToSet(s) : \E k \in 1..Len(s) : s[k] = i  BY <1>1 DEF ToSet
    <2> QED BY <1>2, <2>1 DEF ToSet
  <1>7. ToSet(w) \subseteq Held(items)  BY <1>2, <1>4 DEF ToSet
  <1>8. IsInjective(s) => IsInjective(w)
    <2>1. ASSUME IsInjective(s), NEW j \in 1..Len(s), NEW k \in 1..Len(s), w[j] = w[k]
          PROVE  j = k
      <3>1. s[j].unit = s[k].unit  BY <1>2, <2>1
      <3>2. s[j] = s[k]  BY <1>1, <1>3, <3>1
      <3> QED BY <1>1, <2>1, <3>2 DEF IsInjective
    <2> QED BY <1>2, <2>1 DEF IsInjective
  <1> QED BY <1>5, <1>6, <1>7, <1>8 DEF w

Taken(items, order) == [k \in DOMAIN order |-> items[At(items, order[k])]]

LEMMA TakenArranges ==
  ASSUME NEW items, PoolOK(items), NEW order \in Results, ToSet(order) \subseteq Held(items)
  PROVE  /\ Arranges(Taken(items, order), items)
         /\ \A i \in ToSet(items) : i.unit \in ToSet(order) =>
              \E x \in DOMAIN Taken(items, order) : Taken(items, order)[x] = i
  <1> DEFINE o == Taken(items, order)
             n == Len(order)
  <1>1. /\ n \in Nat /\ DOMAIN order = 1..n /\ IsInjective(order)
        /\ \A k \in DOMAIN order : order[k] \in ToSet(order)
    BY ResultIs
  <1>2. o = [k \in 1..n |-> items[At(items, order[k])]]  BY <1>1 DEF Taken
  <1> HIDE DEF o, n
  <1>3. \A k \in 1..n : o[k] \in ToSet(items) /\ o[k].unit = order[k]
    <2> TAKE k \in 1..n
    <2>1. order[k] \in Held(items)  BY <1>1
    <2>2. \E m \in DOMAIN items : items[m].unit = order[k]  BY <2>1, HeldIs
    <2>3. At(items, order[k]) \in DOMAIN items /\ items[At(items, order[k])].unit = order[k]
      BY <2>2 DEF At
    <2> QED BY <1>2, <2>3 DEF ToSet
  <1>4. o \in Seq(ToSet(items))
    <2>1. DOMAIN o = 1..n /\ o = [k \in 1..n |-> o[k]]  BY <1>2, Zenon
    <2> QED BY <1>1, <1>3, <2>1
  <1>5. DOMAIN o = 1..n  BY <1>2
  <1>6. IsInjective(o)  BY <1>1, <1>3, <1>5 DEF IsInjective
  <1>7. ASSUME NEW i \in ToSet(items), i.unit \in ToSet(order)
        PROVE  \E x \in DOMAIN o : o[x] = i
    <2>1. PICK x \in 1..n : order[x] = i.unit  BY <1>1, <1>7 DEF ToSet
    <2>2. o[x].unit = i.unit /\ o[x] \in ToSet(items)  BY <1>3, <2>1
    <2>3. o[x] = i  BY <2>2, PoolIs
    <2> QED BY <1>5, <2>3
  <1> QED BY <1>4, <1>6, <1>7 DEF Arranges, o

LEMMA RankStep == SearchInv /\ Rank => SearchInv' /\ ranked' \in Seq(Units)
  <1> SUFFICES ASSUME SearchInv, Rank PROVE SearchInv' /\ ranked' \in Seq(Units)
    OBVIOUS
  <1> DEFINE size == Smaller(Len(pool), Larger(TopK, RerankTop))
             f == FusionRanked(pool, size)
             input == UnitsOf(f)
             Roomy == /\ Cardinality(Staying(pool)) <= TopK
                      /\ Cardinality(Returning(pool)) <= MaxPinned
  <1>1. step' = "ranked" /\ UNCHANGED <<question, search>>  BY DEF Rank
  <1>2. UNCHANGED <<pool, pending, retries, evaluation, looked>>  BY <1>1 DEF search
  <1>3. \/ ranked' = UnitsOf(ScoreRanked(pool))
        \/ \E order \in Reranked(input) : ranked' = UnitsOf(PinRanked(Taken(pool, order)))
    BY DEF Rank, Taken
  <1>4. PoolOK(pool) /\ Len(pool) \in Nat /\ TopK \in Nat /\ RerankTop \in Nat
    BY PoolIs, PoolAssumption, AnswerAssumption DEF SearchInv
  <1>5. size \in Nat /\ (TopK <= size \/ Len(pool) <= size)  BY <1>4 DEF Smaller, Larger
  <1> HIDE DEF size
  <1>6. f \in Seq(ToSet(pool)) /\ IsInjective(f)  BY <1>4, <1>5, FusionRankedIs
  <1>7. Cardinality(Staying(pool)) <= TopK => \A i \in ToSet(pool) : i.must => i \in ToSet(f)
    <2>1. Cardinality(Staying(pool)) \in Nat  BY <1>4, PoolIs
    <2>2. (Cardinality(Staying(pool)) <= size \/ Len(pool) <= size) =>
              \A i \in ToSet(pool) : i.must => i \in ToSet(f)
      BY <1>4, <1>5, FusionRankedIs
    <2> QED BY <1>4, <1>5, <2>1, <2>2
  <1> HIDE DEF f
  <1>8. input \in Results /\ ToSet(input) \subseteq Held(pool)
        /\ \A i \in ToSet(f) : i.unit \in ToSet(input)
    BY <1>4, <1>6, UnitsOfPool DEF Results
  <1> HIDE DEF input
  <1>9. ASSUME ranked' = UnitsOf(ScoreRanked(pool))
        PROVE  ranked' \in Seq(Units) /\ (Roomy => \A u : Secured(pool, u) => u \in ToSet(ranked'))
    <2>1. ScoreRanked(pool) \in Seq(ToSet(pool))  BY <1>4, ScoreRankedIs
    <2>2. ranked' \in Seq(Units)  BY <1>4, <1>9, <2>1, UnitsOfPool
    <2>3. Roomy => \A u : Secured(pool, u) => u \in ToSet(ranked')  BY <1>4, <1>9, ScoreRankedIs
    <2> QED BY <2>2, <2>3
  <1>10. ASSUME \E order \in Reranked(input) : ranked' = UnitsOf(PinRanked(Taken(pool, order)))
         PROVE  ranked' \in Seq(Units) /\ (Roomy => \A u : Secured(pool, u) => u \in ToSet(ranked'))
    <2>1. PICK order \in Reranked(input) : ranked' = UnitsOf(PinRanked(Taken(pool, order)))  BY <1>10
    <2>2. order \in Results /\ ToSet(order) = ToSet(input)  BY <1>8, RerankedIs
    <2> DEFINE o == Taken(pool, order)
               q == PinRanked(o)
    <2>3. /\ Arranges(o, pool)
          /\ \A i \in ToSet(pool) : i.unit \in ToSet(order) => \E x \in DOMAIN o : o[x] = i
      BY <1>4, <1>8, <2>2, TakenArranges
    <2> HIDE DEF o
    <2>4. /\ q \in Seq(ToSet(pool))
          /\ Roomy => \A x \in DOMAIN o : o[x].must /\ o[x].direct => o[x] \in ToSet(q)
      BY <2>3, PinRankedIs
    <2>5. ranked' = UnitsOf(q)  BY <2>1 DEF o
    <2> HIDE DEF q
    <2>6. ranked' \in Seq(Units) /\ \A i \in ToSet(q) : i.unit \in ToSet(ranked')
      BY <1>4, <2>4, <2>5, UnitsOfPool
    <2>7. ASSUME Roomy, NEW u, Secured(pool, u)
          PROVE  u \in ToSet(ranked')
      <3>1. PICK n \in DOMAIN pool : pool[n].unit = u /\ pool[n].must /\ pool[n].direct
        BY <2>7 DEF Secured
      <3>2. pool[n] \in ToSet(pool) /\ pool[n] \in ToSet(f)  BY <1>7, <2>7, <3>1 DEF ToSet
      <3>3. PICK x \in DOMAIN o : o[x] = pool[n]  BY <1>8, <2>2, <2>3, <3>2
      <3>4. pool[n] \in ToSet(q)  BY <2>4, <2>7, <3>1, <3>3
      <3> QED BY <2>6, <3>1, <3>4
    <2> QED BY <2>6, <2>7
  <1>11. ranked' \in Seq(Units) /\ (Roomy => \A u : Secured(pool, u) => u \in ToSet(ranked'))
    BY <1>3, <1>9, <1>10
  <1>12. NamedUnits' = NamedUnits  BY <1>1 DEF NamedUnits
  <1>13. NamedReachesAnswer'
    <2> SUFFICES ASSUME looked, Roomy PROVE NamedUnits \subseteq ToSet(ranked')
      BY <1>2, <1>12 DEF NamedReachesAnswer, Staying, Returning
    <2>1. \A u \in NamedUnits : Secured(pool, u)  BY DEF SearchInv, NamedHeld
    <2> QED BY <1>11, <2>1
  <1>14. (looked => NamedHeld)'  BY <1>2, <1>12 DEF SearchInv, NamedHeld
  <1> QED BY <1>1, <1>2, <1>11, <1>13, <1>14 DEF SearchInv

LEMMA GatherNext == SearchInv /\ [AnswerNext]_answerVars => SearchInv'
  <1> SUFFICES ASSUME SearchInv, [AnswerNext]_answerVars PROVE SearchInv'
    OBVIOUS
  <1>1. CASE Elapse  BY <1>1, SameSearch DEF Elapse
  <1>2. CASE Plan  BY <1>2, PlanStep
  <1>3. CASE Search  BY <1>3, SearchStep
  <1>4. CASE MarkFocused  BY <1>4, MarkStep
  <1>5. CASE LookUpNamed  BY <1>5, LookUpStep
  <1>6. CASE LookUpGuidance  BY <1>6, GuidanceStep
  <1>7. CASE Evaluate  BY <1>7, EvaluateStep
  <1>8. CASE Expand  BY <1>8, ExpandStep
  <1>9. CASE FollowUp  BY <1>9, FollowStep
  <1>10. CASE EndFollowUp
    <2>1. step' = "rank" /\ UNCHANGED <<question, search>>  BY <1>10 DEF EndFollowUp
    <2> QED BY <2>1, SameSearch
  <1>11. CASE Rank  BY <1>11, RankStep
  <1>12. CASE SearchFails
    <2>1. step' = "done" /\ UNCHANGED <<question, search>>  BY <1>12 DEF SearchFails
    <2> QED BY <2>1, SameSearch
  <1>13. CASE Layered  BY <1>13, LayeredStep
  <1>14. CASE Research \/ Compose
    <2>1. step' \in {"done", "compose", "main"} /\ UNCHANGED <<question, search>>
      BY <1>14 DEF Research, Compose, Respond
    <2> QED BY <2>1, SameSearch
  <1>15. CASE Generate \/ Regenerate
    <2>1. step' \in {"review", "answered", "main_again"} /\ UNCHANGED <<question, search>>
      BY <1>15 DEF Generate, Regenerate
    <2> QED BY <2>1, SameSearch
  <1>16. CASE NoAnswer \/ NoRevision \/ NoReviewCame \/ Answered
    <2>1. step' = "done" /\ UNCHANGED <<question, search>>
      BY <1>16 DEF NoAnswer, NoRevision, NoReviewCame, Answered, Respond
    <2> QED BY <2>1, SameSearch
  <1>17. CASE Review \/ ReviewAgain
    <2>1. step' \in {"judge", "review_again"} /\ UNCHANGED <<question, search>>
      BY <1>17 DEF Review, ReviewAgain
    <2> QED BY <2>1, SameSearch
  <1>18. CASE Judge
    <2>1. step' \in {"answered", "done", "more", "main"} /\ UNCHANGED <<question, search>>
      BY <1>18 DEF Judge, Respond
    <2> QED BY <2>1, SameSearch
  <1>19. CASE ResearchMore
    <2>1. step' \in {"main", "done"} /\ UNCHANGED <<question, search>>
      BY <1>19 DEF ResearchMore, Respond
    <2> QED BY <2>1, SameSearch
  <1>20. CASE UNCHANGED answerVars  BY <1>20, SameSearch DEF answerVars
  <1> QED BY <1>1, <1>2, <1>3, <1>4, <1>5, <1>6, <1>7, <1>8, <1>9, <1>10, <1>11, <1>12, <1>13,
             <1>14, <1>15, <1>16, <1>17, <1>18, <1>19, <1>20 DEF AnswerNext

(***************************************************************************)
(* The passage that stands for each provision whose number is in the       *)
(* question is among the evidence handed on                                *)
(* (_merge_direct_documents_into_evidence, _fusion_ranked_evidence,        *)
(* _pin_ranked_evidence), for every index, graph, question, plan and order *)
(* of the reranker and for all limits, as long as there is room for what   *)
(* must stay.                                                              *)
(***************************************************************************)
THEOREM NamedIsAnswered == AnswerSpec => []NamedReachesAnswer
  <1>1. SearchInv => NamedReachesAnswer  BY DEF SearchInv
  <1> QED BY <1>1, GatherInit, GatherNext, PTL DEF AnswerSpec

-----------------------------------------------------------------------------
(* The citations of the answer.                                            *)

LEMMA ShortList ==
  ASSUME NEW S, IsFiniteSet(S), NEW n \in Nat, NEW s \in Lists(S, n)
  PROVE  Len(s) <= n
  <1>1. PICK k \in 0..Smaller(n, Cardinality(S)) : s \in [1..k -> S]  BY DEF Lists
  <1>2. Cardinality(S) \in Nat  BY FS_CardinalityType
  <1>3. k \in Nat /\ k <= n  BY <1>2 DEF Smaller
  <1> QED BY <1>1, <1>3

\* Of a question without choices no unit the answer rests on is cut off.
LEMMA FinalCitationsAre ==
  ASSUME given \in Seq(Units), structural = <<>>, ~question.choices,
         NEW ids \in Seq(Units), ToSet(ids) \subseteq ToSet(given), Len(ids) <= CitationTopK
  PROVE  ToSet(ids) \subseteq ToSet(FinalCitations(ids))
  <1> DEFINE all == structural \o ids
             u == Unique(all)
             K == {k \in DOMAIN u : u[k] \in ToSet(given)}
             first == Kept(u, K)
             rest == Without(given, ToSet(first))
             top == Larger(0, CitationTopK - Len(first))
  <1>1. FinalCitations(ids) = IF path = "directed" THEN FirstOf(first, CitationTopK)
                              ELSE first \o FirstOf(rest, top)
    BY DEF FinalCitations
  <1>2. all \in Seq(Units) /\ Len(all) = Len(ids) /\ ToSet(all) = ToSet(ids)
    <2>1. <<>> \in Seq(Units) /\ Len(<<>>) = 0  OBVIOUS
    <2>2. ToSet(<<>>) = {}  BY DEF ToSet
    <2>3. Len(ids) \in Nat  OBVIOUS
    <2> QED BY <2>1, <2>2, <2>3, ConcatIs
  <1> HIDE DEF all
  <1>3. u \in Seq(Units) /\ ToSet(u) = ToSet(ids) /\ Len(u) <= Len(ids)
    <2> DEFINE S == {k \in DOMAIN all : \A j \in 1..(k - 1) : all[j] # all[k]}
    <2>1. u = Kept(all, S) /\ S \in SUBSET DOMAIN all  BY DEF Unique
    <2> HIDE DEF u, S
    <2>2. Len(u) <= Len(all)  BY <1>2, <2>1, KeptOf
    <2> QED BY <1>2, <2>2, UniqueIs DEF u
  <1> HIDE DEF u
  <1>4. first \in Seq(Units) /\ Len(first) <= Len(u) /\ ToSet(first) = ToSet(ids)
    <2>1. K \in SUBSET DOMAIN u  OBVIOUS
    <2>2. \A k \in DOMAIN u : u[k] \in ToSet(given)
      <3>1. \A k \in DOMAIN u : u[k] \in ToSet(u)  BY DEF ToSet
      <3> QED BY <1>3, <3>1
    <2>3. {u[k] : k \in K} = ToSet(u)  BY <2>2 DEF ToSet
    <2> HIDE DEF K
    <2> QED BY <1>3, <2>1, <2>3, KeptOf
  <1> HIDE DEF first, K
  <1>5. Len(first) \in Nat /\ DOMAIN first = 1..Len(first) /\ CitationTopK \in Nat /\ Len(first) <= CitationTopK
    <2>1. Len(first) \in Nat /\ Len(u) \in Nat /\ Len(ids) \in Nat /\ DOMAIN first = 1..Len(first)
      BY <1>3, <1>4, SeqPlaces
    <2> QED BY <1>3, <1>4, <2>1, AnswerAssumption
  <1>6. CASE path = "directed"
    <2>1. \A k \in DOMAIN first : k \in 1..CitationTopK  BY <1>5
    <2>2. \A k \in DOMAIN first : first[k] \in ToSet(FirstOf(first, CitationTopK))
      BY <1>4, <1>5, <2>1, FirstOfIs
    <2>3. ToSet(first) \subseteq ToSet(FirstOf(first, CitationTopK))  BY <2>2 DEF ToSet
    <2> QED BY <1>1, <1>4, <1>6, <2>3
  <1>7. CASE path # "directed"
    <2>1. rest \in Seq(Units)  BY WithoutIs
    <2>2. top \in Nat  BY <1>5 DEF Larger
    <2> HIDE DEF rest, top
    <2>3. FirstOf(rest, top) \in Seq(Units)  BY <2>1, <2>2, FirstOfIs
    <2>4. ToSet(first \o FirstOf(rest, top)) = ToSet(first) \cup ToSet(FirstOf(rest, top))
      BY <1>4, <2>3, ConcatIs
    <2> QED BY <1>1, <1>4, <1>7, <2>4
  <1> QED BY <1>6, <1>7

(***************************************************************************)
(* The inductive invariant of the citations.  From the first answering     *)
(* call on the caller and the model have the same evidence; an answer      *)
(* cites of it, and what the searches of a review add comes to both.       *)
(***************************************************************************)
Answering == {"main", "main_again", "review", "review_again", "judge", "more", "answered"}

CiteInv ==
    /\ ranked \in Seq(Units) /\ given \in Seq(Units) /\ working \in Seq(Units)
    /\ ~question.choices => structural = <<>>
    /\ step \in Answering => given = working
    /\ step \notin Answering \cup {"done"} => final.cites = <<>>
    /\ final.cites \in Seq(Units) /\ ToSet(final.cites) \subseteq ToSet(given)
    /\ ~question.choices => Len(final.cites) <= CitationTopK
    /\ step # "done" => response.kind = "none"
    /\ CitedIsReturned

LEMMA CiteInit == AnswerInit => CiteInv
  <1> SUFFICES ASSUME AnswerInit PROVE CiteInv
    OBVIOUS
  <1>1. /\ step \in {"plan", "research"}
        /\ ranked = <<>> /\ structural = <<>> /\ given = <<>> /\ working = <<>>
        /\ final.cites = <<>> /\ response.kind = "none"
    BY DEF AnswerInit, Nothing, NoReply
  <1>2. <<>> \in Seq(Units) /\ Len(<<>>) = 0 /\ CitationTopK \in Nat  BY AnswerAssumption
  <1> QED BY <1>1, <1>2 DEF CiteInv, CitedIsReturned, Answering

\* A step before the answering that leaves the citations alone.
LEMMA SameCites ==
  ASSUME CiteInv, UNCHANGED <<question, given, working, structural, final>>, ranked' \in Seq(Units),
         step' \in Answering => given = working,
         step' \notin Answering \cup {"done"} => step \notin Answering \cup {"done"},
         \/ UNCHANGED response /\ (step' # "done" => step # "done")
         \/ step' = "done" /\ response'.kind # "answered"
  PROVE  CiteInv'
  <1>1. CitedIsReturned'  BY DEF CiteInv, CitedIsReturned
  <1>2. step' # "done" => response'.kind = "none"  BY DEF CiteInv
  <1> QED BY <1>1, <1>2 DEF CiteInv

LEMMA GatheringCites ==
  ASSUME CiteInv, \/ Elapse \/ Plan \/ Search \/ MarkFocused \/ LookUpNamed \/ LookUpGuidance \/ Evaluate
                  \/ Expand \/ FollowUp \/ EndFollowUp \/ UNCHANGED answerVars
  PROVE  CiteInv'
  <1>1. UNCHANGED <<question, ranked, answer, response>>
    <2>1. CASE Elapse \/ Plan \/ Search \/ MarkFocused \/ LookUpNamed
      BY <2>1 DEF Elapse, Plan, Search, MarkFocused, LookUpNamed
    <2>2. CASE LookUpGuidance \/ Evaluate \/ Expand \/ FollowUp \/ EndFollowUp
      BY <2>2 DEF LookUpGuidance, Evaluate, Expand, FollowUp, EndFollowUp
    <2>3. CASE UNCHANGED answerVars  BY <2>3 DEF answerVars
    <2> QED BY <2>1, <2>2, <2>3
  <1>2. \/ UNCHANGED step
        \/ /\ step' \in {"search", "named", "guidance", "evaluate", "graph", "follow", "rank"}
           /\ step \in {"plan", "search", "named", "guidance", "evaluate", "graph", "follow"}
    <2>1. CASE Elapse \/ Plan \/ Search \/ MarkFocused \/ LookUpNamed
      BY <2>1 DEF Elapse, Plan, Search, MarkFocused, LookUpNamed
    <2>2. CASE LookUpGuidance \/ Evaluate \/ Expand \/ EndFollowUp
      BY <2>2 DEF LookUpGuidance, Evaluate, Expand, EndFollowUp
    <2>3. CASE FollowUp
      <3>1. step = "follow" /\ step' \in {"rank", "follow"}  BY <2>3 DEF FollowUp
      <3> QED BY <3>1
    <2>4. CASE UNCHANGED answerVars  BY <2>4 DEF answerVars
    <2> QED BY <2>1, <2>2, <2>3, <2>4
  <1>3. UNCHANGED <<given, working, structural, final>>  BY <1>1 DEF answer
  <1>4. ranked' \in Seq(Units)  BY <1>1 DEF CiteInv
  <1>5. step' \in Answering => given = working  BY <1>2 DEF CiteInv, Answering
  <1>6. /\ step' \notin Answering \cup {"done"} => step \notin Answering \cup {"done"}
        /\ step' # "done" => step # "done"
    BY <1>2 DEF Answering
  <1> QED BY <1>1, <1>3, <1>4, <1>5, <1>6, SameCites

LEMMA RankCites ==
  ASSUME SearchInv, CiteInv, Rank
  PROVE  CiteInv'
  <1>1. /\ step = "rank" /\ step' = "ranked"
        /\ UNCHANGED <<question, given, working, final, response>>
    BY DEF Rank
  <1>2. ranked' \in Seq(Units)  BY RankStep
  <1>3. ~question.choices => structural' = <<>>  BY DEF Rank
  <1>4. CitedIsReturned'  BY <1>1 DEF CiteInv, CitedIsReturned
  <1> QED BY <1>1, <1>2, <1>3, <1>4 DEF CiteInv, Answering

\* The evidence is handed over before there is an answer.
LEMMA HandOverCites ==
  ASSUME CiteInv, Layered \/ Research
  PROVE  CiteInv'
  <1>1. /\ step \in {"ranked", "research"} /\ step' \in {"compose", "done"}
        /\ UNCHANGED <<question, working, final>>
        /\ step' # "done" => UNCHANGED response
        /\ response'.kind # "answered"
    <2>1. response.kind = "none" \/ step = "done"  BY DEF CiteInv
    <2>2. CASE Layered  BY <2>1, <2>2 DEF Layered
    <2>3. CASE Research
      <3>1. NoReply.kind = "none" /\ [NoReply EXCEPT !.kind = "not_researched"].kind = "not_researched"
        BY DEF NoReply
      <3> QED BY <2>1, <2>3, <3>1 DEF Research
    <2> QED BY <2>2, <2>3
  <1>2. final.cites = <<>>  BY <1>1 DEF CiteInv, Answering
  <1>3. given' \in Seq(Units)
    <2>1. Evidence \cup Assembled \subseteq Results  BY AnswerAssumption
    <2>2. \A s \in Results : s \in Seq(Units)  BY DEF Results
    <2>4. ranked \in Seq(Units) /\ given \in Seq(Units) /\ <<>> \in Seq(Units)  BY DEF CiteInv
    <2>3. given' \in {ranked, given, <<>>} \/ given' \in Evidence \cup Assembled
      <3>1. CASE Layered  BY <3>1 DEF Layered
      <3>2. CASE Research  BY <3>2 DEF Research
      <3> QED BY <3>1, <3>2
    <2>5. CASE given' \in {ranked, given, <<>>}  BY <2>4, <2>5
    <2>6. CASE given' \in Evidence \cup Assembled
      <3> DEFINE g == given'
      <3>1. g \in Results  BY <2>1, <2>6
      <3> HIDE DEF g
      <3>2. g \in Seq(Units)  BY <2>2, <3>1
      <3> QED BY <3>2 DEF g
    <2> QED BY <2>3, <2>5, <2>6
  <1>4. ranked' \in Seq(Units)
    <2>1. ranked' = ranked \/ ranked' = <<>>  BY DEF Layered, Research
    <2>2. ranked \in Seq(Units) /\ <<>> \in Seq(Units)  BY DEF CiteInv
    <2> QED BY <2>1, <2>2
  <1>5. structural' \in {structural, <<>>}  BY DEF Layered, Research
  <1>6. ToSet(<<>>) = {} /\ <<>> \in Seq(Units) /\ Len(<<>>) = 0  BY DEF ToSet
  <1>7. CitedIsReturned'  BY <1>1 DEF CitedIsReturned
  <1>8. step' # "done" => response'.kind = "none"  BY <1>1 DEF CiteInv
  <1>9. step' \notin Answering  BY <1>1 DEF Answering
  <1> QED BY <1>1, <1>2, <1>3, <1>4, <1>5, <1>6, <1>7, <1>8, <1>9 DEF CiteInv

LEMMA ComposeCites ==
  ASSUME CiteInv, Compose
  PROVE  CiteInv'
  <1>1. /\ step = "compose" /\ UNCHANGED <<question, ranked, given, structural, final>>
        /\ \/ /\ step' = "done" /\ response'.kind \in {"refused", "no_evidence"}
              /\ UNCHANGED working
           \/ step' = "main" /\ working' = given /\ UNCHANGED response
    BY DEF Compose, Respond
  <1>2. CitedIsReturned'  BY <1>1 DEF CiteInv, CitedIsReturned
  <1> QED BY <1>1, <1>2 DEF CiteInv, Answering

LEMMA GenerateCites ==
  ASSUME CiteInv, Generate
  PROVE  CiteInv'
  <1>1. /\ step \in {"main", "main_again"} /\ step' \in {"review", "answered"}
        /\ UNCHANGED <<question, ranked, given, working, structural, response>>
        /\ final' \in ValidAnswers
    BY DEF Generate
  <1>2. given = working /\ response.kind = "none"  BY <1>1 DEF CiteInv, Answering
  <1> DEFINE n == IF question.choices THEN 2 ELSE CitationTopK
             c == final'.cites
  <1>3. c \in Lists(ToSet(working), n)
    <2>1. \A V, S, C : \A a \in [version : V, status : S, cites : C] : a.cites \in C
      OBVIOUS
    <2>2. PICK a : a = final'  OBVIOUS
    <2>3. \E V, S : a \in [version : V, status : S, cites : Lists(ToSet(working), n)]
      BY <1>1, <2>2 DEF ValidAnswers
    <2> QED BY <2>1, <2>2, <2>3
  <1> HIDE DEF c
  <1>4. working \in Seq(Units) /\ IsFiniteSet(ToSet(working)) /\ n \in Nat
    BY MembersFinite, AnswerAssumption DEF CiteInv
  <1>5. c \in Seq(ToSet(working)) /\ ToSet(c) \subseteq ToSet(working) /\ Len(c) <= n
    <2> HIDE DEF n
    <2> QED BY <1>3, <1>4, ListIs, ShortList
  <1>6. c \in Seq(Units)
    <2>1. ToSet(working) \subseteq Units  BY <1>4 DEF ToSet
    <2> QED BY <1>5, <2>1, SeqOfMore
  <1>7. CitedIsReturned'  BY <1>1, <1>2 DEF CitedIsReturned
  <1> QED BY <1>1, <1>2, <1>5, <1>6, <1>7 DEF CiteInv, Answering, c

\* The steps of an answer that neither cite nor bring evidence, nor return it.
LEMMA ReviewingCites ==
  ASSUME CiteInv, \/ Regenerate \/ NoAnswer \/ NoRevision \/ Review \/ ReviewAgain \/ NoReviewCame
                  \/ Judge \/ SearchFails
  PROVE  CiteInv'
  <1>1. UNCHANGED <<question, ranked, given, working, structural, final>>
    <2>1. CASE Regenerate \/ ReviewAgain \/ SearchFails
      BY <2>1 DEF Regenerate, ReviewAgain, SearchFails, answer
    <2>2. CASE NoAnswer \/ NoRevision \/ Review \/ NoReviewCame \/ Judge
      BY <2>2 DEF NoAnswer, NoRevision, Review, NoReviewCame, Judge
    <2> QED BY <2>1, <2>2
  <1>2. \/ step' = "done" /\ response'.kind # "answered"
        \/ UNCHANGED response /\ step \in Answering /\ step' \in Answering
    <2>1. CASE Regenerate \/ Review \/ ReviewAgain  BY <2>1 DEF Regenerate, Review, ReviewAgain, Answering
    <2>2. CASE NoAnswer \/ NoRevision \/ NoReviewCame  BY <2>2 DEF NoAnswer, NoRevision, NoReviewCame, Respond
    <2>3. CASE Judge  BY <2>3 DEF Judge, Respond, Answering
    <2>4. CASE SearchFails  BY <2>4 DEF SearchFails, NoReply
    <2> QED BY <2>1, <2>2, <2>3, <2>4
  <1>3. ranked' \in Seq(Units)  BY <1>1 DEF CiteInv
  <1>4. step' \in Answering => given = working  BY <1>2 DEF CiteInv, Answering
  <1>5. /\ step' \notin Answering \cup {"done"} => step \notin Answering \cup {"done"}
        /\ \/ UNCHANGED response /\ (step' # "done" => step # "done")
           \/ step' = "done" /\ response'.kind # "answered"
    BY <1>2 DEF Answering
  <1> QED BY <1>1, <1>2, <1>3, <1>4, <1>5, SameCites DEF Answering

\* What a review finds comes to what is cited.
LEMMA ResearchMoreCites ==
  ASSUME CiteInv, ResearchMore
  PROVE  CiteInv'
  <1>1. /\ step = "more" /\ UNCHANGED <<question, ranked, structural, final>>
        /\ \/ /\ step' = "done" /\ response'.kind # "answered" /\ UNCHANGED <<given, working>>
           \/ /\ step' = "main" /\ UNCHANGED response
              /\ \E new \in Lists(Units \ ToSet(working), 2) : TakeUp(new)
    <2>1. step = "more" /\ UNCHANGED <<question, ranked, structural, final>>  BY DEF ResearchMore
    <2>2. \/ Respond("suppressed", Nothing) /\ UNCHANGED <<given, working>>
          \/ /\ step' = "main" /\ UNCHANGED response
             /\ \E new \in Lists(Units \ ToSet(working), 2) : TakeUp(new)
      BY DEF ResearchMore
    <2>3. Respond("suppressed", Nothing) => step' = "done" /\ response'.kind # "answered"
      BY DEF Respond
    <2> QED BY <2>1, <2>2, <2>3
  <1>2. given = working /\ working \in Seq(Units) /\ response.kind = "none"
    BY <1>1 DEF CiteInv, Answering
  <1>3. CASE step' = "done" /\ response'.kind # "answered" /\ UNCHANGED <<given, working>>
    <2>1. CitedIsReturned'  BY <1>3 DEF CitedIsReturned
    <2> QED BY <1>1, <1>3, <2>1 DEF CiteInv, Answering
  <1>4. CASE /\ step' = "main" /\ UNCHANGED response
             /\ \E new \in Lists(Units \ ToSet(working), 2) : TakeUp(new)
    <2>1. PICK new \in Lists(Units \ ToSet(working), 2) : working' = new \o working /\ given' = working'
      BY <1>4 DEF TakeUp
    <2>2. new \in Seq(Units)
      <3>1. new \in Seq(Units \ ToSet(working))  BY ListIs
      <3> QED BY <3>1, SeqOfMore
    <2>3. new \o working \in Seq(Units) /\ ToSet(new \o working) = ToSet(new) \cup ToSet(working)
      BY <1>2, <2>2, ConcatIs
    <2>4. CitedIsReturned'  BY <1>2, <1>4 DEF CitedIsReturned
    <2> QED BY <1>1, <1>2, <1>4, <2>1, <2>3, <2>4 DEF CiteInv, Answering
  <1> QED BY <1>1, <1>3, <1>4

LEMMA AnsweredCites ==
  ASSUME CiteInv, Answered
  PROVE  CiteInv'
  <1>1. /\ step = "answered" /\ step' = "done"
        /\ UNCHANGED <<question, ranked, given, working, structural, final>>
        /\ response'.cites = FinalCitations(final.cites)
    BY DEF Answered, Respond, answer
  <1>2. ~question.choices => ToSet(final.cites) \subseteq ToSet(FinalCitations(final.cites))
    BY FinalCitationsAre DEF CiteInv
  <1>3. CitedIsReturned'  BY <1>1, <1>2 DEF CitedIsReturned
  <1> QED BY <1>1, <1>3 DEF CiteInv, Answering

(***************************************************************************)
(* Every unit on which the answer to a question without choices rests is   *)
(* among the citations returned with it (_compose_answer,                  *)
(* _select_final_citations), for all evidence, answers and reviews and any *)
(* number of rounds.                                                       *)
(***************************************************************************)
THEOREM CitedReturned == AnswerSpec => []CitedIsReturned
  <1>1. SearchInv /\ CiteInv /\ [AnswerNext]_answerVars => CiteInv'
    BY GatheringCites, RankCites, HandOverCites, ComposeCites, GenerateCites, ReviewingCites,
       ResearchMoreCites, AnsweredCites DEF AnswerNext
  <1>2. CiteInv => CitedIsReturned  BY DEF CiteInv
  <1> QED BY <1>1, <1>2, CiteInit, GatherInit, GatherNext, PTL DEF AnswerSpec

=============================================================================
