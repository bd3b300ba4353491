----------------------- MODULE ObservationCall_proofs -----------------------
(***************************************************************************)
(* Proofs about ObservationCall, for every value of its constants: any     *)
(* number of WorkItems in any tree, and any bound on the attempts.         *)
(***************************************************************************)
EXTENDS ObservationCall, TLAPS

(***************************************************************************)
(* The inductive invariant.  What a session and an audit made of a         *)
(* WorkItem travels with its reply, from attempt to attempt through the    *)
(* retained parts; nothing is said of a WorkItem that is closed.           *)
(***************************************************************************)
Busy  == phase \in {"sessions", "audit", "decide", "apply"}
Ended == phase \in {"closing", "answered", "failed"}
Kept(w) == retained[w] # NoReply

CallShape ==
    /\ \A w \in WorkItems : task[w] # "none" => w \in scope
    /\ phase = "sessions" => \A w \in scope : task[w] # "none"
    /\ ~Ended => arrived \subseteq Open
    /\ \A w \in WorkItems \ Open : reply[w] = NoReply /\ retained[w] = NoReply
    /\ ~Busy => reply = Nothing /\ retained = Nothing
    /\ phase \in {"sessions", "audit", "decide"} => \A w \in WorkItems \ scope : reply[w] = NoReply

\* The session of w has ended with a reply that no retained part replaces.
Judged(w) ==
    /\ ~Kept(w) /\ w \in scope
    /\ phase \in {"audit", "decide"} \/ (phase = "sessions" /\ task[w] = "done")

HeardInv ==
    \A w \in arrived :
        /\ Kept(w) => heard[w] = ViewAfter(retained, w)
        /\ Judged(w) => heard[w] = reply[w].view /\ (reply[w].updates \/ reply[w].view = hypothesis[w])
        /\ phase \in {"sessions", "audit", "decide"} /\ ~Kept(w) /\ w \notin scope
              => heard[w] = hypothesis[w]
        /\ phase = "apply" => heard[w] = ViewAfter(reply, w)

\* Where a completed status has been through an audit.
AuditedBy(w) ==
    \/ phase = "apply"
    \/ phase = "decide" /\ ~Kept(w)
    \/ phase = "audit" /\ ~Kept(w) /\ task[w] \notin {"running", "protocol_error"}

ConfirmedInv ==
    \A w \in WorkItems :
        /\ retained[w].status \in Completed => confirmed[w] = retained[w].status
        /\ AuditedBy(w) /\ reply[w].status \in Completed => confirmed[w] = reply[w].status

MayResolve(d, w) ==
    d[w].resolves => w \in Open /\ StatusAfter(d, w) # "needs_action" /\ ViewAfter(d, w) = "settled"

ResolveInv ==
    \A w \in WorkItems :
        /\ MayResolve(retained, w)
        /\ phase = "apply" => MayResolve(reply, w)

IInv == TypeOK /\ CallShape /\ HeardInv /\ ConfirmedInv /\ ResolveInv /\ ResolvedInTimeIsComplete

(***************************************************************************)
(* Lemmas about the parts of a decision.                                   *)
(***************************************************************************)
LEMMA NoReplyIs ==
  /\ NoReply \in Reply /\ NoReply.status = "none" /\ NoReply.view = "unresolved"
  /\ ~NoReply.updates /\ ~NoReply.asks /\ ~NoReply.resolves
  /\ Nothing \in [WorkItems -> Reply]
  /\ \A w \in WorkItems : Nothing[w] = NoReply
  BY DEF NoReply, Reply, Views, Nothing

LEMMA ResolvableIsReady ==
  ASSUME NEW d
  PROVE  Resolvable(d) \subseteq Ready(d) /\ Ready(d) \subseteq Open
  BY DEF Resolvable, Ready

LEMMA DerivedIs ==
  ASSUME NEW d \in [WorkItems -> Reply], NEW w \in WorkItems
  PROVE  LET r == Derived(d)[w] IN
         /\ r \in Reply /\ r.view = d[w].view /\ r.updates = d[w].updates
         /\ r.status = d[w].status /\ r.asks = d[w].asks
         /\ r.resolves <=> w \in Resolvable(d)
         /\ d[w] = NoReply /\ w \notin Open => r = NoReply
  <1>1. PICK q \in Reply : q = d[w]  OBVIOUS
  <1>2. PICK b \in BOOLEAN : b <=> w \in Resolvable(d)  OBVIOUS
  <1>3. PICK r : r = [q EXCEPT !.resolves = b]  OBVIOUS
  <1>4. Derived(d)[w] = r  BY <1>1, <1>2, <1>3 DEF Derived
  <1>5. r = [view |-> q.view, updates |-> q.updates, status |-> q.status, asks |-> q.asks,
             resolves |-> b]
    BY <1>3 DEF Reply
  <1>6. r \in Reply  BY <1>5 DEF Reply
  <1>7. ASSUME q = NoReply, w \notin Open PROVE r = NoReply
    <2>1. ~b  BY <1>2, <1>7, ResolvableIsReady
    <2> QED BY <1>5, <1>7, <2>1 DEF NoReply
  <1> QED BY <1>1, <1>2, <1>4, <1>5, <1>6, <1>7

LEMMA RequestedIs ==
  ASSUME NEW d \in [WorkItems -> Reply], dependency \in [WorkItems -> Statuses \union {"none"}],
         NEW asking, NEW w \in WorkItems
  PROVE  LET r == Requested(d, asking)[w] IN
         /\ r \in Reply /\ r.view = d[w].view /\ r.updates = d[w].updates
         /\ r.status = IF w \in asking \intersect PendingActions THEN dependency[w] ELSE d[w].status
         /\ r.resolves = d[w].resolves
         /\ d[w] = NoReply /\ w \notin asking => r = NoReply
  <1>1. PICK q \in Reply : q = d[w]  OBVIOUS
  <1>2. PICK b \in BOOLEAN : b <=> w \in asking  OBVIOUS
  <1>3. PICK t : t = IF w \in asking \intersect PendingActions THEN dependency[w] ELSE q.status
    OBVIOUS
  <1>4. PICK r : r = [q EXCEPT !.asks = b, !.status = t]  OBVIOUS
  <1>5. Requested(d, asking)[w] = r  BY <1>1, <1>2, <1>3, <1>4 DEF Requested
  <1>6. r = [view |-> q.view, updates |-> q.updates, status |-> t, asks |-> b,
             resolves |-> q.resolves]
    BY <1>4 DEF Reply
  <1>7. t \in Statuses \union {"none"}  BY <1>3 DEF Reply
  <1>8. r \in Reply  BY <1>6, <1>7 DEF Reply
  <1>9. ASSUME q = NoReply, w \notin asking PROVE r = NoReply
    BY <1>2, <1>3, <1>6, <1>9 DEF NoReply
  <1> QED BY <1>1, <1>3, <1>5, <1>6, <1>8, <1>9

\* A Hypothesis, a dependency and a WorkItem after a decision.
LEMMA AfterTypes ==
  ASSUME TypeOK, NEW d \in [WorkItems -> Reply], NEW w \in WorkItems
  PROVE  /\ ViewAfter(d, w) \in Views /\ StatusAfter(d, w) \in Statuses \union {"none"}
         /\ ItemAfter(d, w) \in {"open", "resolved"}
  BY DEF TypeOK, ViewAfter, StatusAfter, ItemAfter, Reply

\* Where nothing was said nothing changes.
LEMMA AfterNothing ==
  ASSUME NEW d, NEW w \in WorkItems, d[w] = NoReply
  PROVE  ViewAfter(d, w) = hypothesis[w] /\ StatusAfter(d, w) = dependency[w] /\ ItemAfter(d, w) = item[w]
  BY NoReplyIs DEF ViewAfter, StatusAfter, ItemAfter

(***************************************************************************)
(* The ends of a call, and a new attempt.                                  *)
(***************************************************************************)
LEMMA AfterEnd ==
  ASSUME IInv, EndCall, phase' \in {"research", "closing", "failed"}, phase' = "research" => arrived' = {},
         item' \in [WorkItems -> {"open", "resolved"}], hypothesis' \in [WorkItems -> Views],
         dependency' \in [WorkItems -> Statuses \union {"none"}], arrived' \subseteq WorkItems,
         stepTimeout' \in BOOLEAN, UNCHANGED <<fetches, deferred>>, ResolvedInTimeIsComplete'
  PROVE  IInv'
  <1> USE DEF IInv
  <1>1. /\ attempt' = 1 /\ scope' = {} /\ reply' = Nothing /\ retained' = Nothing
        /\ task' = [w \in WorkItems |-> "none"]
        /\ heard' = [w \in WorkItems |-> "none"] /\ confirmed' = [w \in WorkItems |-> "none"]
    BY DEF EndCall
  <1>2. TypeOK'
    BY <1>1, NoReplyIs, ObservationAssumption DEF TypeOK, ObservationAssumption
  <1>3. CallShape'
    BY <1>1, NoReplyIs DEF CallShape, Busy, Ended, TypeOK
  <1>4. HeardInv'
    BY <1>1, NoReplyIs DEF HeardInv, Kept, Judged, TypeOK
  <1>5. ConfirmedInv'
    BY <1>1, NoReplyIs DEF ConfirmedInv, AuditedBy, Completed
  <1>6. ResolveInv'
    BY <1>1, NoReplyIs DEF ResolveInv, MayResolve
  <1> QED BY <1>2, <1>3, <1>4, <1>5, <1>6

LEMMA AfterFail ==
  ASSUME IInv, Fail, UNCHANGED <<fetches, deferred>>
  PROVE  IInv'
  <1>1. EndCall /\ phase' = "failed" /\ UNCHANGED store  BY DEF Fail
  <1>2. ResolvedInTimeIsComplete'
    BY <1>1 DEF IInv, store, ResolvedInTimeIsComplete, ResolvedIsComplete, Complete
  <1> QED BY <1>1, <1>2, AfterEnd DEF IInv, TypeOK, store

LEMMA AfterCheckpoint ==
  ASSUME IInv, NEW d \in [WorkItems -> Reply], Checkpoint(d), UNCHANGED <<fetches, deferred>>
  PROVE  IInv'
  <1>1. EndCall /\ phase' = "closing" /\ stepTimeout' = TRUE /\ UNCHANGED <<dependency, arrived>>
    BY DEF Checkpoint
  <1>2. item' \in [WorkItems -> {"open", "resolved"}] /\ hypothesis' \in [WorkItems -> Views]
    <2> DEFINE kept == [w \in WorkItems |-> [d[w] EXCEPT !.status = "none", !.asks = FALSE]]
    <2>1. kept \in [WorkItems -> Reply]
      <3> SUFFICES ASSUME NEW w \in WorkItems PROVE [d[w] EXCEPT !.status = "none", !.asks = FALSE] \in Reply
        OBVIOUS
      <3>1. PICK q \in Reply : q = d[w]  OBVIOUS
      <3>2. PICK r : r = [q EXCEPT !.status = "none", !.asks = FALSE]  OBVIOUS
      <3>3. r = [view |-> q.view, updates |-> q.updates, status |-> "none", asks |-> FALSE,
                 resolves |-> q.resolves]
        BY <3>2 DEF Reply
      <3>4. r \in Reply  BY <3>3 DEF Reply
      <3> QED BY <3>1, <3>2, <3>4
    <2>2. \/ /\ hypothesis' = [w \in WorkItems |-> ViewAfter(kept, w)]
             /\ item' = [w \in WorkItems |-> ItemAfter(kept, w)]
          \/ UNCHANGED <<hypothesis, item>>
      BY DEF Checkpoint
    <2> HIDE DEF kept
    <2>3. CASE UNCHANGED <<hypothesis, item>>  BY <2>3 DEF IInv, TypeOK
    <2>4. CASE /\ hypothesis' = [w \in WorkItems |-> ViewAfter(kept, w)]
               /\ item' = [w \in WorkItems |-> ItemAfter(kept, w)]
      BY <2>1, <2>4, AfterTypes DEF IInv
    <2> QED BY <2>2, <2>3, <2>4
  <1>3. ResolvedInTimeIsComplete'  BY <1>1 DEF ResolvedInTimeIsComplete
  <1> QED BY <1>1, <1>2, <1>3, AfterEnd DEF IInv, TypeOK

\* What a new attempt keeps must be what its sessions and audits came to.
LEMMA AfterRetry ==
  ASSUME IInv, phase = "apply", NEW again \in SUBSET arrived, NEW keep \in [WorkItems -> Reply],
         Retry(again, keep), UNCHANGED <<fetches, deferred>>,
         \A w \in WorkItems : /\ keep[w].status \in Completed => confirmed[w] = keep[w].status
                              /\ MayResolve(keep, w)
                              /\ w \notin Open => keep[w] = NoReply,
         \A w \in arrived : /\ keep[w] # NoReply => heard[w] = ViewAfter(keep, w)
                            /\ keep[w] = NoReply /\ w \notin again => heard[w] = hypothesis[w]
  PROVE  IInv'
  <1>1. CASE Fail  BY <1>1, AfterFail
  <1>2. CASE /\ attempt # MaxAttempts /\ attempt' = attempt + 1 /\ retained' = keep /\ Batch(again)
             /\ UNCHANGED <<store, heard, confirmed>>
    <2> USE DEF IInv
    <2>1. /\ phase' = "sessions" /\ scope' = again /\ reply' = Nothing
          /\ task' = [w \in WorkItems |-> IF w \in again THEN "running" ELSE "none"]
          /\ UNCHANGED <<item, hypothesis, dependency, arrived, stepTimeout, heard, confirmed>>
      BY <1>2 DEF Batch, store
    <2>2. attempt' \in 1 .. MaxAttempts
      BY <1>2, ObservationAssumption DEF TypeOK, ObservationAssumption
    <2>3. TypeOK'
      BY <1>2, <2>1, <2>2, NoReplyIs DEF TypeOK
    <2>4. CallShape'
      BY <1>2, <2>1, NoReplyIs DEF CallShape, Busy, Ended, Open, TypeOK
    <2>5. HeardInv'
      BY <1>2, <2>1 DEF HeardInv, Kept, Judged, ViewAfter, TypeOK
    <2>6. ConfirmedInv'
      BY <1>2, <2>1 DEF ConfirmedInv, AuditedBy
    <2>7. ResolveInv'
      BY <1>2, <2>1 DEF ResolveInv, MayResolve, ViewAfter, StatusAfter, Open
    <2>8. ResolvedInTimeIsComplete'
      BY <2>1 DEF ResolvedInTimeIsComplete, ResolvedIsComplete, Complete
    <2> QED BY <2>3, <2>4, <2>5, <2>6, <2>7, <2>8
  <1> QED BY <1>1, <1>2 DEF Retry

(***************************************************************************)
(* Each step keeps the invariant.                                          *)
(***************************************************************************)
LEMMA InitIInv == Init => IInv
  <1> SUFFICES ASSUME Init PROVE IInv
    OBVIOUS
  <1>1. TypeOK
    <2>1. hypothesis \in [WorkItems -> Views]
      <3>1. {"unresolved", "gaps"} \subseteq Views  BY DEF Views
      <3> QED BY <3>1 DEF Init
    <2>2. attempt \in 1 .. MaxAttempts /\ fetches \in 0 .. MaxFetches
      BY ObservationAssumption DEF Init, ObservationAssumption
    <2>3. reply \in [WorkItems -> Reply] /\ retained \in [WorkItems -> Reply]
      BY NoReplyIs DEF Init
    <2> QED BY <2>1, <2>2, <2>3 DEF Init, TypeOK
  <1>2. CallShape  BY NoReplyIs DEF Init, CallShape, Busy, Ended
  <1>3. HeardInv /\ ConfirmedInv /\ ResolveInv
    BY NoReplyIs DEF Init, HeardInv, ConfirmedInv, ResolveInv, AuditedBy, MayResolve, Completed
  <1>4. ResolvedInTimeIsComplete
    BY DEF Init, ResolvedInTimeIsComplete, ResolvedIsComplete
  <1> QED BY <1>1, <1>2, <1>3, <1>4 DEF IInv

LEMMA FetchStep == IInv /\ Fetch => IInv'
  <1> SUFFICES ASSUME IInv, Fetch PROVE IInv'
    OBVIOUS
  <1> USE DEF IInv
  <1>1. /\ phase = "research" /\ arrived = {} /\ fetches < MaxFetches /\ fetches' = fetches + 1
        /\ arrived' \subseteq Open /\ deferred' \subseteq Open
        /\ UNCHANGED <<item, hypothesis, dependency, stepTimeout, phase, attempt, scope, task, reply,
                       retained, heard, confirmed>>
    BY DEF Fetch, call
  <1>2. reply = Nothing /\ retained = Nothing /\ scope = {}
    BY <1>1 DEF CallShape, Busy, TypeOK
  <1>3. TypeOK'
    <2>1. fetches' \in 0 .. MaxFetches
      BY <1>1, ObservationAssumption DEF TypeOK, ObservationAssumption
    <2> QED BY <1>1, <1>2, <2>1 DEF TypeOK, Open
  <1>4. CallShape'  BY <1>1, <1>2 DEF CallShape, Busy, Ended, Open
  <1>5. HeardInv'
    BY <1>1, <1>2, NoReplyIs DEF HeardInv, Kept, Judged, Open
  <1>6. ConfirmedInv' /\ ResolveInv'
    BY <1>1 DEF ConfirmedInv, ResolveInv, AuditedBy, Kept, MayResolve, StatusAfter, ViewAfter, Open
  <1>7. ResolvedInTimeIsComplete'
    BY <1>1 DEF ResolvedInTimeIsComplete, ResolvedIsComplete, Complete
  <1> QED BY <1>3, <1>4, <1>5, <1>6, <1>7

LEMMA CallStep == IInv /\ Call => IInv'
  <1> SUFFICES ASSUME IInv, Call PROVE IInv'
    OBVIOUS
  <1> USE DEF IInv
  <1>1. /\ phase = "research" /\ attempt' = 1 /\ retained' = Nothing
        /\ phase' = "sessions" /\ scope' = arrived /\ reply' = Nothing
        /\ task' = [w \in WorkItems |-> IF w \in arrived THEN "running" ELSE "none"]
        /\ UNCHANGED <<item, hypothesis, dependency, arrived, stepTimeout, fetches, deferred, heard, confirmed>>
    BY DEF Call, Batch, store
  <1>2. TypeOK'
    BY <1>1, NoReplyIs, ObservationAssumption DEF TypeOK, ObservationAssumption
  <1>3. CallShape'
    BY <1>1, NoReplyIs DEF CallShape, Busy, Ended, Open, TypeOK
  <1>4. HeardInv'
    BY <1>1, NoReplyIs DEF HeardInv, Kept, Judged, TypeOK
  <1>5. ConfirmedInv' /\ ResolveInv'
    BY <1>1, NoReplyIs DEF ConfirmedInv, ResolveInv, AuditedBy, MayResolve, Completed
  <1>6. ResolvedInTimeIsComplete'
    BY <1>1 DEF ResolvedInTimeIsComplete, ResolvedIsComplete, Complete
  <1> QED BY <1>2, <1>3, <1>4, <1>5, <1>6

LEMMA SessionStep ==
  ASSUME IInv, NEW w \in WorkItems, Session(w)
  PROVE  IInv'
  <1> USE DEF IInv
  <1>1. PICK view \in Views, updates \in BOOLEAN, status \in Statuses \union {"none"} :
          /\ updates \/ view = hypothesis[w]
          /\ reply' = [reply EXCEPT ![w] =
               [view |-> view, updates |-> updates, status |-> status, asks |-> FALSE,
                resolves |-> FALSE]]
          /\ heard' = Note(heard, w, view)
    BY DEF Session
  <1>2. /\ phase = "sessions" /\ task[w] = "running" /\ task' = [task EXCEPT ![w] = "done"]
        /\ UNCHANGED <<item, hypothesis, dependency, arrived, stepTimeout, fetches, deferred, phase, attempt,
                       scope, retained, confirmed>>
    BY DEF Session, End, store
  <1>3. w \in scope /\ w \in arrived /\ w \in Open
    BY <1>2 DEF CallShape, TypeOK, Ended
  <1>4. PICK r \in Reply : /\ r = [view |-> view, updates |-> updates, status |-> status,
                                   asks |-> FALSE, resolves |-> FALSE]
                           /\ r.view \in Views /\ r.view = view /\ (r.updates <=> updates)
    <2>1. PICK r : r = [view |-> view, updates |-> updates, status |-> status,
                        asks |-> FALSE, resolves |-> FALSE]
      OBVIOUS
    <2>2. r \in Reply  BY <2>1 DEF Reply
    <2>3. r.view = view /\ (r.updates <=> updates)  BY <2>1
    <2> QED BY <2>1, <2>2, <2>3
  <1>5. /\ reply' = [reply EXCEPT ![w] = r]
        /\ r.updates \/ r.view = hypothesis[w]
        /\ heard' = IF Kept(w) THEN heard ELSE [heard EXCEPT ![w] = r.view]
    BY <1>1, <1>4 DEF Note, Kept
  <1>6. TypeOK'
    <2>1. reply' \in [WorkItems -> Reply]  BY <1>5 DEF TypeOK
    <2>2. heard' \in [WorkItems -> Views \union {"none"}]  BY <1>4, <1>5 DEF TypeOK
    <2>3. task' \in [WorkItems -> {"none", "running", "done", "protocol_error"}]  BY <1>2 DEF TypeOK
    <2> QED BY <1>2, <2>1, <2>2, <2>3 DEF TypeOK
  <1>7. CallShape'
    BY <1>2, <1>3, <1>5 DEF CallShape, Busy, Ended, Open, TypeOK
  <1>8. HeardInv'
    <2> SUFFICES ASSUME NEW v \in arrived
                 PROVE  /\ Kept(v) => heard'[v] = ViewAfter(retained, v)
                        /\ Judged(v)' => /\ heard'[v] = reply'[v].view
                                         /\ reply'[v].updates \/ reply'[v].view = hypothesis[v]
                        /\ ~Kept(v) /\ v \notin scope => heard'[v] = hypothesis[v]
      BY <1>2 DEF HeardInv, Kept, ViewAfter
    <2>1. CASE v = w
      <3>1. Kept(v) => heard'[v] = ViewAfter(retained, v)  BY <1>5, <2>1 DEF HeardInv
      <3>2. ~Kept(v) => heard'[v] = r.view  BY <1>5, <2>1 DEF TypeOK
      <3>3. reply'[v] = r  BY <1>5, <2>1 DEF TypeOK
      <3> QED BY <3>1, <3>2, <3>3, <1>2, <1>3, <1>5, <2>1 DEF Judged, Kept
    <2>2. CASE v # w
      <3>1. heard'[v] = heard[v] /\ reply'[v] = reply[v] /\ task'[v] = task[v]
        <4>1. v \in WorkItems  BY DEF TypeOK
        <4>2. task'[v] = task[v]  BY <1>2, <2>2, <4>1 DEF TypeOK
        <4>3. reply'[v] = reply[v]  BY <1>5, <2>2, <4>1 DEF TypeOK
        <4>4. heard'[v] = heard[v]  BY <1>5, <2>2, <4>1 DEF TypeOK
        <4> QED BY <4>2, <4>3, <4>4
      <3> QED BY <3>1, <1>2 DEF HeardInv, Judged, Kept, ViewAfter
    <2> QED BY <2>1, <2>2
  <1>9. ConfirmedInv' /\ ResolveInv'
    BY <1>2 DEF ConfirmedInv, ResolveInv, AuditedBy, Kept, MayResolve, StatusAfter, ViewAfter, Open
  <1>10. ResolvedInTimeIsComplete'
    BY <1>2 DEF ResolvedInTimeIsComplete, ResolvedIsComplete, Complete
  <1> QED BY <1>6, <1>7, <1>8, <1>9, <1>10

LEMMA BreakStep ==
  ASSUME IInv, NEW w \in WorkItems, Break(w)
  PROVE  IInv'
  <1> USE DEF IInv
  <1>1. /\ phase \in {"sessions", "audit"} /\ task[w] = "running"
        /\ task' = [task EXCEPT ![w] = "protocol_error"]
        /\ UNCHANGED <<item, hypothesis, dependency, arrived, stepTimeout, fetches, deferred, phase, attempt,
                       scope, reply, retained, heard, confirmed>>
    BY DEF Break, End, store
  <1>2. TypeOK'  BY <1>1 DEF TypeOK
  <1>3. CallShape'  BY <1>1 DEF CallShape, Busy, Ended, Open, TypeOK
  <1>4. HeardInv'
    <2>1. \A v \in WorkItems : Judged(v)' => Judged(v)  BY <1>1 DEF Judged, Kept, TypeOK
    <2> QED BY <1>1, <2>1 DEF HeardInv, Kept, ViewAfter, TypeOK
  <1>5. ConfirmedInv' /\ ResolveInv'
    <2>1. \A v \in WorkItems : AuditedBy(v)' => AuditedBy(v)  BY <1>1 DEF AuditedBy, Kept, TypeOK
    <2> QED BY <1>1, <2>1 DEF ConfirmedInv, ResolveInv, MayResolve, StatusAfter, ViewAfter, Open
  <1>6. ResolvedInTimeIsComplete'
    BY <1>1 DEF ResolvedInTimeIsComplete, ResolvedIsComplete, Complete
  <1> QED BY <1>2, <1>3, <1>4, <1>5, <1>6

\* The audit's verdict, and the view it leaves.
LEMMA AuditedIs ==
  ASSUME TypeOK, NEW w \in WorkItems, NEW verdict \in Statuses
  PROVE  LET r == Audited(w, verdict) IN
         /\ r \in Reply /\ r.status = verdict /\ r.updates = reply[w].updates
         /\ r.view = reply[w].view \/ r.updates
  <1>1. PICK q \in Reply : q = reply[w]  BY DEF TypeOK
  <1>2. PICK v \in Views : /\ v = IF verdict = "needs_action" /\ hypothesis[w] = "gaps" /\ q.updates
                                  THEN "gaps" ELSE q.view
                           /\ v = q.view \/ q.updates
    <2>1. q.view \in Views /\ "gaps" \in Views  BY DEF Reply, Views
    <2>2. CASE verdict = "needs_action" /\ hypothesis[w] = "gaps" /\ q.updates  BY <2>1, <2>2
    <2>3. CASE ~(verdict = "needs_action" /\ hypothesis[w] = "gaps" /\ q.updates)  BY <2>1, <2>3
    <2> QED BY <2>2, <2>3
  <1>3. PICK r : r = [q EXCEPT !.status = verdict, !.view = v]  OBVIOUS
  <1>4. Audited(w, verdict) = r  BY <1>1, <1>2, <1>3 DEF Audited
  <1>5. r = [view |-> v, updates |-> q.updates, status |-> verdict, asks |-> q.asks,
             resolves |-> q.resolves]
    BY <1>3 DEF Reply
  <1>6. r \in Reply  BY <1>5 DEF Reply
  <1> QED BY <1>1, <1>2, <1>4, <1>5, <1>6

LEMMA AuditStep ==
  ASSUME IInv, NEW w \in WorkItems, Audit(w)
  PROVE  IInv'
  <1> USE DEF IInv
  <1>1. PICK verdict \in Statuses :
          /\ reply' = [reply EXCEPT ![w] = Audited(w, verdict)]
          /\ heard' = Note(heard, w, Audited(w, verdict).view)
          /\ confirmed' = Note(confirmed, w, verdict)
    BY DEF Audit
  <1>2. /\ phase = "audit" /\ task[w] = "running" /\ task' = [task EXCEPT ![w] = "done"]
        /\ UNCHANGED <<item, hypothesis, dependency, arrived, stepTimeout, fetches, deferred, phase, attempt,
                       scope, retained>>
    BY DEF Audit, End, store
  <1>3. w \in scope /\ w \in arrived /\ w \in Open
    BY <1>2 DEF CallShape, TypeOK, Ended
  <1>4. PICK r \in Reply : /\ r = Audited(w, verdict) /\ r.status = verdict
                           /\ r.updates = reply[w].updates /\ (r.view = reply[w].view \/ r.updates)
    BY AuditedIs
  <1>5. /\ reply' = [reply EXCEPT ![w] = r]
        /\ heard' = IF Kept(w) THEN heard ELSE [heard EXCEPT ![w] = r.view]
        /\ confirmed' = IF Kept(w) THEN confirmed ELSE [confirmed EXCEPT ![w] = verdict]
    BY <1>1, <1>4 DEF Note, Kept
  <1>6. TypeOK'
    <2>1. r.view \in Views  BY DEF Reply
    <2> QED BY <2>1, <1>2, <1>4, <1>5 DEF TypeOK
  <1>7. CallShape'
    BY <1>2, <1>3, <1>5 DEF CallShape, Busy, Ended, Open, TypeOK
  <1>8. ASSUME NEW v \in WorkItems, v # w
        PROVE  heard'[v] = heard[v] /\ reply'[v] = reply[v] /\ task'[v] = task[v]
               /\ confirmed'[v] = confirmed[v]
    BY <1>2, <1>5, <1>8 DEF TypeOK
  <1>9. HeardInv'
    <2> SUFFICES ASSUME NEW v \in arrived
                 PROVE  /\ Kept(v) => heard'[v] = ViewAfter(retained, v)
                        /\ Judged(v) => /\ heard'[v] = reply'[v].view
                                        /\ reply'[v].updates \/ reply'[v].view = hypothesis[v]
                        /\ ~Kept(v) /\ v \notin scope => heard'[v] = hypothesis[v]
      <3>1. \A v \in WorkItems : Judged(v)' <=> Judged(v)  BY <1>2 DEF Judged, Kept
      <3> QED BY <3>1, <1>2 DEF HeardInv, Kept, ViewAfter, TypeOK
    <2>1. CASE v = w
      <3>1. Kept(v) => heard'[v] = ViewAfter(retained, v)  BY <1>5, <2>1 DEF HeardInv
      <3>2. ~Kept(v) => heard'[v] = r.view  BY <1>5, <2>1 DEF TypeOK
      <3>3. reply'[v] = r  BY <1>5, <2>1 DEF TypeOK
      <3>4. ~Kept(v) => r.updates \/ r.view = hypothesis[v]
        <4>1. ~Kept(v) => Judged(v)  BY <1>2, <1>3, <2>1 DEF Judged
        <4> QED BY <4>1, <1>3, <1>4, <2>1 DEF HeardInv
      <3> QED BY <3>1, <3>2, <3>3, <3>4, <1>3, <2>1 DEF Judged
    <2>2. CASE v # w
      <3>1. heard'[v] = heard[v] /\ reply'[v] = reply[v]
        BY <1>8, <2>2 DEF TypeOK
      <3> QED BY <3>1, <1>2 DEF HeardInv
    <2> QED BY <2>1, <2>2
  <1>10. ConfirmedInv'
    <2> SUFFICES ASSUME NEW v \in WorkItems
                 PROVE  /\ retained[v].status \in Completed => confirmed'[v] = retained[v].status
                        /\ AuditedBy(v)' /\ reply'[v].status \in Completed
                              => confirmed'[v] = reply'[v].status
      BY <1>2 DEF ConfirmedInv
    <2>1. CASE v = w
      <3>1. CASE Kept(v)  BY <3>1, <1>2, <1>5, <2>1 DEF ConfirmedInv, AuditedBy, Kept
      <3>2. CASE ~Kept(v)
        <4>1. retained[v].status \notin Completed
          BY <3>2, NoReplyIs DEF Kept, Completed
        <4>2. confirmed'[v] = verdict /\ reply'[v].status = verdict
          BY <3>2, <1>4, <1>5, <2>1 DEF TypeOK
        <4> QED BY <4>1, <4>2
      <3> QED BY <3>1, <3>2
    <2>2. CASE v # w
      BY <1>2, <1>8, <2>2 DEF ConfirmedInv, AuditedBy, Kept
    <2> QED BY <2>1, <2>2
  <1>11. ResolveInv'
    BY <1>2 DEF ResolveInv, MayResolve, StatusAfter, ViewAfter, Open
  <1>12. ResolvedInTimeIsComplete'
    BY <1>2 DEF ResolvedInTimeIsComplete, ResolvedIsComplete, Complete
  <1> QED BY <1>6, <1>7, <1>9, <1>10, <1>11, <1>12

LEMMA DerivedType ==
  ASSUME NEW d \in [WorkItems -> Reply]
  PROVE  Derived(d) \in [WorkItems -> Reply]
  <1>1. \A w \in WorkItems : Derived(d)[w] \in Reply  BY DerivedIs
  <1>2. Derived(d) = [w \in WorkItems |-> [d[w] EXCEPT !.resolves = w \in Resolvable(d)]]
    BY DEF Derived
  <1>3. PICK f : f = Derived(d)  OBVIOUS
  <1>4. DOMAIN f = WorkItems /\ f = [w \in DOMAIN f |-> f[w]]  BY <1>2, <1>3
  <1> QED BY <1>1, <1>3, <1>4

LEMMA CollectSessionsStep == IInv /\ CollectSessions => IInv'
  <1> SUFFICES ASSUME IInv, CollectSessions PROVE IInv'
    OBVIOUS
  <1> USE DEF IInv
  <1> DEFINE late == {w \in scope : task[w] = "running"}
             audited == {w \in scope : reply[w].status \in Completed}
  <1>1. phase = "sessions" /\ UNCHANGED <<fetches, deferred>>  BY DEF CollectSessions
  <1>2. CASE Fail  BY <1>1, <1>2, AfterFail
  <1>3. CASE Checkpoint(Derived(reply))
    BY <1>1, <1>3, DerivedType, AfterCheckpoint DEF TypeOK
  <1>4. CASE /\ task' = [w \in WorkItems |-> IF w \in audited THEN "running" ELSE "none"]
             /\ phase' = IF audited = {} THEN "decide" ELSE "audit"
             /\ UNCHANGED <<store, attempt, scope, reply, retained, heard, confirmed>>
             /\ \A w \in scope : task[w] = "done"
    <2>1. /\ UNCHANGED <<item, hypothesis, dependency, arrived, stepTimeout, fetches, deferred, attempt, scope,
                         reply, retained, heard, confirmed>>
          /\ phase' \in {"decide", "audit"}
          /\ \A w \in WorkItems : task'[w] = IF w \in audited THEN "running" ELSE "none"
          /\ task' \in [WorkItems -> {"none", "running", "done", "protocol_error"}]
      BY <1>1, <1>4 DEF store
    <2>2. TypeOK'  BY <2>1 DEF TypeOK
    <2>3. CallShape'  BY <1>1, <2>1 DEF CallShape, Busy, Ended, Open, TypeOK
    <2>4. HeardInv'
      <3>1. \A w \in arrived : Judged(w)' => Judged(w)
        BY <1>1, <1>4, <2>1 DEF Judged, Kept
      <3> QED BY <1>1, <2>1, <3>1 DEF HeardInv, Kept, ViewAfter
    <2>5. ConfirmedInv'
      <3> SUFFICES ASSUME NEW w \in WorkItems, AuditedBy(w)', reply[w].status \in Completed
                   PROVE  FALSE
        BY <2>1 DEF ConfirmedInv
      <3>1. w \in scope
        BY <1>1, NoReplyIs DEF CallShape, Completed
      <3>2. phase' = "audit" /\ task'[w] = "running"
        BY <1>4, <2>1, <3>1
      <3> QED BY <3>2 DEF AuditedBy
    <2>6. ResolveInv'
      BY <1>1, <2>1 DEF ResolveInv, MayResolve, StatusAfter, ViewAfter, Open
    <2>7. ResolvedInTimeIsComplete'
      BY <2>1 DEF ResolvedInTimeIsComplete, ResolvedIsComplete, Complete
    <2> QED BY <2>2, <2>3, <2>4, <2>5, <2>6, <2>7
  <1>5. ASSUME ~\E w \in scope : task[w] = "protocol_error", late = {}
        PROVE  \A w \in scope : task[w] = "done"
    BY <1>1, <1>5 DEF CallShape, TypeOK
  <1> QED BY <1>2, <1>3, <1>4, <1>5 DEF CollectSessions

LEMMA CollectAuditsStep == IInv /\ CollectAudits => IInv'
  <1> SUFFICES ASSUME IInv, CollectAudits PROVE IInv'
    OBVIOUS
  <1> USE DEF IInv
  <1>1. phase = "audit" /\ UNCHANGED <<fetches, deferred>>  BY DEF CollectAudits
  <1>2. CASE Fail  BY <1>1, <1>2, AfterFail
  <1>3. CASE Checkpoint(reply)  BY <1>1, <1>3, AfterCheckpoint DEF TypeOK
  <1>4. CASE /\ \A w \in WorkItems : task[w] \in {"none", "done"}
             /\ phase' = "decide"
             /\ UNCHANGED <<store, call, heard, confirmed>>
    <2>1. UNCHANGED <<item, hypothesis, dependency, arrived, stepTimeout, fetches, deferred, attempt, scope,
                      task, reply, retained, heard, confirmed>>
      BY <1>1, <1>4 DEF store, call
    <2>2. TypeOK'  BY <1>4, <2>1 DEF TypeOK
    <2>3. CallShape'  BY <1>1, <1>4, <2>1 DEF CallShape, Busy, Ended, Open
    <2>4. HeardInv'
      <3>1. \A w \in arrived : Judged(w)' => Judged(w)  BY <1>1, <1>4, <2>1 DEF Judged, Kept
      <3> QED BY <1>1, <1>4, <2>1, <3>1 DEF HeardInv, Kept, ViewAfter
    <2>5. ConfirmedInv'
      <3>1. \A w \in WorkItems : AuditedBy(w)' => AuditedBy(w)
        BY <1>1, <1>4, <2>1 DEF AuditedBy, Kept
      <3> QED BY <2>1, <3>1 DEF ConfirmedInv
    <2>6. ResolveInv'
      BY <1>4, <2>1 DEF ResolveInv, MayResolve, StatusAfter, ViewAfter, Open
    <2>7. ResolvedInTimeIsComplete'
      BY <2>1 DEF ResolvedInTimeIsComplete, ResolvedIsComplete, Complete
    <2> QED BY <2>2, <2>3, <2>4, <2>5, <2>6, <2>7
  <1> QED BY <1>2, <1>3, <1>4 DEF CollectAudits

\* The parts of the full decision that no retained part replaces.
LEMMA FullIs ==
  ASSUME IInv, phase = "decide", NEW asking \in SUBSET (scope \union PendingActions),
         NEW w \in WorkItems
  PROVE  LET full == Derived(Requested(reply, asking)) IN
         /\ full[w] \in Reply /\ full[w].view = reply[w].view /\ full[w].updates = reply[w].updates
         /\ full[w].status \in Completed => full[w].status = reply[w].status
         /\ MayResolve(full, w)
         /\ w \notin Open => full[w] = NoReply
  <1> USE DEF IInv
  <1> DEFINE asked == Requested(reply, asking)
  <1>1. reply \in [WorkItems -> Reply] /\ dependency \in [WorkItems -> Statuses \union {"none"}]
    BY DEF TypeOK
  <1>2. \A v \in WorkItems :
          /\ asked[v] \in Reply /\ asked[v].view = reply[v].view /\ asked[v].updates = reply[v].updates
          /\ asked[v].status = IF v \in asking \intersect PendingActions THEN dependency[v]
                               ELSE reply[v].status
          /\ reply[v] = NoReply /\ v \notin asking => asked[v] = NoReply
    BY <1>1, RequestedIs
  <1>3. asked \in [WorkItems -> Reply]
    <2>1. PICK f : f = asked  OBVIOUS
    <2>2. DOMAIN f = WorkItems /\ f = [v \in DOMAIN f |-> f[v]]  BY <2>1 DEF Requested
    <2> HIDE DEF asked
    <2> QED BY <1>2, <2>1, <2>2
  <1> HIDE DEF asked
  <1> DEFINE full == Derived(asked)
  <1>4. /\ full[w] \in Reply /\ full[w].view = asked[w].view /\ full[w].updates = asked[w].updates
        /\ full[w].status = asked[w].status
        /\ full[w].resolves <=> w \in Resolvable(asked)
        /\ asked[w] = NoReply /\ w \notin Open => full[w] = NoReply
    BY <1>3, DerivedIs
  <1> HIDE DEF full
  <1>5. full[w].status \in Completed => full[w].status = reply[w].status
    BY <1>2, <1>4 DEF PendingActions, Completed
  <1>6. MayResolve(full, w)
    <2> SUFFICES ASSUME full[w].resolves PROVE w \in Open /\ StatusAfter(full, w) # "needs_action"
                                                /\ ViewAfter(full, w) = "settled"
      BY DEF MayResolve
    <2>1. w \in Ready(asked)  BY <1>4, ResolvableIsReady
    <2>2. StatusAfter(full, w) = StatusAfter(asked, w)  BY <1>4 DEF StatusAfter
    <2>3. ViewAfter(full, w) = ViewAfter(asked, w)  BY <1>4 DEF ViewAfter
    <2> QED BY <2>1, <2>2, <2>3 DEF Ready
  <1>7. ASSUME w \notin Open PROVE full[w] = NoReply
    <2>1. reply[w] = NoReply  BY <1>7 DEF CallShape
    <2>2. w \notin asking
      BY <1>7 DEF CallShape, TypeOK, Ended, PendingActions
    <2> QED BY <1>2, <1>4, <1>7, <2>1, <2>2
  <1> QED BY <1>2, <1>4, <1>5, <1>6, <1>7 DEF full, asked

LEMMA DecideStep == IInv /\ Decide => IInv'
  <1> SUFFICES ASSUME IInv, Decide PROVE IInv'
    OBVIOUS
  <1> USE DEF IInv
  <1>1. PICK asking \in SUBSET (scope \union PendingActions) :
         LET full == Derived(Requested(reply, asking))
         IN  reply' = [w \in WorkItems |->
                         IF retained[w] # NoReply THEN retained[w] ELSE full[w]]
    BY DEF Decide
  <1>2. PICK full : full = Derived(Requested(reply, asking))  OBVIOUS
  <1>3. /\ phase = "decide" /\ phase' = "apply"
        /\ UNCHANGED <<item, hypothesis, dependency, arrived, stepTimeout, fetches, deferred, attempt, scope,
                       task, retained, heard, confirmed>>
    BY DEF Decide, store
  <1>4. \A w \in WorkItems :
          /\ full[w] \in Reply /\ full[w].view = reply[w].view /\ full[w].updates = reply[w].updates
          /\ full[w].status \in Completed => full[w].status = reply[w].status
          /\ MayResolve(full, w)
          /\ w \notin Open => full[w] = NoReply
    BY <1>2, <1>3, FullIs
  <1>5. reply' = [w \in WorkItems |-> IF Kept(w) THEN retained[w] ELSE full[w]]
    BY <1>1, <1>2 DEF Kept
  <1>6. \A w \in WorkItems : reply'[w] = IF Kept(w) THEN retained[w] ELSE full[w]
    BY <1>5
  <1>7. TypeOK'
    <2>1. reply' \in [WorkItems -> Reply]  BY <1>4, <1>5 DEF TypeOK
    <2> QED BY <1>3, <2>1 DEF TypeOK
  <1>8. CallShape'
    BY <1>3, <1>4, <1>6 DEF CallShape, Busy, Ended, Open, TypeOK
  <1>9. HeardInv'
    <2>1. ASSUME NEW w \in arrived PROVE heard[w] = ViewAfter(reply, w)'
      <3>1. w \in WorkItems  BY DEF TypeOK
      <3>2. CASE Kept(w)  BY <1>3, <1>6, <3>1, <3>2 DEF HeardInv, ViewAfter
      <3>3. CASE ~Kept(w) /\ w \in scope
        <4>1. Judged(w)  BY <1>3, <3>3 DEF Judged
        <4> QED BY <1>3, <1>4, <1>6, <3>1, <3>3, <4>1 DEF HeardInv, ViewAfter
      <3>4. CASE ~Kept(w) /\ w \notin scope
        <4>1. reply[w] = NoReply /\ heard[w] = hypothesis[w]
          BY <1>3, <3>1, <3>4 DEF CallShape, HeardInv
        <4> QED BY <1>3, <1>4, <1>6, <3>1, <3>4, <4>1, NoReplyIs DEF ViewAfter
      <3> QED BY <3>2, <3>3, <3>4
    <2>2. \A w \in arrived : Kept(w)' => heard[w] = ViewAfter(retained, w)'
      BY <1>3 DEF HeardInv, Kept, ViewAfter
    <2> QED BY <1>3, <2>1, <2>2 DEF HeardInv, Judged
  <1>10. ConfirmedInv'
    BY <1>3, <1>4, <1>6 DEF ConfirmedInv, AuditedBy
  <1>11. ResolveInv'
    <2>1. ASSUME NEW w \in WorkItems PROVE MayResolve(reply, w)' /\ MayResolve(retained, w)'
      BY <1>3, <1>4, <1>6 DEF ResolveInv, MayResolve, StatusAfter, ViewAfter, Open
    <2> QED BY <2>1 DEF ResolveInv
  <1>12. ResolvedInTimeIsComplete'
    BY <1>3 DEF ResolvedInTimeIsComplete, ResolvedIsComplete, Complete
  <1> QED BY <1>7, <1>8, <1>9, <1>10, <1>11, <1>12

LEMMA StoreStep == IInv /\ Store => IInv'
  <1> SUFFICES ASSUME IInv, Store PROVE IInv'
    OBVIOUS
  <1> USE DEF IInv
  <1>1. /\ phase = "apply" /\ phase' = "research" /\ arrived' = {} /\ EndCall
        /\ hypothesis' = [w \in WorkItems |-> ViewAfter(reply, w)]
        /\ dependency' = [w \in WorkItems |-> StatusAfter(reply, w)]
        /\ item' = [w \in WorkItems |-> ItemAfter(reply, w)]
        /\ UNCHANGED <<stepTimeout, fetches, deferred>>
    BY DEF Store
  <1>2. /\ hypothesis' \in [WorkItems -> Views]
        /\ dependency' \in [WorkItems -> Statuses \union {"none"}]
        /\ item' \in [WorkItems -> {"open", "resolved"}]
    <2>1. reply \in [WorkItems -> Reply]  BY DEF TypeOK
    <2> QED BY <1>1, <2>1, AfterTypes
  <1>3. ResolvedInTimeIsComplete'
    <2> SUFFICES ASSUME ~stepTimeout, NEW w \in WorkItems, ItemAfter(reply, w) = "resolved"
                 PROVE  ViewAfter(reply, w) = "settled" /\ StatusAfter(reply, w) # "needs_action"
      BY <1>1 DEF ResolvedInTimeIsComplete, ResolvedIsComplete, Complete
    <2>1. CASE reply[w].resolves  BY <1>1, <2>1 DEF ResolveInv, MayResolve
    <2>2. CASE ~reply[w].resolves
      <3>1. item[w] = "resolved"  BY <2>2 DEF ItemAfter
      <3>2. reply[w] = NoReply  BY <3>1 DEF CallShape, Open
      <3> QED BY <3>1, <3>2, AfterNothing DEF ResolvedInTimeIsComplete, ResolvedIsComplete, Complete
    <2> QED BY <2>1, <2>2
  <1> QED BY <1>1, <1>2, <1>3, AfterEnd DEF TypeOK

\* Keeping what was retained before loses nothing.
LEMMA RetryAllStep ==
  ASSUME IInv, phase = "apply", Retry(arrived, retained), UNCHANGED <<fetches, deferred>>
  PROVE  IInv'
  <1>1. retained \in [WorkItems -> Reply]  BY DEF IInv, TypeOK
  <1>2. \A w \in WorkItems : /\ retained[w].status \in Completed => confirmed[w] = retained[w].status
                             /\ MayResolve(retained, w)
                             /\ w \notin Open => retained[w] = NoReply
    BY DEF IInv, ConfirmedInv, ResolveInv, CallShape
  <1>3. \A w \in arrived : retained[w] # NoReply => heard[w] = ViewAfter(retained, w)
    BY DEF IInv, HeardInv, Kept
  <1> QED BY <1>1, <1>2, <1>3, AfterRetry

LEMMA RejectStep == IInv /\ Reject => IInv'
  <1> SUFFICES ASSUME IInv, Reject PROVE IInv'
    OBVIOUS
  <1>1. phase = "apply" /\ UNCHANGED <<fetches, deferred>>  BY DEF Reject
  <1>2. CASE Retry(arrived, retained)  BY <1>1, <1>2, RetryAllStep
  <1>3. ASSUME NEW asking,
               reply' = [w \in WorkItems |-> [reply[w] EXCEPT !.asks = @ /\ w \notin asking]],
               UNCHANGED <<store, phase, attempt, scope, task, retained, heard, confirmed>>
        PROVE  IInv'
    <2> USE DEF IInv
    <2>1. UNCHANGED <<item, hypothesis, dependency, arrived, stepTimeout, fetches, deferred, phase, attempt,
                      scope, task, retained, heard, confirmed>>
      BY <1>1, <1>3 DEF store
    <2>2. ASSUME NEW w \in WorkItems
          PROVE  /\ reply'[w] \in Reply /\ reply'[w].view = reply[w].view
                 /\ reply'[w].updates = reply[w].updates /\ reply'[w].status = reply[w].status
                 /\ reply'[w].resolves = reply[w].resolves
                 /\ reply[w] = NoReply => reply'[w] = NoReply
      <3>1. PICK q \in Reply : q = reply[w]  BY DEF TypeOK
      <3>2. PICK b \in BOOLEAN : b <=> (q.asks /\ w \notin asking)  BY DEF Reply
      <3>3. PICK r : r = [q EXCEPT !.asks = b]  OBVIOUS
      <3>4. reply'[w] = r
        <4>1. reply'[w] = [q EXCEPT !.asks = q.asks /\ w \notin asking]  BY <1>3, <3>1
        <4> QED BY <3>2, <3>3, <4>1
      <3>5. r = [view |-> q.view, updates |-> q.updates, status |-> q.status, asks |-> b,
                 resolves |-> q.resolves]
        BY <3>3 DEF Reply
      <3>6. r \in Reply  BY <3>5 DEF Reply
      <3>7. ASSUME q = NoReply PROVE r = NoReply
        <4>1. b = FALSE  BY <3>2, <3>7, NoReplyIs
        <4> QED BY <3>5, <3>7, <4>1 DEF NoReply
      <3> QED BY <3>1, <3>4, <3>5, <3>6, <3>7
    <2>3. reply' \in [WorkItems -> Reply]
      <3>1. PICK f : f = reply'  OBVIOUS
      <3>2. DOMAIN f = WorkItems /\ f = [v \in DOMAIN f |-> f[v]]  BY <1>3, <3>1
      <3> QED BY <2>2, <3>1, <3>2
    <2>4. TypeOK'  BY <2>1, <2>3 DEF TypeOK
    <2>5. CallShape'  BY <1>1, <2>1, <2>2 DEF CallShape, Busy, Ended, Open
    <2>6. HeardInv'
      BY <1>1, <2>1, <2>2 DEF HeardInv, Judged, Kept, ViewAfter, TypeOK
    <2>7. ConfirmedInv'  BY <1>1, <2>1, <2>2 DEF ConfirmedInv, AuditedBy
    <2>8. ResolveInv'
      BY <1>1, <2>1, <2>2 DEF ResolveInv, MayResolve, StatusAfter, ViewAfter, Open
    <2>9. ResolvedInTimeIsComplete'
      BY <2>1 DEF ResolvedInTimeIsComplete, ResolvedIsComplete, Complete
    <2> QED BY <2>4, <2>5, <2>6, <2>7, <2>8, <2>9
  <1> QED BY <1>2, <1>3 DEF Reject

LEMMA RepairStep == IInv /\ Repair => IInv'
  <1> SUFFICES ASSUME IInv, Repair PROVE IInv'
    OBVIOUS
  <1> DEFINE valid == {w \in Said(reply) : Valid(Only(reply, {w}))}
             invalid == Said(reply) \ valid
             keep == Only(reply, valid)
  <1>1. phase = "apply" /\ UNCHANGED <<fetches, deferred>>  BY DEF Repair
  <1>2. Retry(arrived, retained) \/ Retry(arrived \intersect invalid, keep)
    BY DEF Repair
  <1>3. CASE Retry(arrived, retained)  BY <1>1, <1>3, RetryAllStep
  <1>4. CASE Retry(arrived \intersect invalid, keep)
    <2>1. \A w \in WorkItems : keep[w] = IF w \in valid THEN reply[w] ELSE NoReply
      BY DEF Only
    <2>2. keep \in [WorkItems -> Reply]  BY NoReplyIs DEF Only, IInv, TypeOK
    <2>3. \A w \in WorkItems : w \in valid \/ w \in invalid \/ reply[w] = NoReply
      BY DEF Said
    <2> HIDE DEF keep, valid, invalid
    <2>4. \A w \in WorkItems : /\ keep[w].status \in Completed => confirmed[w] = keep[w].status
                               /\ MayResolve(keep, w)
                               /\ w \notin Open => keep[w] = NoReply
      <3> SUFFICES ASSUME NEW w \in WorkItems
                   PROVE  /\ keep[w].status \in Completed => confirmed[w] = keep[w].status
                          /\ MayResolve(keep, w)
                          /\ w \notin Open => keep[w] = NoReply
        OBVIOUS
      <3>1. CASE keep[w] = NoReply  BY <3>1, NoReplyIs DEF MayResolve, Completed
      <3>2. CASE keep[w] = reply[w]
        BY <1>1, <3>2 DEF IInv, ConfirmedInv, AuditedBy, ResolveInv, MayResolve, StatusAfter, ViewAfter,
                          CallShape
      <3> QED BY <2>1, <3>1, <3>2
    <2>5. \A w \in arrived :
            /\ keep[w] # NoReply => heard[w] = ViewAfter(keep, w)
            /\ keep[w] = NoReply /\ w \notin arrived \intersect invalid => heard[w] = hypothesis[w]
      <3> SUFFICES ASSUME NEW w \in arrived
                   PROVE  /\ keep[w] # NoReply => heard[w] = ViewAfter(keep, w)
                          /\ keep[w] = NoReply /\ w \notin invalid => heard[w] = hypothesis[w]
        OBVIOUS
      <3>1. w \in WorkItems /\ heard[w] = ViewAfter(reply, w)
        BY <1>1 DEF IInv, TypeOK, HeardInv
      <3>2. keep[w] # NoReply => keep[w] = reply[w]  BY <2>1, <3>1
      <3>3. keep[w] = NoReply /\ w \notin invalid => reply[w] = NoReply  BY <2>1, <2>3, <3>1
      <3> QED BY <3>1, <3>2, <3>3, AfterNothing DEF ViewAfter
    <2>6. arrived \intersect invalid \in SUBSET arrived  OBVIOUS
    <2>7. PICK again \in SUBSET arrived : again = arrived \intersect invalid  BY <2>6
    <2> QED BY <1>1, <1>4, <2>2, <2>4, <2>5, <2>7, AfterRetry
  <1> QED BY <1>2, <1>3, <1>4

LEMMA EndsStep == IInv /\ (Close \/ Finalize) => IInv'
  <1> SUFFICES ASSUME IInv, Close \/ Finalize PROVE IInv'
    OBVIOUS
  <1> USE DEF IInv
  <1>1. /\ phase \in {"research", "closing"} /\ phase' \in {"closing", "answered", "failed"}
        /\ UNCHANGED <<item, hypothesis, dependency, arrived, stepTimeout, fetches, deferred, attempt, scope,
                       task, reply, retained, heard, confirmed>>
    BY DEF Close, Finalize, store, call
  <1>2. TypeOK'  BY <1>1 DEF TypeOK
  <1>3. CallShape'  BY <1>1 DEF CallShape, Busy, Ended, Open
  <1>4. HeardInv'  BY <1>1 DEF HeardInv, Judged, Kept, ViewAfter, TypeOK
  <1>5. ConfirmedInv' /\ ResolveInv'
    BY <1>1 DEF ConfirmedInv, ResolveInv, AuditedBy, MayResolve, StatusAfter, ViewAfter, Open
  <1>6. ResolvedInTimeIsComplete'
    BY <1>1 DEF ResolvedInTimeIsComplete, ResolvedIsComplete, Complete
  <1> QED BY <1>2, <1>3, <1>4, <1>5, <1>6

LEMMA StutterStep == IInv /\ UNCHANGED vars => IInv'
  BY DEF vars, store, call, IInv, TypeOK, CallShape, Busy, Ended, HeardInv, Kept, Judged, ConfirmedInv,
         AuditedBy, ResolveInv, MayResolve, ViewAfter, StatusAfter, Open, ResolvedInTimeIsComplete,
         ResolvedIsComplete, Complete

LEMMA IStep == IInv /\ [Next]_vars => IInv'
  BY FetchStep, CallStep, SessionStep, BreakStep, AuditStep, CollectSessionsStep, CollectAuditsStep,
     DecideStep, StoreStep, RejectStep, RepairStep, EndsStep, StutterStep
  DEF Next, Futures

LEMMA Inductive == Spec => []IInv
  BY InitIInv, IStep, PTL DEF Spec

(***************************************************************************)
(* The theorems.                                                           *)
(***************************************************************************)

\* A call has sessions for WorkItems with new texts only, and its attempts are
\* bounded by MAX_SOLVER_DECISION_ATTEMPTS.
THEOREM TypeCorrect == Spec => []TypeOK
  BY Inductive, PTL DEF IInv

\* While no call ran out of time, a closed WorkItem has nothing left to find
\* (_derive_observation_work_item_updates closes no WorkItem too early).
THEOREM ResolvedInTime == Spec => []ResolvedInTimeIsComplete
  BY Inductive, PTL DEF IInv

\* Only the loop's store writes a dependency decision.
LEMMA StoreWrites ==
  ASSUME IInv, [Next]_vars
  PROVE  \/ Store
         \/ UNCHANGED dependency /\ (arrived' = {} => arrived = {})
  <1>1. ASSUME NEW w \in WorkItems, Session(w) \/ Break(w) \/ Audit(w)
        PROVE  UNCHANGED <<dependency, arrived>>
    BY <1>1 DEF Session, Break, Audit, store
  <1>2. CASE Fetch  BY <1>2 DEF Fetch
  <1>3. CASE Call  BY <1>3 DEF Call, store
  <1>4. CASE Fail \/ \E d : Checkpoint(d)
    BY <1>4 DEF Fail, Checkpoint, store
  <1>5. CASE CollectSessions  BY <1>4, <1>5 DEF CollectSessions, store
  <1>6. CASE CollectAudits  BY <1>4, <1>6 DEF CollectAudits, store
  <1>7. CASE Decide  BY <1>7 DEF Decide, store
  <1>8. CASE \E again, keep : Retry(again, keep)  BY <1>4, <1>8 DEF Retry, store
  <1>9. CASE Reject  BY <1>8, <1>9 DEF Reject, store
  <1>10. CASE Repair  BY <1>8, <1>10 DEF Repair
  <1>11. CASE Close \/ Finalize \/ UNCHANGED vars  BY <1>11 DEF Close, Finalize, vars, store
  <1> QED BY <1>1, <1>2, <1>3, <1>5, <1>6, <1>7, <1>9, <1>10, <1>11 DEF Next, Futures

\* A lower norm is recorded as not needed or as confirmed only when an audit of
\* these texts came to the same result, through every repair of the decision
\* (_audit_dependency_decisions and retained_observation_decisions).
THEOREM AuditSettles == Spec => SettledByAudit
  <1>1. IInv /\ [Next]_vars
          => [\A w \in WorkItems :
                dependency'[w] # dependency[w] /\ dependency'[w] \in Completed
                  => confirmed[w] = dependency'[w]]_vars
    <2> SUFFICES ASSUME IInv, [Next]_vars, NEW w \in WorkItems,
                        dependency'[w] # dependency[w], dependency'[w] \in Completed
                 PROVE  confirmed[w] = dependency'[w]
      OBVIOUS
    <2>1. Store  BY StoreWrites
    <2>2. dependency'[w] = StatusAfter(reply, w) /\ phase = "apply"  BY <2>1 DEF Store
    <2>3. dependency'[w] = reply[w].status  BY <2>2 DEF StatusAfter
    <2> QED BY <2>2, <2>3 DEF IInv, ConfirmedInv, AuditedBy
  <1> QED BY Inductive, <1>1, PTL DEF Spec, SettledByAudit

\* Texts count as integrated only together with what a session said of them,
\* however often the other parts of the decision had to be repaired.
THEOREM AssessmentsStay == Spec => AssessmentsKept
  <1>1. IInv /\ [Next]_vars
          => [arrived' = {} => \A w \in arrived : hypothesis'[w] = heard[w]]_vars
    <2> SUFFICES ASSUME IInv, [Next]_vars, arrived' = {}, NEW w \in arrived
                 PROVE  hypothesis'[w] = heard[w]
      OBVIOUS
    <2>1. Store  BY StoreWrites
    <2>2. w \in WorkItems  BY DEF IInv, TypeOK
    <2>3. hypothesis'[w] = ViewAfter(reply, w) /\ phase = "apply"  BY <2>1, <2>2 DEF Store
    <2> QED BY <2>3 DEF IInv, HeardInv
  <1> QED BY Inductive, <1>1, PTL DEF Spec, AssessmentsKept
=============================================================================
