----------------------- MODULE ResourceLifecycle_proofs -----------------------
(***************************************************************************)
(* Theorems about ResourceLifecycle, for every set of resources, workers   *)
(* and requests, every hierarchy, and every bound.                         *)
(***************************************************************************)
EXTENDS ResourceLifecycle, FiniteSetTheorems, TLAPS

-----------------------------------------------------------------------------
(* The operators of the lifecycle map rows to rows.                        *)

\* The worker-driven handlers of entity_state_handler.py return a row.
LEMMA WorkerHandlersType ==
    ASSUME NEW e \in Row
    PROVE  /\ MakeInProgress(e) \in Row
           /\ MakeRetry(e) \in Row
           /\ MakeFailed(e) \in Row
           /\ MakeDone(e) \in Row
<1>1. e.status \in ModelStatus /\ e.state \in ModelState
  BY DEF Row
<1>2. MakeInProgress(e) \in Row /\ MakeRetry(e) \in Row /\ MakeFailed(e) \in Row
  BY <1>1 DEF MakeInProgress, MakeRetry, MakeFailed, At, Row, ModelStatus
<1>3. MakeDone(e) \in Row
  BY <1>1 DEF MakeDone, At, Row, ModelStatus, ModelState
<1> QED
  BY <1>2, <1>3

\* The user-driven handlers of entity_state_handler.py return a row.
LEMMA UserHandlersType ==
    ASSUME NEW e \in Row, NEW flag \in BOOLEAN
    PROVE  /\ RejectEntity(e) \in Row
           /\ ApproveEntity(e, flag) \in Row
           /\ DestroyEntity(e, flag) \in Row
           /\ ExecuteEntity(e) \in Row
           /\ RecreateEntity(e, flag) \in Row
<1>1. e.status \in ModelStatus /\ e.state \in ModelState
  BY DEF Row
<1>2. RejectEntity(e) \in Row /\ ExecuteEntity(e) \in Row
  BY <1>1 DEF RejectEntity, ExecuteEntity, At, Row, ModelStatus, ModelState
<1>3. ApproveEntity(e, flag) \in Row
  BY <1>1 DEF ApproveEntity, At, Row, ModelStatus, ModelState
<1>4. DestroyEntity(e, flag) \in Row /\ RecreateEntity(e, flag) \in Row
  BY <1>1 DEF DestroyEntity, RecreateEntity, Gate, At, Row, ModelStatus, ModelState
<1> QED
  BY <1>2, <1>3, <1>4

\* A column-wise merge of rows is a row.
LEMMA MergedType ==
    ASSUME NEW current \in Row, NEW old \in Row, NEW new \in Row
    PROVE  Merged(current, old, new) \in Row
  BY DEF Merged, Row

\* What a request leaves in memory is a row.
LEMMA RowAfterType ==
    ASSUME NEW c \in OpenRequest
    PROVE  RowAfter(c) \in Row
<1>1. c.old \in Row
  BY DEF OpenRequest
<1>2. (c.res \in Abstract) \in BOOLEAN /\ ApprovalFlow \in BOOLEAN
  BY FlagsAssumption
<1> QED
  BY <1>1, <1>2, UserHandlersType DEF RowAfter

\* No user request turns a row IN_PROGRESS: if it changes the status at all,
\* then to another one.
LEMMA RequestsDoNotStart ==
    ASSUME NEW c \in OpenRequest
    PROVE  RowAfter(c).status = c.old.status \/ RowAfter(c).status # "in_progress"
  BY DEF RowAfter, ApproveEntity, RejectEntity, DestroyEntity, RecreateEntity,
         ExecuteEntity, Gate, At

-----------------------------------------------------------------------------
(* Type correctness.                                                       *)

\* An empty installation is well typed.
LEMMA InitTypeOK == Init => TypeOK
<1> SUFFICES ASSUME Init PROVE TypeOK
  OBVIOUS
<1>1. At("ready", "provision") \in Row
  BY DEF At, Row, ModelStatus, ModelState
<1>2. 0 \in 0 .. MaxCopies /\ 0 \in 0 .. MaxFaults
  BY BoundsAssumption
<1> QED
  BY <1>1, <1>2 DEF Init, TypeOK, Temp, Infra

\* Writing new values for what tofu applies keeps the types.
LEMMA ReconfigureType ==
    ASSUME TypeOK, NEW r \in Resource, Reconfigure(r)
    PROVE  /\ infra' \in [Resource -> Infra]
           /\ worker' \in [Worker -> {Idle} \cup Busy]
<1>1. infra' \in [Resource -> Infra]
  BY DEF TypeOK, Reconfigure, Infra
<1>2. \A w \in Worker : worker[w] # Idle =>
        [worker[w] EXCEPT !.fresh = FALSE] \in Busy
  BY DEF TypeOK, Busy
<1>3. worker' \in [Worker -> {Idle} \cup Busy]
  BY <1>2 DEF TypeOK, Reconfigure
<1> QED
  BY <1>1, <1>3

\* Publishing a message keeps the queue bounded.
LEMMA PublishType ==
    ASSUME TypeOK, NEW m, Publish(m)
    PROVE  queue' \in [Message -> 0 .. MaxCopies]
<1>1. CASE m \in Message
  <2>1. queue[m] \in 0 .. MaxCopies /\ queue[m] < MaxCopies
    BY <1>1 DEF TypeOK, Publish
  <2>2. queue[m] + 1 \in 0 .. MaxCopies
    BY <2>1, BoundsAssumption
  <2> QED
    BY <2>2 DEF TypeOK, Publish
<1>2. CASE m \notin Message
  BY <1>2 DEF TypeOK, Publish
<1> QED
  BY <1>1, <1>2

\* Merging an edit into the pending one gives a draft.
LEMMA MergedDraftType ==
    ASSUME NEW t \in Temp, NEW edit \in Draft, NEW draft \in MergedDraft(t, edit)
    PROVE  draft \in Draft
<1>1. UNION t \subseteq {"variables", "settings"}
  <2>1. CASE t = {}
    BY <2>1
  <2>2. ASSUME NEW d \in Draft, t = {d} PROVE UNION t \subseteq {"variables", "settings"}
    BY <2>2 DEF Draft
  <2> QED
    BY <2>1, <2>2 DEF Temp
<1>2. PICK kept \in SUBSET UNION t : draft = edit \cup kept
  BY DEF MergedDraft
<1> QED
  BY <1>1, <1>2 DEF Draft

\* A request that ends by dropping a draft leaves the others well typed.
LEMMA EndDroppingType ==
    ASSUME TypeOK, NEW q \in Request, NEW r \in Resource, EndDropping(q, r)
    PROVE  rq' \in [Request -> {NoRequest} \cup OpenRequest]
<1>1. \A p \in Request : rq[p] # NoRequest =>
        [rq[p] EXCEPT !.held = FALSE] \in OpenRequest
  BY DEF TypeOK, OpenRequest
<1> QED
  BY <1>1 DEF TypeOK, EndDropping

\* Faults stay within their bound.
LEMMA FaultType ==
    ASSUME TypeOK, NEW kind, Fault(kind)
    PROVE  faults' \in 0 .. MaxFaults
  BY BoundsAssumption DEF TypeOK, Fault

\* Every step of a user request keeps the types.
LEMMA UserStepType ==
    ASSUME TypeOK, NEW q \in Request, UserStep(q)
    PROVE  TypeOK'
<1> USE DEF TypeOK
<1>1. ASSUME NEW act \in Offered, NEW r \in Resource,
             NEW draft \in Edits \cup {{}}, Begin(q, act, r, draft)
      PROVE  TypeOK'
  <2>1. act \in UserAction /\ draft \in Draft
    BY FlagsAssumption DEF Draft
  <2>2. Children(r) \cup LiveParents(r) \subseteq Resource
    BY DEF Children, LiveParents
  <2>3. rq'[q] \in OpenRequest
    BY <1>1, <2>1, <2>2 DEF Begin, OpenRequest
  <2> QED
    BY <1>1, <2>3 DEF Begin
<1>2. CASE rq[q] \in OpenRequest
  <2> DEFINE c == rq[q]
             r == rq[q].res
  <2>1. r \in Resource /\ c.draft \in Draft /\ c.old \in Row /\ c.oldTemp \in Temp
    BY <1>2 DEF OpenRequest
  <2>2. CASE CommitCreate(q)
    <3>1. At(Gate(ApprovalFlow), "provision") \in Row
      BY DEF At, Gate, Row, ModelStatus, ModelState
    <3> QED
      BY <2>1, <2>2, <3>1 DEF CommitCreate
  <2>3. CASE CommitEdit(q)
    <3>1. infra' \in [Resource -> Infra] /\ worker' \in [Worker -> {Idle} \cup Busy]
      <4>1. CASE Reconfigures(c)
        BY <2>1, <2>3, <4>1, ReconfigureType DEF CommitEdit
      <4>2. CASE ~Reconfigures(c)
        BY <2>3, <4>2 DEF CommitEdit
      <4> QED
        BY <4>1, <4>2
    <3>2. temp' \in [Resource -> Temp]
      <4>1. CASE UNCHANGED temp
        BY <4>1
      <4>2. ASSUME NEW draft \in MergedDraft(c.oldTemp, c.draft),
                   temp' = [temp EXCEPT ![r] = {draft}]
            PROVE  temp' \in [Resource -> Temp]
        <5>1. {draft} \in Temp
          BY <2>1, MergedDraftType DEF Temp
        <5> QED
          BY <4>2, <5>1
      <4> QED
        BY <2>3, <4>1, <4>2 DEF CommitEdit
    <3> QED
      BY <2>3, <3>1, <3>2 DEF CommitEdit
  <2>4. CASE CommitDelete(q)
    <3>1. rq' \in [Request -> {NoRequest} \cup OpenRequest]
      BY <2>1, <2>4, EndDroppingType DEF CommitDelete
    <3>2. temp' \in [Resource -> Temp]
      BY <2>4 DEF CommitDelete, Temp
    <3> QED
      BY <2>1, <2>4, <3>1, <3>2 DEF CommitDelete
  <2>5. CASE CommitAction(q)
    <3>1. infra' \in [Resource -> Infra] /\ worker' \in [Worker -> {Idle} \cup Busy]
      <4>1. CASE Reconfigures(c)
        BY <2>1, <2>5, <4>1, ReconfigureType DEF CommitAction
      <4>2. CASE ~Reconfigures(c)
        BY <2>5, <4>2 DEF CommitAction
      <4> QED
        BY <4>1, <4>2
    <3>2. row' \in [Resource -> Row]
      <4>1. Merged(row[r], c.old, RowAfter(c)) \in Row
        BY <1>2, <2>1, RowAfterType, MergedType
      <4> QED
        BY <2>5, <4>1 DEF CommitAction
    <3>3. /\ temp' \in [Resource -> Temp]
          /\ rq' \in [Request -> {NoRequest} \cup OpenRequest]
      <4>1. CASE DropsDraft(c) /\ c.held
        BY <2>1, <2>5, <4>1, EndDroppingType DEF CommitAction, Temp
      <4>2. CASE ~(DropsDraft(c) /\ c.held)
        BY <2>5, <4>2 DEF CommitAction
      <4> QED
        BY <4>1, <4>2
    <3>4. queue' \in [Message -> 0 .. MaxCopies] /\ faults' \in 0 .. MaxFaults
      <4>1. CASE \E action \in Sends(c) : Publish(Task(r, action)) /\ UNCHANGED faults
        BY <4>1, PublishType
      <4>2. CASE Fault("lost") /\ UNCHANGED queue
        BY <4>2, FaultType
      <4>3. CASE UNCHANGED <<queue, faults>>
        BY <4>3
      <4> QED
        BY <2>5, <4>1, <4>2, <4>3 DEF CommitAction, SendOrLose
    <3>5. abandoned' \subseteq Resource /\ awaiting' \subseteq Resource
      BY <2>1, <2>5 DEF CommitAction
    <3> QED
      BY <2>5, <3>1, <3>2, <3>3, <3>4, <3>5 DEF CommitAction
  <2>6. CASE Abort(q)
    BY <2>6 DEF Abort
  <2>7. CASE AbortAndSend(q)
    <3>1. queue' \in [Message -> 0 .. MaxCopies] /\ faults' \in 0 .. MaxFaults
      BY <2>7, PublishType, FaultType DEF AbortAndSend
    <3> QED
      BY <2>7, <3>1 DEF AbortAndSend
  <2> QED
    BY <1>1, <2>2, <2>3, <2>4, <2>5, <2>6, <2>7 DEF UserStep
<1>3. CASE rq[q] = NoRequest
  BY <1>1, <1>3 DEF UserStep, NoRequest, CommitCreate, CommitEdit, CommitDelete,
                    CommitAction, Abort, AbortAndSend, Sends
<1> QED
  BY <1>2, <1>3

\* Taking a message from the queue keeps it within bounds.
LEMMA ConsumeType ==
    ASSUME TypeOK, NEW m \in Message, queue[m] > 0, Consume(m)
    PROVE  queue' \in [Message -> 0 .. MaxCopies]
<1>1. queue[m] \in 0 .. MaxCopies
  BY DEF TypeOK
<1>2. queue[m] - 1 \in 0 .. MaxCopies
  BY <1>1, BoundsAssumption
<1> QED
  BY <1>2 DEF TypeOK, Consume

\* A worker that takes a task holds a message and a copy of a row.
LEMMA HoldType ==
    ASSUME TypeOK, NEW w \in Worker, NEW m \in Message,
           NEW pc \in {"loaded", "failing"}, Hold(w, m, pc)
    PROVE  worker' \in [Worker -> {Idle} \cup Busy]
<1>1. m.res \in Resource
  BY DEF Message
<1>2. row[m.res] \in Row
  BY <1>1 DEF TypeOK
<1>3. [pc |-> pc, msg |-> m, mem |-> row[m.res],
       op |-> IF row[m.res].state = "destroy" THEN "destroy" ELSE "apply",
       fresh |-> TRUE] \in Busy
  BY <1>2 DEF Busy
<1> QED
  BY <1>3 DEF TypeOK, Hold

\* What a busy worker holds.
LEMMA BusyType ==
    ASSUME TypeOK, NEW w \in Worker, worker[w].pc # "idle"
    PROVE  /\ worker[w] \in Busy
           /\ worker[w].msg \in Message
           /\ worker[w].msg.res \in Resource
           /\ worker[w].mem \in Row
<1>1. worker[w] \in {Idle} \cup Busy
  BY DEF TypeOK
<1>2. worker[w] # Idle
  BY DEF Idle
<1>3. worker[w] \in Busy
  BY <1>1, <1>2
<1> QED
  BY <1>3 DEF Busy, Message

\* Ending a run keeps the types of what it sets.
LEMMA AcknowledgeType ==
    ASSUME TypeOK, NEW w \in Worker, Acknowledge(w)
    PROVE  /\ worker' \in [Worker -> {Idle} \cup Busy]
           /\ queue' \in [Message -> 0 .. MaxCopies]
           /\ faults' \in 0 .. MaxFaults
<1>1. worker' \in [Worker -> {Idle} \cup Busy]
  BY DEF TypeOK, Acknowledge
<1>2. CASE UNCHANGED <<queue, faults>>
  BY <1>1, <1>2 DEF TypeOK
<1>3. CASE Fault("unacked") /\ Publish(worker[w].msg)
  BY <1>1, <1>3, FaultType, PublishType
<1> QED
  BY <1>2, <1>3 DEF Acknowledge

\* Taking a task keeps the types.
LEMMA TakeType ==
    ASSUME TypeOK, NEW w \in Worker, NEW m \in Message, Take(w, m)
    PROVE  TypeOK'
<1> USE DEF TypeOK
<1>1. m.res \in Resource /\ m.retries \in 0 .. MaxRetries
  BY DEF Message
<1>2. CASE Discard(w, m)
  BY <1>2, ConsumeType DEF Discard, Receive
<1>3. CASE DraftMissing(w, m)
  BY <1>3, ConsumeType, HoldType DEF DraftMissing, Receive
<1>4. CASE Postpone(w, m)
  <2> DEFINE again == [m EXCEPT !.retries = @ + 1]
  <2>1. again \in Message /\ again # m
    BY <1>1, <1>4, BoundsAssumption DEF Postpone, Message
  <2>2. queue[m] - 1 \in 0 .. MaxCopies /\ queue[again] + 1 \in 0 .. MaxCopies
    BY <1>4, <2>1, BoundsAssumption DEF Postpone, NotReady, Receive
  <2>3. queue' \in [Message -> 0 .. MaxCopies]
    BY <1>4, <2>2 DEF Postpone
  <2>4. row' \in [Resource -> Row]
    BY <1>1, <1>4, WorkerHandlersType DEF Postpone
  <2> QED
    BY <1>4, <2>3, <2>4 DEF Postpone
<1>5. CASE GiveUp(w, m)
  BY <1>5, ConsumeType, HoldType DEF GiveUp, NotReady, Receive
<1>6. CASE Load(w, m)
  BY <1>6, ConsumeType, HoldType DEF Load, Receive
<1>7. CASE PreviewFails(w, m)
  BY <1>7, ConsumeType, HoldType, FaultType DEF PreviewFails, Receive
<1> QED
  BY <1>2, <1>3, <1>4, <1>5, <1>6, <1>7 DEF Take

\* A run that was interrupted leaves a piece of infrastructure, or what was there.
LEMMA InterruptedType ==
    ASSUME TypeOK, NEW w \in Worker, Interrupted(w)
    PROVE  infra' \in [Resource -> Infra]
  BY DEF TypeOK, Interrupted, Infra

\* Every step of a worker keeps the types.
LEMMA WorkerStepType ==
    ASSUME TypeOK, NEW w \in Worker, WorkerStep(w)
    PROVE  TypeOK'
<1> USE DEF TypeOK
<1> DEFINE r == worker[w].msg.res
           e == worker[w].mem
<1>1. ASSUME NEW m \in Message, Take(w, m) PROVE TypeOK'
  BY <1>1, TakeType
<1>2. CASE worker[w].pc # "idle"
  <2>1. worker[w] \in Busy /\ worker[w].msg \in Message /\ r \in Resource /\ e \in Row
    BY <1>2, BusyType
  <2>2. ASSUME NEW new \in Row, Write(w, new) PROVE row' \in [Resource -> Row]
    <3>1. Merged(row[r], e, new) \in Row
      BY <2>1, MergedType
    <3> QED
      BY <2>2, <3>1 DEF Write
  <2>3. CASE Start(w)
    <3>1. row' \in [Resource -> Row]
      BY <2>1, <2>2, <2>3, WorkerHandlersType DEF Start
    <3>2. worker'[w] \in Busy
      BY <2>1, <2>3, WorkerHandlersType DEF Start, Busy
    <3> QED
      BY <2>3, <3>1, <3>2 DEF Start
  <2>4. CASE Refresh(w)
    <3>1. worker'[w] \in Busy
      BY <2>1, <2>4 DEF Refresh, Busy
    <3> QED
      BY <2>4, <3>1 DEF Refresh
  <2>5. CASE Apply(w)
    <3>1. worker'[w] \in Busy
      BY <2>1, <2>5 DEF Apply, Busy
    <3>2. infra' \in [Resource -> Infra]
      BY <2>5 DEF Apply, Infra
    <3> QED
      BY <2>5, <3>1, <3>2 DEF Apply
  <2>6. CASE ApplyFails(w)
    <3>1. worker'[w] \in Busy
      BY <2>1, <2>6 DEF ApplyFails, Busy
    <3>2. infra' \in [Resource -> Infra]
      BY <2>6, InterruptedType DEF ApplyFails
    <3> QED
      BY <2>6, <3>1, <3>2 DEF ApplyFails
  <2>7. CASE Done(w)
    <3>1. row' \in [Resource -> Row]
      BY <2>1, <2>2, <2>7, WorkerHandlersType DEF Done
    <3>2. CASE Acknowledge(w)
      BY <2>7, <3>1, <3>2, AcknowledgeType DEF Done
    <3>3. CASE Fault("notify") /\ UNCHANGED queue /\ ~ Acknowledge(w)
      <4>1. worker' = [worker EXCEPT ![w].pc = "finished", ![w].mem = MakeDone(@)]
        BY <2>7, <3>3 DEF Done
      <4>2. worker'[w] \in Busy
        BY <2>1, <4>1, WorkerHandlersType DEF Busy
      <4> QED
        BY <2>7, <3>1, <3>3, <4>1, <4>2, FaultType DEF Done
    <3> QED
      BY <2>7, <3>2, <3>3 DEF Done
  <2>8. CASE Fail(w)
    <3>1. row' \in [Resource -> Row]
      BY <2>1, <2>2, <2>8, WorkerHandlersType DEF Fail
    <3> QED
      BY <2>1, <2>8, <3>1, AcknowledgeType DEF Fail
  <2>9. CASE RowVanished(w)
    BY <2>9 DEF RowVanished
  <2>10. CASE CommitFails(w)
    BY <2>1, <2>10, FaultType DEF CommitFails
  <2>11. CASE Crash(w)
    BY <2>1, <2>11, PublishType, FaultType, InterruptedType DEF Crash
  <2> QED
    BY <1>1, <2>3, <2>4, <2>5, <2>6, <2>7, <2>8, <2>9, <2>10, <2>11
    DEF WorkerStep, Proceed
<1>3. CASE worker[w].pc = "idle"
  <2>1. worker[w] = Idle
    BY <1>3 DEF Busy
  <2> QED
    BY <1>1, <1>3, <2>1 DEF WorkerStep, Proceed, Start, Refresh, Apply, ApplyFails,
                            Done, Fail, RowVanished, CommitFails, Crash
<1> QED
  BY <1>2, <1>3

\* No step of a request or of a worker breaks a type.
LEMMA NextTypeOK == TypeOK /\ [Next]_vars => TypeOK'
<1> SUFFICES ASSUME TypeOK, [Next]_vars PROVE TypeOK'
  OBVIOUS
<1>1. CASE UNCHANGED vars
  BY <1>1 DEF vars, TypeOK
<1>2. CASE Next
  BY <1>2, UserStepType, WorkerStepType DEF Next
<1> QED
  BY <1>1, <1>2

\* Rows, drafts, messages and what requests and workers hold in memory keep
\* their types, for every instance.
THEOREM TypeCorrect == Spec => []TypeOK
  BY InitTypeOK, NextTypeOK, PTL DEF Spec

-----------------------------------------------------------------------------
(* A row IN_PROGRESS has an owner.                                         *)
(*                                                                         *)
(* Ownership moves with the steps of one worker, so InProgressHasOwner is  *)
(* inductive once a loaded task is known to be one that make_in_progress   *)
(* will mark: otherwise Start could leave the row to nobody.               *)

\* In an empty installation no row is IN_PROGRESS and no task is loaded.
LEMMA InitOwner == Init => OwnerInv
<1> SUFFICES ASSUME Init PROVE InProgressHasOwner /\ LoadedIsRunnable
  BY InitTypeOK DEF OwnerInv
<1> QED
  BY DEF Init, InProgressHasOwner, LoadedIsRunnable, Idle

\* New configuration values change nothing of who owns what.
LEMMA ReconfigureOwns ==
    ASSUME TypeOK, NEW r \in Resource, Reconfigure(r)
    PROVE  /\ \A v \in Worker, s \in Resource : Owns(v, s) => Owns(v, s)'
           /\ LoadedIsRunnable => LoadedIsRunnable'
<1>1. ASSUME NEW v \in Worker
      PROVE  /\ worker'[v].pc = worker[v].pc
             /\ worker[v].pc # "idle" => /\ worker'[v].msg = worker[v].msg
                                         /\ worker'[v].mem = worker[v].mem
  <2>1. CASE worker[v].pc = "idle"
    <3>1. worker[v] = Idle
      BY <2>1 DEF TypeOK, Busy
    <3> QED
      BY <3>1 DEF Reconfigure
  <2>2. CASE worker[v].pc # "idle"
    <3>1. worker[v] \in Busy
      BY <2>2, BusyType
    <3> QED
      BY <3>1 DEF Reconfigure, Busy
  <2> QED
    BY <2>1, <2>2
<1>2. ASSUME NEW v \in Worker, NEW s \in Resource, Owns(v, s)
      PROVE  Owns(v, s)'
  BY <1>1, <1>2 DEF Owns, Idle
<1>3. ASSUME LoadedIsRunnable, NEW v \in Worker, worker'[v].pc = "loaded"
      PROVE  worker'[v].mem.status \in Runnable
  BY <1>1, <1>3 DEF LoadedIsRunnable
<1> QED
  BY <1>2, <1>3 DEF LoadedIsRunnable

\* The steps of a request take no owner away.
LEMMA UserStepOwner ==
    ASSUME OwnerInv, NEW q \in Request, UserStep(q)
    PROVE  InProgressHasOwner' /\ LoadedIsRunnable'
<1> USE DEF OwnerInv
<1>1. CASE \/ \E act \in Offered, r \in Resource, draft \in Edits \cup {{}} :
                 Begin(q, act, r, draft)
           \/ Abort(q) \/ AbortAndSend(q)
  BY <1>1 DEF Begin, Abort, AbortAndSend, InProgressHasOwner, LoadedIsRunnable, Owns
<1>2. CASE rq[q] \in OpenRequest
  <2> DEFINE c == rq[q]
             r == rq[q].res
  <2>1. r \in Resource /\ c.old \in Row
    BY <1>2 DEF OpenRequest
  <2>2. CASE CommitCreate(q)
    <3>1. LoadedIsRunnable'
      BY <2>2 DEF CommitCreate, LoadedIsRunnable
    <3>2. row'[r].status # "in_progress"
      BY <2>1, <2>2 DEF CommitCreate, At, Gate, TypeOK
    <3>3. \A s \in live' : s # r => s \in live /\ row'[s] = row[s]
      BY <2>2 DEF CommitCreate, TypeOK
    <3>4. abandoned' = abandoned /\ \A v \in Worker, s \in Resource : Owns(v, s) => Owns(v, s)'
      BY <2>2 DEF CommitCreate, Owns
    <3> QED
      BY <3>1, <3>2, <3>3, <3>4 DEF InProgressHasOwner, TypeOK
  <2>3. CASE CommitEdit(q)
    <3>1. /\ \A v \in Worker, s \in Resource : Owns(v, s) => Owns(v, s)'
          /\ LoadedIsRunnable'
      <4>1. CASE Reconfigures(c)
        BY <2>1, <2>3, <4>1, ReconfigureOwns DEF CommitEdit
      <4>2. CASE ~Reconfigures(c)
        BY <2>3, <4>2 DEF CommitEdit, Owns, LoadedIsRunnable
      <4> QED
        BY <4>1, <4>2
    <3> QED
      BY <2>3, <3>1 DEF CommitEdit, InProgressHasOwner, TypeOK
  <2>4. CASE CommitDelete(q)
    <3>1. LoadedIsRunnable'
      BY <2>4 DEF CommitDelete, LoadedIsRunnable
    <3>2. \A v \in Worker, s \in Resource : Owns(v, s) => Owns(v, s)'
      BY <2>4 DEF CommitDelete, Owns
    <3> QED
      BY <2>4, <3>1, <3>2 DEF CommitDelete, InProgressHasOwner, TypeOK
  <2>5. CASE CommitAction(q)
    <3>1. /\ \A v \in Worker, s \in Resource : Owns(v, s) => Owns(v, s)'
          /\ LoadedIsRunnable'
      <4>1. CASE Reconfigures(c)
        BY <2>1, <2>5, <4>1, ReconfigureOwns DEF CommitAction
      <4>2. CASE ~Reconfigures(c)
        BY <2>5, <4>2 DEF CommitAction, Owns, LoadedIsRunnable
      <4> QED
        BY <4>1, <4>2
    <3>2. row'[r].status = "in_progress" => row[r].status = "in_progress"
      <4>1. row'[r] = Merged(row[r], c.old, RowAfter(c))
        BY <2>1, <2>5 DEF CommitAction, TypeOK
      <4> QED
        BY <1>2, <4>1, RequestsDoNotStart DEF Merged
    <3>3. \A s \in live : s # r => row'[s] = row[s] /\ (s \in abandoned => s \in abandoned')
      BY <2>5 DEF CommitAction, TypeOK
    <3>4. row'[r].status = "in_progress" => (r \in abandoned => r \in abandoned')
      BY <2>5 DEF CommitAction
    <3>5. live' = live /\ live \subseteq Resource
      BY <2>5 DEF CommitAction, TypeOK
    <3>6. ASSUME NEW s \in live', row'[s].status = "in_progress"
          PROVE  s \in abandoned' \/ \E v \in Worker : Owns(v, s)'
      BY <3>1, <3>2, <3>3, <3>4, <3>5, <3>6 DEF InProgressHasOwner
    <3> QED
      BY <3>1, <3>6 DEF InProgressHasOwner
  <2> QED
    BY <1>1, <2>2, <2>3, <2>4, <2>5 DEF UserStep
<1>3. CASE rq[q] = NoRequest
  BY <1>1, <1>3 DEF UserStep, NoRequest, CommitCreate, CommitEdit, CommitDelete,
                    CommitAction
<1> QED
  BY <1>2, <1>3 DEF TypeOK

\* Taking a task changes no status and no owner: only idle workers take one,
\* and make_retry finds nothing to free.
LEMMA TakeOwner ==
    ASSUME OwnerInv, NEW w \in Worker, NEW m \in Message, Take(w, m)
    PROVE  InProgressHasOwner' /\ LoadedIsRunnable'
<1> USE DEF OwnerInv
<1>1. worker[w] = Idle /\ live' = live /\ abandoned' = abandoned
  BY DEF Take, Discard, DraftMissing, PreviewFails, Postpone, GiveUp, Load, NotReady,
         Receive
<1>2. \A v \in Worker : v # w => worker'[v] = worker[v]
  BY DEF Take, Discard, DraftMissing, PreviewFails, Postpone, GiveUp, Load, Hold, TypeOK
<1>3. row' = row
  <2>1. CASE Postpone(w, m)
    <3>1. MakeRetry(row[m.res]) = row[m.res]
      BY <2>1 DEF Postpone, NotReady, Executable, Runnable, MakeRetry
    <3> QED
      BY <2>1, <3>1 DEF Postpone, TypeOK
  <2>2. CASE ~Postpone(w, m)
    BY <2>2 DEF Take, Discard, DraftMissing, PreviewFails, GiveUp, Load
  <2> QED
    BY <2>1, <2>2
<1>4. \A v \in Worker, s \in Resource : Owns(v, s) => Owns(v, s)'
  BY <1>1, <1>2 DEF Owns
<1>5. InProgressHasOwner'
  BY <1>1, <1>3, <1>4 DEF InProgressHasOwner, TypeOK
<1>6. worker'[w].pc = "loaded" => worker'[w].mem.status \in Runnable
  <2>1. CASE Load(w, m)
    BY <2>1 DEF Load, Hold, Executable, TypeOK
  <2>2. CASE DraftMissing(w, m) \/ PreviewFails(w, m) \/ GiveUp(w, m)
    BY <2>2 DEF DraftMissing, PreviewFails, GiveUp, Hold, TypeOK
  <2>3. CASE Discard(w, m) \/ Postpone(w, m)
    BY <1>1, <2>3 DEF Discard, Postpone, Idle
  <2> QED
    BY <2>1, <2>2, <2>3 DEF Take
<1>7. LoadedIsRunnable'
  BY <1>2, <1>6 DEF LoadedIsRunnable
<1> QED
  BY <1>5, <1>7

\* A worker that writes the outcome of its run frees the row it owns; it takes
\* no other owner away.
LEMMA WorkerStepOwner ==
    ASSUME OwnerInv, NEW w \in Worker, WorkerStep(w)
    PROVE  InProgressHasOwner' /\ LoadedIsRunnable'
<1> USE DEF OwnerInv
<1> DEFINE e == worker[w].mem
<1>1. ASSUME NEW m \in Message, Take(w, m)
      PROVE  InProgressHasOwner' /\ LoadedIsRunnable'
  BY <1>1, TakeOwner
<1>2. CASE worker[w].pc # "idle" /\ ~ \E m \in Message : Take(w, m)
  <2>0. PICK r \in Resource : r = worker[w].msg.res
    BY <1>2, BusyType
  <2>1. worker[w] \in Busy /\ worker[w].msg.res = r /\ e \in Row
    BY <1>2, <2>0, BusyType
  <2>2. live' = live /\ live \subseteq Resource
    BY <1>2 DEF WorkerStep, Proceed, Start, Refresh, Apply, ApplyFails, Done, Fail,
                RowVanished, CommitFails, Crash, TypeOK
  <2>3. /\ \A v \in Worker : v # w => worker'[v] = worker[v]
        /\ worker'[w].pc # "loaded"
    BY <1>2, <2>1 DEF WorkerStep, Proceed, Start, Refresh, Apply, ApplyFails, Done,
                      Fail, Acknowledge, RowVanished, CommitFails, Crash, TypeOK,
                      Idle, Busy
  <2>4. LoadedIsRunnable'
    BY <2>3 DEF LoadedIsRunnable
  <2>5. \A s \in live : s # r => row'[s] = row[s] /\ (s \in abandoned => s \in abandoned')
    BY <1>2, <2>1 DEF WorkerStep, Proceed, Start, Refresh, Apply, ApplyFails, Done,
                      Fail, RowVanished, CommitFails, Crash, Write, TypeOK
  <2>6. \A v \in Worker, s \in Resource : v # w /\ Owns(v, s) => Owns(v, s)'
    BY <2>3 DEF Owns
  <2>7. \A s \in Resource : Owns(w, s) => s = r
    BY <2>1 DEF Owns
  <2>8. ASSUME NEW s \in live', s # r, row'[s].status = "in_progress"
        PROVE  s \in abandoned' \/ \E v \in Worker : Owns(v, s)'
    BY <2>2, <2>5, <2>6, <2>7, <2>8 DEF InProgressHasOwner
  <2>9. ASSUME r \in live, row'[r].status = "in_progress"
        PROVE  r \in abandoned' \/ \E v \in Worker : Owns(v, r)'
    <3>1. ASSUME row[r].status = "in_progress",
                 r \in abandoned => r \in abandoned',
                 Owns(w, r) => r \in abandoned' \/ Owns(w, r)'
          PROVE  r \in abandoned' \/ \E v \in Worker : Owns(v, r)'
      BY <2>1, <2>6, <2>9, <3>1 DEF InProgressHasOwner
    <3>2. ASSUME NEW new \in Row, Write(w, new)
          PROVE  row'[r] = Merged(row[r], e, new)
      BY <2>1, <3>2 DEF Write, TypeOK
    <3>3. CASE Start(w)
      <4>1. e.status \in Runnable
        BY <3>3 DEF Start, LoadedIsRunnable
      <4>2. MakeInProgress(e).status = "in_progress"
        BY <4>1 DEF MakeInProgress, At
      <4>3. worker'[w] = [worker[w] EXCEPT !.pc = "started", !.mem = MakeInProgress(@)]
        BY <3>3 DEF Start, TypeOK
      <4>4. Owns(w, r)'
        BY <2>1, <4>2, <4>3 DEF Owns, Busy, Idle
      <4> QED
        BY <4>4
    <3>4. CASE Refresh(w)
      <4>1. row[r].status = "in_progress" /\ abandoned' = abandoned
        BY <2>9, <3>4 DEF Refresh
      <4>2. CASE worker[w].pc = "started"
        <5>1. worker'[w] = [worker[w] EXCEPT !.pc = "running", !.mem = row[r],
                                             !.fresh = TRUE]
          BY <2>1, <3>4, <4>2 DEF Refresh, TypeOK
        <5>2. Owns(w, r)'
          BY <2>1, <4>1, <5>1 DEF Owns, Busy, Idle
        <5> QED
          BY <5>2
      <4>3. CASE worker[w].pc = "finished"
        <5>1. ~ Owns(w, r)
          BY <4>3 DEF Owns
        <5> QED
          BY <3>1, <4>1, <5>1
      <4> QED
        BY <3>4, <4>2, <4>3 DEF Refresh
    <3>5. CASE Apply(w) \/ ApplyFails(w)
      <4>1. /\ worker'[w].pc \in {"applied", "failed"}
            /\ worker'[w].msg = worker[w].msg
            /\ worker'[w].mem = e
            /\ row' = row /\ abandoned' = abandoned
        BY <2>1, <3>5 DEF Apply, ApplyFails, TypeOK, Busy
      <4>2. Owns(w, r) => Owns(w, r)'
        BY <4>1 DEF Owns, Idle
      <4> QED
        BY <2>9, <3>1, <4>1, <4>2
    <3>6. CASE Done(w)
      <4>1. row'[r] = Merged(row[r], e, MakeDone(e))
        BY <2>1, <3>2, <3>6, WorkerHandlersType DEF Done
      <4>2. ~ Owns(w, r)
        BY <2>1, <2>9, <4>1 DEF Owns, Merged, MakeDone, At
      <4>3. row[r].status = "in_progress"
        BY <2>9, <4>1 DEF Merged, MakeDone, At
      <4>4. abandoned' = abandoned
        BY <2>1, <2>9, <3>6 DEF Done
      <4> QED
        BY <3>1, <4>2, <4>3, <4>4
    <3>7. CASE Fail(w)
      <4>1. row'[r] = Merged(row[r], e, MakeFailed(e))
        BY <2>1, <3>2, <3>7, WorkerHandlersType DEF Fail
      <4>2. row[r].status = "in_progress"
        BY <2>9, <4>1 DEF Merged, MakeFailed, At
      <4>3. abandoned' = IF Owns(w, r) THEN abandoned \cup {r} ELSE abandoned
        BY <2>1, <2>9, <3>7 DEF Fail
      <4> QED
        BY <3>1, <4>2, <4>3
    <3>8. CASE RowVanished(w)
      BY <2>1, <2>9, <3>8 DEF RowVanished
    <3>9. CASE CommitFails(w)
      BY <2>1, <3>9 DEF CommitFails
    <3>10. CASE Crash(w)
      BY <2>1, <2>9, <3>1, <3>10 DEF Crash
    <3> QED
      BY <1>2, <3>3, <3>4, <3>5, <3>6, <3>7, <3>8, <3>9, <3>10 DEF WorkerStep, Proceed
  <2> QED
    BY <2>2, <2>4, <2>8, <2>9 DEF InProgressHasOwner
<1>3. CASE worker[w].pc = "idle"
  <2>1. worker[w] = Idle
    BY <1>3 DEF Busy, TypeOK
  <2> QED
    BY <1>1, <1>3, <2>1 DEF WorkerStep, Proceed, Start, Refresh, Apply, ApplyFails,
                            Done, Fail, RowVanished, CommitFails, Crash
<1> QED
  BY <1>1, <1>2, <1>3

\* No step of a request or of a worker leaves a row IN_PROGRESS to nobody.
LEMMA NextOwner == OwnerInv /\ [Next]_vars => OwnerInv'
<1> SUFFICES ASSUME OwnerInv, [Next]_vars PROVE OwnerInv'
  OBVIOUS
<1>1. TypeOK'
  BY NextTypeOK DEF OwnerInv
<1>2. CASE UNCHANGED vars
  BY <1>1, <1>2 DEF vars, OwnerInv, InProgressHasOwner, LoadedIsRunnable, Owns
<1>3. CASE Next
  BY <1>1, <1>3, UserStepOwner, WorkerStepOwner DEF Next, OwnerInv
<1> QED
  BY <1>2, <1>3

\* However requests and workers interleave, a row IN_PROGRESS is held by a
\* worker that will write the outcome, or was dropped by a fault (or by
\* make_failed, which leaves a destroyed row alone).
THEOREM InProgressIsOwned == Spec => []InProgressHasOwner
<1>1. OwnerInv => InProgressHasOwner
  BY DEF OwnerInv
<1> QED
  BY <1>1, InitOwner, NextOwner, PTL DEF Spec

-----------------------------------------------------------------------------
(* When requests for one resource do not overlap.  Requests for different  *)
(* resources may be open at the same time, and workers run in between: a   *)
(* resource is then either asked about, or queued, or executed, and whoever *)
(* has it remembers the row as it is.                                      *)

-----------------------------------------------------------------------------
(* What is assumed of users and faults.                                    *)

\* Nobody resends a task or previews an edit.
OrdinaryUse == Offered \cap {"retry", "dryrun_with_temp_state"} = {}

\* Tasks are lost before they are sent, commits of workers fail and workers die.
OrdinaryFaults == FaultKinds \subseteq {"lost", "commit", "crash"}

\* Requests that are open at the same time are about different resources.
RequestsApart ==
    \A p, q \in Request :
        p # q /\ rq[p] # NoRequest /\ rq[q] # NoRequest => rq[p].res # rq[q].res

-----------------------------------------------------------------------------
(* The invariant: what is known of one resource.                           *)

Working == {"queued", "in_progress"}

\* The rows there are.
LegalRow(e) ==
    /\ e.status = "approval_pending" => e.state \in {"provision", "destroy"}
    /\ e.status = "rejected" => e.state = "provision"
    /\ e.status = "done" => e.state \in {"provisioned", "destroyed"}
    /\ e.state = "destroyed" => e.status = "done"

\* A pending edit is of a resource that exists and is not waiting for approval;
\* what is awaited stays approval_pending; nothing is in the cloud for what is
\* abstract, not created yet, or destroyed.
RowOk(r) ==
    /\ r \in live => r \notin gone /\ LegalRow(row[r])
    /\ temp[r] # {} => /\ r \in live
                       /\ row[r].state \in {"provision", "provisioned"}
                       /\ row[r].status \notin {"approval_pending", "rejected"}
    /\ r \in awaiting => \/ r \in live /\ row[r].status = "approval_pending"
                         \/ r \in gone
    /\ \/ r \in Abstract
       \/ r \notin live \cup gone
       \/ r \in live /\ row[r].state = "destroyed"
       => infra[r] = "none"

\* m is the task to execute r.
IsTask(m, r) == m.res = r /\ m.action # "dryrun" /\ queue[m] > 0
Holds(w, r) == worker[w] # Idle /\ worker[w].msg.res = r
Asks(q, r) == rq[q] # NoRequest /\ rq[q].res = r

\* The task of a resource is alone in the queue, and no worker has the resource.
\* It finds the row QUEUED, or IN_PROGRESS since a crash.
TaskOk(r) ==
    \A m \in Message : IsTask(m, r) =>
        /\ m.action = "execute" /\ queue[m] = 1
        /\ r \in live
        /\ \/ row[r].status = "queued"
           \/ row[r].status = "in_progress" /\ r \in abandoned
        /\ \A w \in Worker : ~ Holds(w, r)
        /\ \A n \in Message : IsTask(n, r) => n = m

\* A worker is alone on its resource and remembers the row as it is.
HolderOk(r) ==
    \A w \in Worker : Holds(w, r) =>
        /\ worker[w].msg.action = "execute"
        /\ r \in live
        /\ worker[w].mem = row[r]
        /\ row[r].status = IF worker[w].pc \in {"loaded", "failing"}
                           THEN "queued" ELSE "in_progress"
        /\ worker[w].pc # "finished"
        /\ worker[w].op = IF row[r].state = "destroy" THEN "destroy" ELSE "apply"
        /\ worker[w].pc = "applied" => r \notin Abstract
        /\ worker[w].pc = "applied" /\ worker[w].op = "destroy" => infra[r] = "none"
        /\ \A v \in Worker : Holds(v, r) => v = w

\* A row QUEUED or IN_PROGRESS is being worked on, or will be.
WorkOk(r) ==
    r \in live /\ row[r].status \in Working =>
        \/ r \in abandoned
        \/ \E w \in Worker : Holds(w, r)
        \/ \E m \in Message : IsTask(m, r)

\* The guards of a handler that are about the resource itself.
Guarded(act, e, t, r) ==
    /\ act \in Offered \cap GetActions(e, t)
    /\ act = "edit" => CanEdit(e)
    /\ act = "approve" => CanApprove(e, t) /\ CanBeApproved(e, r \in Abstract)
    /\ act = "reject" => CanReject(e, t)
    /\ act = "destroy" => t = {} /\ CanBeDestroyed(e)
    /\ act = "recreate" => CanBeRecreated(e)
    /\ act = "delete" => CanBeDeleted(e)
    /\ act = "execute" => CanBeExecuted(e)

\* What a request has read is still so.
AskOk(r) ==
    \A q \in Request : Asks(q, r) =>
        IF rq[q].act = "create" THEN r \notin live \cup gone
        ELSE /\ r \in live
             /\ rq[q].old = row[r] /\ rq[q].oldTemp = temp[r]
             /\ rq[q].held = (temp[r] # {})
             /\ Guarded(rq[q].act, row[r], temp[r], r)

Sound(r) == RowOk(r) /\ TaskOk(r) /\ HolderOk(r) /\ WorkOk(r) /\ AskOk(r)

CoreInv == TypeOK /\ \A r \in Resource : Sound(r)

-----------------------------------------------------------------------------
(* What a step leaves alone.                                               *)

\* Nothing that is known of s changes.
Untouched(s) ==
    /\ (s \in live') = (s \in live) /\ (s \in gone') = (s \in gone)
    /\ (s \in abandoned') = (s \in abandoned) /\ (s \in awaiting') = (s \in awaiting)
    /\ row'[s] = row[s] /\ temp'[s] = temp[s] /\ infra'[s] = infra[s]
    /\ \A m \in Message : m.res = s => queue'[m] = queue[m]
    /\ \A w \in Worker : Holds(w, s) \/ Holds(w, s)' => worker'[w] = worker[w]
    /\ \A q \in Request : Asks(q, s) \/ Asks(q, s)' => rq'[q] = rq[q]

\* A step that does not touch a resource leaves it sound.
LEMMA UntouchedIsSound ==
    ASSUME NEW s \in Resource, Sound(s), Untouched(s)
    PROVE  Sound(s)'
<1>1. \A m \in Message : IsTask(m, s)' <=> IsTask(m, s)
  BY DEF IsTask, Untouched
<1>2. \A w \in Worker : (Holds(w, s)' <=> Holds(w, s)) /\ (Holds(w, s) => worker'[w] = worker[w])
  BY DEF Holds, Untouched
<1>3. \A q \in Request : (Asks(q, s)' <=> Asks(q, s)) /\ (Asks(q, s) => rq'[q] = rq[q])
  BY DEF Asks, Untouched
<1>4. RowOk(s)'
  BY DEF Sound, RowOk, Untouched
<1>5. TaskOk(s)'
  <2> SUFFICES ASSUME NEW m \in Message, IsTask(m, s)'
               PROVE  /\ m.action = "execute" /\ queue'[m] = 1
                      /\ s \in live'
                      /\ \/ row'[s].status = "queued"
                         \/ row'[s].status = "in_progress" /\ s \in abandoned'
                      /\ \A w \in Worker : ~ Holds(w, s)'
                      /\ \A n \in Message : IsTask(n, s)' => n = m
    BY DEF TaskOk
  <2>1. IsTask(m, s) /\ m.res = s
    BY <1>1 DEF IsTask
  <2> QED
    BY <1>1, <1>2, <2>1 DEF Sound, TaskOk, Untouched
<1>6. HolderOk(s)'
  <2> SUFFICES ASSUME NEW w \in Worker, Holds(w, s)'
               PROVE  /\ worker'[w].msg.action = "execute"
                      /\ s \in live'
                      /\ worker'[w].mem = row'[s]
                      /\ row'[s].status = IF worker'[w].pc \in {"loaded", "failing"}
                                          THEN "queued" ELSE "in_progress"
                      /\ worker'[w].pc # "finished"
                      /\ worker'[w].op = IF row'[s].state = "destroy"
                                         THEN "destroy" ELSE "apply"
                      /\ worker'[w].pc = "applied" => s \notin Abstract
                      /\ worker'[w].pc = "applied" /\ worker'[w].op = "destroy" =>
                              infra'[s] = "none"
                      /\ \A v \in Worker : Holds(v, s)' => v = w
    BY DEF HolderOk
  <2> QED
    BY <1>2 DEF Sound, HolderOk, Untouched
<1>7. WorkOk(s)'
  BY <1>1, <1>2 DEF Sound, WorkOk, Untouched
<1>8. AskOk(s)'
  BY <1>3 DEF Sound, AskOk, Untouched, Guarded
<1> QED
  BY <1>4, <1>5, <1>6, <1>7, <1>8 DEF Sound

\* At first there is nothing.
LEMMA InitCore == Init => CoreInv
<1> SUFFICES ASSUME Init PROVE CoreInv
  OBVIOUS
<1>1. TypeOK
  BY InitTypeOK
<1>2. ASSUME NEW r \in Resource PROVE Sound(r)
  <2>1. RowOk(r) /\ WorkOk(r)
    BY DEF Init, RowOk, WorkOk
  <2>2. TaskOk(r)
    BY DEF Init, TaskOk, IsTask
  <2>3. HolderOk(r) /\ AskOk(r)
    BY DEF Init, HolderOk, AskOk, Holds, Asks
  <2> QED
    BY <2>1, <2>2, <2>3 DEF Sound
<1> QED
  BY <1>1, <1>2 DEF CoreInv

\* A resource somebody asks about is not being worked on.
LEMMA AskedIsFree ==
    ASSUME OrdinaryUse, NEW r \in Resource, Sound(r), NEW q \in Request, Asks(q, r)
    PROVE  /\ \A w \in Worker : ~ Holds(w, r)
           /\ \A m \in Message : ~ IsTask(m, r)
           /\ r \in live => row[r].status \notin Working
<1>1. CASE r \notin live
  BY <1>1 DEF Sound, TaskOk, HolderOk
<1>2. CASE r \in live
  <2>1. row[r].status \notin Working
    BY <1>2 DEF Sound, AskOk, Guarded, GetActions, OrdinaryUse, Working
  <2> QED
    BY <2>1 DEF Sound, TaskOk, HolderOk, Working
<1> QED
  BY <1>1, <1>2

\* What is known when a worker has a resource.
LEMMA HolderIsAlone ==
    ASSUME CoreInv, OrdinaryUse, NEW w \in Worker, worker[w] # Idle,
           NEW r, r = worker[w].msg.res
    PROVE  /\ worker[w] \in Busy /\ worker[w].msg \in Message
           /\ r \in Resource /\ r \in live /\ Sound(r)
           /\ row[r] \in Row /\ LegalRow(row[r]) /\ row[r].status \in Working
           /\ \A v \in Worker : Holds(v, r) <=> v = w
           /\ \A m \in Message : ~ IsTask(m, r)
           /\ \A q \in Request : ~ Asks(q, r)
<1>1. worker[w].pc # "idle"
  BY DEF CoreInv, TypeOK, Busy, Idle
<1>2. worker[w] \in Busy /\ worker[w].msg \in Message /\ r \in Resource
  BY <1>1, BusyType DEF CoreInv
<1>3. Sound(r) /\ Holds(w, r)
  BY <1>2 DEF CoreInv, Holds
<1>4. /\ r \in live /\ row[r].status \in Working
      /\ \A v \in Worker : Holds(v, r) => v = w
  BY <1>3 DEF Sound, HolderOk, Working
<1>5. row[r] \in Row /\ LegalRow(row[r])
  BY <1>2, <1>3, <1>4 DEF CoreInv, TypeOK, Sound, RowOk
<1>6. \A m \in Message : ~ IsTask(m, r)
  BY <1>3 DEF Sound, TaskOk
<1>7. \A q \in Request : ~ Asks(q, r)
  BY <1>2, <1>3, AskedIsFree
<1> QED
  BY <1>2, <1>3, <1>4, <1>5, <1>6, <1>7

\* What is known when there is a task for a resource.
LEMMA TaskIsAlone ==
    ASSUME CoreInv, OrdinaryUse, NEW m \in Message, NEW r, IsTask(m, r)
    PROVE  /\ m.action = "execute" /\ queue[m] = 1
           /\ r \in Resource /\ r \in live /\ Sound(r)
           /\ row[r] \in Row /\ LegalRow(row[r]) /\ row[r].status \in Working
           /\ \A v \in Worker : ~ Holds(v, r)
           /\ \A n \in Message : IsTask(n, r) <=> n = m
           /\ \A q \in Request : ~ Asks(q, r)
<1>1. r \in Resource /\ Sound(r)
  BY DEF CoreInv, IsTask, Message
<1>2. /\ m.action = "execute" /\ queue[m] = 1
      /\ r \in live /\ row[r].status \in Working
      /\ \A v \in Worker : ~ Holds(v, r)
      /\ \A n \in Message : IsTask(n, r) => n = m
  BY <1>1 DEF Sound, TaskOk, Working
<1>3. row[r] \in Row /\ LegalRow(row[r])
  BY <1>1, <1>2 DEF CoreInv, TypeOK, Sound, RowOk
<1>4. \A q \in Request : ~ Asks(q, r)
  BY <1>1, <1>2, AskedIsFree
<1> QED
  BY <1>1, <1>2, <1>3, <1>4

\* What is known of a resource that somebody asks about.
LEMMA AskerIsAlone ==
    ASSUME CoreInv, OrdinaryUse, RequestsApart, NEW q \in Request,
           rq[q] # NoRequest, NEW r, r = rq[q].res
    PROVE  /\ rq[q] \in OpenRequest /\ r \in Resource /\ Sound(r)
           /\ \A w \in Worker : ~ Holds(w, r)
           /\ \A m \in Message : ~ IsTask(m, r)
           /\ r \in live => /\ row[r] \in Row /\ LegalRow(row[r])
                            /\ row[r].status \notin Working
           /\ \A p \in Request : Asks(p, r) <=> p = q
<1>1. rq[q] \in OpenRequest /\ r \in Resource
  BY DEF CoreInv, TypeOK, OpenRequest
<1>2. Sound(r) /\ Asks(q, r)
  BY <1>1 DEF CoreInv, Asks
<1>3. \A p \in Request : Asks(p, r) <=> p = q
  BY <1>2 DEF RequestsApart, Asks
<1>4. r \in live => row[r] \in Row /\ LegalRow(row[r])
  BY <1>1, <1>2 DEF CoreInv, TypeOK, Sound, RowOk
<1> QED
  BY <1>1, <1>2, <1>3, <1>4, AskedIsFree

-----------------------------------------------------------------------------
(* Rows of workers.                                                        *)

\* What workers write to the row of a task keeps the row legal and its edit.
LEMMA WorkerRows ==
    ASSUME NEW e \in Row, LegalRow(e), e.status \in Working
    PROVE  /\ MakeRetry(e) = IF e.status = "queued" THEN e ELSE At("error", e.state)
           /\ e.status = "queued" => MakeInProgress(e) = At("in_progress", e.state)
           /\ e.state # "destroyed" /\ MakeFailed(e) = At("error", e.state)
           /\ e.status = "in_progress" =>
                MakeDone(e) = At("done", IF e.state = "destroy" THEN "destroyed"
                                         ELSE "provisioned")
           /\ \A s \in {"in_progress", "error"} :
                At(s, e.state) \in Row /\ LegalRow(At(s, e.state))
           /\ \A s \in {"destroyed", "provisioned"} :
                At("done", s) \in Row /\ LegalRow(At("done", s))
<1>1. e.status \in ModelStatus /\ e.state \in ModelState
  BY DEF Row
<1>2. e.state # "destroyed"
  BY DEF LegalRow, Working
<1>3. MakeFailed(e) = At("error", e.state)
  BY <1>2 DEF MakeFailed
<1>4. MakeRetry(e) = IF e.status = "queued" THEN e ELSE At("error", e.state)
  BY DEF MakeRetry, Working
<1>5. e.status = "queued" => MakeInProgress(e) = At("in_progress", e.state)
  BY DEF MakeInProgress, Runnable
<1>6. e.status = "in_progress" =>
        MakeDone(e) = At("done", IF e.state = "destroy" THEN "destroyed" ELSE "provisioned")
  BY <1>1, <1>2 DEF MakeDone, ModelState
<1>7. \A s \in {"in_progress", "error"} :
        At(s, e.state) \in Row /\ LegalRow(At(s, e.state))
  BY <1>1, <1>2 DEF At, Row, LegalRow, ModelStatus
<1>8. \A s \in {"destroyed", "provisioned"} :
        At("done", s) \in Row /\ LegalRow(At("done", s))
  BY DEF At, Row, LegalRow, ModelStatus, ModelState
<1> QED
  BY <1>2, <1>3, <1>4, <1>5, <1>6, <1>7, <1>8

\* A column-wise merge with the row as it is gives the new row.
LEMMA MergedIsNew ==
    ASSUME NEW e \in Row, NEW new \in Row
    PROVE  Merged(e, e, new) = new
  BY DEF Merged, Row

-----------------------------------------------------------------------------
(* Steps of a worker.                                                      *)

\* A worker that has, or takes, r touches nothing else.
LEMMA WorkerFrame ==
    ASSUME NEW w \in Worker, NEW r \in Resource,
           worker[w] = Idle \/ Holds(w, r), worker'[w] = Idle \/ Holds(w, r)',
           \A v \in Worker : v # w => worker'[v] = worker[v],
           UNCHANGED <<live, gone, temp, awaiting, rq>>,
           \A s \in Resource : s # r => /\ row'[s] = row[s] /\ infra'[s] = infra[s]
                                        /\ (s \in abandoned') = (s \in abandoned),
           \A m \in Message : m.res # r => queue'[m] = queue[m]
    PROVE  \A s \in Resource : s # r => Untouched(s)
<1> SUFFICES ASSUME NEW s \in Resource, s # r PROVE Untouched(s)
  OBVIOUS
<1>1. \A v \in Worker : Holds(v, s) \/ Holds(v, s)' => worker'[v] = worker[v]
  BY DEF Holds
<1> QED
  BY <1>1 DEF Untouched

\* The row moves as a run makes it move.
Moves(old, new) ==
    /\ LegalRow(new) /\ new.status \in Working \cup {"done", "error"}
    /\ \/ new.state = old.state
       \/ old.state \in {"provision", "provisioned"} /\ new.state = "provisioned"
       \/ old.state = "destroy" /\ new.state = "destroyed"

\* What is left to show of the resource of a worker.
LEMMA WorkerSound ==
    ASSUME NEW r \in Resource, Sound(r), r \in live, row[r] \in Row,
           row[r].status \in Working,
           UNCHANGED <<live, gone, temp, awaiting, rq>>,
           \A q \in Request : ~ Asks(q, r),
           Moves(row[r], row'[r]),
           r \in Abstract => infra'[r] = infra[r],
           row'[r].state = "destroyed" => infra'[r] = "none",
           TaskOk(r)', HolderOk(r)', WorkOk(r)'
    PROVE  Sound(r)'
<1>1. row[r].state # "destroyed"
  BY DEF Sound, RowOk, LegalRow, Working
<1>2. RowOk(r)'
  <2>1. r \in live' => r \notin gone' /\ LegalRow(row'[r])
    BY DEF Sound, RowOk, Moves
  <2>2. temp'[r] # {} => /\ r \in live'
                         /\ row'[r].state \in {"provision", "provisioned"}
                         /\ row'[r].status \notin {"approval_pending", "rejected"}
    BY DEF Sound, RowOk, Moves, Working
  <2>3. r \notin awaiting'
    BY DEF Sound, RowOk, Working
  <2>4. \/ r \in Abstract
        \/ r \notin live' \cup gone'
        \/ r \in live' /\ row'[r].state = "destroyed"
        => infra'[r] = "none"
    BY DEF Sound, RowOk
  <2> QED
    BY <2>1, <2>2, <2>3, <2>4 DEF RowOk
<1>3. AskOk(r)'
  BY DEF AskOk, Asks
<1> QED
  BY <1>2, <1>3 DEF Sound

\* A commit of a worker gives the row what the worker has made of it.
LEMMA WorkerWrites ==
    ASSUME CoreInv, OrdinaryUse, NEW w \in Worker, worker[w] # Idle,
           NEW r, r = worker[w].msg.res, NEW new \in Row, Write(w, new)
    PROVE  row' = [row EXCEPT ![r] = new]
<1>1. row[r] \in Row /\ Holds(w, r) /\ Sound(r)
  BY HolderIsAlone DEF Holds
<1>2. worker[w].mem = row[r]
  BY <1>1 DEF Sound, HolderOk
<1> QED
  BY <1>1, <1>2, MergedIsNew DEF Write

\* A run that was interrupted touches its own infrastructure, and that of a
\* resource with code.
LEMMA InterruptedFrame ==
    ASSUME TypeOK, NEW w \in Worker, NEW r, r = worker[w].msg.res, Interrupted(w)
    PROVE  /\ \A s \in Resource : s # r => infra'[s] = infra[s]
           /\ r \in Abstract => infra'[r] = infra[r]
  BY DEF TypeOK, Interrupted

\* A worker that starts, applies or fails to apply keeps its resource.
LEMMA KeepingCore ==
    ASSUME CoreInv, OrdinaryUse, NEW w \in Worker, worker[w] # Idle,
           Start(w) \/ Refresh(w) \/ Apply(w) \/ ApplyFails(w), TypeOK'
    PROVE  CoreInv'
<1>0. PICK r : r = worker[w].msg.res
  OBVIOUS
<1>1. /\ worker[w] \in Busy /\ worker[w].msg \in Message
      /\ r \in Resource /\ r \in live /\ Sound(r)
      /\ row[r] \in Row /\ LegalRow(row[r]) /\ row[r].status \in Working
      /\ \A v \in Worker : Holds(v, r) <=> v = w
      /\ \A m \in Message : ~ IsTask(m, r)
      /\ \A q \in Request : ~ Asks(q, r)
  BY <1>0, HolderIsAlone
<1>2. /\ worker[w].msg.action = "execute" /\ worker[w].mem = row[r]
      /\ row[r].status = IF worker[w].pc \in {"loaded", "failing"}
                         THEN "queued" ELSE "in_progress"
      /\ worker[w].pc # "finished"
      /\ worker[w].op = IF row[r].state = "destroy" THEN "destroy" ELSE "apply"
  BY <1>1 DEF Sound, HolderOk
<1>3. /\ UNCHANGED <<live, gone, temp, awaiting, rq, queue>>
      /\ \A v \in Worker : v # w => worker'[v] = worker[v]
  BY DEF Start, Refresh, Apply, ApplyFails, CoreInv, TypeOK
<1>4. /\ row' = [row EXCEPT ![r] = IF Start(w) THEN At("in_progress", @.state) ELSE @]
      /\ At("in_progress", row[r].state) \in Row
      /\ LegalRow(At("in_progress", row[r].state))
  <2>1. At("in_progress", row[r].state) \in Row /\ LegalRow(At("in_progress", row[r].state))
    BY <1>1, WorkerRows
  <2>2. CASE Start(w)
    <3>1. MakeInProgress(row[r]) = At("in_progress", row[r].state)
      BY <1>1, <1>2, <2>2, WorkerRows DEF Start
    <3>2. row' = [row EXCEPT ![r] = At("in_progress", row[r].state)]
      BY <1>0, <1>2, <2>1, <2>2, <3>1, WorkerWrites DEF Start
    <3> QED
      BY <2>1, <2>2, <3>2
  <2>3. CASE ~ Start(w)
    BY <2>1, <2>3 DEF Refresh, Apply, ApplyFails, CoreInv, TypeOK
  <2> QED
    BY <2>1, <2>2, <2>3
<1>5. PICK next : /\ worker'[w] = next
                  /\ next # Idle /\ next.msg = worker[w].msg /\ next.op = worker[w].op
                  /\ next.mem = row'[r]
                  /\ next.pc \in {"started", "running", "applied", "failed"}
                  /\ row'[r].status = "in_progress"
                  /\ next.pc = "applied" => Apply(w)
  <2>1. CASE Start(w)
    <3>1. worker'[w] = [worker[w] EXCEPT !.pc = "started", !.mem = MakeInProgress(@)]
      BY <2>1 DEF Start, CoreInv, TypeOK
    <3>2. MakeInProgress(row[r]) = At("in_progress", row[r].state)
      BY <1>1, <1>2, <2>1, WorkerRows DEF Start
    <3>3. row'[r] = At("in_progress", row[r].state)
      BY <1>1, <1>4, <2>1 DEF CoreInv, TypeOK
    <3>4. PICK got : got = At("in_progress", row[r].state)
      OBVIOUS
    <3>5. worker'[w] = [worker[w] EXCEPT !.pc = "started", !.mem = got]
      BY <1>1, <1>2, <3>1, <3>2, <3>4 DEF Busy
    <3>6. row'[r] = got /\ got.status = "in_progress"
      BY <3>3, <3>4 DEF At
    <3> QED
      BY <1>1, <1>2, <2>1, <3>5, <3>6 DEF Busy, Idle
  <2>2. CASE Refresh(w)
    <3>1. /\ worker[w].pc = "started" /\ row' = row
          /\ worker'[w] = [worker[w] EXCEPT !.pc = "running", !.mem = row[r], !.fresh = TRUE]
      BY <1>0, <1>2, <2>2 DEF Refresh, CoreInv, TypeOK
    <3> QED
      BY <1>1, <1>2, <3>1 DEF Busy, Idle
  <2>3. CASE Apply(w)
    BY <1>0, <1>1, <1>2, <2>3 DEF Apply, CoreInv, TypeOK, Busy, Idle
  <2>4. CASE ApplyFails(w)
    BY <1>0, <1>1, <1>2, <2>4 DEF ApplyFails, CoreInv, TypeOK, Busy, Idle
  <2> QED
    BY <2>1, <2>2, <2>3, <2>4
<1>6. /\ \A s \in Resource : s # r => infra'[s] = infra[s]
      /\ r \in Abstract => infra'[r] = infra[r]
      /\ Apply(w) => r \notin Abstract /\ (worker[w].op = "destroy" => infra'[r] = "none")
  <2>1. ASSUME Apply(w)
        PROVE  r \notin Abstract /\ (worker[w].op = "destroy" => infra'[r] = "none")
    BY <1>0, <1>1, <2>1 DEF Apply, CoreInv, TypeOK
  <2>2. CASE ApplyFails(w)
    BY <1>0, <2>1, <2>2, InterruptedFrame DEF ApplyFails, CoreInv
  <2>3. CASE Start(w) \/ Refresh(w) \/ Apply(w)
    BY <1>0, <1>1, <2>1, <2>3 DEF Start, Refresh, Apply, CoreInv, TypeOK
  <2> QED
    BY <2>2, <2>3
<1>7. \A s \in Resource : s # r => (s \in abandoned') = (s \in abandoned)
  BY <1>0 DEF Start, Refresh, Apply, ApplyFails
<1>8. Holds(w, r)' /\ \A v \in Worker : Holds(v, r)' <=> v = w
  BY <1>0, <1>1, <1>3, <1>5 DEF Holds
<1>9. \A s \in Resource : s # r => Untouched(s)
  <2>1. \A s \in Resource : s # r => row'[s] = row[s]
    BY <1>4 DEF CoreInv, TypeOK
  <2> QED
    BY <1>1, <1>3, <1>6, <1>7, <1>8, <2>1, WorkerFrame
<1>10. TaskOk(r)'
  BY <1>1, <1>3 DEF TaskOk, IsTask
<1>11. HolderOk(r)'
  BY <1>1, <1>2, <1>3, <1>4, <1>5, <1>6, <1>8 DEF HolderOk, At, CoreInv, TypeOK
<1>12. WorkOk(r)'
  BY <1>8 DEF WorkOk
<1>13. Moves(row[r], row'[r]) /\ row'[r].state # "destroyed"
  BY <1>1, <1>4 DEF Moves, Working, At, CoreInv, TypeOK, LegalRow
<1>14. Sound(r)'
  BY <1>1, <1>3, <1>6, <1>10, <1>11, <1>12, <1>13, WorkerSound
<1> QED
  BY <1>9, <1>14, UntouchedIsSound DEF CoreInv

\* A worker that ends its run, or fails, lets its resource go.
LEMMA EndingCore ==
    ASSUME CoreInv, OrdinaryUse, OrdinaryFaults, NEW w \in Worker, worker[w] # Idle,
           Done(w) \/ Fail(w) \/ CommitFails(w) \/ Crash(w), TypeOK'
    PROVE  CoreInv'
<1>0. PICK r : r = worker[w].msg.res
  OBVIOUS
<1>1. /\ worker[w] \in Busy /\ worker[w].msg \in Message
      /\ r \in Resource /\ r \in live /\ Sound(r)
      /\ row[r] \in Row /\ LegalRow(row[r]) /\ row[r].status \in Working
      /\ \A v \in Worker : Holds(v, r) <=> v = w
      /\ \A m \in Message : ~ IsTask(m, r)
      /\ \A q \in Request : ~ Asks(q, r)
  BY <1>0, HolderIsAlone
<1>2. /\ worker[w].msg.action = "execute" /\ worker[w].mem = row[r]
      /\ row[r].status = IF worker[w].pc \in {"loaded", "failing"}
                         THEN "queued" ELSE "in_progress"
      /\ worker[w].pc # "finished"
      /\ worker[w].op = IF row[r].state = "destroy" THEN "destroy" ELSE "apply"
      /\ worker[w].pc = "applied" => r \notin Abstract
      /\ worker[w].pc = "applied" /\ worker[w].op = "destroy" => infra[r] = "none"
  BY <1>1 DEF Sound, HolderOk
<1>3. ~ Fault("notify") /\ ~ Fault("unacked")
  BY DEF Fault, OrdinaryFaults
<1>4. /\ UNCHANGED <<live, gone, temp, awaiting, rq>>
      /\ worker' = [worker EXCEPT ![w] = Idle]
      /\ ~ Crash(w) => queue' = queue /\ infra' = infra
  BY <1>3 DEF Done, Fail, CommitFails, Crash, Acknowledge
<1>14. /\ \A s \in Resource : s # r => infra'[s] = infra[s]
       /\ r \in Abstract => infra'[r] = infra[r]
  BY <1>0, <1>4, InterruptedFrame DEF Crash, CoreInv
<1>5. \A v \in Worker : ~ Holds(v, r)'
  BY <1>1, <1>4 DEF Holds, CoreInv, TypeOK
<1>6. \A s \in Resource : s # r => (s \in abandoned') = (s \in abandoned)
  BY <1>0 DEF Done, Fail, CommitFails, Crash
<1>7. HolderOk(r)'
  BY <1>5 DEF HolderOk
<1>8. CASE Done(w) \/ Fail(w)
  <2>1. PICK new \in Row : /\ row' = [row EXCEPT ![r] = new]
                           /\ Moves(row[r], new)
                           /\ new.status \notin Working
                           /\ new.state = "destroyed" => infra[r] = "none"
    <3>1. CASE Done(w)
      <4>1. row[r].status = "in_progress" /\ worker[w].pc = "applied"
        BY <1>2, <3>1 DEF Done
      <4>2. PICK to \in {"destroyed", "provisioned"} :
                to = IF row[r].state = "destroy" THEN "destroyed" ELSE "provisioned"
        OBVIOUS
      <4>3. /\ MakeDone(row[r]) = At("done", to)
            /\ At("done", to) \in Row /\ LegalRow(At("done", to))
        BY <1>1, <4>1, <4>2, WorkerRows
      <4>4. row' = [row EXCEPT ![r] = At("done", to)]
        BY <1>0, <1>2, <3>1, <4>3, WorkerWrites DEF Done
      <4>5. row[r].state \in {"provision", "provisioned", "destroy"}
        BY <1>1 DEF Row, ModelState, LegalRow, Working
      <4>6. Moves(row[r], At("done", to))
        BY <4>2, <4>3, <4>5 DEF Moves, At
      <4>7. to = "destroyed" => infra[r] = "none"
        BY <1>2, <4>1, <4>2
      <4> QED
        BY <4>3, <4>4, <4>6, <4>7 DEF At, Working
    <3>2. CASE Fail(w)
      <4>1. /\ MakeFailed(row[r]) = At("error", row[r].state) /\ row[r].state # "destroyed"
            /\ At("error", row[r].state) \in Row /\ LegalRow(At("error", row[r].state))
        BY <1>1, WorkerRows
      <4>2. row' = [row EXCEPT ![r] = At("error", row[r].state)]
        BY <1>0, <1>2, <3>2, <4>1, WorkerWrites DEF Fail
      <4> QED
        BY <4>1, <4>2 DEF Moves, At, Working
    <3> QED
      BY <1>8, <3>1, <3>2
  <2>2. row'[r] = new /\ \A s \in Resource : s # r => row'[s] = row[s]
    BY <1>1, <2>1 DEF CoreInv, TypeOK
  <2>3. queue' = queue /\ infra' = infra
    BY <1>3, <1>8 DEF Done, Fail, Acknowledge
  <2>4. TaskOk(r)'
    BY <1>1, <2>3 DEF TaskOk, IsTask
  <2>5. WorkOk(r)'
    BY <2>1, <2>2 DEF WorkOk
  <2>6. Sound(r)'
    BY <1>1, <1>4, <1>7, <2>1, <2>2, <2>3, <2>4, <2>5, WorkerSound
  <2>7. \A s \in Resource : s # r => Untouched(s)
    BY <1>1, <1>4, <1>6, <2>2, <2>3, WorkerFrame DEF CoreInv, TypeOK
  <2> QED
    BY <2>6, <2>7, UntouchedIsSound DEF CoreInv
<1>9. CASE CommitFails(w) \/ Crash(w)
  <2>1. row' = row /\ Moves(row[r], row[r])
    BY <1>1, <1>9 DEF CommitFails, Crash, Moves
  <2>2. row[r].state # "destroyed"
    BY <1>1 DEF LegalRow, Working
  <2>3. /\ TaskOk(r)' /\ WorkOk(r)'
        /\ \A m \in Message : m.res # r => queue'[m] = queue[m]
    <3>1. CASE CommitFails(w)
      <4>1. r \in abandoned' /\ queue' = queue
        BY <1>0, <3>1 DEF CommitFails
      <4>2. TaskOk(r)'
        BY <1>1, <4>1 DEF TaskOk, IsTask
      <4> QED
        BY <4>1, <4>2 DEF WorkOk
    <3>2. CASE Crash(w)
      <4>0. PICK msg \in Message : msg = worker[w].msg
        BY <1>1
      <4>1. msg.res = r /\ msg.action = "execute" /\ queue[msg] = 0
        BY <1>0, <1>1, <1>2, <4>0 DEF IsTask, CoreInv, TypeOK
      <4>2. /\ queue'[msg] = 1 /\ IsTask(msg, r)'
            /\ \A m \in Message : m # msg => queue'[m] = queue[m]
        BY <3>2, <4>0, <4>1 DEF Crash, Publish, IsTask, CoreInv, TypeOK
      <4>3. row[r].status = "in_progress" => r \in abandoned'
        <5>1. ASSUME row[r].status = "in_progress" PROVE Owns(w, r)
          BY <1>0, <1>1, <1>2, <5>1 DEF Owns, Busy
        <5> QED
          BY <1>0, <3>2, <5>1 DEF Crash
      <4>4. \A m \in Message : IsTask(m, r)' <=> m = msg
        BY <1>1, <4>0, <4>2 DEF IsTask
      <4>5. TaskOk(r)'
        BY <1>1, <1>4, <1>5, <2>1, <4>1, <4>2, <4>3, <4>4 DEF TaskOk, Working
      <4>6. WorkOk(r)'
        BY <4>0, <4>2 DEF WorkOk
      <4> QED
        BY <4>1, <4>2, <4>5, <4>6
    <3> QED
      BY <1>9, <3>1, <3>2
  <2>4. Sound(r)'
    BY <1>1, <1>4, <1>7, <1>14, <2>1, <2>2, <2>3, WorkerSound
  <2>5. \A s \in Resource : s # r => Untouched(s)
    BY <1>1, <1>4, <1>6, <1>14, <2>1, <2>3, WorkerFrame DEF CoreInv, TypeOK
  <2> QED
    BY <2>4, <2>5, UntouchedIsSound DEF CoreInv
<1> QED
  BY <1>8, <1>9

\* A worker that takes a message touches only its resource.
LEMMA TakeCore ==
    ASSUME CoreInv, OrdinaryUse, OrdinaryFaults, NEW w \in Worker, NEW m \in Message,
           Take(w, m), TypeOK'
    PROVE  CoreInv'
<1>0. PICK r : r = m.res
  OBVIOUS
<1>4. ~ PreviewFails(w, m)
  BY DEF PreviewFails, Fault, OrdinaryFaults
<1>1. r \in Resource /\ Sound(r) /\ queue[m] > 0 /\ worker[w] = Idle
  BY <1>0, <1>4 DEF CoreInv, Message, Take, Discard, DraftMissing, Postpone, GiveUp, Load,
                    NotReady, Receive
<1>2. CASE m.action = "dryrun"
  <2>1. Discard(w, m)
    BY <1>2, <1>4 DEF Take, DraftMissing, Postpone, GiveUp, Load, NotReady
  <2>2. /\ UNCHANGED <<live, gone, row, temp, infra, worker, rq, abandoned, awaiting>>
        /\ \A n \in Message : n # m => queue'[n] = queue[n]
    BY <2>1 DEF Discard, Consume, CoreInv, TypeOK
  <2>3. \A s \in Resource, n \in Message : IsTask(n, s)' <=> IsTask(n, s)
    BY <1>2, <2>2 DEF IsTask
  <2>4. \A n \in Message : n.action # "dryrun" => queue'[n] = queue[n]
    BY <1>2, <2>2
  <2>5. ASSUME NEW s \in Resource PROVE Sound(s)'
    <3>1. TaskOk(s)'
      BY <2>2, <2>3, <2>4 DEF CoreInv, Sound, TaskOk, Holds, IsTask
    <3>2. RowOk(s)' /\ WorkOk(s)' /\ HolderOk(s)' /\ AskOk(s)'
      BY <2>2, <2>3 DEF CoreInv, Sound, RowOk, WorkOk, HolderOk, AskOk, Holds, Asks, Guarded
    <3> QED
      BY <3>1, <3>2 DEF Sound
  <2> QED
    BY <2>5 DEF CoreInv
<1>3. CASE m.action # "dryrun"
  <2>1. IsTask(m, r)
    BY <1>0, <1>1, <1>3 DEF IsTask
  <2>2. /\ m.action = "execute" /\ queue[m] = 1
        /\ r \in live
        /\ row[r] \in Row /\ LegalRow(row[r]) /\ row[r].status \in Working
        /\ \A v \in Worker : ~ Holds(v, r)
        /\ \A n \in Message : IsTask(n, r) <=> n = m
        /\ \A q \in Request : ~ Asks(q, r)
    BY <2>1, TaskIsAlone
  <2>3. ~ DraftMissing(w, m)
    BY <2>2 DEF DraftMissing
  <2>4. row' = row /\ Moves(row[r], row[r]) /\ row[r].state # "destroyed"
    <3>1. MakeRetry(row[r]) = row[r] \/ ~ Postpone(w, m)
      BY <1>0, <2>2 DEF MakeRetry, Postpone, NotReady, Executable, Runnable
    <3>2. row' = row
      BY <1>0, <1>4, <2>3, <3>1 DEF Take, Discard, Postpone, GiveUp, Load, CoreInv, TypeOK
    <3> QED
      BY <2>2, <3>2 DEF Moves, LegalRow, Working
  <2>5. UNCHANGED <<live, gone, temp, infra, rq, abandoned, awaiting>>
    BY <1>4, <2>3 DEF Take, Discard, Postpone, GiveUp, Load
  <2>6. CASE Discard(w, m)
    <3>1. /\ worker' = worker /\ queue'[m] = 0
          /\ \A n \in Message : n # m => queue'[n] = queue[n]
      BY <1>1, <2>2, <2>6 DEF Discard, Consume, CoreInv, TypeOK
    <3>2. \A n \in Message : ~ IsTask(n, r)'
      BY <2>2, <3>1 DEF IsTask
    <3>3. r \in abandoned
      <4>1. row[r].status # "queued"
        BY <1>0, <2>2, <2>4, <2>6 DEF Discard, Executable, Runnable
      <4> QED
        BY <1>1, <2>1, <4>1 DEF Sound, TaskOk
    <3>4. TaskOk(r)' /\ HolderOk(r)' /\ WorkOk(r)'
      BY <2>2, <2>5, <3>1, <3>2, <3>3 DEF TaskOk, HolderOk, WorkOk, Holds
    <3>5. Sound(r)'
      BY <1>1, <2>2, <2>4, <2>5, <3>4, WorkerSound
    <3>6. \A s \in Resource : s # r => Untouched(s)
      BY <1>0, <1>1, <2>4, <2>5, <3>1, WorkerFrame
    <3> QED
      BY <3>5, <3>6, UntouchedIsSound DEF CoreInv
  <2>7. CASE Postpone(w, m)
    <3>1. PICK again : again = [m EXCEPT !.retries = @ + 1]
      OBVIOUS
    <3>2. /\ again \in Message /\ again # m /\ again.res = r /\ again.action = "execute"
      BY <1>0, <2>2, <2>7, <3>1, BoundsAssumption DEF Postpone, Message
    <3>3. queue[again] = 0
      BY <2>2, <3>2 DEF IsTask, CoreInv, TypeOK
    <3>4. /\ worker' = worker /\ queue'[m] = 0 /\ queue'[again] = 1
          /\ \A n \in Message : n \notin {m, again} => queue'[n] = queue[n]
      BY <2>2, <2>7, <3>1, <3>2, <3>3 DEF Postpone, CoreInv, TypeOK
    <3>5. \A n \in Message : IsTask(n, r)' <=> n = again
      BY <2>2, <3>2, <3>4 DEF IsTask
    <3>6. row[r].status = "queued"
      BY <1>0, <2>2, <2>7 DEF Postpone, NotReady, Executable, Runnable, Working
    <3>7. TaskOk(r)' /\ HolderOk(r)' /\ WorkOk(r)'
      BY <2>2, <2>4, <2>5, <3>2, <3>4, <3>5, <3>6 DEF TaskOk, HolderOk, WorkOk, Holds
    <3>8. Sound(r)'
      BY <1>1, <2>2, <2>4, <2>5, <3>7, WorkerSound
    <3>9. \A s \in Resource : s # r => Untouched(s)
      BY <1>0, <1>1, <2>4, <2>5, <3>2, <3>4, WorkerFrame
    <3> QED
      BY <3>8, <3>9, UntouchedIsSound DEF CoreInv
  <2>8. CASE GiveUp(w, m) \/ Load(w, m)
    <3>0. PICK pc \in {"loaded", "failing"} : Hold(w, m, pc)
      BY <2>8 DEF GiveUp, Load
    <3>10. PICK next :
              next = [pc |-> pc, msg |-> m, mem |-> row[r],
                      op |-> IF row[r].state = "destroy" THEN "destroy" ELSE "apply",
                      fresh |-> TRUE]
      OBVIOUS
    <3>1. /\ worker' = [worker EXCEPT ![w] = next]
          /\ next # Idle /\ next.msg = m /\ next.mem = row[r]
          /\ next.op = IF row[r].state = "destroy" THEN "destroy" ELSE "apply"
          /\ next.pc = pc
      BY <1>0, <3>0, <3>10 DEF Hold, Idle
    <3>2. /\ queue'[m] = 0
          /\ \A n \in Message : n # m => queue'[n] = queue[n]
      BY <2>2, <2>8 DEF GiveUp, Load, Consume, CoreInv, TypeOK
    <3>3. \A n \in Message : ~ IsTask(n, r)'
      BY <2>2, <3>2 DEF IsTask
    <3>4. /\ worker'[w] = next
          /\ \A v \in Worker : v # w => worker'[v] = worker[v]
          /\ \A v \in Worker : Holds(v, r)' <=> v = w
      BY <1>0, <2>2, <3>1 DEF Holds, CoreInv, TypeOK
    <3>5. row[r].status = "queued"
      BY <1>0, <2>2, <2>8 DEF GiveUp, Load, NotReady, Executable, Runnable, Working
    <3>6. TaskOk(r)' /\ WorkOk(r)'
      BY <3>3, <3>4 DEF TaskOk, WorkOk
    <3>7. HolderOk(r)'
      BY <2>2, <2>4, <2>5, <3>0, <3>1, <3>4, <3>5 DEF HolderOk
    <3>8. Sound(r)'
      BY <1>1, <2>2, <2>4, <2>5, <3>6, <3>7, WorkerSound
    <3>9. \A s \in Resource : s # r => Untouched(s)
      BY <1>0, <1>1, <2>4, <2>5, <3>2, <3>4, WorkerFrame
    <3> QED
      BY <3>8, <3>9, UntouchedIsSound DEF CoreInv
  <2> QED
    BY <1>4, <2>3, <2>6, <2>7, <2>8 DEF Take
<1> QED
  BY <1>2, <1>3

\* No step of a worker breaks the invariant.
LEMMA WorkerStepCore ==
    ASSUME CoreInv, OrdinaryUse, OrdinaryFaults, NEW w \in Worker, WorkerStep(w)
    PROVE  CoreInv'
<1>1. TypeOK'
  BY WorkerStepType DEF CoreInv
<1>2. CASE \E m \in Message : Take(w, m)
  BY <1>1, <1>2, TakeCore
<1>3. CASE worker[w] = Idle /\ ~ \E m \in Message : Take(w, m)
  BY <1>3 DEF WorkerStep, Proceed, Start, Refresh, Apply, ApplyFails, Done, Fail,
              RowVanished, CommitFails, Crash, Idle
<1>4. CASE worker[w] # Idle /\ ~ \E m \in Message : Take(w, m)
  <2>1. ~ RowVanished(w)
    BY <1>4, HolderIsAlone DEF RowVanished
  <2> QED
    BY <1>1, <1>4, <2>1, KeepingCore, EndingCore DEF WorkerStep, Proceed
<1> QED
  BY <1>2, <1>3, <1>4

-----------------------------------------------------------------------------
(* Steps of a request.                                                     *)

\* What the handler of an accepted request makes of a row that is as it read it.
LEMMA UserRows ==
    ASSUME OrdinaryUse, NEW c \in OpenRequest, NEW e, e = c.old, NEW t, t = c.oldTemp,
           NEW r, r = c.res, e \in Row, LegalRow(e), e.status \notin Working,
           t # {} => /\ e.state \in {"provision", "provisioned"}
                     /\ e.status \notin {"approval_pending", "rejected"},
           Guarded(c.act, e, t, r)
    PROVE  /\ RowAfter(c) \in Row /\ LegalRow(RowAfter(c))
           /\ RowAfter(c).status \in Working => c.act = "execute"
           /\ c.act = "execute" => RowAfter(c).status = "queued"
           /\ DropsDraft(c) \/ t = {} \/
                /\ RowAfter(c).state \in {"provision", "provisioned"}
                /\ RowAfter(c).status \notin {"approval_pending", "rejected"}
           /\ ApprovalFlow /\ RequestsOperation(c) => RowAfter(c).status = "approval_pending"
           /\ e.status = "approval_pending" /\ c.act \notin {"approve", "reject"} =>
                RowAfter(c).status = "approval_pending"
           /\ RowAfter(c).state = "destroyed" => r \in Abstract \/ e.state = "destroyed"
           /\ Sends(c) = IF c.act \in {"execute", "dryrun"} THEN {c.act} ELSE {}
<1> DEFINE new == RowAfter(c)
<1>1. e.status \in ModelStatus /\ e.state \in ModelState
  BY DEF Row
<1>2. c.act \in {"create", "edit", "approve", "reject", "destroy", "execute",
                 "recreate", "delete", "dryrun"}
  BY DEF OpenRequest, Guarded, OrdinaryUse, UserAction
<1>3. new \in Row
  BY RowAfterType
<1>4. Sends(c) = IF c.act \in {"execute", "dryrun"} THEN {c.act} ELSE {}
  BY <1>2 DEF Sends
<1>5. CASE c.act \in {"create", "edit", "delete", "dryrun"}
  <2>1. new = e
    BY <1>5 DEF RowAfter
  <2>2. ~ RequestsOperation(c)
    BY <1>5 DEF RequestsOperation
  <2> QED
    BY <1>3, <1>4, <1>5, <2>1, <2>2
<1>6. CASE c.act = "execute"
  <2>1. new = At("queued", e.state) /\ e.state # "destroyed" /\ e.status # "approval_pending"
    BY <1>6 DEF RowAfter, ExecuteEntity, Guarded, CanBeExecuted, LegalRow, At
  <2>2. ~ RequestsOperation(c)
    BY <1>6 DEF RequestsOperation
  <2> QED
    BY <1>3, <1>4, <1>6, <2>1, <2>2 DEF LegalRow, At, Working
<1>7. CASE c.act = "destroy"
  <2>1. new = At(Gate(ApprovalFlow), "destroy") /\ t = {} /\ e.status # "approval_pending"
    BY <1>7 DEF RowAfter, DestroyEntity, Guarded, CanBeDestroyed, LegalRow, At
  <2> QED
    BY <1>3, <1>4, <1>7, <2>1 DEF LegalRow, At, Gate, Working
<1>8. CASE c.act = "recreate"
  <2>1. t = {} /\ e.status # "approval_pending"
    BY <1>8 DEF Guarded, CanBeRecreated, At
  <2>2. new = IF e = At("ready", "destroy") THEN At("ready", "provisioned")
              ELSE At(Gate(ApprovalFlow), "provision")
    BY <1>8 DEF RowAfter, RecreateEntity
  <2> QED
    BY <1>3, <1>4, <1>8, <2>1, <2>2 DEF LegalRow, At, Gate, Working, RequestsOperation
<1>9. CASE c.act = "reject"
  <2>1. ~ RequestsOperation(c)
    BY <1>9 DEF RequestsOperation
  <2>2. CASE RejectsDraft(e, t)
    <3>1. new = e /\ DropsDraft(c)
      BY <1>9, <2>2 DEF RowAfter, DropsDraft
    <3> QED
      BY <1>3, <1>4, <1>9, <2>1, <3>1
  <2>3. CASE ~ RejectsDraft(e, t)
    <3>1. e.status = "approval_pending" /\ e.state \in {"destroy", "provision"} /\ t = {}
      BY <1>9, <2>3 DEF Guarded, CanReject
    <3>2. new = IF e.state = "provision" THEN At("rejected", "provision")
                ELSE At("done", "provisioned")
      BY <1>9, <2>3, <3>1 DEF RowAfter, RejectEntity
    <3> QED
      BY <1>3, <1>4, <1>9, <2>1, <3>1, <3>2 DEF LegalRow, At, Working
  <2> QED
    BY <2>2, <2>3
<1>10. CASE c.act = "approve"
  <2>1. ~ RequestsOperation(c)
    BY <1>10 DEF RequestsOperation
  <2>2. CASE ApprovesDraft(e, t) /\ "variables" \notin UNION t
    <3>1. new = e /\ DropsDraft(c)
      BY <1>10, <2>2 DEF RowAfter, DropsDraft
    <3> QED
      BY <1>3, <1>4, <1>10, <2>1, <3>1
  <2>3. CASE ~ (ApprovesDraft(e, t) /\ "variables" \notin UNION t)
    <3>1. new = IF r \in Abstract
                THEN At("done", IF e.state = "destroy" THEN "destroyed" ELSE "provisioned")
                ELSE At("ready", e.state)
      BY <1>10, <2>3 DEF RowAfter, ApproveEntity
    <3>2. DropsDraft(c) \/ t = {}
      BY <1>10, <2>3 DEF Guarded, CanApprove, DropsDraft, ApprovesDraft, At
    <3>3. e.state # "destroyed"
      BY <1>10 DEF Guarded, CanApprove, ApprovesDraft, At
    <3> QED
      BY <1>3, <1>4, <1>10, <2>1, <3>1, <3>2, <3>3 DEF LegalRow, At, Working
  <2> QED
    BY <2>2, <2>3
<1> QED
  BY <1>2, <1>5, <1>6, <1>7, <1>8, <1>9, <1>10

\* A request about r touches nothing else.
LEMMA RequestFrame ==
    ASSUME NEW q \in Request, NEW r \in Resource,
           rq[q] = NoRequest \/ Asks(q, r), rq'[q] = NoRequest \/ Asks(q, r)',
           \A p \in Request : p # q => rq'[p] = rq[p],
           worker' = worker,
           \A s \in Resource : s # r =>
                /\ (s \in live') = (s \in live) /\ (s \in gone') = (s \in gone)
                /\ (s \in abandoned') = (s \in abandoned)
                /\ (s \in awaiting') = (s \in awaiting)
                /\ row'[s] = row[s] /\ temp'[s] = temp[s] /\ infra'[s] = infra[s],
           \A m \in Message : m.res # r => queue'[m] = queue[m]
    PROVE  \A s \in Resource : s # r => Untouched(s)
<1> SUFFICES ASSUME NEW s \in Resource, s # r PROVE Untouched(s)
  OBVIOUS
<1>1. \A p \in Request : Asks(p, s) \/ Asks(p, s)' => rq'[p] = rq[p]
  BY DEF Asks
<1> QED
  BY <1>1 DEF Untouched

\* What is left to show of the resource a request was about.
LEMMA CommitSound ==
    ASSUME NEW r \in Resource, worker' = worker,
           \A w \in Worker : ~ Holds(w, r), \A p \in Request : ~ Asks(p, r)',
           RowOk(r)', TaskOk(r)', WorkOk(r)'
    PROVE  Sound(r)'
<1>1. HolderOk(r)'
  BY DEF HolderOk, Holds
<1>2. AskOk(r)'
  BY DEF AskOk
<1> QED
  BY <1>1, <1>2 DEF Sound

\* New values for a resource nobody executes change only what is in the cloud.
LEMMA ReconfigureIdle ==
    ASSUME TypeOK, NEW r \in Resource, \A w \in Worker : ~ Holds(w, r), Reconfigure(r)
    PROVE  /\ worker' = worker
           /\ infra[r] = "none" => infra'[r] = "none"
           /\ \A s \in Resource : s # r => infra'[s] = infra[s]
<1>1. worker' = worker
  BY DEF Reconfigure, TypeOK, Holds
<1> QED
  BY <1>1 DEF Reconfigure, TypeOK

\* A request that is opened has read what is so.
LEMMA BeginCore ==
    ASSUME CoreInv, OrdinaryUse, NEW q \in Request, NEW act \in Offered,
           NEW r \in Resource, NEW draft \in Edits \cup {{}}, Begin(q, act, r, draft), TypeOK'
    PROVE  CoreInv'
<1>1. /\ UNCHANGED <<live, gone, row, temp, infra, queue, worker, abandoned, awaiting>>
      /\ \A p \in Request : p # q => rq'[p] = rq[p]
      /\ rq[q] = NoRequest /\ Accepts(act, r)
  BY DEF Begin, CoreInv, TypeOK
<1>2. /\ rq'[q].res = r /\ rq'[q].act = act /\ rq'[q].old = row[r]
      /\ rq'[q].oldTemp = temp[r] /\ rq'[q].held = (temp[r] # {})
  BY DEF Begin, CoreInv, TypeOK
<1>3. rq'[q] # NoRequest
  BY <1>2 DEF Begin, CoreInv, TypeOK, NoRequest, OpenRequest
<1>4. IF act = "create" THEN r \notin live \cup gone
      ELSE r \in live /\ Guarded(act, row[r], temp[r], r)
  BY <1>1 DEF Accepts, CanCreate, Guarded, CanDestroy, CanRecreate
<1>5. AskOk(r)'
  <2>1. \A p \in Request : Asks(p, r)' => p = q \/ (Asks(p, r) /\ rq'[p] = rq[p])
    BY <1>1 DEF Asks
  <2> QED
    BY <1>1, <1>2, <1>4, <2>1 DEF AskOk, CoreInv, Sound, Guarded
<1>6. Sound(r)'
  <2>1. RowOk(r)' /\ WorkOk(r)'
    BY <1>1 DEF CoreInv, Sound, RowOk, WorkOk, Holds, IsTask
  <2>2. TaskOk(r)' /\ HolderOk(r)'
    BY <1>1 DEF CoreInv, Sound, TaskOk, HolderOk, Holds, IsTask
  <2> QED
    BY <1>5, <2>1, <2>2 DEF Sound
<1>7. \A s \in Resource : s # r => Untouched(s)
  BY <1>1, <1>2, RequestFrame DEF Asks
<1> QED
  BY <1>6, <1>7, UntouchedIsSound DEF CoreInv

\* What is known of the resource a request is about, and what its end changes.
LEMMA CommitFrame ==
    ASSUME CoreInv, OrdinaryUse, RequestsApart, NEW q \in Request,
           rq[q] # NoRequest, NEW r, r = rq[q].res,
           rq' = [rq EXCEPT ![q] = NoRequest] \/ EndDropping(q, r)
    PROVE  /\ \A p \in Request : p # q => rq'[p] = rq[p]
           /\ rq'[q] = NoRequest
           /\ \A p \in Request : ~ Asks(p, r)'
<1>1. \A p \in Request : Asks(p, r) <=> p = q
  BY AskerIsAlone
<1>2. /\ \A p \in Request : p # q => rq'[p] = rq[p]
      /\ rq'[q] = NoRequest
  BY <1>1 DEF EndDropping, Asks, CoreInv, TypeOK
<1>3. \A p \in Request : ~ Asks(p, r)'
  BY <1>1, <1>2 DEF Asks
<1> QED
  BY <1>2, <1>3

\* Creating, editing, deleting and giving up.
LEMMA CommitCreateCore ==
    ASSUME CoreInv, OrdinaryUse, RequestsApart, NEW q \in Request, CommitCreate(q), TypeOK'
    PROVE  CoreInv'
<1>0. PICK r : r = rq[q].res
  OBVIOUS
<1>1. rq[q] # NoRequest
  BY DEF CommitCreate, NoRequest
<1>2. /\ r \in Resource /\ Sound(r)
      /\ \A w \in Worker : ~ Holds(w, r)
      /\ \A m \in Message : ~ IsTask(m, r)
      /\ \A p \in Request : Asks(p, r) <=> p = q
  BY <1>0, <1>1, AskerIsAlone
<1>3. r \notin live /\ r \notin gone
  BY <1>2 DEF CommitCreate, Sound, AskOk
<1>4. temp[r] = {} /\ r \notin awaiting /\ infra[r] = "none"
  BY <1>2, <1>3 DEF Sound, RowOk
<1>5. PICK new : new = At(Gate(ApprovalFlow), "provision")
  OBVIOUS
<1>6. /\ LegalRow(new) /\ new.status \notin Working /\ new.state = "provision"
      /\ ApprovalFlow => new.status = "approval_pending"
  BY <1>5 DEF At, Gate, LegalRow, Working
<1>7. /\ live' = live \cup {r} /\ row' = [row EXCEPT ![r] = new]
      /\ awaiting' = IF ApprovalFlow THEN awaiting \cup {r} ELSE awaiting
      /\ rq' = [rq EXCEPT ![q] = NoRequest]
      /\ UNCHANGED <<gone, temp, infra, queue, worker, abandoned>>
  BY <1>0, <1>5 DEF CommitCreate
<1>8. row'[r] = new /\ \A s \in Resource : s # r => row'[s] = row[s]
  BY <1>2, <1>7 DEF CoreInv, TypeOK
<1>9. RowOk(r)'
  BY <1>3, <1>4, <1>6, <1>7, <1>8 DEF RowOk
<1>10. TaskOk(r)' /\ WorkOk(r)'
  BY <1>2, <1>6, <1>7, <1>8 DEF TaskOk, WorkOk, IsTask
<1>11. /\ \A p \in Request : p # q => rq'[p] = rq[p]
       /\ rq'[q] = NoRequest
       /\ \A p \in Request : ~ Asks(p, r)'
  BY <1>0, <1>1, <1>7, CommitFrame
<1>12. Sound(r)'
  BY <1>2, <1>7, <1>9, <1>10, <1>11, CommitSound
<1>13. \A s \in Resource : s # r => Untouched(s)
  BY <1>0, <1>1, <1>2, <1>7, <1>8, <1>11, RequestFrame
<1> QED
  BY <1>12, <1>13, UntouchedIsSound DEF CoreInv

LEMMA CommitEditCore ==
    ASSUME CoreInv, OrdinaryUse, RequestsApart, NEW q \in Request, CommitEdit(q), TypeOK'
    PROVE  CoreInv'
<1>0. PICK r : r = rq[q].res
  OBVIOUS
<1>1. rq[q] # NoRequest
  BY DEF CommitEdit, NoRequest
<1>2. /\ r \in Resource /\ Sound(r)
      /\ \A w \in Worker : ~ Holds(w, r)
      /\ \A m \in Message : ~ IsTask(m, r)
      /\ r \in live => /\ row[r] \in Row /\ LegalRow(row[r])
                       /\ row[r].status \notin Working
      /\ \A p \in Request : Asks(p, r) <=> p = q
  BY <1>0, <1>1, AskerIsAlone
<1>3. /\ r \in live /\ r \notin gone
      /\ rq[q].old = row[r] /\ CanEdit(row[r])
      /\ "edit" \in GetActions(row[r], temp[r])
  BY <1>2 DEF CommitEdit, Sound, AskOk, RowOk, Guarded
<1>4. EditsInPlace(row[r]) \/ /\ row[r].state \in {"provision", "provisioned"}
                              /\ row[r].status \notin {"approval_pending", "rejected"}
  BY <1>2, <1>3 DEF CanEdit, EditsInPlace, LegalRow, Row, ModelState, ModelStatus, At, GetActions
<1>5. /\ UNCHANGED <<live, gone, row, queue, abandoned, awaiting>>
      /\ rq' = [rq EXCEPT ![q] = NoRequest]
      /\ temp' = temp \/ ~ EditsInPlace(row[r])
      /\ \A s \in Resource : s # r => temp'[s] = temp[s]
  BY <1>0, <1>3 DEF CommitEdit, CoreInv, TypeOK
<1>6. /\ worker' = worker
      /\ infra[r] = "none" => infra'[r] = "none"
      /\ \A s \in Resource : s # r => infra'[s] = infra[s]
  <2>1. CASE Reconfigures(rq[q])
    BY <1>0, <1>2, <2>1, ReconfigureIdle DEF CommitEdit, CoreInv
  <2>2. CASE ~ Reconfigures(rq[q])
    BY <2>2 DEF CommitEdit
  <2> QED
    BY <2>1, <2>2
<1>7. RowOk(r)'
  BY <1>2, <1>3, <1>4, <1>5, <1>6 DEF Sound, RowOk
<1>8. TaskOk(r)' /\ WorkOk(r)'
  BY <1>2, <1>3, <1>5 DEF TaskOk, WorkOk, IsTask
<1>9. /\ \A p \in Request : p # q => rq'[p] = rq[p]
      /\ rq'[q] = NoRequest
      /\ \A p \in Request : ~ Asks(p, r)'
  BY <1>0, <1>1, <1>5, CommitFrame
<1>10. Sound(r)'
  BY <1>2, <1>6, <1>7, <1>8, <1>9, CommitSound
<1>11. \A s \in Resource : s # r => Untouched(s)
  BY <1>0, <1>1, <1>2, <1>5, <1>6, <1>9, RequestFrame
<1> QED
  BY <1>10, <1>11, UntouchedIsSound DEF CoreInv

LEMMA CommitDeleteCore ==
    ASSUME CoreInv, OrdinaryUse, RequestsApart, NEW q \in Request, CommitDelete(q), TypeOK'
    PROVE  CoreInv'
<1>0. PICK r : r = rq[q].res
  OBVIOUS
<1>1. rq[q] # NoRequest
  BY DEF CommitDelete, NoRequest
<1>2. /\ r \in Resource /\ Sound(r)
      /\ \A w \in Worker : ~ Holds(w, r)
      /\ \A m \in Message : ~ IsTask(m, r)
      /\ \A p \in Request : Asks(p, r) <=> p = q
  BY <1>0, <1>1, AskerIsAlone
<1>3. /\ live' = live \ {r} /\ gone' = gone \cup {r}
      /\ temp' = [temp EXCEPT ![r] = {}] /\ abandoned' = abandoned \ {r}
      /\ EndDropping(q, r)
      /\ UNCHANGED <<row, infra, queue, worker, awaiting>>
  BY <1>0 DEF CommitDelete
<1>4. RowOk(r)'
  BY <1>2, <1>3 DEF Sound, RowOk, CoreInv, TypeOK
<1>5. TaskOk(r)' /\ WorkOk(r)'
  BY <1>2, <1>3 DEF TaskOk, WorkOk, IsTask
<1>6. /\ \A p \in Request : p # q => rq'[p] = rq[p]
      /\ rq'[q] = NoRequest
      /\ \A p \in Request : ~ Asks(p, r)'
  BY <1>0, <1>1, <1>3, CommitFrame
<1>7. Sound(r)'
  BY <1>2, <1>3, <1>4, <1>5, <1>6, CommitSound
<1>8. \A s \in Resource : s # r => Untouched(s)
  <2>1. \A s \in Resource : s # r => temp'[s] = temp[s]
    BY <1>3 DEF CoreInv, TypeOK
  <2> QED
    BY <1>0, <1>1, <1>2, <1>3, <1>6, <2>1, RequestFrame
<1> QED
  BY <1>7, <1>8, UntouchedIsSound DEF CoreInv

LEMMA AbortCore ==
    ASSUME CoreInv, OrdinaryUse, RequestsApart, NEW q \in Request, Abort(q), TypeOK'
    PROVE  CoreInv'
<1>0. PICK r : r = rq[q].res
  OBVIOUS
<1>1. rq[q] # NoRequest
  BY DEF Abort
<1>2. /\ r \in Resource /\ Sound(r)
      /\ \A w \in Worker : ~ Holds(w, r)
      /\ \A m \in Message : ~ IsTask(m, r)
      /\ \A p \in Request : Asks(p, r) <=> p = q
  BY <1>0, <1>1, AskerIsAlone
<1>3. /\ rq' = [rq EXCEPT ![q] = NoRequest]
      /\ UNCHANGED <<live, gone, row, temp, infra, queue, worker, abandoned, awaiting>>
  BY DEF Abort
<1>4. RowOk(r)' /\ WorkOk(r)'
  BY <1>2, <1>3 DEF Sound, RowOk, WorkOk, Holds, IsTask
<1>5. TaskOk(r)'
  BY <1>2, <1>3 DEF TaskOk, IsTask
<1>6. /\ \A p \in Request : p # q => rq'[p] = rq[p]
      /\ rq'[q] = NoRequest
      /\ \A p \in Request : ~ Asks(p, r)'
  BY <1>0, <1>1, <1>3, CommitFrame
<1>7. Sound(r)'
  BY <1>2, <1>3, <1>4, <1>5, <1>6, CommitSound
<1>8. \A s \in Resource : s # r => Untouched(s)
  BY <1>0, <1>1, <1>2, <1>3, <1>6, RequestFrame
<1> QED
  BY <1>7, <1>8, UntouchedIsSound DEF CoreInv

\* Approving, rejecting, destroying, recreating and executing.
LEMMA CommitActionCore ==
    ASSUME CoreInv, OrdinaryUse, RequestsApart, NEW q \in Request, CommitAction(q), TypeOK'
    PROVE  /\ CoreInv'
           /\ row' = [row EXCEPT ![rq[q].res] = RowAfter(rq[q])]
<1>0. PICK r, c : c = rq[q] /\ r = c.res
  OBVIOUS
<1>1. rq[q] # NoRequest
  BY DEF CommitAction, NoRequest
<1>2. /\ c \in OpenRequest /\ r \in Resource /\ Sound(r)
      /\ \A w \in Worker : ~ Holds(w, r)
      /\ \A m \in Message : ~ IsTask(m, r)
      /\ r \in live => /\ row[r] \in Row /\ LegalRow(row[r])
                       /\ row[r].status \notin Working
      /\ \A p \in Request : Asks(p, r) <=> p = q
  BY <1>0, <1>1, AskerIsAlone
<1>3. c.act \notin {"none", "create", "edit", "delete"} /\ r \in live
  BY <1>0 DEF CommitAction
<1>4. /\ row[r] \in Row /\ LegalRow(row[r]) /\ row[r].status \notin Working
      /\ c.old = row[r] /\ c.oldTemp = temp[r] /\ c.held = (temp[r] # {})
      /\ Guarded(c.act, row[r], temp[r], r)
  BY <1>0, <1>2, <1>3 DEF Sound, AskOk
<1>5. temp[r] # {} => /\ row[r].state \in {"provision", "provisioned"}
                      /\ row[r].status \notin {"approval_pending", "rejected"}
  BY <1>2 DEF Sound, RowOk
<1>6. PICK new : new = RowAfter(c)
  OBVIOUS
<1>7. /\ new \in Row /\ LegalRow(new)
      /\ new.status \in Working => c.act = "execute"
      /\ c.act = "execute" => new.status = "queued"
      /\ DropsDraft(c) \/ temp[r] = {} \/ /\ new.state \in {"provision", "provisioned"}
                                          /\ new.status \notin {"approval_pending", "rejected"}
      /\ ApprovalFlow /\ RequestsOperation(c) => new.status = "approval_pending"
      /\ row[r].status = "approval_pending" /\ c.act \notin {"approve", "reject"} =>
            new.status = "approval_pending"
      /\ new.state = "destroyed" => r \in Abstract \/ row[r].state = "destroyed"
      /\ Sends(c) = IF c.act \in {"execute", "dryrun"} THEN {c.act} ELSE {}
  BY <1>0, <1>2, <1>4, <1>5, <1>6, UserRows
<1>8. /\ row' = [row EXCEPT ![r] = new]
      /\ row'[r] = new /\ \A s \in Resource : s # r => row'[s] = row[s]
  <2>1. Merged(row[r], c.old, new) = new
    BY <1>4, <1>7, MergedIsNew
  <2>2. row' = [row EXCEPT ![r] = new]
    BY <1>0, <1>6, <2>1 DEF CommitAction
  <2> QED
    BY <1>2, <2>2 DEF CoreInv, TypeOK
<1>9. /\ UNCHANGED <<live, gone>>
      /\ rq' = [rq EXCEPT ![q] = NoRequest] \/ EndDropping(q, r)
      /\ temp'[r] = IF DropsDraft(c) THEN {} ELSE temp[r]
      /\ \A s \in Resource : s # r => temp'[s] = temp[s]
  <2>1. CASE DropsDraft(c) /\ c.held
    BY <1>0, <1>2, <2>1 DEF CommitAction, CoreInv, TypeOK
  <2>2. CASE ~ (DropsDraft(c) /\ c.held)
    <3>1. DropsDraft(c) => temp[r] = {}
      BY <1>4, <2>2
    <3> QED
      BY <1>0, <2>2, <3>1 DEF CommitAction
  <2> QED
    BY <2>1, <2>2
<1>10. /\ worker' = worker
       /\ infra[r] = "none" => infra'[r] = "none"
       /\ \A s \in Resource : s # r => infra'[s] = infra[s]
  <2>1. CASE Reconfigures(c)
    BY <1>0, <1>2, <2>1, ReconfigureIdle DEF CommitAction, CoreInv
  <2>2. CASE ~ Reconfigures(c)
    BY <1>0, <2>2 DEF CommitAction
  <2> QED
    BY <2>1, <2>2
<1>11. /\ \A s \in Resource : s # r => /\ (s \in abandoned') = (s \in abandoned)
                                       /\ (s \in awaiting') = (s \in awaiting)
       /\ r \in awaiting' => \/ ApprovalFlow /\ RequestsOperation(c)
                             \/ r \in awaiting /\ c.act \notin {"approve", "reject"}
       /\ faults' # faults => r \in abandoned'
  BY <1>0 DEF CommitAction
<1>12. RowOk(r)'
  <2>1. r \in live' => r \notin gone' /\ LegalRow(row'[r])
    BY <1>2, <1>7, <1>8, <1>9 DEF Sound, RowOk
  <2>2. temp'[r] # {} => /\ r \in live'
                         /\ row'[r].state \in {"provision", "provisioned"}
                         /\ row'[r].status \notin {"approval_pending", "rejected"}
    BY <1>3, <1>7, <1>8, <1>9
  <2>3. r \in awaiting' => r \in live' /\ row'[r].status = "approval_pending"
    BY <1>2, <1>3, <1>7, <1>8, <1>9, <1>11 DEF Sound, RowOk
  <2>4. r \in Abstract \/ row'[r].state = "destroyed" => infra'[r] = "none"
    BY <1>2, <1>3, <1>7, <1>8, <1>10 DEF Sound, RowOk
  <2> QED
    BY <1>3, <1>9, <2>1, <2>2, <2>3, <2>4 DEF RowOk
<1>13. /\ \A m \in Message : m.res # r => queue'[m] = queue[m]
       /\ TaskOk(r)' /\ WorkOk(r)'
  <2>1. CASE queue' = queue /\ (c.act = "execute" => faults' # faults)
    <3>1. \A m \in Message : ~ IsTask(m, r)'
      BY <1>2, <2>1 DEF IsTask
    <3> QED
      BY <1>7, <1>8, <1>11, <2>1, <3>1 DEF TaskOk, WorkOk
  <2>2. ASSUME NEW msg, msg = Task(r, c.act), Publish(msg), c.act \in {"execute", "dryrun"}
        PROVE  /\ \A m \in Message : m.res # r => queue'[m] = queue[m]
               /\ TaskOk(r)' /\ WorkOk(r)'
    <3>1. msg \in Message /\ msg.res = r /\ msg.action = c.act
      BY <1>2, <2>2, BoundsAssumption DEF Task, Message, TaskAction
    <3>2. /\ queue'[msg] = queue[msg] + 1
          /\ \A m \in Message : m # msg => queue'[m] = queue[m]
      BY <2>2, <3>1 DEF Publish, CoreInv, TypeOK
    <3>3. c.act = "execute" => queue[msg] = 0
      BY <1>2, <3>1 DEF IsTask, CoreInv, TypeOK
    <3>4. \A m \in Message : IsTask(m, r)' => c.act = "execute" /\ m = msg
      BY <1>2, <2>2, <3>1, <3>2 DEF IsTask
    <3>5. c.act = "execute" => IsTask(msg, r)'
      BY <3>1, <3>2, <3>3 DEF IsTask
    <3>6. TaskOk(r)'
      BY <1>2, <1>3, <1>7, <1>8, <1>9, <1>10, <3>1, <3>2, <3>3, <3>4 DEF TaskOk, Holds
    <3>7. WorkOk(r)'
      BY <1>7, <1>8, <3>1, <3>5 DEF WorkOk
    <3> QED
      BY <3>1, <3>2, <3>6, <3>7
  <2>3. \/ queue' = queue /\ (c.act = "execute" => faults' # faults)
        \/ \E action \in Sends(c) : Publish(Task(r, action))
    <3>1. CASE Fault("lost") /\ UNCHANGED queue
      BY <3>1, BoundsAssumption DEF Fault, CoreInv, TypeOK
    <3> QED
      BY <1>0, <1>7, <3>1 DEF CommitAction, SendOrLose
  <2> QED
    BY <1>7, <2>1, <2>2, <2>3
<1>14. /\ \A p \in Request : p # q => rq'[p] = rq[p]
       /\ rq'[q] = NoRequest
       /\ \A p \in Request : ~ Asks(p, r)'
  BY <1>0, <1>1, <1>9, CommitFrame
<1>15. Sound(r)'
  BY <1>2, <1>10, <1>12, <1>13, <1>14, CommitSound
<1>16. \A s \in Resource : s # r => Untouched(s)
  BY <1>0, <1>1, <1>2, <1>8, <1>9, <1>10, <1>11, <1>13, <1>14, RequestFrame
<1> QED
  BY <1>0, <1>6, <1>8, <1>15, <1>16, UntouchedIsSound DEF CoreInv

\* No step of a request breaks the invariant.
LEMMA UserStepCore ==
    ASSUME CoreInv, OrdinaryUse, OrdinaryFaults, RequestsApart, NEW q \in Request, UserStep(q)
    PROVE  CoreInv'
<1>1. TypeOK'
  BY UserStepType DEF CoreInv
<1>2. ~ AbortAndSend(q)
  BY DEF AbortAndSend, Fault, OrdinaryFaults
<1>3. CASE \E act \in Offered, r \in Resource, draft \in Edits \cup {{}} :
                Begin(q, act, r, draft)
  BY <1>1, <1>3, BeginCore
<1>4. CASE \/ CommitCreate(q) \/ CommitEdit(q) \/ CommitDelete(q)
           \/ CommitAction(q) \/ Abort(q)
  BY <1>1, <1>4, CommitCreateCore, CommitEditCore, CommitDeleteCore, CommitActionCore,
     AbortCore
<1> QED
  BY <1>2, <1>3, <1>4 DEF UserStep

\* The invariant is inductive while requests are apart.
LEMMA NextCore ==
    ASSUME OrdinaryUse, OrdinaryFaults
    PROVE  CoreInv /\ RequestsApart /\ [Next]_vars => CoreInv'
<1> SUFFICES ASSUME CoreInv, RequestsApart, [Next]_vars PROVE CoreInv'
  OBVIOUS
<1>1. CASE Next
  BY <1>1, UserStepCore, WorkerStepCore DEF Next
<1>2. CASE UNCHANGED vars
  <2>1. TypeOK'
    BY <1>2, NextTypeOK DEF CoreInv
  <2>2. ASSUME NEW s \in Resource PROVE Sound(s)'
    <3>1. Untouched(s)
      BY <1>2 DEF vars, Untouched
    <3> QED
      BY <3>1, UntouchedIsSound DEF CoreInv
  <2> QED
    BY <2>1, <2>2 DEF CoreInv
<1> QED
  BY <1>1, <1>2

\* CoreInv holds as long as requests for one resource do not overlap.
LEMMA CoreHolds ==
    ASSUME OrdinaryUse, OrdinaryFaults
    PROVE  Spec /\ []RequestsApart => []CoreInv
  BY InitCore, NextCore, PTL DEF Spec

-----------------------------------------------------------------------------
(* What holds as long as requests for one resource do not overlap.         *)

\* No destruction starts, and nothing is rejected or waits for another approval,
\* while an edit waits for its decision.
THEOREM EditsBlock ==
    ASSUME OrdinaryUse, OrdinaryFaults
    PROVE  Spec /\ []RequestsApart => []PendingEditBlocksDestroy
<1>1. CoreInv => PendingEditBlocksDestroy
  BY DEF CoreInv, TypeOK, Sound, RowOk, PendingEditBlocksDestroy
<1> QED
  BY <1>1, CoreHolds, PTL

\* No worker starts an operation that nobody has approved since it was requested, as
\* long as nobody resends a task or previews an edit: any number of workers that
\* crash and commits that fail, any tasks lost and redelivered.  Without
\* OrdinaryUse it is false, as run preview_decided shows.
THEOREM ApprovedFirst ==
    ASSUME OrdinaryUse, OrdinaryFaults
    PROVE  Spec /\ []RequestsApart => []ExecutionIsApproved
<1>1. CoreInv => ExecutionIsApproved
  <2> SUFFICES ASSUME CoreInv, NEW w \in Worker, worker[w].pc \in {"started", "running"}
               PROVE  worker[w].msg.res \notin awaiting
    BY DEF ExecutionIsApproved
  <2>1. PICK r : r = worker[w].msg.res
    OBVIOUS
  <2>2. r \in Resource /\ Sound(r) /\ Holds(w, r)
    BY <2>1, BusyType DEF CoreInv, Holds, Idle
  <2> QED
    BY <2>1, <2>2 DEF Sound, RowOk, HolderOk
<1> QED
  BY <1>1, CoreHolds, PTL

\* A destroyed resource is DONE, and nothing of it is left in the cloud.
THEOREM DestroyedMeansGone ==
    ASSUME OrdinaryUse, OrdinaryFaults
    PROVE  Spec /\ []RequestsApart => []DestroyedIsEmpty
<1>1. CoreInv => DestroyedIsEmpty
  BY DEF CoreInv, TypeOK, Sound, RowOk, LegalRow, DestroyedIsEmpty, DestroyedIsRemoved,
         DestroyedIsFinal
<1> QED
  BY <1>1, CoreHolds, PTL

\* A set with at most one element.
LEMMA AtMostOne ==
    ASSUME NEW S, NEW x, S \subseteq {x}
    PROVE  /\ S = {} \/ S = {x}
           /\ Cardinality(S) = IF S = {} THEN 0 ELSE 1
<1>1. S = {} \/ S = {x}
  OBVIOUS
<1> QED
  BY <1>1, FS_EmptySet, FS_Singleton

\* At most one task or run of a resource at a time, also when a crash makes the
\* broker deliver the task again.
THEOREM RunsExclude ==
    ASSUME OrdinaryUse, OrdinaryFaults
    PROVE  Spec /\ []RequestsApart => []ExclusiveExecution
<1>1. CoreInv => ExclusiveExecution
  <2> SUFFICES ASSUME CoreInv, NEW r \in Resource
               PROVE  /\ Cardinality(Tasks(r)) + Cardinality(Runs(r)) <= 1
                      /\ \A m \in Tasks(r) : queue[m] = 1
    BY DEF ExclusiveExecution
  <2>1. Sound(r)
    BY DEF CoreInv
  <2>2. \A m \in Tasks(r) : m \in Message /\ IsTask(m, r)
    BY DEF Tasks, IsTask
  <2>3. \A w \in Runs(r) : w \in Worker /\ Holds(w, r)
    BY DEF Runs, Holds
  <2>4. CASE \E m \in Message : IsTask(m, r)
    <3>1. PICK m \in Message : IsTask(m, r)
      BY <2>4
    <3>2. Tasks(r) \subseteq {m} /\ Runs(r) = {} /\ queue[m] = 1
      BY <2>1, <2>2, <2>3, <3>1 DEF Sound, TaskOk
    <3> QED
      BY <3>2, AtMostOne, FS_EmptySet
  <2>5. CASE \A m \in Message : ~ IsTask(m, r)
    <3>1. Tasks(r) = {}
      BY <2>2, <2>5
    <3>2. CASE Runs(r) = {}
      BY <3>1, <3>2, FS_EmptySet
    <3>3. CASE Runs(r) # {}
      <4>1. PICK w \in Worker : Holds(w, r)
        BY <2>3, <3>3
      <4>2. Runs(r) \subseteq {w}
        BY <2>1, <2>3, <4>1 DEF Sound, HolderOk
      <4> QED
        BY <3>1, <4>2, AtMostOne, FS_EmptySet
    <3> QED
      BY <3>2, <3>3
  <2> QED
    BY <2>4, <2>5
<1> QED
  BY <1>1, CoreHolds, PTL

\* Wherever a resource is, its task is on the way, or there is an action that is
\* both offered and accepted, or a fault has left it IN_PROGRESS.
THEOREM AlwaysAWayOn ==
    ASSUME OrdinaryUse, OrdinaryFaults
    PROVE  Spec /\ []RequestsApart => []NeverStranded
<1>1. CoreInv => NeverStranded
  <2> SUFFICES ASSUME CoreInv, NEW r \in live, Tasks(r) = {}, Runs(r) = {},
                      ~ (row[r].status = "in_progress" /\ r \in abandoned)
               PROVE  \E act \in UserAction \ {"edit", "dryrun", "dryrun_with_temp_state"} :
                          Accepts(act, r)
    BY DEF NeverStranded
  <2>1. r \in Resource /\ Sound(r) /\ row[r] \in Row
    BY DEF CoreInv, TypeOK
  <2>2. row[r].status # "in_progress"
    <3>1. ASSUME NEW m \in Message, IsTask(m, r) PROVE FALSE
      BY <2>1, <3>1 DEF Sound, TaskOk, Tasks, IsTask
    <3>2. ASSUME NEW w \in Worker, Holds(w, r) PROVE FALSE
      <4>1. worker[w].msg \in Message /\ worker[w].msg.action = "execute"
        BY <2>1, <3>2, BusyType DEF Sound, HolderOk, Holds, CoreInv, TypeOK, Idle, Busy
      <4> QED
        BY <3>2, <4>1 DEF Runs, Holds, Message
    <3> QED
      BY <2>1, <3>1, <3>2 DEF Sound, WorkOk, Working
  <2>3. LegalRow(row[r]) /\ (row[r].status = "approval_pending" => temp[r] = {})
    BY <2>1 DEF Sound, RowOk
  <2>4. CASE row[r].status = "approval_pending"
    <3>1. Accepts("reject", r)
      BY <2>1, <2>3, <2>4 DEF Accepts, GetActions, CanReject, RejectsDraft, LegalRow
    <3> QED
      BY <3>1 DEF UserAction
  <2>5. CASE row[r].status = "rejected" \/ row[r].state = "destroyed"
    <3>1. Accepts("delete", r)
      BY <2>1, <2>3, <2>5 DEF Accepts, GetActions, CanBeDeleted, LegalRow, At, Row
    <3> QED
      BY <3>1 DEF UserAction
  <2>6. CASE row[r].status \in {"ready", "done", "error"} /\ row[r].state # "destroyed"
    <3>1. Accepts("execute", r)
      BY <2>1, <2>3, <2>6 DEF Accepts, GetActions, CanBeExecuted, LegalRow, At, Row, ModelState
    <3> QED
      BY <3>1 DEF UserAction
  <2>7. CASE row[r].status = "queued"
    <3>1. Accepts("retry", r)
      BY <2>7 DEF Accepts, GetActions
    <3> QED
      BY <3>1 DEF UserAction
  <2> QED
    BY <2>1, <2>2, <2>4, <2>5, <2>6, <2>7 DEF Row, ModelStatus
<1> QED
  BY <1>1, CoreHolds, PTL

-----------------------------------------------------------------------------
(* Refinement: what watchers of the rows see.                              *)

\* The rows as ResourcePromise has them.
Rows == [r \in Resource |->
            IF r \in live THEN row[r] ELSE [status |-> "absent", state |-> "absent"]]

Seen(r) == IF r \in live THEN row[r] ELSE [status |-> "absent", state |-> "absent"]

\* A step that touches one row is a change of that row.
LEMMA OneRowChanges ==
    ASSUME NEW r \in Resource, NEW new, Seen(r)' = new,
           \A s \in Resource : s # r => (s \in live') = (s \in live) /\ row'[s] = row[s]
    PROVE  Rows' = [Rows EXCEPT ![r] = new]
<1>1. \A s \in Resource : s # r => Seen(s)' = Seen(s)
  BY DEF Seen
<1>2. [s \in Resource |-> Seen(s)]' = [[s \in Resource |-> Seen(s)] EXCEPT ![r] = new]
  BY <1>1
<1> QED
  BY <1>2 DEF Rows, Seen

\* No row changes.
LEMMA NoRowChanges ==
    ASSUME live' = live, row' = row
    PROVE  Rows' = Rows
  BY DEF Rows

\* What the handler of an accepted request does to its row is promised.
LEMMA ActionKept ==
    ASSUME CoreInv, OrdinaryUse, RequestsApart, NEW q \in Request, CommitAction(q)
    PROVE  Promise!Next \/ Rows' = Rows
<1>0. PICK r, c : c = rq[q] /\ r = c.res
  OBVIOUS
<1>1. rq[q] # NoRequest
  BY DEF CommitAction, NoRequest
<1>2. /\ c \in OpenRequest /\ r \in Resource /\ Sound(r)
      /\ r \in live => /\ row[r] \in Row /\ LegalRow(row[r])
                       /\ row[r].status \notin Working
      /\ \A p \in Request : Asks(p, r) <=> p = q
  BY <1>0, <1>1, AskerIsAlone
<1>3. c.act \notin {"none", "create", "edit", "delete"} /\ r \in live /\ live' = live
  BY <1>0 DEF CommitAction
<1>4. PICK e, t : e = row[r] /\ t = temp[r]
  OBVIOUS
<1>5. /\ e \in Row /\ LegalRow(e) /\ e.status \notin Working
      /\ c.old = e /\ c.oldTemp = t
      /\ Guarded(c.act, e, t, r)
      /\ t # {} => e.status \notin {"approval_pending", "rejected"}
  BY <1>0, <1>2, <1>3, <1>4 DEF Sound, AskOk, RowOk
<1>6. PICK new : new = RowAfter(c)
  OBVIOUS
<1>7. row' = [row EXCEPT ![r] = new]
  <2>1. TypeOK'
    BY UserStepType DEF UserStep, CoreInv
  <2> QED
    BY <1>0, <1>6, <2>1, CommitActionCore
<1>8. Seen(r) = e /\ Seen(r)' = new
  BY <1>2, <1>3, <1>4, <1>7 DEF Seen, CoreInv, TypeOK
<1>9. Rows' = [Rows EXCEPT ![r] = new]
  BY <1>2, <1>3, <1>7, <1>8, OneRowChanges DEF CoreInv, TypeOK
<1>10. new = e => Rows' = Rows
  BY <1>3, <1>4, <1>7, NoRowChanges DEF CoreInv, TypeOK
<1>11. c.act \in {"approve", "reject", "destroy", "execute", "recreate", "dryrun"}
  BY <1>2, <1>3, <1>5 DEF OpenRequest, Guarded, OrdinaryUse, UserAction
<1>12. CASE c.act = "approve"
  <2>1. new = e \/ new = ApproveEntity(e, r \in Abstract)
    BY <1>0, <1>5, <1>6, <1>12 DEF RowAfter
  <2>2. \/ e.status = "approval_pending"
        \/ /\ e.status \in {"ready", "done", "error"}
           /\ e.state \in {"provision", "provisioned"}
    BY <1>5, <1>12 DEF Guarded, CanApprove, ApprovesDraft, At, LegalRow, Row, ModelStatus, Working
  <2>3. ASSUME new = ApproveEntity(e, r \in Abstract) PROVE Promise!Approve(r)
    <3>2. Rows[r] = e
      BY <1>2, <1>8 DEF Rows, Seen
    <3>3. Promise!Becomes(r, Promise!ApproveEntity(Rows[r], r \in Abstract))
      BY <1>9, <2>3, <3>2 DEF Rows, Promise!Becomes, Promise!ApproveEntity, Promise!At,
         ApproveEntity, At
    <3>4. \/ Rows[r].status = "approval_pending"
          \/ Promise!Settled(r) /\ Rows[r].state \in {"provision", "provisioned"}
      BY <2>2, <3>2 DEF Promise!Settled, Rows
    <3> QED
      BY <3>3, <3>4 DEF Promise!Approve, Rows
  <2> QED
    BY <1>2, <1>10, <2>1, <2>3 DEF Promise!Next
<1>13. CASE c.act = "reject"
  <2>1. new = e \/ (e.status = "approval_pending" /\ new = RejectEntity(e))
    BY <1>0, <1>5, <1>6, <1>13 DEF RowAfter, Guarded, CanReject
  <2>2. ASSUME e.status = "approval_pending", new = RejectEntity(e) PROVE Promise!Reject(r)
    <3>1. Rows[r] = e
      BY <1>2, <1>8 DEF Rows, Seen
    <3>2. Promise!Becomes(r, Promise!RejectEntity(Rows[r]))
      BY <1>9, <2>2, <3>1 DEF Rows, Promise!Becomes, Promise!RejectEntity, Promise!At,
         RejectEntity, At
    <3> QED
      BY <2>2, <3>1, <3>2 DEF Promise!Reject, Rows
  <2> QED
    BY <1>2, <1>10, <2>1, <2>2 DEF Promise!Next
<1>14. CASE c.act = "destroy"
  <2>1. Rows[r] = e
    BY <1>2, <1>8 DEF Rows, Seen
  <2>2. new = DestroyEntity(e, ApprovalFlow)
    BY <1>0, <1>5, <1>6, <1>14 DEF RowAfter
  <2>3. PICK gated \in BOOLEAN : gated = ApprovalFlow
    BY FlagsAssumption
  <2>4. Promise!Becomes(r, Promise!DestroyEntity(Rows[r], gated))
    BY <1>9, <2>1, <2>2, <2>3 DEF Rows, Promise!Becomes, Promise!DestroyEntity, Promise!Gate,
       Promise!At, DestroyEntity, Gate, At
  <2>5. e.status \in {"ready", "done", "error"} /\ CanBeDestroyed(e)
    BY <1>5, <1>14 DEF Guarded, CanBeDestroyed, At, LegalRow, Row, ModelStatus, Working
  <2>6. Promise!Settled(r) /\ Promise!CanBeDestroyed(Rows[r])
    BY <2>1, <2>5 DEF Promise!Settled, Promise!CanBeDestroyed, CanBeDestroyed, Promise!At, At, Rows
  <2>7. Promise!Destroy(r)
    BY <2>4, <2>6 DEF Promise!Destroy, Rows
  <2> QED
    BY <1>2, <2>7 DEF Promise!Next
<1>15. CASE c.act = "execute"
  <2>1. Rows[r] = e
    BY <1>2, <1>8 DEF Rows, Seen
  <2>2. new = ExecuteEntity(e) /\ CanBeExecuted(e)
    BY <1>0, <1>5, <1>6, <1>15 DEF RowAfter, Guarded
  <2>3. Promise!Becomes(r, Promise!ExecuteEntity(Rows[r]))
    BY <1>9, <2>1, <2>2 DEF Rows, Promise!Becomes, Promise!ExecuteEntity, Promise!At,
       ExecuteEntity, At
  <2>4. Promise!CanBeExecuted(Rows[r])
    BY <2>1, <2>2 DEF Promise!CanBeExecuted, CanBeExecuted, Promise!At, At
  <2>5. Promise!Execute(r)
    BY <2>3, <2>4 DEF Promise!Execute, Rows
  <2> QED
    BY <1>2, <2>5 DEF Promise!Next
<1>16. CASE c.act = "recreate"
  <2>1. Rows[r] = e
    BY <1>2, <1>8 DEF Rows, Seen
  <2>2. new = RecreateEntity(e, ApprovalFlow) /\ CanBeRecreated(e)
    BY <1>0, <1>5, <1>6, <1>16 DEF RowAfter, Guarded
  <2>3. PICK gated \in BOOLEAN : gated = ApprovalFlow
    BY FlagsAssumption
  <2>4. Promise!Becomes(r, Promise!RecreateEntity(Rows[r], gated))
    BY <1>9, <2>1, <2>2, <2>3 DEF Rows, Promise!Becomes, Promise!RecreateEntity, Promise!Gate,
       Promise!At, RecreateEntity, Gate, At
  <2>5. Promise!CanBeRecreated(Rows[r])
    BY <2>1, <2>2 DEF Promise!CanBeRecreated, CanBeRecreated, Promise!At, At
  <2>6. Promise!Recreate(r)
    BY <2>4, <2>5 DEF Promise!Recreate, Rows
  <2> QED
    BY <1>2, <2>6 DEF Promise!Next
<1>17. CASE c.act = "dryrun"
  <2>1. new = e
    BY <1>0, <1>5, <1>6, <1>17 DEF RowAfter
  <2> QED
    BY <1>10, <2>1
<1> QED
  BY <1>11, <1>12, <1>13, <1>14, <1>15, <1>16, <1>17

\* A request does what is promised.
LEMMA UserStepKept ==
    ASSUME CoreInv, OrdinaryUse, OrdinaryFaults, RequestsApart, NEW q \in Request, UserStep(q)
    PROVE  Promise!Next \/ Rows' = Rows
<1>1. ~ AbortAndSend(q)
  BY DEF AbortAndSend, Fault, OrdinaryFaults
<1>2. CASE \/ \E act \in Offered, r \in Resource, draft \in Edits \cup {{}} :
                 Begin(q, act, r, draft)
           \/ CommitEdit(q) \/ Abort(q)
  BY <1>2, NoRowChanges DEF Begin, CommitEdit, Abort
<1>3. CASE CommitCreate(q)
  <2>0. PICK r : r = rq[q].res
    OBVIOUS
  <2>1. r \in Resource /\ Sound(r) /\ Asks(q, r) /\ rq[q].act = "create"
    BY <1>3, <2>0, AskerIsAlone DEF CommitCreate, NoRequest, Asks
  <2>2. r \notin live
    BY <2>1 DEF Sound, AskOk
  <2>3. PICK gated \in BOOLEAN : gated = ApprovalFlow
    BY FlagsAssumption
  <2>4. PICK new : new = At(Gate(gated), "provision")
    OBVIOUS
  <2>5. live' = live \cup {r} /\ row' = [row EXCEPT ![r] = new]
    BY <1>3, <2>0, <2>3, <2>4 DEF CommitCreate
  <2>6. Seen(r)' = new
    BY <2>1, <2>5 DEF Seen, CoreInv, TypeOK
  <2>7. Rows' = [Rows EXCEPT ![r] = new]
    BY <2>1, <2>5, <2>6, OneRowChanges DEF CoreInv, TypeOK
  <2>8. Promise!Create(r)
    BY <2>1, <2>2, <2>4, <2>7 DEF Promise!Create, Promise!Becomes, Promise!Absent, Promise!At,
       Promise!Gate, At, Gate, Rows
  <2> QED
    BY <2>1, <2>8 DEF Promise!Next
<1>4. CASE CommitDelete(q)
  <2>0. PICK r : r = rq[q].res
    OBVIOUS
  <2>1. r \in Resource /\ Sound(r) /\ Asks(q, r) /\ rq[q].act = "delete"
    BY <1>4, <2>0, AskerIsAlone DEF CommitDelete, NoRequest, Asks
  <2>2. r \in live /\ CanBeDeleted(row[r])
    BY <2>1 DEF Sound, AskOk, Guarded
  <2>3. PICK new : new = [status |-> "absent", state |-> "absent"]
    OBVIOUS
  <2>4. live' = live \ {r} /\ row' = row
    BY <1>4, <2>0 DEF CommitDelete
  <2>5. Seen(r)' = new
    BY <2>3, <2>4 DEF Seen
  <2>6. Rows' = [Rows EXCEPT ![r] = new]
    BY <2>1, <2>4, <2>5, OneRowChanges
  <2>7. Rows[r] = row[r]
    BY <2>1, <2>2 DEF Rows
  <2>8. Promise!CanBeDeleted(Rows[r])
    BY <2>2, <2>7 DEF Promise!CanBeDeleted, CanBeDeleted, Promise!At, At
  <2>9. Promise!Becomes(r, Promise!Absent)
    BY <2>3, <2>6 DEF Promise!Becomes, Promise!Absent, Rows
  <2>10. Promise!Delete(r)
    BY <2>8, <2>9 DEF Promise!Delete, Rows
  <2> QED
    BY <2>1, <2>10 DEF Promise!Next
<1>5. CASE CommitAction(q)
  BY <1>5, ActionKept
<1> QED
  BY <1>1, <1>2, <1>3, <1>4, <1>5 DEF UserStep

\* So does a worker, although it writes from the row it remembers.
LEMMA WorkerStepKept ==
    ASSUME CoreInv, OrdinaryUse, OrdinaryFaults, NEW w \in Worker, WorkerStep(w)
    PROVE  Promise!Next \/ Rows' = Rows
<1>1. CASE \E m \in Message : Take(w, m)
  <2>1. PICK m \in Message : Take(w, m)
    BY <1>1
  <2>2. MakeRetry(row[m.res]) = row[m.res] \/ ~ Postpone(w, m)
    <3>1. ASSUME Postpone(w, m) PROVE IsTask(m, m.res) /\ row[m.res].status # "in_progress"
      BY <3>1 DEF Postpone, NotReady, Receive, IsTask, Executable, Runnable
    <3> QED
      BY <3>1 DEF MakeRetry
  <2>3. live' = live /\ row' = row
    BY <2>1, <2>2 DEF Take, Discard, DraftMissing, PreviewFails, Postpone, GiveUp, Load,
                      CoreInv, TypeOK
  <2> QED
    BY <2>3, NoRowChanges
<1>2. CASE worker[w] = Idle /\ ~ \E m \in Message : Take(w, m)
  BY <1>2 DEF WorkerStep, Proceed, Start, Refresh, Apply, ApplyFails, Done, Fail,
              RowVanished, CommitFails, Crash, Idle
<1>3. CASE worker[w] # Idle /\ ~ \E m \in Message : Take(w, m)
  <2>0. PICK r : r = worker[w].msg.res
    OBVIOUS
  <2>1. /\ r \in Resource /\ r \in live /\ Sound(r) /\ Holds(w, r)
        /\ row[r] \in Row /\ LegalRow(row[r]) /\ row[r].status \in Working
    BY <1>3, <2>0, HolderIsAlone DEF Holds
  <2>2. /\ worker[w].mem = row[r]
        /\ row[r].status = IF worker[w].pc \in {"loaded", "failing"}
                           THEN "queued" ELSE "in_progress"
    BY <2>1 DEF Sound, HolderOk
  <2>3. PICK e : e = row[r]
    OBVIOUS
  <2>4. Rows[r] = e
    BY <2>1, <2>3 DEF Rows
  <2>5. ASSUME NEW new \in Row, Write(w, new), live' = live
        PROVE  Rows' = [Rows EXCEPT ![r] = new]
    <3>1. row' = [row EXCEPT ![r] = new]
      BY <1>3, <2>0, <2>5, WorkerWrites
    <3>2. Seen(r)' = new
      BY <2>1, <2>5, <3>1 DEF Seen, CoreInv, TypeOK
    <3> QED
      BY <2>1, <2>5, <3>1, <3>2, OneRowChanges DEF CoreInv, TypeOK
  <2>6. CASE Start(w)
    <3>1. e.status = "queued" /\ MakeInProgress(e) = At("in_progress", e.state)
          /\ MakeInProgress(e) \in Row
      BY <2>1, <2>2, <2>3, <2>6, WorkerRows DEF Start
    <3>2. Rows' = [Rows EXCEPT ![r] = MakeInProgress(e)]
      BY <2>2, <2>3, <2>5, <2>6, <3>1 DEF Start
    <3>3. Promise!Becomes(r, Promise!MakeInProgress(Rows[r]))
      BY <2>4, <3>1, <3>2 DEF Promise!Becomes, Promise!MakeInProgress, Promise!Runnable,
         Promise!At, At, Rows
    <3>4. Promise!Start(r)
      BY <2>4, <3>1, <3>3 DEF Promise!Start, Rows
    <3> QED
      BY <2>1, <3>4 DEF Promise!Next
  <2>7. CASE Done(w)
    <3>1. e.status = "in_progress" /\ MakeDone(e) \in Row
      BY <2>1, <2>2, <2>3, <2>7, WorkerHandlersType DEF Done
    <3>2. Rows' = [Rows EXCEPT ![r] = MakeDone(e)]
      BY <2>2, <2>3, <2>5, <2>7, <3>1 DEF Done
    <3>3. Promise!Becomes(r, Promise!MakeDone(Rows[r]))
      BY <2>4, <3>1, <3>2 DEF Promise!Becomes, Promise!MakeDone, MakeDone, Promise!At, At, Rows
    <3>4. Promise!Finish(r)
      BY <2>4, <3>1, <3>3 DEF Promise!Finish, Rows
    <3> QED
      BY <2>1, <3>4 DEF Promise!Next
  <2>8. CASE Fail(w)
    <3>1. e.status \in {"in_progress", "queued"} /\ MakeFailed(e) \in Row
      BY <2>1, <2>3, WorkerHandlersType DEF Working
    <3>2. Rows' = [Rows EXCEPT ![r] = MakeFailed(e)]
      BY <2>2, <2>3, <2>5, <2>8, <3>1 DEF Fail
    <3>3. Promise!Becomes(r, Promise!MakeFailed(Rows[r]))
      BY <2>4, <3>2 DEF Promise!Becomes, Promise!MakeFailed, MakeFailed, Promise!At, At, Rows
    <3>4. Promise!Fail(r)
      BY <2>4, <3>1, <3>3 DEF Promise!Fail, Rows
    <3> QED
      BY <2>1, <3>4 DEF Promise!Next
  <2>9. CASE ~ (Start(w) \/ Done(w) \/ Fail(w))
    <3>1. live' = live /\ row' = row
      BY <1>3, <2>9 DEF WorkerStep, Proceed, Refresh, Apply, ApplyFails, RowVanished,
                        CommitFails, Crash
    <3> QED
      BY <3>1, NoRowChanges
  <2> QED
    BY <2>6, <2>7, <2>8, <2>9
<1> QED
  BY <1>1, <1>2, <1>3

\* Refinement: every commit, of whatever request or worker, is one legal
\* transition of the row as it is by then.
THEOREM PromiseIsKept ==
    ASSUME OrdinaryUse, OrdinaryFaults
    PROVE  Spec /\ []RequestsApart => KeepsPromise
<1>1. Init => Promise!Init
  BY DEF Init, Promise!Init, Promise!Absent
<1>2. CoreInv /\ RequestsApart /\ [Next]_vars => [Promise!Next]_Rows
  <2> SUFFICES ASSUME CoreInv, RequestsApart, [Next]_vars PROVE Promise!Next \/ Rows' = Rows
    OBVIOUS
  <2>1. CASE Next
    BY <2>1, UserStepKept, WorkerStepKept DEF Next
  <2>2. CASE UNCHANGED vars
    BY <2>2, NoRowChanges DEF vars
  <2> QED
    BY <2>1, <2>2
<1>3. CoreInv /\ RequestsApart /\ [Next]_vars => Promise!Next \/ UNCHANGED Rows
  BY <1>2
<1> QED
  BY <1>1, <1>2, CoreHolds, PTL DEF Spec, KeepsPromise, Promise!Spec, Rows
=============================================================================
