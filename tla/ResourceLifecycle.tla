------------------------- MODULE ResourceLifecycle -------------------------
(***************************************************************************)
(* The life of resources: what users ask for through the GraphQL API, what *)
(* task workers do about it, and the database rows, edit drafts, broker    *)
(* queue and cloud they share.                                             *)
(*                                                                         *)
(* A user request is a transaction: it reads a snapshot (Begin), decides,  *)
(* and commits later.  Nothing is locked and rows carry no version, so a   *)
(* commit writes the columns the request changed over whatever the row     *)
(* holds by then, and publishes its task after the commit.  A worker takes *)
(* one message at a time and commits several times while it runs tofu.     *)
(***************************************************************************)
EXTENDS EntityLifecycle, Naturals, FiniteSets

CONSTANTS
    Resource,       \* identifiers, each used for one resource ever (UUIDs)
    Worker,         \* task worker processes
    Request,        \* slots for concurrent user requests
    Parents,        \* the parents a resource is created with
    Abstract,       \* resources of abstract templates: no code to run
    ApprovalFlow,   \* InfrakitchenConfig().approval_flow
    Offered,        \* the user actions of this instance
    Edits,          \* the kinds of edits users make
    MaxRetries,     \* retries of a task that is not ready (3 in the code)
    FaultKinds,     \* the faults of this instance
    MaxFaults,      \* bound on their number
    MaxCopies       \* bound on identical messages in the queue

UserAction == {"create", "edit", "approve", "reject", "destroy", "execute",
               "retry", "recreate", "delete", "dryrun",
               "dryrun_with_temp_state"}

\* What an edit changes of what tofu applies: the code version and variables,
\* or the other settings (integrations, secrets, dependency configuration,
\* storage).  An edit of metadata alone changes neither.
Draft == SUBSET {"variables", "settings"}

\* A task is lost between the commit and the broker; a rolled-back request
\* sends its task all the same; a worker's commit fails; a worker dies in a
\* run, or at its end before it acknowledges; a finished run is not notified.
Faults == {"lost", "leak", "commit", "crash", "unacked", "notify"}

ASSUME ParentsAssumption == Parents \in [Resource -> SUBSET Resource]
ASSUME FlagsAssumption   == /\ Abstract \subseteq Resource
                            /\ ApprovalFlow \in BOOLEAN
                            /\ Offered \subseteq UserAction
                            /\ Edits \subseteq Draft
                            /\ FaultKinds \subseteq Faults
ASSUME BoundsAssumption  == /\ MaxRetries \in Nat
                            /\ MaxFaults \in Nat
                            /\ MaxCopies \in Nat

VARIABLES
    live,       \* resources with a row in the database
    gone,       \* resources whose row was deleted
    row,        \* status and state of each row
    temp,       \* the pending edit of a resource, if any (resource_temp_states)
    infra,      \* what exists in the cloud for the resource
    queue,      \* the durable ik_tasks queue: copies of each message
    worker,     \* what each worker holds in memory
    rq,         \* what each open request holds in memory
    faults,     \* faults so far
    abandoned,  \* history: resources whose pending work a fault has dropped
    awaiting    \* history: resources with an operation nobody has approved yet

vars == <<live, gone, row, temp, infra, queue, worker, rq, faults,
          abandoned, awaiting>>

-----------------------------------------------------------------------------
(* Data.                                                                   *)

\* A resource has at most one pending edit.
Temp == {{}} \cup {{d} : d \in Draft}

\* An edit is merged into the pending one, key by key, and may put back some of
\* what that one changed.
MergedDraft(t, draft) == {draft \cup kept : kept \in SUBSET UNION t}

\* "current": applied with the row's configuration; "stale": with an older
\* one; "partial": left behind by a failed run.
Infra == {"none", "partial", "current", "stale"}

TaskAction == {"execute", "dryrun", "dryrun_with_temp_state"}
Message == [res : Resource, action : TaskAction, retries : 0 .. MaxRetries]
Task(r, action) == [res |-> r, action |-> action, retries |-> 0]

Idle == [pc |-> "idle"]
Busy == [pc    : {"loaded", "started", "running", "applied", "finished",
                  "failed", "failing"},
         msg   : Message,
         mem   : Row,                    \* the ORM object of the row
         op    : {"apply", "destroy"},
         fresh : BOOLEAN]                \* configuration not changed since read

NoRequest == [act |-> "none"]
OpenRequest == [act : UserAction, res : Resource,
                old : Row, oldTemp : Temp,      \* as read by the request
                draft : Draft,                  \* the edit it carries
                held : BOOLEAN,                 \* the draft it read is still there
                links : SUBSET Resource]        \* the links a delete removes

Children(r) == {c \in live : r \in Parents[c]}
LiveParents(r) == Parents[r] \cap live

\* An UPDATE names the columns whose value the session changed, no others.
Merged(current, old, new) ==
    [status |-> IF new.status # old.status THEN new.status ELSE current.status,
     state  |-> IF new.state  # old.state  THEN new.state  ELSE current.state]

-----------------------------------------------------------------------------
(* What the API offers and what the services accept.                       *)

\* For an administrator, who is offered a superset of everybody's actions;
\* download, cascade_destroy and the has_temporary_state marker are left out.
GetActions(e, t) ==
    LET draft == IF t = {} THEN {} ELSE {"dryrun_with_temp_state"}
        decide == IF t = {} THEN {} ELSE {"approve", "reject"}
    IN  CASE e.status = "in_progress" -> {}
          [] e.status = "queued" -> {"retry"}
          [] e.status = "approval_pending" ->
                draft \cup {"approve", "reject", "dryrun", "edit"}
                      \cup (IF e.state = "provision" THEN {"delete"} ELSE {})
          [] e.status = "rejected" -> draft \cup {"recreate", "delete"}
          [] OTHER -> draft \cup
                CASE e.state = "provisioned" ->
                        decide \cup {"destroy", "execute", "edit", "dryrun"}
                  [] e.state = "provision" ->
                        decide \cup {"execute", "edit"}
                          \cup (IF e.status = "ready" THEN {"dryrun", "delete"} ELSE {})
                          \cup (IF e.status = "error" THEN {"dryrun", "destroy"} ELSE {})
                  [] e.state = "destroyed" ->
                        IF e.status = "done" THEN {"recreate", "delete"} ELSE {}
                  [] e.state = "destroy" ->
                        IF e.status \in {"error", "ready"}
                        THEN {"recreate", "execute", "dryrun"} ELSE {}

\* The templates of the parents, and with them their number, are those the
\* template of r asks for: what is left to check is that they are there.
CanCreate(r) ==
    /\ r \notin live \cup gone
    /\ \A q \in Request : rq[q] # NoRequest => rq[q].res # r
    /\ \A p \in Parents[r] : p \in live /\ row[p].state = "provisioned"

CanEdit(e) == /\ e.status \notin {"queued", "in_progress"}
              /\ e.state \notin {"destroy", "destroyed"}

\* A new resource that nobody approved yet is edited in place.
EditsInPlace(e) == e = At("approval_pending", "provision")

\* A decision about the pending edit, or about the operation itself.
RejectsDraft(e, t) == t # {} /\ e.state \in {"provisioned", "provision"}

CanReject(e, t) ==
    IF RejectsDraft(e, t)
    THEN e.status \in {"done", "ready", "error"}
    ELSE e.status = "approval_pending" /\ e.state \in {"destroy", "provision"}

ApprovesDraft(e, t) ==
    /\ t # {}
    /\ \/ e.status \in {"ready", "error"} /\ e.state = "provision"
       \/ e.state = "provisioned"

CanApprove(e, t) ==
    \/ t = {} /\ e = At("approval_pending", "provision")
    \/ ApprovesDraft(e, t)
    \/ e = At("approval_pending", "destroy")

\* Mutant: a pending edit does not stop a destruction.
CanDestroyWithDraft(r, e, t) ==
    /\ e.state \notin {"destroy", "destroyed"}
    /\ e.status \in {"done", "ready", "error"}
    /\ \A c \in Children(r) : row[c] = At("done", "destroyed")
    /\ CanBeDestroyed(e)

CanDestroy(r, e, t) ==
    /\ e.state \notin {"destroy", "destroyed"}
    /\ e.status \in {"done", "ready", "error"}
    /\ t = {}
    /\ \A c \in Children(r) : row[c] = At("done", "destroyed")
    /\ CanBeDestroyed(e)

\* Mutant: recreating does not look at the parents.
CanRecreateAlone(r, e) == CanBeRecreated(e)

CanRecreate(r, e) ==
    /\ CanBeRecreated(e)
    /\ \A p \in LiveParents(r) : row[p].state = "provisioned"

CanDryRun(e) == e.status \in {"ready", "error", "approval_pending", "done"}

\* The guards of the handler of `act' on what it reads of r.
Accepts(act, r) ==
    IF act = "create" THEN CanCreate(r)
    ELSE LET e == row[r]
             t == temp[r]
         IN  /\ r \in live
             /\ act \in GetActions(e, t)
             /\ CASE act = "edit"     -> CanEdit(e)
                  [] act = "approve"  -> /\ CanApprove(e, t)
                                           /\ CanBeApproved(e, r \in Abstract)
                  [] act = "reject"   -> CanReject(e, t)
                  [] act = "destroy"  -> CanDestroy(r, e, t)
                  [] act = "recreate" -> CanRecreate(r, e)
                  [] act = "delete"   -> CanBeDeleted(e)
                  [] act = "execute"  -> CanBeExecuted(e)
                  [] act = "retry"    -> e.status = "queued"
                  [] act = "dryrun"   -> CanDryRun(e)
                  [] act = "dryrun_with_temp_state" -> t # {} /\ CanDryRun(e)

\* The row as the handler of request c leaves it in memory.
RowAfter(c) ==
    LET e == c.old
        abstract == c.res \in Abstract
    IN  CASE c.act = "approve" ->
                IF ApprovesDraft(e, c.oldTemp) /\ "variables" \notin UNION c.oldTemp
                THEN e ELSE ApproveEntity(e, abstract)
          [] c.act = "reject" ->
                IF RejectsDraft(e, c.oldTemp) THEN e ELSE RejectEntity(e)
          [] c.act = "destroy"  -> DestroyEntity(e, ApprovalFlow)
          [] c.act = "recreate" -> RecreateEntity(e, ApprovalFlow)
          [] c.act = "execute"  -> ExecuteEntity(e)
          [] OTHER -> e

DropsDraft(c) == \/ c.act = "approve" /\ ApprovesDraft(c.old, c.oldTemp)
                 \/ c.act = "reject"  /\ RejectsDraft(c.old, c.oldTemp)

\* The request writes new values for what tofu applies.
Reconfigures(c) ==
    \/ DropsDraft(c) /\ c.act = "approve" /\ UNION c.oldTemp # {}
    \/ c.act = "edit" /\ EditsInPlace(c.old) /\ c.draft # {}

\* The request asks for a new operation, which somebody has to approve.
RequestsOperation(c) ==
    \/ c.act = "destroy"
    \/ c.act = "recreate" /\ RowAfter(c).state = "provision"

\* Mutant: an approval also sends the task, without marking the row QUEUED.
SendsOnApproval(c) ==
    CASE c.act \in {"execute", "retry", "approve"} -> {"execute"}
      [] c.act \in {"dryrun", "dryrun_with_temp_state"} -> {c.act}
      [] OTHER -> {}

\* The task a request buffers for the broker.
Sends(c) == CASE c.act \in {"execute", "retry"} -> {"execute"}
              [] c.act \in {"dryrun", "dryrun_with_temp_state"} -> {c.act}
              [] OTHER -> {}

-----------------------------------------------------------------------------
(* User requests.                                                          *)

Begin(q, act, r, draft) ==
    /\ rq[q] = NoRequest
    /\ IF act = "edit" THEN draft \in Edits ELSE draft = {}
    /\ Accepts(act, r)
    /\ rq' = [rq EXCEPT ![q] =
                [act |-> act, res |-> r, old |-> row[r], oldTemp |-> temp[r],
                 draft |-> draft, held |-> temp[r] # {},
                 links |-> IF act = "delete"
                           THEN Children(r) \cup LiveParents(r) ELSE {}]]
    /\ UNCHANGED <<live, gone, row, temp, infra, queue, worker, faults,
                   abandoned, awaiting>>

\* New values reach the row: what is applied, or being applied, is outdated.
Reconfigure(r) ==
    /\ infra' = [infra EXCEPT ![r] = IF @ = "current" THEN "stale" ELSE @]
    /\ worker' = [w \in Worker |->
                    IF worker[w] # Idle /\ worker[w].msg.res = r
                    THEN [worker[w] EXCEPT !.fresh = FALSE] ELSE worker[w]]

CommitCreate(q) ==
    LET r == rq[q].res
        new == At(Gate(ApprovalFlow), "provision")
    IN  /\ rq[q].act = "create"
        /\ Parents[r] \subseteq live              \* foreign keys of the links
        /\ live' = live \cup {r}
        /\ row' = [row EXCEPT ![r] = new]
        /\ awaiting' = IF ApprovalFlow THEN awaiting \cup {r} ELSE awaiting
        /\ rq' = [rq EXCEPT ![q] = NoRequest]
        /\ UNCHANGED <<gone, temp, infra, queue, worker, faults, abandoned>>

\* Writing a draft fails on the unique index, or on the missing draft, when
\* another request created or dropped it in between.
CommitEdit(q) ==
    LET c == rq[q]
        r == c.res
    IN  /\ c.act = "edit"
        /\ r \in live
        /\ IF EditsInPlace(c.old)
           THEN UNCHANGED temp
           ELSE /\ c.held \/ (c.oldTemp = {} /\ temp[r] = {})
                /\ \E draft \in MergedDraft(c.oldTemp, c.draft) :
                        temp' = [temp EXCEPT ![r] = {draft}]
        /\ IF Reconfigures(c) THEN Reconfigure(r) ELSE UNCHANGED <<infra, worker>>
        /\ rq' = [rq EXCEPT ![q] = NoRequest]
        /\ UNCHANGED <<live, gone, row, queue, faults, abandoned, awaiting>>

\* The request ends; the draft it drops is gone for every other request.
EndDropping(q, r) ==
    rq' = [p \in Request |->
             IF p = q THEN NoRequest
             ELSE IF rq[p] # NoRequest /\ rq[p].res = r
                  THEN [rq[p] EXCEPT !.held = FALSE] ELSE rq[p]]

\* Fails when links were added or removed, or a draft was written, since they
\* were read.
CommitDelete(q) ==
    LET r == rq[q].res
    IN  /\ rq[q].act = "delete"
        /\ r \in live
        /\ rq[q].links = Children(r) \cup LiveParents(r)
        /\ rq[q].held \/ temp[r] = {}
        /\ live' = live \ {r}
        /\ gone' = gone \cup {r}
        /\ temp' = [temp EXCEPT ![r] = {}]
        /\ abandoned' = abandoned \ {r}
        /\ EndDropping(q, r)
        /\ UNCHANGED <<row, infra, queue, worker, faults, awaiting>>

Fault(kind) == /\ kind \in FaultKinds
               /\ faults < MaxFaults
               /\ faults' = faults + 1

Publish(m) == /\ queue[m] < MaxCopies
              /\ queue' = [queue EXCEPT ![m] = @ + 1]

\* Tasks are flushed to the broker after the commit; a crash in between
\* loses them.
SendOrLose(c) ==
    IF Sends(c) = {}
    THEN UNCHANGED <<queue, faults>>
    ELSE \/ /\ \E action \in Sends(c) : Publish(Task(c.res, action))
            /\ UNCHANGED faults
         \/ Fault("lost") /\ UNCHANGED queue

CommitAction(q) ==
    LET c == rq[q]
        r == c.res
    IN  /\ c.act \notin {"none", "create", "edit", "delete"}
        /\ r \in live
        /\ row' = [row EXCEPT ![r] = Merged(@, c.old, RowAfter(c))]
        /\ IF DropsDraft(c) /\ c.held
           THEN EndDropping(q, r) /\ temp' = [temp EXCEPT ![r] = {}]
           ELSE rq' = [rq EXCEPT ![q] = NoRequest] /\ UNCHANGED temp
        /\ IF Reconfigures(c) THEN Reconfigure(r) ELSE UNCHANGED <<infra, worker>>
        /\ SendOrLose(c)
        /\ abandoned' = IF faults' # faults THEN abandoned \cup {r}
                        ELSE IF row'[r].status = "in_progress" THEN abandoned
                        ELSE abandoned \ {r}
        /\ awaiting' = IF ApprovalFlow /\ RequestsOperation(c)
                       THEN awaiting \cup {r}
                       ELSE IF c.act \in {"approve", "reject"} THEN awaiting \ {r}
                       ELSE awaiting
        /\ UNCHANGED <<live, gone>>

\* Any request may be rolled back: a constraint, a stale row, a lost connection.
Abort(q) ==
    /\ rq[q] # NoRequest
    /\ rq' = [rq EXCEPT ![q] = NoRequest]
    /\ UNCHANGED <<live, gone, row, temp, infra, queue, worker, faults,
                   abandoned, awaiting>>

\* get_db_session flushes the buffered messages whether or not it committed.
AbortAndSend(q) ==
    LET c == rq[q]
    IN  /\ Sends(c) # {}
        /\ Fault("leak")
        /\ \E action \in Sends(c) : Publish(Task(c.res, action))
        /\ rq' = [rq EXCEPT ![q] = NoRequest]
        /\ UNCHANGED <<live, gone, row, temp, infra, worker, abandoned, awaiting>>

-----------------------------------------------------------------------------
(* Task workers.                                                           *)

\* Mutant: a worker takes any parent that is not being provisioned for ready.
ParentsReadyWhenDone(r) ==
    \A p \in LiveParents(r) : row[p].state # "provision" \/ row[p].status = "done"

ParentsReady(r) ==
    \A p \in LiveParents(r) : row[p].state = "provisioned" \/ row[p].status = "done"

ChildrenDestroyed(r) ==
    \A c \in Children(r) : row[c].state = "destroyed" \/ row[c].status = "done"

Executable(e) == e.status \in Runnable /\ e.state # "destroyed"

Ready(r) == IF row[r].state = "destroy" THEN ChildrenDestroyed(r) ELSE ParentsReady(r)

Receive(w, m) == worker[w] = Idle /\ queue[m] > 0
Consume(m) == queue' = [queue EXCEPT ![m] = @ - 1]

Hold(w, m, pc) ==
    worker' = [worker EXCEPT ![w] =
        [pc |-> pc, msg |-> m, mem |-> row[m.res],
         op |-> IF row[m.res].state = "destroy" THEN "destroy" ELSE "apply",
         fresh |-> TRUE]]

\* Nothing to do, or ExitWithoutSave: the message is acknowledged.
Discard(w, m) ==
    /\ Receive(w, m)
    /\ \/ m.res \notin live
       \/ m.action = "execute" /\ ~Executable(row[m.res])
       \/ m.action = "dryrun"
       \/ m.action = "dryrun_with_temp_state" /\ temp[m.res] # {}
    /\ Consume(m)
    /\ UNCHANGED <<live, gone, row, temp, infra, worker, rq, faults,
                   abandoned, awaiting>>

\* CannotProceed: the edit the dry run was asked for is gone.
DraftMissing(w, m) ==
    /\ Receive(w, m)
    /\ m.res \in live
    /\ m.action = "dryrun_with_temp_state" /\ temp[m.res] = {}
    /\ Consume(m)
    /\ Hold(w, m, "failing")
    /\ UNCHANGED <<live, gone, row, temp, infra, rq, faults, abandoned, awaiting>>

\* A preview that went well and cannot be notified is handled as one that failed,
\* and so takes the row with it.
PreviewFails(w, m) ==
    /\ Receive(w, m)
    /\ m.res \in live
    /\ m.action = "dryrun" \/ (m.action = "dryrun_with_temp_state" /\ temp[m.res] # {})
    /\ Fault("notify")
    /\ Consume(m)
    /\ Hold(w, m, "failing")
    /\ UNCHANGED <<live, gone, row, temp, infra, rq, abandoned, awaiting>>

\* ParentIsNotReady or ChildrenIsNotReady: try later (make_retry only frees a
\* row IN_PROGRESS, which this one is not), then give up.
NotReady(w, m) ==
    /\ Receive(w, m)
    /\ m.res \in live
    /\ m.action = "execute" /\ Executable(row[m.res]) /\ ~Ready(m.res)

Postpone(w, m) ==
    LET again == [m EXCEPT !.retries = @ + 1]
    IN  /\ NotReady(w, m)
        /\ m.retries < MaxRetries
        /\ queue[again] < MaxCopies
        /\ queue' = [queue EXCEPT ![m] = @ - 1, ![again] = @ + 1]
        /\ row' = [row EXCEPT ![m.res] = MakeRetry(@)]
        /\ UNCHANGED <<live, gone, temp, infra, worker, rq, faults,
                       abandoned, awaiting>>

GiveUp(w, m) ==
    /\ NotReady(w, m)
    /\ m.retries = MaxRetries
    /\ Consume(m)
    /\ Hold(w, m, "failing")
    /\ UNCHANGED <<live, gone, row, temp, infra, rq, faults, abandoned, awaiting>>

Load(w, m) ==
    /\ Receive(w, m)
    /\ m.res \in live
    /\ m.action = "execute" /\ Executable(row[m.res]) /\ Ready(m.res)
    /\ Consume(m)
    /\ Hold(w, m, "loaded")
    /\ UNCHANGED <<live, gone, row, temp, infra, rq, faults, abandoned, awaiting>>

\* A commit of the worker: the row gets the columns it changed.
Write(w, new) ==
    LET r == worker[w].msg.res
    IN  /\ r \in live
        /\ row' = [row EXCEPT ![r] = Merged(@, worker[w].mem, new)]

Start(w) ==
    /\ worker[w].pc = "loaded"
    /\ Write(w, MakeInProgress(worker[w].mem))
    /\ worker' = [worker EXCEPT ![w].pc = "started",
                                ![w].mem = MakeInProgress(@)]
    /\ abandoned' = abandoned \ {worker[w].msg.res}
    /\ UNCHANGED <<live, gone, temp, infra, queue, rq, faults, awaiting>>

\* Every commit is followed by a read of the row.
Refresh(w) ==
    LET r == worker[w].msg.res
    IN  /\ worker[w].pc \in {"started", "finished"}
        /\ r \in live
        /\ worker' = [worker EXCEPT ![w].pc = IF @ = "started" THEN "running"
                                             ELSE "failing",
                                    ![w].mem = row[r],
                                    ![w].fresh = TRUE]
        /\ UNCHANGED <<live, gone, row, temp, infra, queue, rq, faults,
                       abandoned, awaiting>>

Apply(w) ==
    LET r == worker[w].msg.res
    IN  /\ worker[w].pc = "running"
        /\ r \notin Abstract
        /\ infra' = [infra EXCEPT ![r] =
                       IF worker[w].op = "destroy" THEN "none"
                       ELSE IF worker[w].fresh THEN "current" ELSE "stale"]
        /\ worker' = [worker EXCEPT ![w].pc = "applied"]
        /\ UNCHANGED <<live, gone, row, temp, queue, rq, faults, abandoned, awaiting>>

\* A run ends before tofu has started, or when it has done a part.
Interrupted(w) ==
    LET r == worker[w].msg.res
    IN  \/ UNCHANGED infra
        \/ /\ worker[w].pc = "running"
           /\ r \notin Abstract
           /\ worker[w].op = "apply" \/ infra[r] # "none"
           /\ infra' = [infra EXCEPT ![r] = "partial"]

\* Any step of the run may raise.  A resource without code always fails, before
\* tofu starts.
ApplyFails(w) ==
    /\ worker[w].pc = "running"
    /\ Interrupted(w)
    /\ worker' = [worker EXCEPT ![w].pc = "failed"]
    /\ UNCHANGED <<live, gone, row, temp, queue, rq, faults, abandoned, awaiting>>

\* The message is acknowledged, or delivered again.
Acknowledge(w) ==
    /\ worker' = [worker EXCEPT ![w] = Idle]
    /\ \/ UNCHANGED <<queue, faults>>
       \/ Fault("unacked") /\ Publish(worker[w].msg)

\* An event or notification that cannot be sent makes a finished run fail.
Done(w) ==
    /\ worker[w].pc = "applied"
    /\ Write(w, MakeDone(worker[w].mem))
    /\ \/ Acknowledge(w)
       \/ /\ Fault("notify")
          /\ worker' = [worker EXCEPT ![w].pc = "finished",
                                      ![w].mem = MakeDone(@)]
          /\ UNCHANGED queue
    /\ abandoned' = IF row'[worker[w].msg.res].status = "in_progress" THEN abandoned
                    ELSE abandoned \ {worker[w].msg.res}
    /\ UNCHANGED <<live, gone, temp, infra, rq, awaiting>>

\* w is executing r and holds it IN_PROGRESS.
Owns(w, r) ==
    /\ worker[w] # Idle
    /\ worker[w].msg.res = r
    /\ worker[w].pc \in {"started", "running", "applied", "failed"}
    /\ worker[w].mem.status = "in_progress"

\* make_failed leaves a destroyed entity as it is, even IN_PROGRESS.
Fail(w) ==
    LET r == worker[w].msg.res
    IN  /\ worker[w].pc \in {"failed", "failing"}
        /\ Write(w, MakeFailed(worker[w].mem))
        /\ Acknowledge(w)
        /\ abandoned' = IF row'[r].status # "in_progress" THEN abandoned \ {r}
                        ELSE IF Owns(w, r) THEN abandoned \cup {r}
                        ELSE abandoned
        /\ UNCHANGED <<live, gone, temp, infra, rq, awaiting>>

\* The row the worker must read or write has been deleted.
RowVanished(w) ==
    /\ worker[w] # Idle
    /\ worker[w].pc # "running"
    /\ worker[w].msg.res \notin live
    /\ worker' = [worker EXCEPT ![w] = Idle]
    /\ UNCHANGED <<live, gone, row, temp, infra, queue, rq, faults,
                   abandoned, awaiting>>

\* A commit raises: make_failed fails on the same session, the exception is
\* swallowed and the message acknowledged.
CommitFails(w) ==
    /\ worker[w] # Idle
    /\ worker[w].pc \in {"loaded", "applied", "failed", "failing"}
    /\ Fault("commit")
    /\ worker' = [worker EXCEPT ![w] = Idle]
    /\ abandoned' = abandoned \cup {worker[w].msg.res}
    /\ UNCHANGED <<live, gone, row, temp, infra, queue, rq, awaiting>>

\* The process dies, tofu with it, and the broker redelivers its message.
Crash(w) ==
    /\ worker[w] # Idle
    /\ Fault("crash")
    /\ Publish(worker[w].msg)
    /\ worker' = [worker EXCEPT ![w] = Idle]
    /\ abandoned' = IF Owns(w, worker[w].msg.res)
                    THEN abandoned \cup {worker[w].msg.res} ELSE abandoned
    /\ Interrupted(w)
    /\ UNCHANGED <<live, gone, row, temp, rq, awaiting>>

-----------------------------------------------------------------------------
Init ==
    /\ live = {} /\ gone = {}
    /\ row = [r \in Resource |-> At("ready", "provision")]
    /\ temp = [r \in Resource |-> {}]
    /\ infra = [r \in Resource |-> "none"]
    /\ queue = [m \in Message |-> 0]
    /\ worker = [w \in Worker |-> Idle]
    /\ rq = [q \in Request |-> NoRequest]
    /\ faults = 0
    /\ abandoned = {} /\ awaiting = {}

UserStep(q) ==
    \/ \E act \in Offered, r \in Resource, draft \in Edits \cup {{}} :
            Begin(q, act, r, draft)
    \/ CommitCreate(q) \/ CommitEdit(q) \/ CommitDelete(q) \/ CommitAction(q)
    \/ Abort(q) \/ AbortAndSend(q)

Take(w, m) == \/ Discard(w, m) \/ DraftMissing(w, m) \/ PreviewFails(w, m)
              \/ Postpone(w, m) \/ GiveUp(w, m) \/ Load(w, m)

Proceed(w) == \/ Start(w) \/ Refresh(w) \/ Apply(w) \/ ApplyFails(w)
              \/ Done(w) \/ Fail(w) \/ RowVanished(w)

WorkerStep(w) == \/ \E m \in Message : Take(w, m)
                 \/ Proceed(w)
                 \/ CommitFails(w) \/ Crash(w)

Next == (\E q \in Request : UserStep(q)) \/ (\E w \in Worker : WorkerStep(w))

Spec == Init /\ [][Next]_vars

\* Workers keep running, and the broker delivers in order, so no message is
\* overtaken for ever.  Nothing obliges users to ask for anything.
Fairness == /\ \A w \in Worker : WF_vars(Proceed(w))
            /\ \A m \in Message : SF_vars(\E w \in Worker : Take(w, m))

FairSpec == Spec /\ Fairness

-----------------------------------------------------------------------------
(* What holds however requests and workers interleave.                     *)

\* Every variable keeps its type: the columns of a row, what a worker and a
\* request hold in memory, the copies of a message.
TypeOK ==
    /\ live \subseteq Resource
    /\ gone \subseteq Resource
    /\ row \in [Resource -> Row]
    /\ temp \in [Resource -> Temp]
    /\ infra \in [Resource -> Infra]
    /\ queue \in [Message -> 0 .. MaxCopies]
    /\ worker \in [Worker -> {Idle} \cup Busy]
    /\ rq \in [Request -> {NoRequest} \cup OpenRequest]
    /\ faults \in 0 .. MaxFaults
    /\ abandoned \subseteq Resource
    /\ awaiting \subseteq Resource

\* A row that says IN_PROGRESS is being executed: some worker holds it so in
\* memory and will write the outcome, unless a fault, or the failure of a
\* destroyed resource, has dropped it.  Nobody else can free the row, as
\* get_resource_actions offers nothing for it.
InProgressHasOwner ==
    \A r \in live : row[r].status = "in_progress" =>
        r \in abandoned \/ \E w \in Worker : Owns(w, r)

\* The task a worker has loaded and not started is one it may start.
LoadedIsRunnable ==
    \A w \in Worker : worker[w].pc = "loaded" => worker[w].mem.status \in Runnable

\* The inductive form of InProgressHasOwner.
OwnerInv == TypeOK /\ InProgressHasOwner /\ LoadedIsRunnable

-----------------------------------------------------------------------------
(* What holds when requests for one resource do not overlap.               *)

\* tofu does not take a parent away while it applies a child, though requests
\* about the two may overlap and destroy the one while they create or recreate
\* the other: each worker looks at the other side of the link again, and QUEUED
\* or IN_PROGRESS on one side stops the run of the other.
RunsApartAcrossLinks ==
    \A v, w \in Worker :
        ~ /\ worker[v].pc = "running" /\ worker[v].op = "destroy"
          /\ worker[w].pc = "running" /\ worker[w].op = "apply"
          /\ worker[v].msg.res \in Parents[worker[w].msg.res]

-----------------------------------------------------------------------------
(* What holds when no requests overlap and nobody resends a task or        *)
(* previews an edit.                                                       *)

\* Nothing of a resource's descendants is left in the cloud once its own
\* destruction has been requested: destroy, create and recreate check the
\* other side of the link, workers check it again.
NoOrphanInfra ==
    \A p \in live : row[p].state \in {"destroy", "destroyed"} =>
        \A c \in Children(p) : row[c].state = "destroyed" /\ infra[c] = "none"

\* "destroyed: successfully destroyed": tofu has removed everything.
DestroyedIsRemoved ==
    \A r \in live : row[r].state = "destroyed" => infra[r] = "none"

\* A destroyed resource can always be recreated or deleted: it is DONE.
DestroyedIsFinal ==
    \A r \in live : row[r].state = "destroyed" => row[r].status = "done"

\* DESTROYED is written with DONE, and after tofu removed everything.
DestroyedIsEmpty == DestroyedIsRemoved /\ DestroyedIsFinal

Tasks(r) == {m \in Message : m.res = r /\ m.action = "execute" /\ queue[m] > 0}
Runs(r)  == {w \in Worker : worker[w] # Idle /\ worker[w].msg \in
                                [res : {r}, action : {"execute"}, retries : 0 .. MaxRetries]}

\* Two tofu runs never work on one resource: QUEUED keeps every other action
\* out until the one task is over, also when the broker redelivers it.
ExclusiveExecution ==
    \A r \in Resource :
        /\ Cardinality(Tasks(r)) + Cardinality(Runs(r)) <= 1
        /\ \A m \in Tasks(r) : queue[m] = 1

\* A resource never gets stuck: its task is on the way, or the API offers a way on
\* that its service accepts, other than previewing or editing, also when its task
\* was lost.  The one dead end is a row that a fault has left IN_PROGRESS.
NeverStranded ==
    \A r \in live :
        \/ Tasks(r) # {} \/ Runs(r) # {}
        \/ \E act \in UserAction \ {"edit", "dryrun", "dryrun_with_temp_state"} :
                Accepts(act, r)
        \/ row[r].status = "in_progress" /\ r \in abandoned

\* An edit waits for its decision: no destruction starts, and no row is
\* rejected or waiting for another approval, before it is taken.
PendingEditBlocksDestroy ==
    \A r \in live : temp[r] # {} =>
        /\ row[r].state \in {"provision", "provisioned"}
        /\ row[r].status \notin {"approval_pending", "rejected"}

\* "When approval flow is enabled, all provisioning, update, and destroy operations
\* require explicit approval" (docs/core-concepts/resources/workflow.md:13): no worker
\* starts an operation that nobody has approved since it was requested.  It does
\* not hold when edits are previewed: a preview that comes after the decision
\* fails, and its failure turns a destruction that waits for approval into an
\* ERROR, which is executed without.
ExecutionIsApproved ==
    \A w \in Worker : worker[w].pc \in {"started", "running"} =>
        worker[w].msg.res \notin awaiting

Promise == INSTANCE ResourcePromise WITH
    row <- [r \in Resource |->
                IF r \in live THEN row[r]
                ELSE [status |-> "absent", state |-> "absent"]]

\* Requests and workers implement the promise: although a worker writes from
\* the row it remembers, after other commits and redeliveries, its commit is one
\* legal transition of the row as it is by then.
KeepsPromise == Promise!Spec

-----------------------------------------------------------------------------
(* Progress, while no worker fails and nobody resends a task.              *)

\* A task that was accepted ends: the row leaves QUEUED and IN_PROGRESS.
TasksEnd ==
    \A r \in Resource :
        (r \in live /\ row[r].status \in {"queued", "in_progress"})
            ~> (r \notin live \/ row[r].status \in {"done", "error"})

-----------------------------------------------------------------------------
(* What the documentation promises and the code does not keep.             *)

\* DONE, "successfully completed", for a PROVISIONED resource: tofu has applied
\* the configuration the row holds.
DoneMeansApplied ==
    \A r \in live \ Abstract :
        row[r] = At("done", "provisioned") => infra[r] = "current"
=============================================================================
