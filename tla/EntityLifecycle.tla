-------------------------- MODULE EntityLifecycle --------------------------
(***************************************************************************)
(* The lifecycle shared by every provisionable entity of InfraKitchen      *)
(* (resources, executors): core/utils/entity_state_handler.py.             *)
(*                                                                         *)
(* An entity row carries a state (what the infrastructure is meant to be)  *)
(* and a status (how far the current operation has got).  Each handler of  *)
(* the source is an operator from a row to a row; the checks that make a   *)
(* handler raise are separate predicates named Can...  `gated' is          *)
(* "approval_flow is on and the entity is a resource".                     *)
(***************************************************************************)

ModelState == {"provision", "provisioned", "destroy", "destroyed"}

\* The statuses a resource or executor row takes (core/constants/model.py
\* has five more, used by other entities).
ModelStatus == {"queued", "in_progress", "done", "error",
                "approval_pending", "rejected", "ready"}

Row == [status : ModelStatus, state : ModelState]

At(status, state) == [status |-> status, state |-> state]

\* Mutant: an operation waits in a status that only other entities use.
GateUnknown(gated) == IF gated THEN "pending" ELSE "ready"

\* The status a newly requested operation waits in.
Gate(gated) == IF gated THEN "approval_pending" ELSE "ready"

-----------------------------------------------------------------------------
(* User-driven transitions.                                                *)

RejectEntity(e) ==
    CASE e.state = "provision" -> At("rejected", e.state)
      [] e.state = "destroy"   -> At("done", "provisioned")
      [] OTHER                 -> e

CanBeApproved(e, abstract) == abstract => e.state # "destroyed"

\* Mutant: approval skips the worker for every resource, not just abstract ones.
ApproveAtOnce(e, abstract) ==
    At("done", IF e.state = "destroy" THEN "destroyed" ELSE "provisioned")

ApproveEntity(e, abstract) ==
    IF abstract
    THEN At("done", IF e.state = "destroy" THEN "destroyed" ELSE "provisioned")
    ELSE At("ready", e.state)

CanBeDestroyed(e) == \/ e.state = "provisioned"
                     \/ e = At("error", "provision")

\* Mutant: a destruction never waits for approval.
DestroyUngated(e, gated) == At("ready", "destroy")

DestroyEntity(e, gated) == At(Gate(gated), "destroy")

CanBeDeleted(e) ==
    \/ e = At("done", "destroyed")
    \/ /\ e.status \in {"ready", "rejected", "approval_pending"}
       /\ e.state = "provision"

\* Mutant: a failed destruction is not among what can be executed again.
CanBeExecutedNotDestroy(e) ==
    \/ e.status = "ready"
    \/ e.status = "error" /\ e.state \in {"provision", "provisioned"}
    \/ e = At("done", "provisioned")

CanBeExecuted(e) ==
    \/ e.status = "ready"
    \/ e.status = "error" /\ e.state \in {"provision", "destroy", "provisioned"}
    \/ e = At("done", "provisioned")

\* Mutant: the row is not marked QUEUED while its task waits.
ExecuteUnqueued(e) == e

ExecuteEntity(e) == At("queued", e.state)

CanBeRecreated(e) == e \in {At("rejected", "provision"),
                            At("ready", "destroy"),
                            At("done", "destroyed")}

RecreateEntity(e, gated) ==
    IF e = At("ready", "destroy")
    THEN At("ready", "provisioned")
    ELSE At(Gate(gated), "provision")

-----------------------------------------------------------------------------
(* Worker-driven transitions.                                              *)

\* Mutant: workers do not expect a QUEUED row.
RunnableNotQueued == {"ready", "error", "done"}

\* The statuses from which a worker accepts an execute task.
Runnable == {"ready", "error", "done", "queued"}

MakeInProgress(e) ==
    IF e.status \in Runnable THEN At("in_progress", e.state) ELSE e

MakeRetry(e) ==
    IF e.status = "in_progress" THEN At("error", e.state) ELSE e

MakeFailed(e) ==
    IF e.state = "destroyed" THEN e ELSE At("error", e.state)

\* Mutant: the state is moved on and the status is not.
MakeDoneKeepingStatus(e) ==
    At(e.status, CASE e.state = "destroy"   -> "destroyed"
                   [] e.state = "provision" -> "provisioned"
                   [] OTHER                 -> e.state)

MakeDone(e) ==
    At(IF e.status = "in_progress" THEN "done" ELSE e.status,
       CASE e.state = "destroy"   -> "destroyed"
         [] e.state = "provision" -> "provisioned"
         [] OTHER                 -> e.state)
=============================================================================
