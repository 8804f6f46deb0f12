--------------------------- MODULE ResourcePromise ---------------------------
(***************************************************************************)
(* What resources promise to whoever watches their rows: every commit, of  *)
(* whatever request or worker, is one handler of EntityLifecycle applied   *)
(* to the row as it is at that moment, and an execution goes from QUEUED   *)
(* through IN_PROGRESS to DONE or ERROR without anybody interfering.       *)
(* Messages, worker memory, drafts and redeliveries are not part of it.    *)
(***************************************************************************)
EXTENDS EntityLifecycle

CONSTANTS Resource, Abstract

VARIABLE row        \* Absent, or the status and state of a resource

Absent == [status |-> "absent", state |-> "absent"]

Becomes(r, new) == row' = [row EXCEPT ![r] = new]

-----------------------------------------------------------------------------
(* Users: never while the row is QUEUED or IN_PROGRESS.                    *)

Settled(r) == row[r].status \in {"ready", "done", "error"}

Create(r) == /\ row[r] = Absent
             /\ \E gated \in BOOLEAN : Becomes(r, At(Gate(gated), "provision"))

Delete(r) == /\ CanBeDeleted(row[r])
             /\ Becomes(r, Absent)

\* The operation that waits for it, or a pending edit of a settled resource.
Approve(r) == /\ \/ row[r].status = "approval_pending"
                 \/ Settled(r) /\ row[r].state \in {"provision", "provisioned"}
              /\ Becomes(r, ApproveEntity(row[r], r \in Abstract))

Reject(r) == /\ row[r].status = "approval_pending"
             /\ Becomes(r, RejectEntity(row[r]))

Destroy(r) == /\ Settled(r)
              /\ CanBeDestroyed(row[r])
              /\ \E gated \in BOOLEAN : Becomes(r, DestroyEntity(row[r], gated))

Recreate(r) == /\ CanBeRecreated(row[r])
               /\ \E gated \in BOOLEAN : Becomes(r, RecreateEntity(row[r], gated))

Execute(r) == /\ CanBeExecuted(row[r])
              /\ Becomes(r, ExecuteEntity(row[r]))

-----------------------------------------------------------------------------
(* Workers: only what has been queued.                                     *)

Start(r) == /\ row[r].status = "queued"
            /\ Becomes(r, MakeInProgress(row[r]))

Finish(r) == /\ row[r].status = "in_progress"
             /\ Becomes(r, MakeDone(row[r]))

\* A task may be given up before it starts.
Fail(r) == /\ row[r].status \in {"in_progress", "queued"}
           /\ Becomes(r, MakeFailed(row[r]))

-----------------------------------------------------------------------------
Init == row = [r \in Resource |-> Absent]

Next == \E r \in Resource :
            \/ Create(r) \/ Delete(r) \/ Approve(r) \/ Reject(r)
            \/ Destroy(r) \/ Recreate(r) \/ Execute(r)
            \/ Start(r) \/ Finish(r) \/ Fail(r)

Spec == Init /\ [][Next]_row
=============================================================================
