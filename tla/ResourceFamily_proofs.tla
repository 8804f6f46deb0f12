----------------------- MODULE ResourceFamily_proofs -----------------------
(***************************************************************************)
(* Theorems about ResourceLifecycle that relate a resource to its parents  *)
(* and children, for every number of resources and every graph of parents: *)
(* nothing of a child is left in the cloud under a parent that is          *)
(* destroyed, while requests do not overlap within a family, and no parent *)
(* is destroyed while a child is applied, when they do.                    *)
(***************************************************************************)
EXTENDS ResourceLifecycle_proofs

\* A worker has started, or is about to start, what r was queued for.
Executes(r) == \E w \in Worker : Holds(w, r) /\ worker[w].pc # "failing"

-----------------------------------------------------------------------------
(* How rows move.                                                          *)

\* A worker moves only the row of what it executes or gives up: the state
\* changes at the end of a run that did what the state asked for, and only the
\* run of something that is not being destroyed puts anything into the cloud.
LEMMA WorkerMoves ==
    ASSUME CoreInv, OrdinaryUse, OrdinaryFaults, NEW w \in Worker, WorkerStep(w)
    PROVE  /\ UNCHANGED <<live, gone, rq>>
           /\ \A s \in Resource :
                \/ row'[s] = row[s]
                \/ /\ s \in live /\ row[s].status \in Working
                   /\ \/ row'[s].state = row[s].state /\ row'[s].status # "done"
                      \/ /\ Executes(s)
                         /\ row'[s].state = IF row[s].state = "destroy"
                                            THEN "destroyed" ELSE "provisioned"
           /\ \A s \in Resource :
                \/ infra'[s] = infra[s] \/ infra'[s] = "none"
                \/ /\ s \in live /\ row[s].status \in Working /\ Executes(s)
                   /\ s \notin Abstract
                   /\ row[s].state # "destroy" \/ infra[s] # "none"
           /\ \A s \in Resource :
                Executes(s)' => Executes(s) \/ \E m \in Message : Load(w, m) /\ m.res = s
<1>1. CASE \E m \in Message : Take(w, m)
  <2>1. PICK m \in Message : Take(w, m)
    BY <1>1
  <2>2. MakeRetry(row[m.res]) = row[m.res] \/ ~ Postpone(w, m)
    BY DEF MakeRetry, Postpone, NotReady, Executable, Runnable
  <2>3. UNCHANGED <<live, gone, rq, infra>> /\ \A s \in Resource : row'[s] = row[s]
    BY <2>1, <2>2 DEF Take, Discard, DraftMissing, PreviewFails, Postpone, GiveUp, Load,
                      CoreInv, TypeOK
  <2>4. /\ \A v \in Worker : v # w => worker'[v] = worker[v]
        /\ worker[w] = Idle
        /\ \/ worker'[w] = Idle \/ worker'[w].pc = "failing"
           \/ Load(w, m) /\ worker'[w].msg = m
    BY <2>1 DEF Take, Discard, DraftMissing, PreviewFails, Postpone, GiveUp, NotReady,
                Receive, Load, Hold, CoreInv, TypeOK
  <2>5. ASSUME NEW s \in Resource, Executes(s)'
        PROVE  Executes(s) \/ (Load(w, m) /\ m.res = s)
    BY <2>4, <2>5 DEF Executes, Holds
  <2> QED
    BY <2>3, <2>5
<1>2. CASE worker[w] = Idle /\ ~ \E m \in Message : Take(w, m)
  BY <1>2 DEF WorkerStep, Proceed, Start, Refresh, Apply, ApplyFails, Done, Fail,
              RowVanished, CommitFails, Crash, Idle
<1>3. CASE worker[w] # Idle /\ ~ \E m \in Message : Take(w, m)
  <2>0. PICK r : r = worker[w].msg.res
    OBVIOUS
  <2>1. /\ r \in Resource /\ r \in live /\ Sound(r) /\ Holds(w, r)
        /\ row[r] \in Row /\ LegalRow(row[r]) /\ row[r].status \in Working
        /\ worker[w] \in Busy
    BY <1>3, <2>0, HolderIsAlone DEF Holds
  <2>2. /\ worker[w].mem = row[r]
        /\ row[r].status = IF worker[w].pc \in {"loaded", "failing"}
                           THEN "queued" ELSE "in_progress"
        /\ worker[w].pc # "finished"
        /\ worker[w].op = IF row[r].state = "destroy" THEN "destroy" ELSE "apply"
    BY <2>1 DEF Sound, HolderOk
  <2>3. UNCHANGED <<live, gone, rq>>
    BY <1>3 DEF WorkerStep, Proceed, Start, Refresh, Apply, ApplyFails, Done, Fail,
                RowVanished, CommitFails, Crash
  <2>4. ASSUME NEW s \in Resource, Executes(s)'
        PROVE  Executes(s)
    <3>1. /\ \A v \in Worker : v # w => worker'[v] = worker[v]
          /\ \/ worker'[w] = Idle \/ worker'[w].pc = "failing"
             \/ worker'[w].msg = worker[w].msg /\ worker[w].pc # "failing"
      <4>1. CASE Done(w)
        BY <2>1, <2>2, <4>1 DEF Done, Acknowledge, Fault, OrdinaryFaults, CoreInv, TypeOK
      <4>2. CASE ~ Done(w)
        BY <1>3, <2>1, <2>2, <4>2 DEF WorkerStep, Proceed, Start, Refresh, Apply, ApplyFails,
           Fail, RowVanished, CommitFails, Crash, Acknowledge, CoreInv, TypeOK, Busy
      <4> QED
        BY <4>1, <4>2
    <3> QED
      BY <1>3, <2>4, <3>1 DEF Executes, Holds
  <2>5. \A s \in Resource :
            \/ infra'[s] = infra[s] \/ infra'[s] = "none"
            \/ /\ s \in live /\ row[s].status \in Working /\ Executes(s)
               /\ s \notin Abstract
               /\ row[s].state # "destroy" \/ infra[s] # "none"
    <3>1. CASE Apply(w)
      <4>1. Executes(r) /\ \A s \in Resource : s # r => infra'[s] = infra[s]
        BY <2>0, <2>1, <3>1 DEF Apply, Executes, CoreInv, TypeOK
      <4>2. \/ infra'[r] = "none"
            \/ r \notin Abstract /\ (row[r].state # "destroy" \/ infra[r] # "none")
        BY <2>0, <2>1, <2>2, <3>1 DEF Apply, CoreInv, TypeOK
      <4> QED
        BY <2>1, <4>1, <4>2
    <3>2. CASE Interrupted(w)
      <4>1. \A s \in Resource : s # r => infra'[s] = infra[s]
        BY <2>0, <3>2, InterruptedFrame DEF CoreInv
      <4>2. \/ infra'[r] = infra[r]
            \/ /\ Executes(r)
               /\ r \notin Abstract /\ (row[r].state # "destroy" \/ infra[r] # "none")
        BY <2>0, <2>1, <2>2, <3>2 DEF Interrupted, Executes
      <4> QED
        BY <2>1, <4>1, <4>2
    <3>3. CASE ~ (Apply(w) \/ Interrupted(w))
      BY <1>3, <3>3 DEF WorkerStep, Proceed, Start, Refresh, ApplyFails, Done, Fail,
                        RowVanished, CommitFails, Crash
    <3> QED
      BY <3>1, <3>2, <3>3
  <2>6. ASSUME NEW new \in Row, Write(w, new)
        PROVE  row'[r] = new /\ \A s \in Resource : s # r => row'[s] = row[s]
    <3>1. row' = [row EXCEPT ![r] = new]
      BY <1>3, <2>0, <2>6, WorkerWrites
    <3> QED
      BY <2>1, <3>1 DEF CoreInv, TypeOK
  <2>7. \A s \in Resource :
            \/ row'[s] = row[s]
            \/ /\ s \in live /\ row[s].status \in Working
               /\ \/ row'[s].state = row[s].state /\ row'[s].status # "done"
                  \/ /\ Executes(s)
                     /\ row'[s].state = IF row[s].state = "destroy"
                                        THEN "destroyed" ELSE "provisioned"
    <3>1. CASE Start(w)
      <4>1. PICK new : new = MakeInProgress(row[r])
        OBVIOUS
      <4>2. new = At("in_progress", row[r].state) /\ new \in Row
        BY <2>1, <2>2, <3>1, <4>1, WorkerRows DEF Start
      <4>3. Write(w, new)
        BY <2>2, <3>1, <4>1 DEF Start
      <4> QED
        BY <2>1, <2>6, <4>2, <4>3 DEF At
    <3>2. CASE Fail(w)
      <4>1. PICK new : new = MakeFailed(row[r])
        OBVIOUS
      <4>2. new = At("error", row[r].state) /\ new \in Row
        BY <2>1, <4>1, WorkerRows
      <4>3. Write(w, new)
        BY <2>2, <3>2, <4>1 DEF Fail
      <4> QED
        BY <2>1, <2>6, <4>2, <4>3 DEF At
    <3>3. CASE Done(w)
      <4>1. PICK new : new = MakeDone(row[r])
        OBVIOUS
      <4>2. /\ new \in Row
            /\ new = At("done", IF row[r].state = "destroy" THEN "destroyed"
                                ELSE "provisioned")
        BY <2>1, <2>2, <3>3, <4>1, WorkerRows DEF Done
      <4>3. Write(w, new)
        BY <2>2, <3>3, <4>1 DEF Done
      <4>4. Executes(r)
        BY <2>1, <3>3 DEF Done, Executes
      <4>5. new.state = IF row[r].state = "destroy" THEN "destroyed" ELSE "provisioned"
        BY <4>2 DEF At
      <4> QED
        BY <2>1, <2>6, <4>2, <4>3, <4>4, <4>5
    <3>4. CASE ~ (Start(w) \/ Done(w) \/ Fail(w))
      BY <1>3, <3>4 DEF WorkerStep, Proceed, Refresh, Apply, ApplyFails, RowVanished,
                        CommitFails, Crash
    <3> QED
      BY <3>1, <3>2, <3>3, <3>4
  <2> QED
    BY <2>3, <2>4, <2>5, <2>7
<1> QED
  BY <1>1, <1>2, <1>3

\* A committed action changes one row: to DESTROY only when that was asked for,
\* and away from DESTROYED only by recreating.
LEMMA ActionMoves ==
    ASSUME CoreInv, OrdinaryUse, RequestsApart, NEW q \in Request, CommitAction(q),
           NEW r, r = rq[q].res
    PROVE  /\ r \in live /\ UNCHANGED <<live, gone>>
           /\ Asks(q, r) /\ Guarded(rq[q].act, row[r], temp[r], r)
           /\ row[r] \in Row /\ LegalRow(row[r]) /\ row[r].status \notin Working
           /\ \A w \in Worker : ~ Holds(w, r)
           /\ \A s \in Resource : s # r => row'[s] = row[s]
           /\ rq'[q] = NoRequest /\ \A p \in Request : p # q => rq'[p] = rq[p]
           /\ worker' = worker /\ \A s \in Resource : infra[s] = "none" => infra'[s] = "none"
           /\ row'[r].state \in {"destroy", "destroyed"} =>
                \/ rq[q].act = "destroy" /\ row'[r].state = "destroy"
                \/ row[r].state \in {"destroy", "destroyed"}
           /\ row[r].state = "destroyed" => rq[q].act = "recreate" \/ row'[r] = row[r]
<1>0. PICK c : c = rq[q]
  OBVIOUS
<1>1. rq[q] # NoRequest
  BY DEF CommitAction, NoRequest
<1>2. /\ c \in OpenRequest /\ r \in Resource /\ Sound(r)
      /\ r \in live => /\ row[r] \in Row /\ LegalRow(row[r])
                       /\ row[r].status \notin Working
      /\ \A w \in Worker : ~ Holds(w, r)
      /\ \A p \in Request : Asks(p, r) <=> p = q
  BY <1>0, <1>1, AskerIsAlone
<1>3. /\ c.act \notin {"none", "create", "edit", "delete"} /\ r \in live
      /\ UNCHANGED <<live, gone>>
      /\ rq' = [rq EXCEPT ![q] = NoRequest] \/ EndDropping(q, r)
  BY <1>0 DEF CommitAction
<1>4. PICK e, t : e = row[r] /\ t = temp[r]
  OBVIOUS
<1>5. /\ e \in Row /\ LegalRow(e) /\ e.status \notin Working
      /\ c.old = e /\ c.oldTemp = t
      /\ Guarded(c.act, e, t, r)
      /\ t # {} => /\ e.state \in {"provision", "provisioned"}
                   /\ e.status \notin {"approval_pending", "rejected"}
  BY <1>0, <1>2, <1>3, <1>4 DEF Sound, AskOk, RowOk
<1>6. PICK new : new = RowAfter(c)
  OBVIOUS
<1>7. row' = [row EXCEPT ![r] = new]
  <2>1. TypeOK'
    BY UserStepType DEF UserStep, CoreInv
  <2> QED
    BY <1>0, <1>6, <2>1, CommitActionCore
<1>8. row'[r] = new /\ \A s \in Resource : s # r => row'[s] = row[s]
  BY <1>2, <1>7 DEF CoreInv, TypeOK
<1>9. rq'[q] = NoRequest /\ \A p \in Request : p # q => rq'[p] = rq[p]
  BY <1>1, <1>3, CommitFrame
<1>10. c.act \in {"approve", "reject", "destroy", "execute", "recreate", "dryrun"}
  BY <1>2, <1>3, <1>5 DEF OpenRequest, Guarded, OrdinaryUse, UserAction
<1>11. worker' = worker /\ \A s \in Resource : infra[s] = "none" => infra'[s] = "none"
  <2>1. CASE Reconfigures(c)
    BY <1>0, <1>2, <2>1, ReconfigureIdle DEF CommitAction, CoreInv
  <2>2. CASE ~ Reconfigures(c)
    BY <1>0, <2>2 DEF CommitAction
  <2> QED
    BY <2>1, <2>2
<1>12. /\ new.state \in {"destroy", "destroyed"} =>
            \/ c.act = "destroy" /\ new.state = "destroy"
            \/ e.state \in {"destroy", "destroyed"}
       /\ e.state = "destroyed" => c.act = "recreate" \/ new = e
  <2>1. CASE c.act = "approve"
    <3>1. new = e \/ new = IF r \in Abstract
                           THEN At("done", IF e.state = "destroy" THEN "destroyed"
                                           ELSE "provisioned")
                           ELSE At("ready", e.state)
      BY <1>0, <1>5, <1>6, <2>1 DEF RowAfter, ApproveEntity
    <3>2. e.state # "destroyed"
      BY <1>5, <2>1 DEF Guarded, CanApprove, ApprovesDraft, At
    <3> QED
      BY <2>1, <3>1, <3>2 DEF At
  <2>2. CASE c.act = "reject"
    <3>1. new = e \/ (e.state \in {"destroy", "provision"} /\ new = RejectEntity(e))
      BY <1>0, <1>5, <1>6, <2>2 DEF RowAfter, Guarded, CanReject
    <3> QED
      BY <2>2, <3>1 DEF RejectEntity, At
  <2>3. CASE c.act = "destroy"
    <3>1. new = At(Gate(ApprovalFlow), "destroy") /\ CanBeDestroyed(e)
      BY <1>0, <1>5, <1>6, <2>3 DEF RowAfter, DestroyEntity, Guarded
    <3> QED
      BY <2>3, <3>1 DEF At, Gate, CanBeDestroyed
  <2>4. CASE c.act = "execute"
    <3>1. new = At("queued", e.state) /\ CanBeExecuted(e)
      BY <1>0, <1>5, <1>6, <2>4 DEF RowAfter, ExecuteEntity, Guarded
    <3>2. e.state # "destroyed"
      BY <1>5, <3>1 DEF CanBeExecuted, LegalRow, At
    <3> QED
      BY <2>4, <3>1, <3>2 DEF At
  <2>5. CASE c.act = "recreate"
    <3>1. new = RecreateEntity(e, ApprovalFlow) /\ CanBeRecreated(e)
      BY <1>0, <1>5, <1>6, <2>5 DEF RowAfter, Guarded
    <3> QED
      BY <2>5, <3>1 DEF At, Gate, RecreateEntity, CanBeRecreated
  <2>6. CASE c.act = "dryrun"
    <3>1. new = e
      BY <1>0, <1>5, <1>6, <2>6 DEF RowAfter
    <3> QED
      BY <3>1
  <2> QED
    BY <1>10, <2>1, <2>2, <2>3, <2>4, <2>5, <2>6
<1> QED
  BY <1>0, <1>2, <1>3, <1>4, <1>5, <1>8, <1>9, <1>11, <1>12

\* Rows, cloud and workers are as they were while a request reads, edits or
\* gives up, and what it leaves in place of the request asks for nothing.
LEMMA QuietMoves ==
    ASSUME CoreInv, OrdinaryUse, RequestsApart, NEW q \in Request,
           CommitEdit(q) \/ Abort(q)
    PROVE  /\ UNCHANGED <<live, gone, row, worker>>
           /\ rq'[q] = NoRequest /\ \A p \in Request : p # q => rq'[p] = rq[p]
           /\ \A s \in Resource : infra[s] = "none" => infra'[s] = "none"
<1>0. PICK r : r = rq[q].res
  OBVIOUS
<1>1. rq[q] # NoRequest
  BY DEF CommitEdit, Abort, NoRequest
<1>2. r \in Resource /\ \A w \in Worker : ~ Holds(w, r)
  BY <1>0, <1>1, AskerIsAlone
<1>3. rq' = [rq EXCEPT ![q] = NoRequest] /\ UNCHANGED <<live, gone, row>>
  BY DEF CommitEdit, Abort
<1>4. worker' = worker /\ \A s \in Resource : infra[s] = "none" => infra'[s] = "none"
  <2>1. CASE CommitEdit(q) /\ Reconfigures(rq[q])
    BY <1>0, <1>2, <2>1, ReconfigureIdle DEF CommitEdit, CoreInv
  <2>2. CASE ~ (CommitEdit(q) /\ Reconfigures(rq[q]))
    BY <2>2 DEF CommitEdit, Abort
  <2> QED
    BY <2>1, <2>2
<1> QED
  BY <1>3, <1>4 DEF CoreInv, TypeOK

\* A created resource is new; a deleted one leaves.
LEMMA CreateMoves ==
    ASSUME CoreInv, OrdinaryUse, RequestsApart, NEW q \in Request, CommitCreate(q),
           NEW r, r = rq[q].res
    PROVE  /\ rq[q].act = "create" /\ rq[q] # NoRequest /\ r \in Resource
           /\ r \notin live \cup gone /\ Parents[r] \subseteq live
           /\ live' = live \cup {r} /\ UNCHANGED <<gone, infra, worker>>
           /\ infra[r] = "none" /\ ~ Executes(r)
           /\ row'[r].state = "provision" /\ row'[r].status # "done"
           /\ \A s \in Resource : s # r => row'[s] = row[s]
           /\ rq'[q] = NoRequest /\ \A p \in Request : p # q => rq'[p] = rq[p]
<1>1. rq[q] # NoRequest
  BY DEF CommitCreate, NoRequest
<1>2. r \in Resource /\ Sound(r) /\ Asks(q, r) /\ \A w \in Worker : ~ Holds(w, r)
  BY <1>1, AskerIsAlone
<1>3. r \notin live \cup gone /\ infra[r] = "none"
  BY <1>2 DEF CommitCreate, Sound, AskOk, RowOk
<1>4. row'[r] = At(Gate(ApprovalFlow), "provision")
      /\ \A s \in Resource : s # r => row'[s] = row[s]
  BY <1>2 DEF CommitCreate, CoreInv, TypeOK
<1> QED
  BY <1>1, <1>2, <1>3, <1>4 DEF CommitCreate, Executes, At, Gate, CoreInv, TypeOK

LEMMA DeleteMoves ==
    ASSUME CoreInv, OrdinaryUse, RequestsApart, NEW q \in Request, CommitDelete(q),
           NEW r, r = rq[q].res
    PROVE  /\ rq[q] # NoRequest /\ r \in live
           /\ live' = live \ {r} /\ gone' = gone \cup {r}
           /\ UNCHANGED <<row, infra, worker>>
           /\ rq'[q] = NoRequest /\ \A p \in Request : p # q => rq'[p] = rq[p]
<1>1. rq[q] # NoRequest
  BY DEF CommitDelete, NoRequest
<1> QED
  BY <1>1, CommitFrame DEF CommitDelete

-----------------------------------------------------------------------------
(* Requests about a family do not overlap.                                 *)

\* Requests that are open at the same time are about different resources, and
\* not about a parent and its child.
FamiliesApart ==
    \A p, q \in Request :
        p # q /\ rq[p] # NoRequest /\ rq[q] # NoRequest =>
            /\ rq[p].res # rq[q].res
            /\ rq[p].res \notin Parents[rq[q].res]

\* The children of what is destroyed, or about to be, are destroyed.
ChildrenFirst ==
    \A p \in live : row[p].state \in {"destroy", "destroyed"} =>
        \A c \in Children(p) : row[c].state = "destroyed"

\* What the handler of q has seen of the family is still so.
FamilySeen(q) ==
    LET r == rq[q].res
    IN  /\ rq[q].act = "create" =>
                \A p \in Parents[r] : p \in live /\ row[p].state = "provisioned"
        /\ rq[q].act = "recreate" =>
                \A p \in LiveParents(r) : row[p].state = "provisioned"
        /\ rq[q].act = "destroy" =>
                \A c \in Children(r) : row[c].state = "destroyed"

FamilyInv ==
    /\ CoreInv
    /\ ChildrenFirst
    /\ \A q \in Request : rq[q] # NoRequest => FamilySeen(q)

\* The end of a request about r changes nothing that another one has seen.
LEMMA OthersHaveSeen ==
    ASSUME FamilyInv, FamiliesApart, NEW q \in Request, rq[q] # NoRequest,
           NEW r, r = rq[q].res,
           \A s \in Resource : s # r => row'[s] = row[s] /\ (s \in live') = (s \in live),
           live' \subseteq Resource,
           rq'[q] = NoRequest, \A p \in Request : p # q => rq'[p] = rq[p]
    PROVE  \A p \in Request : rq'[p] # NoRequest => FamilySeen(p)'
<1> SUFFICES ASSUME NEW p \in Request, rq'[p] # NoRequest PROVE FamilySeen(p)'
  OBVIOUS
<1>1. p # q /\ rq'[p] = rq[p] /\ rq[p] # NoRequest
  OBVIOUS
<1>2. PICK s : s = rq[p].res
  OBVIOUS
<1>3. s \in Resource /\ r \in Resource /\ Parents[s] \subseteq Resource
  BY <1>1, <1>2, ParentsAssumption DEF FamilyInv, CoreInv, TypeOK, OpenRequest
<1>4. r # s /\ r \notin Parents[s] /\ s \notin Parents[r]
  BY <1>1, <1>2 DEF FamiliesApart
<1>5. /\ \A t \in Parents[s] : row'[t] = row[t] /\ (t \in live') = (t \in live)
      /\ LiveParents(s)' = LiveParents(s)
  BY <1>3, <1>4 DEF LiveParents
<1>6. Children(s)' = Children(s) /\ \A t \in Children(s) : row'[t] = row[t]
  BY <1>3, <1>4 DEF Children, FamilyInv, CoreInv, TypeOK
<1>7. FamilySeen(p)
  BY <1>1 DEF FamilyInv
<1> QED
  BY <1>1, <1>2, <1>5, <1>6, <1>7 DEF FamilySeen, LiveParents

\* Workers destroy nothing that has children left, and bring nothing back.
LEMMA FamilyWorker ==
    ASSUME FamilyInv, OrdinaryUse, OrdinaryFaults, NEW w \in Worker, WorkerStep(w)
    PROVE  ChildrenFirst' /\ \A q \in Request : rq'[q] # NoRequest => FamilySeen(q)'
<1>1. /\ UNCHANGED <<live, rq>>
      /\ \A s \in Resource :
            \/ row'[s] = row[s]
            \/ /\ s \in live /\ row[s].status \in Working
               /\ \/ row'[s].state = row[s].state
                  \/ row'[s].state = IF row[s].state = "destroy"
                                     THEN "destroyed" ELSE "provisioned"
  BY WorkerMoves DEF FamilyInv
<1>2. \A s \in live : row[s].status \in Working => row[s].state # "destroyed"
  BY DEF FamilyInv, CoreInv, TypeOK, Sound, RowOk, LegalRow, Working
<1>3. \A s \in live :
        /\ row[s].state = "destroyed" => row'[s].state = "destroyed"
        /\ row[s].state = "provisioned" => row'[s].state = "provisioned"
        /\ row'[s].state \in {"destroy", "destroyed"} =>
                row[s].state \in {"destroy", "destroyed"}
  BY <1>1, <1>2 DEF FamilyInv, CoreInv, TypeOK
<1>4. ChildrenFirst'
  BY <1>1, <1>3 DEF ChildrenFirst, Children, FamilyInv
<1>5. ASSUME NEW q \in Request, rq'[q] # NoRequest PROVE FamilySeen(q)'
  <2>1. FamilySeen(q) /\ rq'[q] = rq[q]
    BY <1>1, <1>5 DEF FamilyInv
  <2> QED
    BY <1>1, <1>3, <2>1 DEF FamilySeen, Children, LiveParents
<1> QED
  BY <1>4, <1>5

\* A handler that starts has looked at the family.
LEMMA FamilyBegin ==
    ASSUME FamilyInv, NEW q \in Request, NEW act, NEW r \in Resource, NEW draft,
           Begin(q, act, r, draft)
    PROVE  ChildrenFirst' /\ \A p \in Request : rq'[p] # NoRequest => FamilySeen(p)'
<1>1. /\ UNCHANGED <<live, row>> /\ Accepts(act, r)
      /\ rq'[q].act = act /\ rq'[q].res = r
      /\ \A p \in Request : p # q => rq'[p] = rq[p]
  BY DEF Begin, FamilyInv, CoreInv, TypeOK
<1>2. ChildrenFirst'
  BY <1>1 DEF FamilyInv, ChildrenFirst, Children
<1>3. ASSUME NEW p \in Request, rq'[p] # NoRequest, p # q PROVE FamilySeen(p)'
  BY <1>1, <1>3 DEF FamilyInv, FamilySeen, Children, LiveParents
<1>4. FamilySeen(q)'
  <2>1. CASE act = "create"
    BY <1>1, <2>1 DEF Accepts, CanCreate, FamilySeen
  <2>2. CASE act = "recreate"
    BY <1>1, <2>2 DEF Accepts, CanRecreate, FamilySeen, LiveParents
  <2>3. CASE act = "destroy"
    BY <1>1, <2>3 DEF Accepts, CanDestroy, FamilySeen, Children, At
  <2>4. CASE act \notin {"create", "recreate", "destroy"}
    BY <1>1, <2>4 DEF FamilySeen
  <2> QED
    BY <2>1, <2>2, <2>3, <2>4
<1> QED
  BY <1>2, <1>3, <1>4

\* Committing an action on r keeps its children destroyed when r is, and its
\* parents standing when r is not.
LEMMA FamilyAction ==
    ASSUME FamilyInv, OrdinaryUse, FamiliesApart, NEW q \in Request, CommitAction(q)
    PROVE  ChildrenFirst' /\ \A p \in Request : rq'[p] # NoRequest => FamilySeen(p)'
<1>0. PICK r : r = rq[q].res
  OBVIOUS
<1>1. RequestsApart /\ CoreInv
  BY DEF FamiliesApart, RequestsApart, FamilyInv
<1>2. /\ r \in live /\ UNCHANGED live
      /\ Asks(q, r)
      /\ \A s \in Resource : s # r => row'[s] = row[s]
      /\ rq'[q] = NoRequest /\ \A p \in Request : p # q => rq'[p] = rq[p]
      /\ row'[r].state \in {"destroy", "destroyed"} =>
            \/ rq[q].act = "destroy" /\ row'[r].state = "destroy"
            \/ row[r].state \in {"destroy", "destroyed"}
      /\ row[r].state = "destroyed" => rq[q].act = "recreate" \/ row'[r] = row[r]
  BY <1>0, <1>1, ActionMoves
<1>3. FamilySeen(q) /\ live \subseteq Resource
  BY <1>1, <1>2 DEF FamilyInv, Asks, CoreInv, TypeOK
<1>4. ChildrenFirst'
  <2> SUFFICES ASSUME NEW p \in live, row'[p].state \in {"destroy", "destroyed"},
                      NEW c \in live, p \in Parents[c]
               PROVE  row'[c].state = "destroyed"
    BY <1>2 DEF ChildrenFirst, Children
  <2>1. row[c].state = "destroyed"
    <3>1. CASE p = r /\ rq[q].act = "destroy"
      BY <1>0, <1>3, <3>1 DEF FamilySeen, Children
    <3>2. CASE ~ (p = r /\ rq[q].act = "destroy")
      BY <1>2, <1>3, <3>2 DEF FamilyInv, ChildrenFirst, Children
    <3> QED
      BY <3>1, <3>2
  <2>2. CASE c # r
    BY <1>2, <1>3, <2>1, <2>2
  <2>3. CASE c = r /\ rq[q].act # "recreate"
    BY <1>2, <2>1, <2>3
  <2>4. CASE c = r /\ rq[q].act = "recreate"
    <3>1. row[p].state = "provisioned" /\ p # r
      BY <1>0, <1>3, <2>1, <2>4 DEF FamilySeen, LiveParents
    <3> QED
      BY <1>2, <1>3, <3>1
  <2> QED
    BY <2>2, <2>3, <2>4
<1> QED
  BY <1>0, <1>2, <1>3, <1>4, OthersHaveSeen DEF Asks

\* The rest of what a request can do.
LEMMA FamilyUser ==
    ASSUME FamilyInv, OrdinaryUse, OrdinaryFaults, FamiliesApart, NEW q \in Request,
           UserStep(q)
    PROVE  ChildrenFirst' /\ \A p \in Request : rq'[p] # NoRequest => FamilySeen(p)'
<1>0. RequestsApart /\ CoreInv /\ live \subseteq Resource
  BY DEF FamiliesApart, RequestsApart, FamilyInv, CoreInv, TypeOK
<1>1. CASE \E act \in Offered, r \in Resource, draft \in Edits \cup {{}} :
              Begin(q, act, r, draft)
  BY <1>1, FamilyBegin
<1>2. CASE CommitCreate(q)
  <2>0. PICK r : r = rq[q].res
    OBVIOUS
  <2>1. /\ rq[q].act = "create" /\ rq[q] # NoRequest /\ r \in Resource
        /\ r \notin live /\ Parents[r] \subseteq live
        /\ live' = live \cup {r} /\ row'[r].state = "provision"
        /\ \A s \in Resource : s # r => row'[s] = row[s]
        /\ rq'[q] = NoRequest /\ \A p \in Request : p # q => rq'[p] = rq[p]
    BY <1>0, <1>2, <2>0, CreateMoves
  <2>2. \A p \in Parents[r] : p # r /\ row[p].state = "provisioned"
    BY <2>0, <2>1 DEF FamilyInv, FamilySeen
  <2>3. ChildrenFirst'
    BY <1>0, <2>1, <2>2 DEF FamilyInv, ChildrenFirst, Children
  <2> QED
    BY <1>0, <2>0, <2>1, <2>3, OthersHaveSeen
<1>3. CASE CommitDelete(q)
  <2>0. PICK r : r = rq[q].res
    OBVIOUS
  <2>1. /\ rq[q] # NoRequest /\ live' = live \ {r} /\ UNCHANGED row
        /\ rq'[q] = NoRequest /\ \A p \in Request : p # q => rq'[p] = rq[p]
    BY <1>0, <1>3, <2>0, DeleteMoves
  <2>2. ChildrenFirst'
    BY <2>1 DEF FamilyInv, ChildrenFirst, Children
  <2> QED
    BY <1>0, <2>0, <2>1, <2>2, OthersHaveSeen
<1>4. CASE CommitEdit(q) \/ Abort(q)
  <2>1. /\ UNCHANGED <<live, row>>
        /\ rq'[q] = NoRequest /\ \A p \in Request : p # q => rq'[p] = rq[p]
    BY <1>0, <1>4, QuietMoves
  <2>2. ASSUME NEW p \in Request, rq'[p] # NoRequest PROVE FamilySeen(p)'
    <3>1. rq'[p] = rq[p] /\ FamilySeen(p)
      BY <2>1, <2>2 DEF FamilyInv
    <3> QED
      BY <2>1, <3>1 DEF FamilySeen, Children, LiveParents
  <2> QED
    BY <2>1, <2>2 DEF FamilyInv, ChildrenFirst, Children
<1>5. CASE CommitAction(q)
  BY <1>5, FamilyAction
<1>6. CASE AbortAndSend(q)
  BY <1>6 DEF AbortAndSend, Fault, OrdinaryFaults
<1> QED
  BY <1>1, <1>2, <1>3, <1>4, <1>5, <1>6 DEF UserStep

LEMMA FamilyHolds ==
    ASSUME OrdinaryUse, OrdinaryFaults
    PROVE  Spec /\ []FamiliesApart => []FamilyInv
<1>1. Init => FamilyInv
  <2>1. Init => ChildrenFirst /\ \A q \in Request : rq[q] = NoRequest
    BY DEF Init, ChildrenFirst
  <2> QED
    BY <2>1, InitCore DEF FamilyInv
<1>2. FamilyInv /\ FamiliesApart /\ [Next]_vars => FamilyInv'
  <2> SUFFICES ASSUME FamilyInv, FamiliesApart, [Next]_vars PROVE FamilyInv'
    OBVIOUS
  <2>1. CoreInv'
    BY NextCore DEF FamilyInv, FamiliesApart, RequestsApart
  <2>2. CASE Next
    BY <2>1, <2>2, FamilyUser, FamilyWorker DEF Next, FamilyInv
  <2>3. CASE UNCHANGED vars
    BY <2>1, <2>3 DEF vars, FamilyInv, ChildrenFirst, FamilySeen, Children, LiveParents
  <2> QED
    BY <2>2, <2>3
<1> QED
  BY <1>1, <1>2, PTL DEF Spec

\* Once the destruction of a resource has been requested nothing of its children
\* is left in the cloud, and nothing comes back while it stays destroyed.
THEOREM NothingIsOrphaned ==
    ASSUME OrdinaryUse, OrdinaryFaults
    PROVE  Spec /\ []FamiliesApart => []NoOrphanInfra
<1>1. FamilyInv => NoOrphanInfra
  BY DEF FamilyInv, CoreInv, TypeOK, Sound, RowOk, ChildrenFirst, Children, NoOrphanInfra
<1> QED
  BY <1>1, FamilyHolds, PTL

-----------------------------------------------------------------------------
(* Requests about a parent and its child overlap.                          *)

\* w has taken up the task to apply, or to destroy, r and has not run tofu yet.
TakenUp(w, r, op) ==
    /\ Holds(w, r) /\ worker[w].op = op
    /\ worker[w].pc \in {"loaded", "started", "running"}

\* No destruction of a parent is taken up next to an apply of its child.
LinkOk ==
    \A v, w \in Worker, p, c \in Resource :
        TakenUp(v, p, "destroy") /\ TakenUp(w, c, "apply") => p \notin Parents[c]

\* A task is taken up by loading it, in no other way.
LEMMA TakenUpByLoading ==
    ASSUME TypeOK, [Next]_vars, NEW w \in Worker, NEW r, NEW op, TakenUp(w, r, op)'
    PROVE  TakenUp(w, r, op) \/ \E m \in Message : Load(w, m)
<1>1. CASE UNCHANGED vars
  BY <1>1 DEF vars, TakenUp, Holds
<1>2. CASE \E q \in Request : UserStep(q)
  <2>1. PICK q \in Request : UserStep(q)
    BY <1>2
  <2>2. worker' = worker \/ Reconfigure(rq[q].res)
    BY <2>1 DEF UserStep, Begin, CommitCreate, CommitEdit, CommitDelete, CommitAction,
                Abort, AbortAndSend
  <2>3. CASE Reconfigure(rq[q].res)
    <3>1. worker[w] = Idle \/ worker[w] \in Busy
      BY DEF TypeOK
    <3>2. \/ worker'[w] = worker[w]
          \/ worker[w] # Idle /\ worker'[w] = [worker[w] EXCEPT !.fresh = FALSE]
      BY <2>3 DEF Reconfigure
    <3> QED
      BY <3>1, <3>2 DEF TakenUp, Holds, Busy
  <2>4. CASE worker' = worker
    BY <2>4 DEF TakenUp, Holds
  <2> QED
    BY <2>2, <2>3, <2>4
<1>3. CASE \E v \in Worker : WorkerStep(v)
  <2>1. PICK v \in Worker : WorkerStep(v)
    BY <1>3
  <2>2. CASE v # w
    <3>1. CASE \E m \in Message : Take(v, m)
      BY <2>2, <3>1 DEF TakenUp, Holds, Take, Discard, DraftMissing, PreviewFails, Postpone,
                        GiveUp, Load, Hold, TypeOK
    <3>2. CASE ~ \E m \in Message : Take(v, m)
      BY <2>1, <2>2, <3>2 DEF TakenUp, Holds, WorkerStep, Proceed, Start, Refresh, Apply,
         ApplyFails, Done, Fail, Acknowledge, RowVanished, CommitFails, Crash, TypeOK
    <3> QED
      BY <3>1, <3>2
  <2>3. CASE v = w /\ \E m \in Message : Take(w, m)
    <3>1. PICK m \in Message : Take(w, m)
      BY <2>3
    <3>2. worker[w] = Idle /\ ~ Load(w, m) => worker'[w] = Idle \/ worker'[w].pc = "failing"
      BY <3>1 DEF Take, Discard, DraftMissing, PreviewFails, Postpone, GiveUp, Hold, TypeOK
    <3>3. worker[w] = Idle
      BY <3>1 DEF Take, Discard, DraftMissing, PreviewFails, Postpone, GiveUp, Load, NotReady,
                  Receive
    <3> QED
      BY <3>2, <3>3 DEF TakenUp, Holds
  <2>4. CASE v = w /\ ~ \E m \in Message : Take(w, m)
    <3>1. worker[w] \in Busy
      BY <2>1, <2>4 DEF WorkerStep, Proceed, Start, Refresh, Apply, ApplyFails, Done, Fail,
         RowVanished, CommitFails, Crash, Idle, TypeOK
    <3>2. CASE Start(w) \/ Refresh(w)
      <4>1. /\ worker[w].pc \in {"loaded", "started", "finished"}
            /\ worker[w].pc = "finished" => worker'[w].pc = "failing"
            /\ worker'[w].msg = worker[w].msg /\ worker'[w].op = worker[w].op
        BY <3>1, <3>2 DEF Start, Refresh, TypeOK, Busy
      <4> QED
        BY <3>1, <4>1 DEF TakenUp, Holds, Busy, Idle
    <3>3. CASE ~ (Start(w) \/ Refresh(w))
      <4>1. \/ worker'[w] = Idle
            \/ worker'[w].pc \in {"applied", "failed", "finished"}
        BY <2>1, <2>4, <3>1, <3>3 DEF WorkerStep, Proceed, Apply, ApplyFails, Done, Fail,
           Acknowledge, RowVanished, CommitFails, Crash, TypeOK, Busy
      <4> QED
        BY <4>1 DEF TakenUp, Holds
    <3> QED
      BY <3>2, <3>3
  <2> QED
    BY <2>1, <2>2, <2>3, <2>4
<1> QED
  BY <1>1, <1>2, <1>3 DEF Next

\* A worker that loads a task has looked at the other side of its links, where a
\* resource that is being worked on is neither DONE, DESTROYED nor PROVISIONED.
LEMMA LoadedApart ==
    ASSUME CoreInv, NEW v \in Worker, NEW w \in Worker, NEW m \in Message, Load(w, m),
           NEW r, r = m.res, NEW s \in Resource, Holds(v, s)
    PROVE  /\ r \in Resource /\ r # s
           /\ \A op : TakenUp(w, r, op)' =>
                op = IF row[r].state = "destroy" THEN "destroy" ELSE "apply"
           /\ row[r].state = "destroy" => r \notin Parents[s]
           /\ row[r].state # "destroy" /\ worker[v].op = "destroy" => s \notin Parents[r]
<1>1. /\ r \in live /\ r \in Resource /\ Ready(r) /\ worker[w] = Idle /\ queue[m] > 0
      /\ m.action = "execute"
      /\ worker'[w].op = IF row[r].state = "destroy" THEN "destroy" ELSE "apply"
  BY DEF Load, Receive, Hold, CoreInv, TypeOK, Message
<1>2. /\ s \in live /\ LegalRow(row[s])
      /\ row[s].status \in Working
      /\ worker[v].op = IF row[s].state = "destroy" THEN "destroy" ELSE "apply"
  BY DEF CoreInv, Sound, HolderOk, RowOk, Working
<1>3. r # s
  BY <1>1 DEF CoreInv, Sound, TaskOk, IsTask
<1>4. row[s].status # "done" /\ row[s].state # "destroyed"
  BY <1>2 DEF LegalRow, Working
<1>5. row[r].state = "destroy" => r \notin Parents[s]
  BY <1>1, <1>2, <1>4 DEF Ready, ChildrenDestroyed, Children
<1>6. row[r].state # "destroy" /\ worker[v].op = "destroy" => s \notin Parents[r]
  BY <1>1, <1>2, <1>4 DEF Ready, ParentsReady, LiveParents
<1> QED
  BY <1>1, <1>3, <1>5, <1>6 DEF TakenUp

\* Only one worker moves at a time, so one of the two was there before.
LEMMA NextLink ==
    ASSUME CoreInv, LinkOk, [Next]_vars
    PROVE  LinkOk'
<1> SUFFICES ASSUME NEW v \in Worker, NEW w \in Worker, NEW p \in Resource, NEW c \in Resource,
                    TakenUp(v, p, "destroy")', TakenUp(w, c, "apply")', p \in Parents[c]
             PROVE  FALSE
  BY DEF LinkOk
<1>0. TypeOK
  BY DEF CoreInv
<1>1. v # w
  BY DEF TakenUp
<1>2. \A u \in Worker, m \in Message : Load(u, m) =>
        /\ worker'[u] # Idle /\ worker'[u].msg = m
        /\ \A x \in Worker : x # u => worker'[x] = worker[x]
  BY <1>0 DEF Load, Hold, Receive, TypeOK, Idle
<1>3. CASE \E m \in Message : Load(v, m)
  <2>1. PICK m \in Message : Load(v, m)
    BY <1>3
  <2>2. TakenUp(w, c, "apply") /\ m.res = p
    BY <1>1, <1>2, <2>1 DEF TakenUp, Holds
  <2>3. Holds(w, c)
    BY <2>2 DEF TakenUp
  <2>4. row[p].state = "destroy" => p \notin Parents[c]
    BY <2>1, <2>2, <2>3, LoadedApart
  <2>5. "destroy" = IF row[p].state = "destroy" THEN "destroy" ELSE "apply"
    BY <2>1, <2>2, <2>3, LoadedApart
  <2> QED
    BY <2>4, <2>5
<1>4. CASE \E m \in Message : Load(w, m)
  <2>1. PICK m \in Message : Load(w, m)
    BY <1>4
  <2>2. TakenUp(v, p, "destroy") /\ m.res = c
    BY <1>1, <1>2, <2>1 DEF TakenUp, Holds
  <2>3. Holds(v, p) /\ worker[v].op = "destroy"
    BY <2>2 DEF TakenUp
  <2>4. row[c].state # "destroy" /\ worker[v].op = "destroy" => p \notin Parents[c]
    BY <2>1, <2>2, <2>3, LoadedApart
  <2>5. "apply" = IF row[c].state = "destroy" THEN "destroy" ELSE "apply"
    BY <2>1, <2>2, <2>3, LoadedApart
  <2> QED
    BY <2>3, <2>4, <2>5
<1>5. CASE ~ (\E m \in Message : Load(v, m)) /\ ~ (\E m \in Message : Load(w, m))
  <2>1. TakenUp(v, p, "destroy") /\ TakenUp(w, c, "apply")
    BY <1>0, <1>5, TakenUpByLoading
  <2> QED
    BY <2>1 DEF LinkOk
<1> QED
  BY <1>3, <1>4, <1>5

\* However requests about a parent and its children overlap, tofu never destroys
\* the parent while it applies a child.
THEOREM LinksAreRespected ==
    ASSUME OrdinaryUse, OrdinaryFaults
    PROVE  Spec /\ []RequestsApart => []RunsApartAcrossLinks
<1>1. Init => LinkOk
  BY DEF Init, LinkOk, TakenUp, Holds
<1>2. CoreInv /\ LinkOk /\ [Next]_vars => LinkOk'
  BY NextLink
<1>3. CoreInv /\ LinkOk => RunsApartAcrossLinks
  <2> SUFFICES ASSUME CoreInv, LinkOk, NEW v \in Worker, NEW w \in Worker,
                      worker[v].pc = "running" /\ worker[v].op = "destroy",
                      worker[w].pc = "running" /\ worker[w].op = "apply"
               PROVE  worker[v].msg.res \notin Parents[worker[w].msg.res]
    BY DEF RunsApartAcrossLinks
  <2>1. worker[v] \in Busy /\ worker[w] \in Busy
    BY BusyType DEF CoreInv
  <2>2. PICK p \in Resource, c \in Resource : p = worker[v].msg.res /\ c = worker[w].msg.res
    BY <2>1 DEF Busy, Message
  <2>3. TakenUp(v, p, "destroy") /\ TakenUp(w, c, "apply")
    BY <2>1, <2>2 DEF TakenUp, Holds, Busy, Idle
  <2> QED
    BY <2>2, <2>3 DEF LinkOk
<1> QED
  BY <1>1, <1>2, <1>3, CoreHolds, PTL DEF Spec
=============================================================================
