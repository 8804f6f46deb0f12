------------------------------- MODULE Workflow -------------------------------
(***************************************************************************)
(* A workflow creates the resources of a blueprint, or destroys a resource *)
(* with all its descendants, one level of its dependency graph after the   *)
(* other: workflows/task.py and what it calls.                             *)
(*                                                                         *)
(* Nothing runs in the background: each message (a user's start, a step's  *)
(* own task, the callback of a resource task that ended) makes a worker    *)
(* load the workflow and push it as far as it goes.  The session keeps the *)
(* objects it has loaded, so a worker decides on what it read when it took *)
(* the message, and each commit writes the columns it changed.             *)
(***************************************************************************)
EXTENDS EntityLifecycle, Integers, FiniteSetsExt, Sequences

CONSTANTS
    Step,           \* the steps of the workflow, one per template or resource
    Worker,         \* workers that handle messages of the workflow
    Actions,        \* the kinds of workflow of this instance
    Approvals,      \* the settings of approval_flow of this instance
    MaxResources,   \* bound on the resources ever created for one step
    MaxStarts,      \* bound on how often users execute the workflow
    MaxQueue,       \* bound on the messages in the queue
    FaultKinds,     \* the faults of this instance
    MaxFaults       \* bound on their number

\* A worker dies and its message is redelivered; a service call of a creation,
\* or of a cascade, raises; a resource task fails; a callback is lost.
Faults == {"crash", "refuse", "refuse_cascade", "fail", "callback"}

ASSUME InstanceAssumption == /\ Actions \subseteq {"create", "destroy"}
                             /\ Approvals \subseteq BOOLEAN
                             /\ FaultKinds \subseteq Faults
                             /\ IsFiniteSet(Step) /\ Step # {}
ASSUME BoundsAssumption   == /\ MaxResources \in Nat \ {0}
                             /\ MaxStarts \in Nat
                             /\ MaxQueue \in Nat
                             /\ MaxFaults \in Nat

VARIABLES
    action,     \* what the workflow does
    gated,      \* InfrakitchenConfig().approval_flow
    needs,      \* whose outputs a step is wired to; the parents to destroy after
    wf,         \* the status of the workflow
    step,       \* the status of each step
    link,       \* the resource of each step, 0 if it has none
    row,        \* the rows of the resources
    task,       \* tasks of each resource in the queue
    run,        \* tasks of each resource being executed
    msgs,       \* messages to the workflow in the queue, in order
    worker,     \* what each worker holds in memory
    starts,     \* how often users have executed the workflow
    faults,     \* faults so far
    unwired,    \* history: steps created without the output of a source
    dropped     \* history: steps whose turn was lost, see NoSilentStall

rows == <<row, task, run>>
vars == <<action, gated, needs, wf, step, link, row, task, run, msgs, worker,
          starts, faults, unwired, dropped>>

-----------------------------------------------------------------------------
(* Data.                                                                   *)

WorkflowStatus == {"pending", "in_progress", "done", "error"}
StepStatus == ModelStatus \cup {"pending"}

Absent == [status |-> "absent", state |-> "absent"]
Numbers == 1 .. MaxResources
Res == Step \X Numbers

\* <<>> is a user's start, <<s>> the task of a step, <<s, n>> the callback of
\* the n-th resource created for s.
Message == {<<>>} \cup {<<s>> : s \in Step} \cup Res

Idle == [pc |-> "idle"]

\* What the session of a worker remembers.
View == [wf : WorkflowStatus, step : [Step -> StepStatus],
         link : [Step -> 0 .. MaxResources], row : [Step -> Row \cup {Absent}]]

\* pc says what comes next: marking the workflow IN_PROGRESS, the steps in
\* todo, the second half of step `cur', completing or failing the workflow, or
\* acknowledging the message.
Busy == [pc : {"enter", "steps", "claimed", "complete", "fail", "end"},
         msg : Message, target : SUBSET Step,
         level : SUBSET Step, todo : SUBSET Step, cur : Step, bad : BOOLEAN,
         view : View,
         early : SUBSET Step,                   \* DONE when the message came
         out : Seq(Message)]                    \* buffered, not published yet

-----------------------------------------------------------------------------
(* Positions.                                                              *)

\* Mutant: a template is placed as soon as one of its sources is.
ReachedEarly[n \in Nat] ==
    IF n = 0 THEN {}
    ELSE {s \in Step : needs[s] = {} \/ needs[s] \cap ReachedEarly[n - 1] # {}}

\* Blueprints: Kahn's algorithm, one level per round.
Reached[n \in Nat] == IF n = 0 THEN {}
                      ELSE {s \in Step : needs[s] \subseteq Reached[n - 1]}

BlueprintPositionEarly(s) ==
    Min({n \in 0 .. Cardinality(Step) : s \in ReachedEarly[n + 1]})

BlueprintPosition(s) == Min({n \in 0 .. Cardinality(Step) : s \in Reached[n + 1]})

\* Cascades: the longest path from the root, counted from the deepest step.
Depth[s \in Step] == IF needs[s] = {} THEN 0
                     ELSE 1 + Max({Depth[p] : p \in needs[s]})

CascadePosition(s) == Max({Depth[t] : t \in Step}) - Depth[s]

Position(s) == IF action = "create" THEN BlueprintPosition(s)
               ELSE CascadePosition(s)

\* The graphs a workflow is created from: acyclic, and what a cascade destroys
\* hangs from one root.
Graph == [Step -> SUBSET Step]
Acyclic(g) == \A S \in (SUBSET Step) \ {{}} : \E s \in S : g[s] \cap S = {}
Rooted(g) == Cardinality({s \in Step : g[s] = {}}) = 1

-----------------------------------------------------------------------------
(* What a worker reads, writes and sends.                                  *)

LoadedRow(s) == IF link[s] = 0 THEN Absent ELSE row[<<s, link[s]>>]

Loaded == [wf |-> wf, step |-> step, link |-> link,
           row |-> [s \in Step |-> LoadedRow(s)]]

\* The step a message is about: the one of a callback is looked up by the
\* resource it is linked to now.
Target(m) == IF m = <<>> THEN {}
             ELSE {s \in Step : m = <<s>> \/ m = <<s, link[s]>>}

\* The columns a session changed, over what the row holds by now.
Merged(current, old, new) ==
    [status |-> IF new.status # old.status THEN new.status ELSE current.status,
     state  |-> IF new.state  # old.state  THEN new.state  ELSE current.state]

Changed(current, old, new) == IF new # old THEN new ELSE current

Publish(out) == /\ Len(msgs) + Len(out) <= MaxQueue
                /\ msgs' = msgs \o out

\* Each commit publishes what the handler has buffered so far.
Flush(w, calls) ==
    /\ Publish(worker[w].out)
    /\ \A r \in calls : task[r] < MaxQueue
    /\ task' = [r \in Res |-> IF r \in calls THEN task[r] + 1 ELSE task[r]]

CommitWorkflow(w, status) ==
    wf' = Changed(wf, worker[w].view.wf, status)

CommitStep(w, s, status) ==
    step' = [step EXCEPT ![s] = Changed(@, worker[w].view.step[s], status)]

Fault(kind) == /\ kind \in FaultKinds
               /\ faults < MaxFaults
               /\ faults' = faults + 1

-----------------------------------------------------------------------------
(* Where a handler goes next.                                              *)

\* Mutant: any for all.
AnyDone(k, S) == \E s \in S : k.view.step[s] = "done"

AllDone(k, S) == \A s \in S : k.view.step[s] = "done"

\* _launch_ready_steps, _launch_ready_destroy_steps: the lowest level that is
\* not DONE, unless the rest of it is IN_PROGRESS already.
Launch(k) ==
    IF AllDone(k, Step) THEN [k EXCEPT !.pc = "complete"]
    ELSE LET lowest == Min({Position(s) : s \in {t \in Step : k.view.step[t] # "done"}})
             level == {s \in Step : Position(s) = lowest}
         IN  IF \A s \in level : k.view.step[s] \in {"done", "in_progress"}
             THEN [k EXCEPT !.pc = "end"]
             ELSE [k EXCEPT !.pc = "steps", !.level = level, !.todo = level]

\* The loop over a level skips what runs or is done; a step that is the target
\* of the message is handled whatever it is.
Remaining(k) ==
    IF k.level = k.target THEN k.todo
    ELSE {s \in k.todo : k.view.step[s] \notin {"done", "in_progress"}}

Continue(k) ==
    IF Remaining(k) # {} THEN [k EXCEPT !.pc = "steps"]
    ELSE IF k.bad THEN [k EXCEPT !.pc = "fail"]
    ELSE IF AllDone(k, k.level) THEN Launch(k)
    ELSE [k EXCEPT !.pc = "end"]

\* Step s has been given a new status: the handler goes on with the others.
Stepped(k, s, status, seen, sends) ==
    Continue([k EXCEPT !.todo = @ \ {s}, !.cur = s,
                       !.view.step[s] = status, !.view.row[s] = seen,
                       !.out = IF sends THEN << <<s>> >> ELSE << >>])

-----------------------------------------------------------------------------
(* manage_resource and manage_destroy_step: what a step needs.             *)

\* Mutant: a step in ERROR starts over although it has a resource.
ClaimsAgain(k, s) ==
    k.view.step[s] \in (IF action = "create" THEN {"pending", "error"} ELSE {"pending"})

\* Mutant: a cascade takes a resource that is DONE for destroyed.
ClaimsUnlessDone(k, s) ==
    k.view.step[s] = "pending" /\ (action = "create" \/ k.view.row[s].status # "done")

\* A step that has not been started is first marked IN_PROGRESS.
Claims(k, s) ==
    LET status == k.view.step[s]
        r == k.view.row[s]
    IN  IF action = "create"
        THEN status = "pending" \/ (status = "error" /\ r = Absent)
        ELSE /\ status = "pending"
             /\ r # At("done", "destroyed")
             /\ r.state = "destroy" => r.status = "error"

\* What it asks the resource service for, "follow" when it only copies the
\* status of the resource.
Call(k, s) ==
    LET status == k.view.step[s]
        r == k.view.row[s]
    IN  IF r = Absent THEN "raise"
        ELSE IF r.status = "approval_pending"
        THEN CASE action = "create"  -> IF status = "approval_pending"
                                        THEN "approve" ELSE "follow"
               [] action = "destroy" -> IF status = "pending"
                                        THEN "follow" ELSE "approve"
        ELSE IF status = (IF action = "create" THEN "approval_pending" ELSE "pending")
        THEN "follow"
        ELSE CASE r.status = "ready" -> "execute"
               [] r.status = "error" -> IF status = "error" THEN "execute" ELSE "raise"
               [] OTHER -> "follow"

\* Mutant: an approval is not followed by a task of the step.
ResendsUnapproved(k, s) ==
    Call(k, s) = "follow" /\ k.view.step[s] \in {"pending", "approval_pending"}

\* The step's own task is sent again until its resource is executed.
Resends(k, s) ==
    IF action = "create" THEN k.view.step[s] = "approval_pending"
    ELSE \/ Call(k, s) = "approve"
         \/ k.view.step[s] = "pending"
            /\ k.view.row[s].status \in {"approval_pending", "ready"}

\* A service call changes the row the session remembers, if the row allows it.
Accepts(k, s, call) ==
    LET r == k.view.row[s]
    IN  CASE call = "approve" -> r.status = "approval_pending"
          [] call = "execute" -> CanBeExecuted(r)
          [] call = "destroy" ->
                /\ r.state \notin {"destroy", "destroyed"}
                /\ r.status \in {"done", "ready", "error"}
                /\ CanBeDestroyed(r)
                /\ \A c \in Step : s \in needs[c] =>
                        k.view.row[c] = At("done", "destroyed")

\* Mutant: an approval queues the resource.
EffectQueued(r, call) ==
    CASE call = "destroy" -> DestroyEntity(r, gated)
      [] OTHER -> ExecuteEntity(r)

Effect(r, call) == CASE call = "approve" -> ApproveEntity(r, FALSE)
                     [] call = "execute" -> ExecuteEntity(r)
                     [] call = "destroy" -> DestroyEntity(r, gated)

-----------------------------------------------------------------------------
(* A worker handles a message of the workflow.                             *)

Receive(w) ==
    /\ worker[w] = Idle
    /\ msgs # << >>
    /\ msgs' = Tail(msgs)
    /\ worker' = [worker EXCEPT ![w] =
            [pc |-> "enter", msg |-> Head(msgs), target |-> Target(Head(msgs)),
             level |-> {},
             todo |-> {}, cur |-> CHOOSE s \in Step : TRUE, bad |-> FALSE,
             view |-> Loaded, early |-> {s \in Step : step[s] = "done"},
             out |-> << >>]]
    /\ UNCHANGED <<action, gated, needs, wf, step, link, row, task, run, starts,
                   faults, unwired, dropped>>

\* The workflow is IN_PROGRESS.  A message about a step handles that step; a
\* step that is DONE already makes a creation look for what is next.
Enter(w) ==
    LET k == [worker[w] EXCEPT !.view.wf = "in_progress"]
        open == {s \in k.target : k.view.step[s] # "done"}
    IN  /\ worker[w].pc = "enter"
        /\ CommitWorkflow(w, "in_progress")
        /\ worker' = [worker EXCEPT ![w] =
                IF open # {}
                THEN [k EXCEPT !.pc = "steps", !.level = open, !.todo = open]
                ELSE IF action = "destroy" /\ k.target # {}
                THEN [k EXCEPT !.pc = "end"]
                ELSE Launch(k)]
        /\ dropped' = IF action = "destroy" /\ open = {}
                      THEN dropped \cup k.target ELSE dropped
        /\ UNCHANGED <<action, gated, needs, step, link, rows, msgs, starts,
                       faults, unwired>>

Handles(w, s) == worker[w].pc = "steps" /\ s \in Remaining(worker[w])

Claim(w, s) ==
    LET k == worker[w]
    IN  /\ Handles(w, s)
        /\ Claims(k, s)
        /\ CommitStep(w, s, "in_progress")
        /\ Flush(w, {})
        /\ worker' = [worker EXCEPT ![w] =
                [k EXCEPT !.pc = "claimed", !.cur = s, !.out = << >>,
                          !.view.step[s] = "in_progress"]]
        /\ UNCHANGED <<action, gated, needs, wf, link, row, run, starts, faults,
                       unwired, dropped>>

\* The status of the resource becomes the status of the step.
Follow(w, s) ==
    LET k == worker[w]
        status == k.view.row[s].status
    IN  /\ Handles(w, s)
        /\ ~Claims(k, s) /\ Call(k, s) = "follow"
        /\ CommitStep(w, s, status)
        /\ Flush(w, {})
        /\ worker' = [worker EXCEPT ![w] =
                Stepped(k, s, status, k.view.row[s], Resends(k, s))]
        /\ UNCHANGED <<action, gated, needs, wf, link, row, run, starts, faults,
                       unwired, dropped>>

\* A service call and the new status of the step are one commit.
Commits(w, s, call, sends) ==
    LET k == worker[w]
        r == <<s, k.view.link[s]>>
        new == Merged(row[r], k.view.row[s], Effect(k.view.row[s], call))
    IN  /\ Accepts(k, s, call)
        /\ row' = [row EXCEPT ![r] = new]
        /\ CommitStep(w, s, new.status)
        /\ Flush(w, IF call = "execute" THEN {r} ELSE {})
        /\ worker' = [worker EXCEPT ![w] =
                Stepped(k, s, new.status, new,
                        IF sends THEN Resends(k, s) ELSE new.status = "approval_pending")]
        /\ UNCHANGED <<action, gated, needs, wf, link, run, starts, faults, unwired, dropped>>

Ask(w, s) ==
    /\ Handles(w, s)
    /\ ~Claims(worker[w], s)
    /\ Call(worker[w], s) \in {"approve", "execute"}
    /\ Commits(w, s, Call(worker[w], s), TRUE)

\* The second half of a claimed step of a cascade.
Order(w) ==
    LET s == worker[w].cur
    IN  /\ worker[w].pc = "claimed"
        /\ action = "destroy"
        /\ Commits(w, s, IF worker[w].view.row[s].state = "destroy"
                         THEN "execute" ELSE "destroy", FALSE)

\* The parents a resource is created with: the resources that the steps of its
\* template's parents have by now.  A template is taken to be wired to the
\* templates of its parents and to no others, and a step to name no parents of
\* its own (parent_resource_ids), which are resources from outside the workflow.
Linked(k, s) == {p \in needs[s] : k.view.link[p] # 0}

\* That their number is what the template asks for is not checked again here:
\* with one step for each parent it is, once the levels below are there.
CanCreate(k, s) == \A p \in Linked(k, s) : k.view.row[p].state = "provisioned"

\* The second half of a claimed step of a creation.  Outputs are taken from the
\* steps that were DONE when the message came.
Create(w) ==
    LET k == worker[w]
        s == k.cur
        used == {n \in Numbers : row[<<s, n>>] # Absent}
        n == Cardinality(used) + 1
        new == At(Gate(gated), "provision")
    IN  /\ k.pc = "claimed"
        /\ action = "create"
        /\ CanCreate(k, s)
        /\ n <= MaxResources
        /\ row' = [row EXCEPT ![<<s, n>>] = new]
        /\ link' = [link EXCEPT ![s] = n]
        /\ CommitStep(w, s, "approval_pending")
        /\ Flush(w, {})
        /\ unwired' = IF needs[s] \subseteq k.early THEN unwired ELSE unwired \cup {s}
        /\ worker' = [worker EXCEPT ![w] =
                Stepped([k EXCEPT !.view.link[s] = n], s, "approval_pending", new, TRUE)]
        /\ UNCHANGED <<action, gated, needs, wf, run, starts, faults, dropped>>

\* What a handler asks for may be refused: a guard of the service, a pending
\* edit of the resource, a missing permission, a template that changed.
Refused(w, s) ==
    LET k == worker[w]
        call == IF k.pc = "steps" THEN Call(k, s)
                ELSE IF action = "create" THEN "create"
                ELSE IF k.view.row[s].state = "destroy" THEN "execute" ELSE "destroy"
    IN  \/ /\ \/ call = "raise"
              \/ call = "create" /\ ~CanCreate(k, s)
              \/ call \in {"approve", "execute", "destroy"} /\ ~Accepts(k, s, call)
           /\ UNCHANGED faults
        \/ /\ call \notin {"raise", "follow"}
           /\ Fault(IF action = "create" THEN "refuse" ELSE "refuse_cascade")

\* The exception is recorded.  In the loop over a level the session is rolled
\* back first, which makes it read everything again.  For the step a message is
\* about it is not: a service is taken to check before it changes anything.
Raise(w, s) ==
    LET k == worker[w]
        again == IF k.level = k.target THEN k.view ELSE Loaded
    IN  /\ \/ Handles(w, s) /\ ~Claims(k, s)
           \/ k.pc = "claimed" /\ s = k.cur
        /\ Refused(w, s)
        /\ step' = [step EXCEPT ![s] = Changed(@, again.step[s], "error")]
        /\ Flush(w, {})
        /\ worker' = [worker EXCEPT ![w] =
                Continue([k EXCEPT !.todo = @ \ {s}, !.cur = s, !.bad = TRUE,
                                   !.out = << >>,
                                   !.view = [again EXCEPT !.step[s] = "error"]])]
        /\ dropped' = IF faults' # faults /\ k.view.row[s].status = "approval_pending"
                      THEN dropped \cup {s} ELSE dropped
        /\ UNCHANGED <<action, gated, needs, wf, link, row, run, starts, unwired>>

Conclude(w) ==
    LET status == IF worker[w].pc = "complete" THEN "done" ELSE "error"
    IN  /\ worker[w].pc \in {"complete", "fail"}
        /\ CommitWorkflow(w, status)
        /\ Flush(w, {})
        /\ worker' = [worker EXCEPT ![w].pc = "end", ![w].view.wf = status,
                                    ![w].out = << >>]
        /\ UNCHANGED <<action, gated, needs, step, link, row, run, starts,
                       faults, unwired, dropped>>

\* The worker marks itself free, which commits, and acknowledges the message.
Finish(w) ==
    /\ worker[w].pc = "end"
    /\ Flush(w, {})
    /\ worker' = [worker EXCEPT ![w] = Idle]
    /\ UNCHANGED <<action, gated, needs, wf, step, link, row, run, starts,
                   faults, unwired, dropped>>

Crash(w) ==
    /\ worker[w] # Idle
    /\ Fault("crash")
    /\ Len(msgs) < MaxQueue
    /\ msgs' = <<worker[w].msg>> \o msgs
    /\ worker' = [worker EXCEPT ![w] = Idle]
    /\ dropped' = IF worker[w].pc = "claimed" THEN dropped \cup {worker[w].cur}
                  ELSE dropped
    /\ UNCHANGED <<action, gated, needs, wf, step, link, rows, starts, unwired>>

-----------------------------------------------------------------------------
(* The tasks of the resources, which ResourceLifecycle models in detail.   *)

Executable(e) == e.status \in Runnable /\ e.state # "destroyed"

StartTask(r) ==
    /\ task[r] > 0
    /\ task' = [task EXCEPT ![r] = @ - 1]
    /\ IF Executable(row[r])
       THEN /\ row' = [row EXCEPT ![r] = MakeInProgress(@)]
            /\ run' = [run EXCEPT ![r] = @ + 1]
       ELSE UNCHANGED <<row, run>>
    /\ UNCHANGED <<action, gated, needs, wf, step, link, msgs, worker, starts,
                   faults, unwired, dropped>>

\* The workflow is told when a task ends DONE or in ERROR, if telling it works.
EndTask(r) ==
    LET held == At("in_progress", row[r].state)
    IN  /\ run[r] > 0
        /\ run' = [run EXCEPT ![r] = @ - 1]
        /\ \E kind \in {"none", "fail", "callback"} :
            /\ IF kind = "none" THEN UNCHANGED faults ELSE Fault(kind)
            /\ row' = [row EXCEPT ![r] =
                    Merged(@, held, IF kind = "fail" THEN MakeFailed(held)
                                    ELSE MakeDone(held))]
            /\ Publish(IF kind = "callback" THEN << >> ELSE <<r>>)
            /\ dropped' = IF kind = "callback" THEN dropped \cup {r[1]} ELSE dropped
        /\ UNCHANGED <<action, gated, needs, wf, step, link, task, worker,
                       starts, unwired>>

\* A user executes the workflow, which is offered in every status.
Execute ==
    /\ starts < MaxStarts
    /\ starts' = starts + 1
    /\ Publish(<< <<>> >>)
    /\ UNCHANGED <<action, gated, needs, wf, step, link, rows, worker, faults,
                   unwired, dropped>>

-----------------------------------------------------------------------------
Init ==
    /\ action \in Actions
    /\ gated \in Approvals
    /\ needs \in {g \in Graph : Acyclic(g) /\ (action = "destroy" => Rooted(g))}
    /\ wf = "pending"
    /\ step = [s \in Step |-> "pending"]
    /\ link = [s \in Step |-> IF action = "create" THEN 0 ELSE 1]
    /\ row = [r \in Res |-> IF action = "destroy" /\ r[2] = 1
                            THEN At("done", "provisioned") ELSE Absent]
    /\ task = [r \in Res |-> 0] /\ run = [r \in Res |-> 0]
    /\ msgs = << >>
    /\ worker = [w \in Worker |-> Idle]
    /\ starts = 0 /\ faults = 0
    /\ unwired = {} /\ dropped = {}

Handle(w) ==
    \/ Enter(w) \/ Order(w) \/ Create(w) \/ Conclude(w) \/ Finish(w)
    \/ \E s \in Step : Claim(w, s) \/ Follow(w, s) \/ Ask(w, s) \/ Raise(w, s)

Tasks == \E r \in Res : StartTask(r) \/ EndTask(r)

Next == \/ \E w \in Worker : Receive(w) \/ Handle(w) \/ Crash(w)
        \/ Tasks
        \/ Execute

Spec == Init /\ [][Next]_vars

-----------------------------------------------------------------------------
(* What holds as long as no two workers handle messages of the workflow at *)
(* the same time.  Nothing in the code sees to that: two replicas do when  *)
(* callbacks, or two starts, come close together.                          *)

HandlersApart ==
    \A v, w \in Worker : worker[v] # Idle /\ worker[w] # Idle => v = w

\* Every variable keeps its type, what a session remembers included.
TypeOK ==
    /\ action \in Actions /\ gated \in Approvals /\ needs \in Graph
    /\ wf \in WorkflowStatus
    /\ step \in [Step -> StepStatus]
    /\ link \in [Step -> 0 .. MaxResources]
    /\ row \in [Res -> Row \cup {Absent}]
    /\ task \in [Res -> 0 .. MaxQueue] /\ run \in [Res -> Nat]
    /\ msgs \in Seq(Message) /\ Len(msgs) <= MaxQueue
    /\ worker \in [Worker -> {Idle} \cup Busy]
    /\ starts \in 0 .. MaxStarts /\ faults \in 0 .. MaxFaults
    /\ unwired \subseteq Step /\ dropped \subseteq Step

Quiet == /\ msgs = << >>
         /\ \A r \in Res : task[r] = 0 /\ run[r] = 0
         /\ \A w \in Worker : worker[w] = Idle

\* A workflow is driven by messages alone: when none is left it has come to an
\* end and does not say IN_PROGRESS for ever, unless a step has lost its turn: its
\* worker died having only marked it IN_PROGRESS, its approval was refused, its
\* callback was lost, or a cascade ignored a message about it because it was DONE already.
NoSilentStall == Quiet /\ wf = "in_progress" => dropped # {}

Ready(r) == IF action = "create"
            THEN \A p \in needs[r[1]] : LoadedRow(p) = At("done", "provisioned")
            ELSE \A c \in Step : r[1] \in needs[c] => LoadedRow(c) = At("done", "destroyed")

\* No resource is worked on before everything it depends on is there, or
\* everything that depends on it is gone, in the order of the positions.
LevelsInOrder == \A r \in Res : task[r] + run[r] > 0 => Ready(r)

\* What a step says of its resource is so: DONE is provisioned, or destroyed.
DoneStepIsDone ==
    \A s \in Step : step[s] = "done" =>
        LoadedRow(s) = At("done", IF action = "create" THEN "provisioned" ELSE "destroyed")

\* A finished workflow has finished every step.
DoneMeansAllDone == wf = "done" => \A s \in Step : step[s] = "done"

\* One step, one resource: neither redelivered messages nor a creation that was
\* refused and is tried again, by whichever worker, make a second one.
OneResourcePerStep == \A s \in Step, n \in Numbers : row[<<s, n>>] # Absent => n = 1

\* One task of a resource at a time.
ExclusiveTasks == \A r \in Res : task[r] + run[r] <= 1

Promise == INSTANCE ResourcePromise WITH Resource <- Res, Abstract <- {}

\* A workflow acts on rows it remembers, side by side with resource tasks, and
\* still each of its commits is a legal transition of the row.
RowsKeepPromise == [][Promise!Next]_row

-----------------------------------------------------------------------------
(* What the documentation promises and the code does not keep.             *)

\* "its outputs are automatically wired": a resource is created with the outputs
\* of every step its own is wired to.
OutputsAreWired == unwired = {}
=============================================================================
