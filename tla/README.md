# InfraKitchen: a TLA+ verification project

InfraKitchen provisions infrastructure on request. Users create *resources* from
templates, or many at once from *blueprints*, in a browser; a GraphQL API writes rows
to PostgreSQL and tasks to RabbitMQ; workers take the tasks, run OpenTofu and write
the outcome back; events of every commit return to the browser. This project models
how those parts act on one another: what a row says, what is really in the cloud, who
is working on it, in which order the resources of a workflow come and go, and what the
pages of the browser show and send while requests, answers and events overtake each
other.

Paths of the server are relative to `src/server/src/`, paths of the browser to
`src/ui/frontend-lib/src/`.

## 1. Inventory

| Component | State | Operations | Interacts with |
|---|---|---|---|
| Entity lifecycle, `core/utils/entity_state_handler.py` | `status`, `state` of a row | approve, reject, destroy, delete, execute, recreate; make_in_progress, make_retry, make_failed, make_done | called by every service and task |
| Resources, `application/resources/service.py`, `functions.py`, `graphql_api/modules/resource/` | `resources`, `resource_links` | create, update, the actions of `patch_action_resource`, delete | drafts, lifecycle, event sender |
| Edits, `application/resource_temp_state/` | one draft per resource | set, merge, delete | resource service, dry runs |
| Resource task, `application/resources/task.py` | the row in the worker's session | execute (create, update, destroy), dry runs, the callback to a workflow | tofu, rows of parents and children, workflows |
| Task worker, `application/workers/task_worker.py`, `core/base_worker.py` | the message being processed, its retries | take, retry, give up, fail | broker, every kind of task |
| Session and events, `core/database.py`, `core/dependencies.py`, `core/utils/event_sender.py`, `core/rabbitmq.py` | buffered messages of a context | commit, roll back, flush, publish | everything |
| Workflows, `application/workflows/` | workflow, ordered steps | launch the steps of a position, react to callbacks | resource service, tasks |
| Cascade destroy, `application/resources/cascade_destroy_service.py` | none of its own | a destroy workflow from the tree of a resource | workflows |
| Blueprints, `application/blueprints/` | templates, wiring, constants | create, update, use | workflows, the canvas |
| Resource creation page, `resources/pages/ResourceCreate.tsx` | form, options, variables, requests | select, save, effects | resource service, schemas |
| Blueprint canvas, `blueprints/hooks/useBlueprintForm.ts`, `BlueprintWiringEditor.tsx` | draft, ports, parents, requests | add, remove, wire, sort, save | blueprint service |
| Blueprint use page, `blueprints/pages/BlueprintUse.tsx` | parents, versions, variables, constants | select, type, create | blueprint service |
| Entity page, `common/context/EntityContext.tsx`, `EntityActions.tsx`, `LogLiveTail.tsx` | entity, loading, dialog, log tail | fetch, merge events, act, batch lines | GraphQL, websocket |
| Scheduler, `scheduler.py`, `core/tasks/`, `core/scheduler/` | task rows, scheduled jobs | schedule, cancel, fire, report | event sender, workers |
| Executors, `application/executors/` | a row like a resource's, without edits, approval or parents | create, execute, destroy, recreate, delete | lifecycle, tasks |
| Storages, source codes, versions, workspaces | a status each | small task lifecycles, mostly I/O | workers |
| Templates, projects, integrations, secrets, validation rules, favorites, batch operations | configuration rows | CRUD | read by resources |
| Users, authentication, permissions, notifications, audit logs, revisions, the rest of the UI, MCP server | rows and sessions of their own | CRUD, delivery | beside the lifecycle |

**How they meet.** A request is one database transaction. It reads rows, decides
in memory, commits, and only then sends the messages it has buffered. Rows are not
locked and have no version, so two requests, or a request and a worker, interleave
between the reads of one and the commit of the other. A worker takes one message
at a time and commits three times in a run: IN_PROGRESS, then the outcome, with a
read of the row after each commit. A workflow has no process of its own: each message
about it (a start, a step's own task, the callback of a resource that ended) makes a
worker load it and push it as far as it goes. In the browser a handler changes a form,
effects of the next renders send requests, and answers arrive in any order.

**What is hard.** The interleavings above; crashes between a commit and a
publication, in a run, or between its last commit and the acknowledgement; tasks
that are lost, resent or redelivered; readiness of parents and children tested at
three moments by two processes; two tables of allowed actions that have to agree;
workflows that go on only if every message finds its step as expected; pages whose
fields determine each other through effects while requests are in flight.
`PROJECT.json` lists each hazard at its line, with the property that watches it.

**What makes each part correct.**

- *Lifecycle*: no pair of status and state is a dead end; DONE and DESTROYED mean
  what the documentation says.
- *Requests*: nothing runs unapproved; a pending edit and a destruction exclude
  one another; a parent is not destroyed under its children.
- *Workers*: one run per resource at a time; a row IN_PROGRESS has a worker that
  will free it; accepted tasks end.
- *Messages*: consumers see committed data; a lost task can be sent again.
- *Workflows*: a level starts when the one before is there; one resource per step;
  DONE steps and workflows are; a workflow does not stop silently.
- *Pages*: what is shown and saved belongs to what is selected; requests end, and so
  do spinners; nothing removed comes back, nothing incomplete is sent.
- *Scheduler* (planned): a schedule fires at most once, and not after it was
  cancelled.

## 2. Modules

| Module | What it is |
|---|---|
| `EntityLifecycle` | the handlers of `entity_state_handler.py` as operators from a row to a row, and the `Can...` predicates that make them raise |
| `ResourcePromise` | abstract specification: what may happen to a row, whoever does it |
| `ResourceLifecycle` | resources, drafts, requests, the task queue, workers and the cloud; implements `ResourcePromise` |
| `Workflow` | creation and cascade workflows over the rows, tasks and callbacks of their resources; keeps `ResourcePromise` |
| `ResourceForm` | the page that creates a resource |
| `BlueprintForm` | the canvas of a blueprint, its editor, and what the server stores of a draft |
| `BlueprintUse` | the page that starts a blueprint |
| `EntityPage` | the page of an entity: fetches, events, actions, log tail |
| `MC...` | the small instances TLC checks |
| `Induction` | lemmas: induction on natural numbers and finite sets, sums and sequences, orders |
| `ResourceLifecycle_proofs`, `ResourceFamily_proofs` | theorems about `ResourceLifecycle` for every instance: one resource, and a resource with its parents and children |
| `Workflow_proofs`, `ResourceForm_proofs`, `BlueprintForm_proofs`, `BlueprintUse_proofs`, `EntityPage_proofs` | theorems about those modules for every instance |

`Workflow` composes with `ResourceLifecycle` through `ResourcePromise`: the resource
module is shown to implement it, with its workers, drafts and messages hidden, and
the workflow module, which keeps only the rows, the number of tasks and of runs of
each resource, is shown to do nothing else to a row. `EntityLifecycle` gives both the
same handlers.

An operator named "Mutant: ..." in a comment is a plausible mistake in the operator
that follows it; no specification uses it. Substituting it must break a property,
which shows that the property depends on that piece of code. A variable marked
"history" has no code; it lets a property name the exceptions it makes.

### State of `ResourceLifecycle` and where it lives in the code

| Variable | Code |
|---|---|
| `live`, `gone` | rows of `resources`; identifiers are UUIDs, so a deleted one never comes back |
| `row` | the columns `status` and `state` |
| `temp` | `resources_temp_state`, at most one per resource by a unique index; a draft is what it changes: code version and variables, other settings, both, or only metadata (`{}`) |
| `infra` | the cloud: nothing, part of it, the row's current configuration, or an older one |
| `queue` | the durable queue `ik_tasks`, as the number of copies of each message |
| `worker` | what a worker's ORM session and message hold, and how far it has got |
| `rq` | what the session of an open request holds: the row, draft and links as read |
| `faults`, `abandoned`, `awaiting` | no code: a budget of faults; the resources whose work a fault dropped; the operations nobody has approved yet |

Links (`Parents`) are fixed when a resource is created, as in the code. A template
is abstract or not: `Abstract`.

### Actions of `ResourceLifecycle`

*Requests.* `Begin` is everything a request does before it commits: the check of
`get_actions` in the mutation and the handler's own guards (`Accepts`), on what it
reads. `CommitCreate`, `CommitEdit`, `CommitAction` and `CommitDelete` are its
commit, `Abort` any rollback, `AbortAndSend` a rollback whose buffered task is flushed
nevertheless. An UPDATE names only the columns the session changed: `Merged` leaves
the others at what the row holds by then. A draft that vanished in between makes the
commit that writes it fail; two first drafts meet on the unique index; a deletion
fails when the links it read have changed. `SendOrLose` is the flush after the
commit.

*Workers.* `Discard`, `DraftMissing`, `PreviewFails`, `Postpone`, `GiveUp` and `Load` are
the six things that can become of a message that is taken, decided on rows read at that
moment; then `Start` (IN_PROGRESS is committed), `Refresh` (the row is read again,
state included), `Apply` or `ApplyFails` (tofu), `Done` or `Fail` (the outcome is
committed, the message acknowledged). `RowVanished`, `CommitFails` and `Crash` are
the other ends of a run; a run that `ApplyFails` or `Crash` interrupts leaves the cloud as it
was or with a part of what it was doing (`Interrupted`). A run remembers which of apply and destroy it started
(`op`) and whether new values have reached the row since it read it (`fresh`).

### Faults of `ResourceLifecycle`

`FaultKinds` chooses which may happen, `MaxFaults` how many.

| Kind | What happens |
|---|---|
| `lost` | the process dies, or the broker refuses, between commit and publication |
| `leak` | a rolled-back request sends its task (`core/dependencies.py:73`) |
| `commit` | a worker's commit raises; `make_failed` raises on the same session; the message is acknowledged |
| `crash` | a worker dies in a run; its message is redelivered |
| `unacked` | a worker dies after the last commit of a run, before the acknowledgement |
| `notify` | an event or notification after a finished run or preview cannot be sent, and it is handled as failed |

### What `ResourceLifecycle` abstracts

- The user is an administrator, to whom every action of the others is offered.
- Metadata edits that a project allows without approval, downloads, cascade destroy
  and workspace synchronisation are left out.
- The worker reads row, parents and children once, when it takes the message. The
  code reads them in that order within a few milliseconds; the identity map of its
  long-lived session, which may hold older ones, is not modelled.
- A dry run that fails by itself never changes the row: what it raises becomes
  `ExitWithoutSave`. What it changes when its draft is gone or its notification fails is
  `DraftMissing` and `PreviewFails`.
- A message that is postponed moves in one step. In the code it is published before
  the original is rejected, so a crash in between leaves two.
- Tasks are sent by the API only. Workflows send them through the same service calls
  (`Workflow`); scheduled actions, which do so without marking the row, are not modelled.

### `Workflow` and the code

| Variable | Code |
|---|---|
| `action`, `gated`, `needs` | `workflow.action`; `approval_flow`; the wiring of a blueprint, or the parents in the tree a cascade was made from |
| `wf`, `step`, `link` | `workflows.status`, `workflow_steps.status` and `.resource_id` |
| `row`, `task`, `run` | the rows of the steps' resources, their tasks in the queue and being run |
| `msgs` | messages to `ik_tasks` about the workflow: `<<>>` a start, `<<s>>` a step's own task, `<<s, n>>` a callback |
| `worker` | what the session of a worker remembers (`view`), the steps it still has to handle, the messages it has buffered |
| `unwired`, `dropped` | history: steps created without an output; steps that lost their turn |

`Receive` loads the workflow (`workers/utils.py:238`), and from then on the worker decides
on what it loaded: the session does not expire objects on commit. `Enter` is
`execute_entity` and `destroy_entity` of `workflows/task.py` up to the choice of the steps to
handle. `manage_resource` and `manage_destroy_step` are four actions: `Claim` (the step is
committed IN_PROGRESS), `Create` or `Order` (what follows that commit), `Ask` (a call of the
resource service, committed with the step), `Follow` (the step copies the status of its
resource). `Raise` is any of them refused, with the rollback of the loop over a level;
`Launch`, `Remaining` and `Continue` say where the handler goes next. `StartTask` and `EndTask`
are what `ResourceLifecycle` models in detail, with the callback of
`resources/task.py:405`; `Execute` is the button, offered in every status.

Templates are taken to be wired to the templates of their parents and to no others, and a step to
name no other parents (`parent_resource_ids`), so the resources a step is linked to are those of the
steps it is wired to (`Linked`), as many as the template demands (`CanCreate`). Service calls are taken
to check before they change anything, so a targeted step that is refused, whose session is not
rolled back, has nothing to leave behind (`Raise`).

Faults: `crash` (the message is redelivered), `refuse` and `refuse_cascade` (a service call raises:
a permission, a pending edit, a changed template), `fail` (tofu), `callback` (the callback is
lost with its worker). Not modelled: values of variables, audit logs, two workflows about the
same resource, users who act on a workflow's resources meanwhile, and what is raised outside the
handling of a step, which `WorkflowTask.make_failed` answers (`workflows/task.py:407`).

### `ResourceForm` and the code

`form` holds the fields of `ResourceCreate.tsx` that depend on each other and the refs
`lastParent` and `lastWorkspace` of its effects; `options` is
`buffer["source_code_versions"]`; `listed` and `named` are `buffer["projects"]`: the projects the page
has listed, with their workspaces, and those it only has from a parent, without (`Named`); `requests` what is in flight, `variables` the selection
the variables in the form were computed for. A handler (`SelectTemplate`, `SelectVersion`,
`SelectParent`, `SelectProject`, `SelectWorkspace`, `Save`) is one step with the renders it causes:
`WithTemplate` and `AutoSelected` are the effects of lines 295-346, `Inherited` and `Filled` those of
375-473, `Settle` the one that asks for variables. A parent that brings a project causes two
requests, one per render. A project field that appears asks for the list (`ProjectsAsked`), which holds
the first hundred (`InRange`); when it comes (`AnswerProjects`) it replaces what was named, and a project
whose workspace is known by then fills it in. Parents are kept in the order of the options
(`Shown`, `Rank`). `AnswerVersions`, `AnswerRules`, `AnswerSchema`, `AnswerError` take any
request in flight. Left out: integrations, storage, secrets, labels, the name and its
convention, dependency configuration, typed values.

### `BlueprintForm` and the code

`draft` has both lists of templates, the state `selected` that is shown and the form field `ids`
that is saved, the external parents, the constants and the wires; `ports` and `parents` are
`templatePorts` and `templateParents`. Each handler of `useBlueprintForm.ts` is an action; `Render` is
the effect that asks for what is missing, `Fetched` and `NotFetched` the two ends of a batch,
`Hierarchical` the sort that runs when parents arrive. Any request may fail, any number of times: the
effect then asks again at once. `stale` is history, and says whether the last answers were
errors. The server is taken to answer for every template it is asked about. `Open`, `Close`, `Save` and `Saved` are the editor
in the blueprint's page; `Stored` is what `update_blueprint` and `crud.update` make of the saved draft.
Names of ports and constants, geometry and React Flow's own deletion of nodes are left out.
Assumed are that the hierarchy of templates is acyclic (`HierarchyAssumption`), that the blueprint
the server starts with holds each template once, as the key of `blueprint_templates` demands, and
that the identifiers of templates and constants differ, as they are generated
(`ConstantsAssumption`).

### `BlueprintUse` and the code

`form` holds the four fields of `BlueprintUse.tsx`; a value that came from a schema carries the version
and parents the schema was asked for, so that a stale one can be told. `loads` are the
`Promise.all` batches in flight, oldest first; `Loaded` takes any of them, with any subset of
failures. `Listed` is the answer of the effect that lists versions. `Submit` is guarded by `CanSubmit`, the
condition of the button; `Overrides` is what `onSubmit` builds: a value of spaces alone (`Spaces`) does
not count as filled and is sent. A template may have no version that is not disabled (`Latest`), and
then none is selected. Left out: loading the
blueprint, integrations, storage, secrets and the workspace.

### `EntityPage` and the code

The server's row is a version number. `outbox` and `channel` are the events of its commits on
their way, `event` the state of `EventContext` until the effect of `EntityContext` has merged it,
`page` that context's state, `fetches` its requests in flight. `dialog` and `submits` are the
confirmation of `EntityActions` and the requests of `ActionButton`, each with the entity of the render
it was clicked in; what an answer brings is the new status, merged into that old entity.
`tail` is `LogLiveTail`: lines wait in `pending` for a timer and are cut to `MAX_LOG_MESSAGES`.
`Content` decides what is mounted; whatever unmounts the content takes dialog and tail
with it. `Disconnect` loses what is in the channel. Left out: permissions, the actions offered,
the tail's receiving indicator, navigation to another entity.

## 3. Runs

Deadlock is not checked: a bounded instance stops when its budget of inputs is spent.

| Run | Instance | Checks |
|---|---|---|
| `resource_serial` | abstract parent `net`, child `vm`, 2 workers, 1 request at a time, approvals, both kinds of edits, 1 fault of `lost`, `commit`, `crash`; no retry, no preview of edits | `TypeOK`, `NoOrphanInfra`, `DestroyedIsEmpty`, `ExclusiveExecution`, `NeverStranded`, `PendingEditBlocksDestroy`, `ExecutionIsApproved`, `KeepsPromise` |
| `resource_races` | 1 resource, 2 workers, 2 overlapping requests (create, execute, retry, destroy, delete) | `InProgressHasOwner` |
| `resource_tree` | parent and child with code, 2 workers, approvals, 2 requests that overlap on different resources, rejections included, 1 retry, 1 fault of `lost`, `commit`, `crash` | `RunsApartAcrossLinks` |
| `resource_liveness` | 1 resource, 1 worker, 2 overlapping requests about edits and previews, 1 fault of `leak`, `unacked`, `notify` | `TasksEnd` |
| `workflow` | every blueprint and every rooted tree of 3 steps, approvals, 2 workers that take messages one after the other, 2 starts, 1 fault of `crash`, `refuse`, `fail`, `callback` | `TypeOK`, `NoSilentStall`, `LevelsInOrder`, `DoneStepIsDone`, `DoneMeansAllDone`, `OneResourcePerStep`, `ExclusiveTasks`, `RowsKeepPromise` |
| `resource_form` | 2 templates, 3 versions, 2 parents, 2 listed projects and their workspaces; 4 edits, 2 errors | `TypeOK`, `VariablesFit`, `LoadingIsHonest`, `ParentsFit`, `ProjectFillsWorkspace` |
| `blueprint_form` | a chain of 3 templates, 2 of them in the blueprint, 1 constant; 2 edits, 1 failing save, any number of failing requests | `TypeOK`, `WiresFit`, `IdsMatchSelection`, `SortedWhenQuiet`, `NothingForgotten`, `RowFits`, `Settles` |
| `entity_page` | 2 commits, 2 inputs, 3 lines in a tail of 2, 1 lost connection or failing fetch | `TypeOK`, `PageIsCurrent`, `LoadingEnds`, `OneActionAtATime`, `TailIsLog`, `NoStrandedLine` |
| `blueprint_use` | 2 templates, 1 missing parent with 2 candidates, 3 versions, 2 variables, 1 constant, values empty, of spaces and filled; 4 edits, 1 error | `TypeOK`, `SentIsComplete`, `PageFitsChoice` |
| `reject_destroy` | 1 resource, 1 worker, 1 request at a time | `DoneMeansApplied`, violated |
| `preview_decided` | 1 resource, 1 worker, approvals, edits and previews, nothing overlaps, no fault | `ExecutionIsApproved`, violated |
| `workflow_wiring` | 2 steps, no fault | `OutputsAreWired`, violated |

**What the passing runs show.**

*Resources.* When requests about a resource do not overlap, the
two tables of actions agree and lead somewhere from every reachable pair of status
and state, even after a fault that leaves the row QUEUED; the only resources stuck
for good are those a fault has left IN_PROGRESS (`abandoned`). QUEUED then serialises
runs, readiness checks that use `and` where one expects `or` are good enough, the
approval flow cannot be bypassed while nobody previews an edit, and every commit of a worker that remembers an old
row is one transition of `ResourcePromise` (`KeepsPromise`, a refinement). When requests do
overlap, a row IN_PROGRESS still has an owner, and tofu never destroys a parent while it applies
a child. That the child is not applied afterwards is not so (below).

*Workflows.* While no two workers handle messages of a workflow at the same time (`HandlersApart`)
a level is never started before everything it depends on is
provisioned (or everything that depends on it destroyed), no redelivery makes a second resource
for a step, no resource has two tasks, and what DONE says of a step or a workflow
is so. A workflow that has no message left has ended, except for the reasons in
`NoSilentStall`: a worker died between claiming a step and creating its resource; a refused
approval; a lost callback; a cascade that ignored a message about a DONE step.

*Pages.* Once the answers are there, variables, parents, wires and defaults are those of what
is selected, unless one of the overtakings has happened that the properties name (`raced`, `late`,
`stale`, `overtaken`, `lost`, a project that was not listed); and whatever has happened, parents of another template are
never saved, the templates saved are those on the canvas, a blueprint is never started with a
version, a parent or a constant missing, a spinner never outlives its request, a
confirmation asks once, and the log tail drops nothing but the oldest lines.

**What the violation runs show** (`findings` in `PROJECT.json`):

- `reject_destroy`: rejecting a destruction assumes the resource was PROVISIONED, but a
  failed creation may be destroyed too; it ends as DONE, PROVISIONED with half of its
  infrastructure or none.
- `preview_decided`: a preview that is taken after its edit was decided fails, and the failure turns the
  row into ERROR: a destruction that waited for approval is executed without.
- `workflow_wiring`: the outputs a step is wired to are looked up in a copy of the workflow that was
  made when the message came. The callback that completes a source creates the next level in
  the same handler, while that copy still says the source is not DONE: the new step gets
  the outputs of every source but that one.

**Other disagreements met while modelling**, each seen with a model of this project and
not kept as a run:

- "Destroying provisioned parent resources requires destroying children first"
  (`src/docs/core-concepts/resources/overview.md`), but requests look across the link between parent and child
  in a snapshot each, and workers let a DONE parent or child pass whatever its state (`and` in
  `resources/task.py:234` and `242`). A child created while its parent's destruction is requested, given up,
  destroyed and that rejected is DONE and PROVISIONED, which is enough for its parent to be
  destroyed and for it to be applied afterwards, without any worker moving while a request is open.
- A failing notification does to a destruction that was requested between the last commit of a run, or
  of a preview, and the notification what `preview_decided` shows of previews. That is why neither is
  part of `resource_serial`.
- Approving an edit of a failed creation makes it READY, and READY may be deleted
  (`entity_state_handler.py:59`), with whatever the failed run left.
- The row read again after IN_PROGRESS may be in another state than the one the run was
  started for (`resources/task.py:395`): DESTROYED is then written over something applied. Two
  such requests can also leave the pair QUEUED, DESTROYED, which no worker takes; for
  that reason `TasksEnd` is checked without destructions.
- The flush in a `finally` block sends the tasks of a rolled-back request
  (`core/dependencies.py:73`).
- A cascade without approvals stops at its first step: the step sends itself another task only
  if its resource waits for approval, and a READY resource is executed by nobody
  (`workflows/task.py:556`).
- A step of a cascade that was refused and is started again is marked DONE by the last
  `else` of `manage_destroy_step` (`workflows/task.py:613`), its resource still there.
  That is why `workflow` has approvals and leaves out the fault `refuse_cascade`.
- "Each step within a workflow tracks the provisioning of a single resource"
  (`src/docs/core-concepts/workflows/overview.md`). Two workers, as the shipped deployment has, that load a
  workflow in the same moment, for instance because it was started twice, both find a step
  PENDING (`workflows/task.py:120`) and both create its resource; the step keeps one. On the
  callbacks of one level they may each see the other's step unfinished, and nobody launches the
  next level: the workflow stays IN_PROGRESS until somebody executes it again. Of the properties of
  `workflow`, `DoneStepIsDone`, `DoneMeansAllDone`, `ExclusiveTasks` and `RowsKeepPromise` fail with two such
  workers and two steps, `NoSilentStall` with three.
- The callback of a task is buffered after the commit that ends the task
  (`resources/task.py:419` flushes another sender), and leaves with the next commit of the process.
- Runtime overrides have the highest precedence according to
  `src/docs/core-concepts/blueprints/overview.md`, but wired values are merged over them
  (`workflows/task.py:91`). A step is always created without a workspace (`workflows/task.py:107`).
- The event of a commit that comes before React has rendered the one before replaces it,
  even if it is about another entity (`EventContext.tsx:25`), and reconnecting fetches nothing: both
  leave the page at an older version (`lost` in `EntityPage`).
- The answer to an action is merged into the entity of the click (`ActionButton.tsx:45`), undoing
  changes that events have brought since, and turns the dialog over: closed meanwhile,
  it opens.
- A version selected while the options of the template before are still there can be one of that
  template; the server refuses it (`resources/service.py:312`). Saving is not disabled while a save is in
  flight.
- Default wires come back with every template that is added, the deleted ones included
  (`useBlueprintForm.ts:186`); an answer that is late brings wires of removed blocks, which
  are not shown and are saved (`late`).
- A draft without templates, or without constants, is indistinguishable from one that does not mention
  them, and the row keeps what was removed (`blueprints/crud.py:108`, `exclude_defaults` in
  `blueprints/service.py:118`).
- A constant that was wired, saved and then removed together with a template comes back with the next
  opening, for the reason above, and with it its wires to templates that are gone
  (`useBlueprintForm.ts` takes the wiring of the row as it is). It takes four edits; a proof attempt
  of `WiresFit` found it, and the property names the exception.
- After an error a template has empty ports and no parents, and the effect that asks for what is missing
  runs because the ports changed (`useBlueprintForm.ts:174` and `211`): while the server fails the
  editor asks for ever, though nothing is edited.
- "Workspace will be inherited from the project if not set" (`ResourceCreate.tsx:1114`) needs the project to
  be in the list of projects, the first hundred. One that a parent brings is known without its
  workspace until the list comes; if that fails, or does not hold it, the workspace stays empty, and
  the server does not fill it in (`resources/service.py:1320`).
- Create is enabled while schemas are missing or have failed, so a required variable may be
  unset (`BlueprintUse.tsx:305`); a late answer merges the defaults of a version that is
  no longer selected; defaults replace typed values at every change of versions or
  parents; a second selection of the last parent selects the newest versions again and keeps the
  values of the versions before.

**Bounds.** *Resources:* two resources are enough for one link, and every check of the code looks
at one link at a time; chains are what repeats it. Two workers and two requests are
the fewest that interleave; each property above can be violated by two actors. One
fault at a time is what the code could be expected to survive. `MaxRetries` is 3 in the
code: retrying repeats one step without changing the row, so 0 and 1 tell the cases
apart. `MaxCopies = 1` bounds identical messages (a second resent task of the same kind
waits until the first is taken); `resource_races` still has two workers on one row, as
the task is sent again while the first copy is being run. In `resource_tree`
`RequestsOnDifferentResources` keeps overlap across the link; workers move at any time.
In `preview_decided` nothing overlaps at all (`OneAtATime`), so that what it shows needs no unlikely timing.

*Workflows:* three steps give every shape of a level: a chain, a fork, a join, independent steps.
Two starts are a start and a restart, `MaxResources = 2` lets a second resource of a step exist if the
code made one. At most 8 messages are ever in the queue of this instance, so `MaxQueue = 9` holds
nothing back.

*Pages:* the number of edits bounds how many requests can be in flight; two overtaking each
other need two edits, and what three or more add was checked once by hand with larger
bounds (`resource_form` with 5 edits and 1 error, `entity_page` with 3 inputs, `blueprint_use` with 5 edits), without an error. Selections have two members each, so that a change can
be told from a reset. Two commits and three lines are the fewest with one overtaken and one cut.

Symmetry is used in runs of safety properties only: workers and requests in `resource_*`, steps in
`workflow`.

**Fairness.** In `ResourceLifecycle`, `Fairness` is weak fairness of each worker's own steps: a
worker is a loop that finishes what it has taken, and tofu ends or raises. It is strong
fairness of taking each message: the queue is first-in first-out, so a message that is there
again and again reaches its head. In `BlueprintForm` it is weak fairness of `Answer`: an HTTP request
ends with an answer or an error. As only errors can keep the canvas asking, `Settles` says that it comes
to rest unless the last answers were errors. Nothing is assumed of users, of retries, or of faults.
`Workflow` assumes none: progress is stated as `NoSilentStall`, about states in which nothing
can happen any more.

## 4. Proofs

The theorems hold for every value of the constants that satisfies the assumptions of the
module that declares them: any sets of resources, workers, requests, templates and steps,
any graph of parents, any bounds. `PROJECT.json` lists them; every safety property that a
passing run checks is among them. A premise that is not an assumption of the module
stands in the statement, and says where the code itself gives no guarantee.

### Resources

`ResourceLifecycle_proofs` proves, without premises:

- `TypeCorrect`. `TypeOK` is inductive; the lemmas take it apart by actor: handlers return
  rows (`WorkerHandlersType`, `UserHandlersType`), merging columns of rows gives a row
  (`MergedType`), then `UserStepType`, `TakeType`, `WorkerStepType`.
- `InProgressIsOwned`. `InProgressHasOwner` is not inductive by itself: a worker that
  has loaded a task writes IN_PROGRESS only if the status it has in memory is one
  `make_in_progress` accepts; otherwise it would start a run and leave the row to nobody.
  `OwnerInv == TypeOK /\ InProgressHasOwner /\ LoadedIsRunnable` says so. A worker that
  writes the outcome frees the row even if others have changed it, since `Merged` writes
  a column whenever it differs from what the worker had read; where it does not differ,
  the worker was not the owner.

The others need premises, each met by the run that checks the same property:

| Premise | Why it is needed |
|---|---|
| `OrdinaryUse`: no `retry`, no `dryrun_with_temp_state` | a task that is sent again breaks `ExclusiveExecution`, a preview of an edit that has been decided `ExecutionIsApproved` (`preview_decided`), and with them the invariant |
| `OrdinaryFaults`: `lost`, `commit`, `crash` | the other faults are disagreements of section 3 |
| `RequestsApart`, always | rows have neither locks nor versions: two requests about one resource overwrite each other |
| `FamiliesApart`, always | for `NothingIsOrphaned`: the same for a parent and its child (section 3) |

`CoreInv == TypeOK /\ \A r \in Resource : Sound(r)` is the invariant. `Sound(r)` names
everything that is known about one resource: which rows are legal and what is in the cloud
with them (`RowOk`), that there is a task exactly while the row is QUEUED and a run while it is
IN_PROGRESS (`TaskOk`), what the worker that holds the resource remembers at each point of the
run (`HolderOk`, `WorkOk`), and that what an open request has read is still so (`AskOk`). It is about
one resource, so a step that is about another keeps it: that is the frame lemma
(`Untouched`), and each action is examined for its own resource only. From `CoreInv` follow
`EditsBlock`, `ApprovedFirst`, `DestroyedMeansGone`, `RunsExclude`, `AlwaysAWayOn`, and
`PromiseIsKept`: the initial state maps to an initial state of `ResourcePromise`, and every
step to a step of it or to a stutter, from the row as it is at the commit, not as the
committing process remembers it.

`ResourceFamily_proofs` adds what relates a resource with its parents and children.
`NothingIsOrphaned`, under the premise `FamiliesApart`, rests on `FamilyInv`: `CoreInv`,
the children of what is destroyed or about to be are destroyed (`ChildrenFirst`), and the
guards an open request has passed are still true (`FamilySeen`).
`LinksAreRespected` lets requests about a parent and its child overlap, with rejections, abstract parents and
all interleavings of requests and workers. Its invariant `LinkOk` is about workers that have taken up
a task and not finished tofu: none has a destruction of the parent next to an application of the child.
A task is taken up by loading it, and the worker that loads finds the other row QUEUED or
IN_PROGRESS, by `CoreInv`, so that neither disjunct of the readiness checks holds (`LoadedApart`).
It says nothing of what is left in the cloud once both runs are over (section 3).

### Workflows

`Workflow_proofs` assumes only that steps are finite in number. `TypeCorrect`, which includes what
workers remember and what they have buffered, has no premise; `DoneIsTrue`, `FinishedIsComplete`,
`LevelsAreOrdered`, `OneResource`, `TasksExclude` and `PromiseKept` have two, `NeverStalls` a third.
`HandlersApart`, always: no two workers handle messages of the workflow at the same time. There may be any
number of workers, and any of them may take the next message. Two at once disagree on what is
DONE and create a step twice (section 3); nothing in the code keeps them apart.
`CascadesAccepted`: no step of a cascade is refused; one that was, and is tried again, takes
its resource for destroyed.
`CascadesGated`, for `NeverStalls`: destructions wait for approval, as in the run; without approvals a
resource to destroy is READY and no step executes it (`workflows/task.py:560`), which is a
stall. Creations may wait or not. All other faults are admitted: crashes, redelivery, lost callbacks,
failing tasks, refused creations.

The levels come from Kahn's rounds: `Position` is defined by them, and `PositionOrder` proves that
a step comes after everything it depends on. The invariant `OrderInv` says how the row of each
step's resource follows the step (`StepsInv`), that tasks and runs are those of rows QUEUED and
IN_PROGRESS (`TasksInv`), that every row belongs to the step linked to it (`RowsInv`), what a message in
the queue may be about (`MsgsInv`), and what the worker's session, which is never refreshed, may
remember at each of its points (`WorkerInv`): it may be behind the database only in the step
it is at, or in rows that have gone on to their end. `PromiseKept` is the refinement of
`ResourcePromise`, step by step.

`NeverStalls` adds `StallInv`: unless a step has lost its turn (`dropped`),
everything below a step that has begun is DONE (`Begun`), and a step whose turn it is has
something that will come back to it (`Turn`). If it waits for a service call, that is a message, in the
queue or buffered by a worker, about it or about nothing unfinished, or a worker that still has it in its list
(`Asked`); if it waits for its resource, a task, a callback, or a worker about to read
the outcome (`Called`). What a session remembers of a task that has ended since
has a callback in the queue (`Heard`), which is why a stale read of QUEUED is harmless. The
last step of the argument, that a workflow in progress with all workers idle has a step whose turn
it is (`Driven`), comes from `LaunchLevel`: a level is left only with all of it DONE, a refusal or
such a step. Crashes and failed tasks are covered; `dropped` names the losses the
model admits and the run shows to be possible.

### Pages

None has a premise.

- `ResourceForm_proofs`: `FormInv` ties the variables to the newest request for them, or notes
  that it was overtaken; the chain of effects from a parent to project and workspace is a sequence of
  lemmas about what each effect makes of a form.
- `BlueprintForm_proofs`: `FormInv` has the row, the saves in flight, the canvas and the rest as
  parts. `ParentsComeFirst` contains a correctness proof of the code's topological sort: for every
  acyclic hierarchy it places each template once (the queue empties only when all are placed)
  and never before a parent; a wire, an addition or a removal does not disturb that, and
  the second render after a sort asks for nothing twice.
- `BlueprintUse_proofs`: `TypeInv` suffices for `OnlyCompleteIsSent`; for `FieldsFitChoice`, `FitInv` says
  that an unanswered choice is the newest batch in flight, and an answered one is shown unless a
  batch overtook it.
- `EntityPage_proofs`: `CurrentInv` follows the newest version of the row from the outbox through
  channel and context to the page, with the points where it can be lost; `TailInv` says that what
  was shown and what waits are the end of what was received, for every length of both.

### How

`Induction` has the lemmas the modules share. Induction is over sets: a counterexample has a least number
(`LeastNatural`) or a minimal subset (`MinimalSubset`), from which `SetInduction`, and the
existence of recursively defined functions (`NatRecursion`), are derived, so that facts about
sorted lists, sums over sets and Kahn's rounds need no induction theorem with an
operator as parameter.

Two properties and an assumption of the model were wrong or unprovable as first stated, and proof attempts showed it:
`WiresFit` had a counterexample (section 3), that nothing of a child is left under a destroyed
parent could not be proved with rejections and is false (section 3), and the constants of `BlueprintForm` had to be told apart from its templates.

Only model-checked: `TasksEnd` and `Settles`, as liveness under fairness is out of the prover's
reach; and the violated properties, which are false (`ExecutionIsApproved` is proved where nobody previews
an edit).

## 5. Plan

1. **Theorems**: all safety properties of the passing runs are proved; what is left is fewer
   premises: `LevelsInOrder` without `HandlersApart`, which small instances keep; `ExclusiveExecution` with
   retries.
2. **Scheduler**: the shared task row, firing, cancellation, restart within the grace time;
   its tasks as a second sender to the queue of `ResourceLifecycle`.
3. **Batch operations**: two readers and writers of one array (`patch_entity_ids`), and the page.
4. **Executors**: `EntityLifecycle` without approval, to check which of the properties the
   parents and drafts were needed for.
5. Faults left: duplicates of postponed messages; rows read from an old identity map.

### Not modelled

With the reason in `PROJECT.json`: components that are CRUD of configuration (projects,
templates, integrations, secrets, validation rules, favorites), calls to other systems (source
codes, versions, workspaces, storages, tofu itself), delivery of messages to people, users and
permissions, audit logs. Of the user interface, everything but the four pages above: most of it is
layout and forms whose fields do not depend on each other, with one request at a time; the list
contexts and the batch page are the exceptions and are planned. Hazards that are real and not
listed for want of a module: a lost update of a draft by two edits
(`resource_temp_state/handler.py:33`), a postponed message duplicated by a crash
(`core/base_worker.py:58`), the identity map of the worker's session
(`application/workers/utils.py:157`), the health check that commits the session of a running task
(`core/base_worker.py:148`), one resource per integration checked by a query only
(`application/resources/service.py:272`), lost updates of a batch's `entity_ids`
(`application/batch_operations/service.py:108`).
