# A TLA+ model of Kubeflow Pipelines

Kubeflow Pipelines compiles pipelines written in Python, runs them as Argo workflows on Kubernetes
(or on the user's machine), schedules and follows the runs, and ships components that drive jobs of
Google Cloud. Its processes share state only through the Kubernetes API, one SQL database, ML
Metadata and the services of others, with caches and retried calls in between. This directory
models the parts in which that is hard to get right, checks them with TLC and proves some of what they
guarantee with TLAPS.

`PROJECT.json` lists the components, the runs, the definition-to-source map, the hazards, the
findings and the theorems.

## 1. Inventory

| Component | State | Operations | Interacts with |
|---|---|---|---|
| Schedule arithmetic (`crd/controller/scheduledworkflow/util`) | none | next scheduled epoch: periodic, cron, one-off, with and without catch-up; clamped limits; history index | called by the controller |
| ScheduledWorkflow controller (`crd/controller/scheduledworkflow`) | work queue, informer caches, `Status` of the ScheduledWorkflow | sync: read caches, decide, create a workflow or call `CreateRun`, update the status | cluster (optimistic updates), API server |
| Persistence agent (`agent/persistence`) | work queue, informer cache | `Save`: report a workflow, then its metrics; time to live of persisted workflows | cluster (read), API server (calls that time out after a minute) |
| API server, runs (`apiserver/resource`, `apiserver/storage/run_store.go`) | run table, `persistedFinalState` label | `CreateRun`, `ReportWorkflowResource`, `TerminateRun`, `RetryRun`, `DeleteRun` | cluster, database, agent, users |
| API server, recurring runs | job table, ScheduledWorkflow spec | `CreateJob`, `ChangeJobMode`, `DeleteJob`, `ReconcileSwfCrs`, `ReportScheduledWorkflowResource` | cluster, database, agent |
| API server, experiments, pipelines, lists, plugins | their tables | CRUD, archive, pagination, hooks | database, runs and jobs |
| Metadata writer (`backend/metadata_writer`) | three LRU caches, labels of pods | handle a pod event: execution, links, artifacts, label patches | cluster (watch, patch), ML Metadata |
| Google Cloud components (`components/google-cloud`) | the `gcp_resources` file, output artifacts | launcher: parse, resume or create a remote job, record it, poll, cancel on SIGTERM, fill outputs | Vertex AI, BigQuery, Dataproc, Dataflow, the kubelet that restarts it |
| SDK, DSL and compiler (`kfp/dsl`, `kfp/compiler`) | the pipeline being recorded: tasks, groups, the stack of open groups | call a component, enter and leave `with` blocks; translate to a `PipelineSpec` | the backend and local execution read the spec |
| SDK, local execution (`kfp/local`) | stack of dag calls, outputs and statuses of tasks, disk cache | run a dag: conditions, parallel loops, exit tasks, retries | Docker or subprocesses |
| SDK, types, components, client, command line | none of the system's own | | API server |
| v1 cache server | execution cache table | pod webhook, pod watcher | cluster, database |
| v2 driver, launcher, compiler | executions in ML Metadata | resolve inputs, look up the cache, publish state | ML Metadata, object store |
| Viewer controller | viewer resources | reconcile, evict the oldest | cluster |
| Frontend, generated API clients, release tools | none of the system's own | | |

What is hard in the backend is not any one handler: it is that each handler is several calls to two
stores without a transaction, driven by copies that lag, retried after time-outs that do not stop the
first attempt, and cut off by crashes. What makes the components correct:

* schedule arithmetic: each slot of the window once, in order, none early, none left out when
  catching up, only the latest when not;
* controller: the same of the workflows that really exist in the cluster, although the
  status that says which slot was last lags behind, may not be written at all, and is read from a
  cache; the status never goes back and never runs ahead of the workflows;
* a run: it reaches a final state in the database; a workflow is marked as persisted only when its
  own end was stored; a workflow still being created is not taken for an orphan; a workflow that has
  lost its row does not stay for ever;
* metadata writer: one execution and one artifact for each pod, linked, whatever the order of
  events, the evictions and the restarts;
* Google Cloud launchers: every component's command line fits its entry point and runner; a
  restarted launcher takes up the recorded job; success is reported only of the job that succeeded;
* local execution: no task before its upstream tasks, exit tasks run and are told how it went, a
  failure anywhere fails the pipeline, threads do not outlive their loop;
* compiler: a value reaches the task, condition or loop it was written for through every group in
  between, and grouping does not lose or invert the order.

`hazards` in `PROJECT.json` gives each such place with its line.

## 2. Modules

| Module | Models |
|---|---|
| `Schedule` | `periodic_schedule.go`, `cron_schedule.go` and the schedule and limits of `scheduled_workflow.go`, as operators |
| `RecurringRuns` | abstract specification: what a schedule promises, with its slots given as a set and not by the arithmetic |
| `ScheduleWalk`, `MCScheduleWalk` | the arithmetic driven over a set of triggers; refines `RecurringRuns` |
| `ScheduleProofs`, `ScheduleWalkProofs` | lemmas about the arithmetic; proofs about `ScheduleWalk` |
| `SwfController`, `MCSwfController` | the controller with one ScheduledWorkflow, its workflows, both informer caches, and `CreateRun` of the API server as the controller calls it; refines `RecurringRuns` |
| `SwfControllerProofs`, `SwfHistoryProofs` | proofs about `SwfController` |
| `RunLifecycle`, `MCRunLifecycle` | one run: `CreateRun`, the agent, `ReportWorkflowResource` with overlapping calls, `TerminateRun`, `RetryRun`, `DeleteRun` |
| `RunLifecycleProofs` | proofs about `RunLifecycle` |
| `MetadataWriter`, `MCMetadataWriter` | the metadata writer with pods, watch, caches and ML Metadata |
| `MetadataWriterProofs` | proofs about `MetadataWriter` |
| `GcpRunners`, `GcpComponents` | tables: each `remote_runner` function, each `launcher.py` and each component, with the flags and parameters that must fit |
| `GcpLauncher`, `MCGcpLauncher` | the launcher process of any of these components with its remote jobs |
| `GcpLauncherProofs` | proofs about `GcpLauncher` |
| `LocalDag`, `MCLocalDag` | `run_dag`, `run_enhanced_dag` and the executor of loops over a set of pipelines |
| `LocalDagProofs` | proofs about `LocalDag` |
| `PipelineDsl` | what a pipeline function can do to the pipeline being recorded |
| `PipelineCompiler`, `MCPipelineCompiler` | extends `PipelineDsl` with the translation of what was recorded |

### `Schedule`

Times are epoch seconds. `Nil` (-1) is a nil pointer; `Never` stands for `math.MaxInt64` and
`maxTime`, and is any number later than the model's clock. A cron expression is a period and the
offsets in it that match: `CronNext`, the one operator that stands for a library (robfig/cron), is
the first match after a time. Expressions that no date satisfies are not modelled. The loop that
skips missed cron matches is a recursive function.

### `SwfController`

State: `swf` (the resource in the cluster, with its resource version, its `Status.Trigger`,
conditions, history and labels), `wf` (the workflows), `swfCache` and `wfCache` (informer copies),
`queued` (the work queue), `ctl` (the worker with what it has read), `calls` (CreateRun calls in the
API server), `runs` (rows).

A sync is split where another process can come in between:

| Action | Code |
|---|---|
| `SyncStart` | `syncHandler` up to the list of active workflows: lister copy of the resource, clock (read once), active workflows |
| `Decide` | completed workflows (`MinIndex`), `GetNextScheduledEpoch`, the look-up of the next workflow in the cache |
| `CreateWorkflow` | `submitNewWorkflowIfNotAlreadySubmitted` for an embedded workflow, under the predictable name |
| `CallCreateRun`, `GuardRun`, `LabelRun`, `CreateRunWorkflow`, `InsertRun` | the same through the API server: guard by display name, labels from the resource as it is now, workflow under a generated name, row under a derived identifier |
| `updateStatus` | `UpdateStatus` on the copy, the pre-update check, the update with its conflict |
| `SwfInformer`, `WfInformer`, `Resync` | events and the resync of the informers |
| `ChangeJobMode`, `DeleteJob`, `DeleteRun` | users, through the API server |
| `ControllerCrash`, `RequestFails`, `CallFails` | a restart; a request that fails or whose answer is lost; a CreateRun that stops after any step |

The work queue never hands out a key that is being processed and resources share nothing, so one
resource and one worker stand for all. Parameters, formatting, the refusal of v1 pipelines,
tokens, plugins and Prometheus counters are left out; they do not touch this state.
`DeleteRun` is one step here (its steps are in `RunLifecycle`).

### `RunLifecycle`

State: `wf` (the Argo workflow: version, phase, finishing time, `persistedFinalState` label,
whether it is being terminated, creation time), `row` (state, `FinishedAtInSec`, phase of the stored
manifest), `written` (a history variable: the ends the row ever held), `cache`, `queued`, `agent`
(the persistence agent), `reports` (calls the API server works on, each with the object it was sent),
`create`, `retry`, `request` (requests of users).

`ReportWorkflowResource` is a sequence of steps, one per call to the cluster or the database:
collect (persisted, past its time to live), verify the version of a final workflow, read the row,
write or insert it or collect the orphan, check that the row still has the end, add the label under
a test of the version; then the report server stores the tasks. The agent waits for one report
at a time; after its time-out the call goes on with a cancelled context (`Abandon`: its cluster
calls fail, its database calls do not), and the next report overlaps it. `Error` and `Failed` are one
phase, as `ToV2` makes them one state. Plugin hooks appear as a report that fails. Task rows and
metrics are one flag each. Archiving changes a column that no other step reads.
A request of a user may stop half way: `RequestFails` (`TerminateRun` and `RetryRun`; a `DeleteRun` whose
deletion of the workflow fails), `DeleteRunFails` (the workflow is deleted, the row is not). `LateWrite`
and `LostRetry` name the interleavings after which a run may not settle; `RunSettles` is stated for
behaviours without them.

### `MetadataWriter`

State: `pods` (with the outputs annotation, the completed label, the writer's two labels), `stream`
(events of the open watch that are not handled yet, each with the pod as it was), `execIds`,
`contextIds`, `written` (the three LRU caches, most recent first), `contexts`, `executions`,
`artifacts` (ML Metadata), `pc`, `event`, `execution` (the event in hand). Each call to ML Metadata
and each patch is an action; between any two the writer may raise (the loop opens a new watch and
keeps its caches) or be restarted (it loses them). A reopened watch lists the pods that exist in any
order. `execFaults` and `artFaults` are history variables: how often the writer lost the only
record of what it had written for a pod (interrupted between write and label, label given up, entry
evicted). A pod has one output artifact and at most one input; TFX and v2 pods are `setup.own`.

### `GcpRunners`, `GcpComponents`, `GcpLauncher`

A component is a record of the flags it passes, always or for an optional input, and its output
artifacts; an entry point (`launcher.py`) of the flags it needs, takes or defaults; a runner of the
parameters of the Python function and of what it does around the remote job. `Main` is the place
where the three must agree. After it the launcher is one state machine for the families of
service modules (`kind`): Vertex AI jobs and pipelines, long-running operations, BigQuery, Dataproc,
Dataflow, waiting, look-up. They differ in which resume (`check_if_job_exists`), poll, tell user errors
apart and catch what.

| Action | Code |
|---|---|
| `Resume`, `Begin` | `check_if_job_exists` and its variants: what the `gcp_resources` file says |
| `Ask` | reads or installs that precede the creation |
| `CreateRemote`, `CreateLost`, `CreateRefused` | the create request: answered, carried out without an answer, refused |
| `OpenFile`, `WriteFile` | `open(gcp_resources, 'w')` empties the file, closing it writes the name |
| `PollSucceeded`, `PollFailed`, `PollRunning`, `PollRefused`, `PollUnreachable` | one round of the poll loop by its answer |
| `Finish` | verification, query results, output artifacts |
| `SigTerm` | the handler of `ExecutionContext` while polling, death elsewhere |
| `Crash`, `Restart`, `JobEnds` | preemption of the pod, its restart with the file kept, the remote service |

`lost` is a history variable: jobs whose names were gone before they were written. Payloads,
endpoints and the text of errors are left out.

### `LocalDag`

State: `frames`, a function from paths to calls of `run_dag` or `run_enhanced_dag`; a path gives the
task and the iteration at each level, so the frames of concurrent iterations are siblings. A frame
holds what the Python call holds: its arguments, tasks to come, exit tasks to come, outputs and
statuses (its part of `IOStore`), failed tasks, and for a loop the queued iterations and the collected
outputs. A look-up of an input (`get_parent_input`), output or status goes on in the frames below. A
task reads outputs of tasks of its dag (`reads`) and inputs of its dag (`takes`); `artifacts` marks one
without parameters, for which `build_nested_dag_arguments` takes another way. `cache` is the disk cache,
whose keys are the component and the task's own arguments, `failures` a history variable. A
task runs in one step per attempt and ends in success, failure or an exception. Values are the task
and iteration that made them and one flag for conditions to test. The body starts in any order with
dependencies first, since the order of a map decides between them. Threads share nothing but the
frames below, which wait.

### `PipelineDsl`, `PipelineCompiler`

State: `groups`, `tasks` (as recorded), `open` (`Pipeline.groups`, the stack), `blocks` (the `with`
blocks the pipeline function really is in), `stage`, `spec`. One action per thing the function can do:
call a component with any reference it holds, put any task after any other node at any time (`After`,
so also an earlier task after a later one), `dsl.If`, `dsl.Elif`, `dsl.Else`, `dsl.ParallelFor` over constants, parameters, outputs or items, `dsl.ExitHandler`, leaving a block,
returning. `Compile` is the compiler: its tables (`Path`, `Inputs`, `Surfaces`, `Dependencies`,
`ComponentInputs`) are operators of the recorded pipeline, each named in the map with the function
that computes it; an assertion or exception of the code is `Raise`. Channels are compared as the
code does, by name: a loop item's name is the name of what is iterated plus `-loop-item`, and
"is in the name of" is `NamedIn`. `ValueIn` and `Received` then follow an input through the compiled
spec to where it starts, as the backend and `kfp.local` resolve it, and are compared with what the
function passed.

## 3. Runs

Twelve runs; eleven pass.

| Run | Configuration | Shows |
|---|---|---|
| `schedule_walk` | 41 triggers x catch-up x 2 creation times, clock to 9 | `ImplementsRecurringRuns` (arithmetic = slots), `NoSlotForgotten`, `LatestPeriodOnly` |
| `swf_embedded` | every second, 2 workflows, clock to 2, 1 edit, 1 crash | index bounds, one workflow per index, what is recorded was created, the status only advances, refinement of `RecurringRuns` (slots in order) |
| `swf_runs_api` | the same through the API server, 2 overlapping calls, 1 crash | one workflow per index and right labels without failures |
| `swf_live` | fair, no crash or edit | every slot runs; a submission is recorded in the end |
| `run_reports` | 2 overlapping reports, 1 retry, 1 request, a time-out, a restart or a half-done `DeleteRun` | the label is on final workflows only, whose end was stored |
| `run_requests` | fair, 1 report, 1 retry, 1 request, a creation or request that stops half way | grace period, final states stay, deleted runs stay deleted, nothing leaks; the run settles (without `LostRetry`) |
| `run_job` | fair, run of a recurring run, 2 overlapping reports, 1 request, every failure but a half-done `DeleteRun` | the run reaches a final state or is deleted, when reports insert the row (without `LateWrite`) |
| `metadata_writer` | fair, 2 pods, caches of 1 or 2, 1 failure, 2 events of backlog | one execution and artifact per pod, links, truth of labels, every pod is recorded |
| `gcp_launcher` | fair, all components of the launcher image, 3 jobs, 2 crashes, retry limit 5 | flags fit; jobs are accounted for, never doubled once recorded, truthfully reported; the launcher ends |
| `local_dag` | fair, 17 pipelines, one per construct and their nesting, 2 workers | order, exit tasks, failures, threads, termination |
| `compiler` | every pipeline of up to 3 tasks and 4 groups, together at most 6 nodes, one argument or `after` per task | values arrive; everything waits for what it needs, and for nothing without a cause |
| `elif_placed` | 1 task, 4 groups; violation | see findings |

Bounds of the backend runs. Two workflows and a clock to 2 give two slots, so that a second sync can
meet the first slot unrecorded, recorded and done, and a backlog can form; one crash can fall on any
step and one edit on any other. `WfIds` are used up for good, so a run in which every one is spent
blocks further creations; liveness is only checked where there are enough of them. Two reports are
the least that overlap; a third adds no kind of step. In `RunLifecycle` workflows start and finish
until `LastWork`, and the clock goes on to `MaxNow`, past every grace period and time to live,
once nothing is running (`Quiet`): this is what lets the liveness runs end. `MayFail` chooses the
kinds of failures of a run, of which one happens. Retries are in `run_reports` and `run_requests`; they
and overlapping reports together are too many states for a liveness run, so `RunSettles` meets retries
in `run_requests` and overlaps in `run_job`. Symmetry (workflow, call and report identities) is used only in runs
without liveness.

Bounds of the others. Two pods are a producer and a consumer, in one workflow or in two; a cache of
one entry makes each evict the other. Three jobs and two crashes let an attempt lose a job, record
a second and take it up in a third. In `compiler` six nodes hold a producer and a consumer in
groups three deep, all kinds of blocks around either, and a third task that waits for both; a task
has one argument or one `after`, since the compiler treats the arguments of a task one by one. Three
tasks with four groups are seven nodes and are not covered. The
DSL tells lists from values by type; a reference is used as one or the other. Two workers and three
iterations leave one in the queue of a loop.

Every run may come to rest, since its clock, failures and pipelines are bounded or its process ends,
so deadlock is not checked; the liveness properties are what excludes getting stuck.

Fairness is weak fairness of what the processes do by themselves: the worker loops
(`wait.Until`), handlers of calls, informer events and their periodic resync, Argo, the clock; the
`while True` of the metadata writer; the poll loop of a launcher, for requests that are answered (a service
that refuses for ever is not counted on), the restart of its pod and the end of a remote job; the
Python process of a local run with its threads. Nothing is assumed of users, failures and crashes.
`CreateTime < Grace` is the assumption under which the grace period works; the code cannot guarantee
it (the default of the grace period is 120 seconds).

Mutants: for each property of a passing run `PROJECT.json` names a mutated definition (in the
modules, marked "Mutant") under which TLC finds it violated.

## 4. Findings

* `PlacedWhereWritten` (`elif_placed`): `dsl.Elif.__enter__` pushes a `ConditionBranches` group
  and itself, leaving the block pops one group, and only `dsl.Else` pops the other. After `dsl.If` and
  `dsl.Elif` without `dsl.Else`, the example in the docstring of `Elif`, everything the function writes
  at the outer level is recorded inside the group of branches.

Behaviour that the properties are restricted for, so that a reader does not take them for more.

Controller and runs. `updateStatus` does not compare the trigger (`controller.go:739`): the sync that
submitted a workflow may end without recording it in `LastIndex`; `swf_live` shows that a later sync
repairs this. The number of active workflows may exceed `MaxConcurrency` (stale cache), the history may
hold one more than `MaxHistory`; through the API server a crash between workflow and row gives two
workflows for one run. With overlapping reports a late non-final write may replace a final state
until the next report. Metrics are reported after the label that makes the agent skip
the workflow (`workflow_saver.go:68`), so metrics that fail once are not sent again.

A run does not settle, its row stays in a state that is not final, when

* a `DeleteRun` stops after deleting the workflow of a run that has not reported its end;
* an overtaken report with a state that is not final is written after the workflow was collected, or
  `CreateRun` or a report inserts the row of a recurring run's run again after `DeleteRun` (`LateWrite`);
* a retried workflow is collected for its persisted predecessor: the deletion is by name, without a
  version (`resource_manager.go:1568`); or the workflow is gone before `RetryRun` writes RUNNING
  (`LostRetry`);
* `RetryRun` writes RUNNING over the stored end of the retried workflow, and the report that collects
  this workflow stops after the deletion, before it writes the row. `run_requests` therefore has no
  failure of reports;
* two failures meet: after a time-out a late write replaces the end, and the collecting report stops
  after the deletion. The runs allow one failure.

Metadata writer. A stop between `put_executions` and the label gives a pod a second execution,
although the comment at line 142 says that the writer "remains correct even if it's getting
restarted frequently"; the same for artifacts. A context cache smaller than the execution cache
makes the unchecked read at line 226 fail; the sizes are environment variables, and are not
converted to integers. Pods met in a list may be recorded before their producers and stay without
their links. Events of deleted pods are handled like others.

Google Cloud launchers. The functions that read a Vertex AI job turn a connection error into exit
code 13 before `poll_job` can retry it. BigQuery's loop asks again on an error answer without a
limit. `wait_gcp_resources` fails on a connection error in its first round, where it has no last
answer. Launchers of long-running operations do not resume, so a restart repeats the operation, and
undeploying a model twice fails. SIGTERM before the poll loop kills the launcher and leaves the job
running; in the loop the launcher exits with 0. A Vertex AI job that expires is
polled for ever: EXPIRED is no complete state (`job_remote_runner.py:41`). Two
components pass `--gcp_resource`, which works only as an abbreviation; `private_model_batch_predict`
passes none and never starts.

Local execution. A loop replaces every input that is a task's output by its item. A condition on an
output not called `Output` is looked up only among the inputs of the dags around it, so next to the task
it is false; a loop over such an output raises. A group or sub-pipeline all of whose inputs
are artifacts is not given the outputs of tasks of its dag (`task_spec_utils.py:224`), so a task
inside that takes one raises. A cache entry serves every task of the component that has the same
arguments. A failed loop has no status, nor has a group that its
condition passed over: an exit task is told SUCCEEDED, or the status of a task of that name in a dag
around it (`HasStatus` excludes these producers). An exception leaves the dag before its exit tasks, against the comment at line 664 of
`enhanced_dag_orchestrator.py`. A task that ignores upstream failures is refused for a missing
input (`orchestrator_utils.py:149`; the docstring in `pipeline_task.py:860` promises that it runs), and
one with a final status counts as an exit task, so that its dependents run before it. An artifact loop
without items is passed over.

Compiler (`Lost`, `InScope` and `Consults` state what is excluded). The list an enclosing loop iterates
over does not reach a reader more than one group further in; a loop whose item no task reads is not given
its list unless it is at the top; an inner loop over constants under a condition loses its items;
two nested loops over the same list hide each other's items; a condition on an output of a task in
a loop is accepted and refers to nothing. One `dsl.Collected` used by two tasks raises a `KeyError`, one
out of a group of branches an `AttributeError`. Nothing looks for cycles: `a.after(b)` with `b.after(a)`
compiles, and groups may wait for each other where the tasks do not, as in `with If(p): a`,
`x.after(a)`, `with Else(): b(x.output)`, where `x` and the group of branches wait for each other, or
`x.after(a)` with `a` and a task after `x` in one loop. `OrderIsKept` says that everything waits for
what it needs and that each wait has a cause, not that the waits have an order.

## 5. Proofs

Eight modules hold the theorems; their bounds, sets of reports, workflows, pods and jobs are arbitrary.

`RunLifecycleProofs`:

* `TypeCorrect`: `Spec => []TypeOK`, action by action; the other proofs rest on it, so no run repeats it.
* `LabelOnlyFinalAlways` and `LabelledWasWrittenAlways`: the label is only on a final workflow, whose
  own end was stored. Neither is inductive: a report about to add the label must be known to
  concern a final workflow with a stored end, and the version test must mean that it is that very
  workflow. `LabelInv` adds `VersionsAgree` (the agent's copy or a reported object that has the cluster's version is
  the cluster's object, and no version is from the future), `ReportsSound` (a report in its last steps
  carries a final workflow; before the label its end is in `written`) and `RowWritten` (the row's
  content is in `written`).
* `DeletedStaysDeletedAlways`: `RowComesLast` (there is no row before `CreateRun` is over, and no report is
  about to insert one). Hypothesis: not a run of a recurring run, whose row a report does insert.
* `InFlightNotCollectedAlways`: `InFlightInv` says that between the workflow and the row the workflow is
  young and neither it nor the agent's copy is labelled, that there is no request or retry, and that
  every report concerns this workflow and has written and collected nothing yet. Hypotheses: the
  above, and `CreateTime < Grace`, without which the grace period does not work.
* `FinalStaysAlways`: `OnceInv` says that there is one report at a time and that, while nothing is retried,
  the ends of row, report, informer copy and workflow follow each other: when one is final, those in front
  of it are final in the same way. Hypothesis `AgentWaits`: the agent neither times out nor restarts
  during a report; with overlapping reports the statement is false (section 4). All other failures
  are included.

`SwfControllerProofs` and `SwfHistoryProofs`, for every trigger, limit, and number of workflows, calls,
edits and crashes:

* `IndexLagsByOneAlways`: no workflow was ever made under an index more than one past `LastIndex`.
  `IndexInv` says that no copy of the resource (cache, sync) is ahead of it, that a copy with its
  version has its `LastIndex`, and that workflows and calls in flight are in range; an accepted update
  therefore moves `LastIndex` by at most one.
* `RecordedWasCreatedAlways`: `HistoryInv` adds that the cached workflows are older versions of the real
  ones, that what the worker takes for submitted, what a call has behind it and what is in the run
  table was made, and that the worker waits for the call it is answered by.
* `OneWorkflowPerIndexAlways`, `LabelIsIndexAlways`: `EmbeddedInv` for the predictable names of embedded
  workflows; `CleanInv` for the API server while nothing failed: every call is awaited, every
  workflow is in the table or in the call that is past its guard.
* `TriggerOnlyAdvancesAlways`: `TimeInv` says of the times what `IndexInv` says of indices, and that what
  the worker submits is due after the last trigger of its copy (`NextIsLater` of `ScheduleProofs`).
  Hypothesis `NoCronLoop`: not a cron schedule without catch-up.
* `ControllerImplementsRecurringRuns`: the embedded workflows of a schedule that catches up are the runs of
  `RecurringRuns`. `SlotInv` says that the epochs of the workflows are a chain, each the next slot after the
  one of the index before; that workflows of one index share their epoch; that every copy of the
  resource, however stale, has the epoch of the workflow it recorded last; and that what the worker submits is
  the next of that chain and not early. Without the chain a workflow that is made again after a deletion
  could have any time. A workflow of a new index is then a `Fire` of the promise, one that is made again is
  no step of it. Hypothesis `CatchesUp`: embedded workflows, with catch-up. Through the API server the
  epoch is the time of the call, which the promise does not allow.

`ScheduleProofs` has the lemmas about the arithmetic: division, the smallest multiple after a time,
what `EffectiveLast`, `PeriodicNext` and `CronFirst` are, that the next time is after the last, and that
with catch-up it is the next slot (`CatchupNext`), which both refinements use.
`ScheduleWalkProofs`, for every interval, cron period, set of offsets, window and creation time:

* `NoSlotForgottenAlways`, `LatestPeriodOnlyAlways` and `WalkImplementsRecurringRuns`, the refinement of the
  abstract specification, step by step. `WalkInv` says that the last trigger lies after the base of the
  schedule and, for a periodic schedule that catches up, on its grid; without that the next multiple of
  the interval need not be the next slot. Cron schedules without catch-up are excepted in the last
  two: what their loop computes needs induction over a recursive function.

`GcpLauncherProofs`, for every component of the tables, set of jobs and number of crashes: `TypeCorrect`,
`JobsAccountedForAlways`, `ReportsTheJobAlways`, `NoSecondJobEver`. `LauncherInv` relates the file to the
process: a process between create and write holds a started job, the file names only started ones, a
launcher that resumes creates only with nothing recorded, it polls what the file names, and a job
that succeeded keeps its state.

`MetadataWriterProofs`, for every set of pods, cache sizes and backlog:

* `ContextIsCachedAlways`: hits alone are not inductive; `CachesPaired` says that the workflow of an entry of
  the execution cache stands in the context cache no further back, so it is not evicted before it.
* `RecordedOnceAlways`: `CountInv` counts an execution as in hand, in the cache, in the pod's label or
  as a fault, and says that no event gets past these to make another one.
* `LabelsAreTrueAlways`: `LabelInv` says the same of ids in labels, events, cache and hand, and that no
  event says more of a pod than the pod does.
* `InputsAreLinkedAlways`: `LinkInv` says that a consumer exists only after its producer's outputs, that
  the events come in this order, and that whatever makes the writer pass over outputs (label, cache, event)
  stands for an artifact that is there.

`LocalDagProofs`, for every pipeline, however its dags and loops are nested, every number of iterations and
every size of the pool. Its invariant `DagInv` has two layers:

* `FrameInv`, of each call by itself: what is left of the body is a topological order of which
  every task that is over has its dependencies behind it (`FrameOrder`); a task downstream of a failure
  that does not ignore it has failed too, so that testing the direct dependencies, as the gate does, is
  enough; a task that is over has its status, and no exit task is told before the body is over
  (`FrameExits`); only a loop has a pool, without repetitions (`FrameLoop`).
* of the calls together: with a call all its callers are there (`TreeInv`), each waiting at the task
  that made it (`CallInv`); what a loop has collected are its iterations that succeeded, and no more of
  them are at work than it has workers (`LoopInv`); on the path to a failed task some frame is
  marked as failed (`MarkInv`). That frame need not be the root: the mark moves up when the call
  returns, which is why success at the root is not inductive by itself.

From it follow `TypeCorrect` (with the bounds on attempts and threads), `UpstreamIsOverAlways`,
`ExitTasksAreToldAlways`, `SuccessMeansNoFailureAlways` and `NoStrayCallsAlways`. Three lemmas carry the frames
through a step: `UpdateInv` (a frame without calls), `NewCallInv` and `DropInv`.

Assumptions, evaluated by TLC in the runs: `ConstantsAssumption` of `SwfController` and `RunLifecycle`,
`NeverAssumption`, `WalkAssumption` (types of the constants; triggers as the API server accepts them,
`IsTrigger`; created within the clock; `Never` after it); in `GcpLauncher` `BoundsAssumption`, `WritesAssumption`
(a runner fills outputs that its components have) and `JobIdsAssumption` (a job is none of the marks of
the file); in `MetadataWriter` `SetupsAssumption` (the context cache is not the smaller one),
`PodsAssumption` and `BoundsAssumption`; in `LocalDag` `MaxWorkersAssumption` and `PipelinesAssumption`: a pipeline is
what the compiler writes, with a root, finitely many tasks in a dag, dependencies within the dag, conditions
and iterators on groups only and never both, a loop without parameters over artifacts. `TopologicalSort` of the model is the set of all orders that
have dependencies first; `SearchAssumption` of `MCLocalDag` compares it with the code's depth-first search
on the pipelines of the run.

Only model-checked, and why:

* liveness (`EventuallyRecorded`, that every slot is run, every run ends, every pod is recorded, the
  launcher and a local run end, nothing leaks): out of reach of the proof system;
* cron schedules without catch-up (see above);
* `StartsRunner`: a statement about constant tables, which TLC evaluates entry by entry;
* that the search of `topological_sort` finds the orders of `TopologicalSort`, which needs induction;
* `PipelineCompiler`: its tables are recursive functions of the nesting of groups.

## 6. Not modelled

* Backend: pipelines, experiments, lists and filters, plugins, the cache server, the v2 driver,
  launcher and compiler, the viewer controller. Of the modelled components: the job table and
  `ReconcileSwfCrs`, archiving, task rows and artifacts in detail, database errors within a transaction
  (a store operation is one step), several API server replicas beyond the interleaving of their
  calls, clock skew.
* SDK: `dsl.OneOf`, sub-variables of loop items, f-strings of channels, pipeline outputs,
  sub-pipelines, importers, container, platform and Kubernetes specs; type checking and the making of
  components from functions, which are pure functions of signatures; the client, whose methods are one
  request each; the registry client and the command line.
* Google Cloud components: those that run other images than the launcher's, those generated for
  the Vertex AI SDK (`container/v1/aiplatform`), and the functions that assemble AutoML, LLM and evaluation
  pipelines out of components: they choose parameters and keep no state.
* Generated API clients, the frontend, release tools and CI scripts.

## 7. Plan

1. (done) schedule arithmetic and its promise; controller; life of a run; label and index theorems.
2. (done) metadata writer; Google Cloud launchers; local execution; DSL and compiler.
3. (done) theorems about the launchers, the metadata writer, the controller's history and times, the
   schedule arithmetic, the requests of users, local execution, and both refinements of `RecurringRuns`.
4. Proofs: the stack discipline of `PipelineDsl`.
5. `dsl.OneOf` and pipeline outputs in the compiler. Recurring runs in the API server: job table,
   `CreateJob`, `ReportScheduledWorkflowResource`, the agent's `swf_saver.go`, `ReconcileSwfCrs`. The
   v2 driver and launcher: state of DAG executions, cache look-up and publication.
