---------------------------- MODULE RunLifecycle ----------------------------
(***************************************************************************)
(* One run, from CreateRun to its deletion: the Argo workflow in the       *)
(* cluster, the row of the run table, the persistence agent that carries   *)
(* the state of the first into the second, and the API server's handlers   *)
(* for the reports of the agent and the requests of users.                 *)
(*                                                                         *)
(* A handler is a sequence of steps, one per call to the cluster or to the *)
(* database, and the steps of several handlers interleave.  The agent      *)
(* reads a lagging informer copy of the workflow; it gives up on a report  *)
(* after a minute while the API server is still working on it, and sends   *)
(* the next one.                                                           *)
(***************************************************************************)
EXTENDS Integers, FiniteSets

CONSTANTS
    FromJob,      \* TRUE: the workflow carries the id of a recurring run
    Reports,      \* identities of ReportWorkflow calls in the API server
    TTL,          \* ttlSecondsAfterWorkflowFinish of the agent
    Grace,        \* WORKFLOW_GC_GRACE_PERIOD_SECONDS of the API server
    CreateTime,   \* what CreateRun may take between workflow and row
    LastWork,     \* bound on the time at which workflows start and finish
    MaxNow,       \* bound of the clock, past every time to live and grace
    MaxRetries,   \* bound on the number of RetryRun requests
    MaxRequests,  \* bound on the number of TerminateRun and DeleteRun requests
    MayFail,      \* the kinds of failures that occur, of FailureKinds
    MaxFailures   \* bound on the number of failures

FailureKinds ==
    {"create", "report", "timeout", "metrics", "request", "delete", "restart"}

ASSUME ConstantsAssumption ==
    /\ MayFail \subseteq FailureKinds
    /\ FromJob \in BOOLEAN
    /\ {TTL, Grace, CreateTime, LastWork, MaxNow} \subseteq Nat
    /\ {MaxRetries, MaxRequests, MaxFailures} \subseteq Nat

VARIABLES
    now,       \* the clock
    wf,        \* the Argo workflow in the cluster
    version,   \* the last resource version the cluster gave out
    cache,     \* the agent's informer copy of the workflow
    row,       \* the row of the run in the run table
    written,   \* the <<state, finishedAt>> pairs the row ever held
    queued,    \* the key of the workflow is in the agent's work queue
    agent,     \* the agent's worker
    reports,   \* the ReportWorkflow calls the API server is working on
    create,    \* the CreateRun request
    retry,     \* the RetryRun request being served
    request,   \* the TerminateRun or DeleteRun request being served
    results,   \* what of the finished workflow was stored besides its state
    retries,   \* RetryRun requests so far
    requests,  \* TerminateRun and DeleteRun requests so far
    failures   \* failures so far

clusterVars == <<wf, version>>
dbVars == <<row, written, results>>
agentVars == <<cache, queued, agent>>
userVars == <<create, retry, request, retries, requests>>
vars == <<now, wf, version, cache, row, written, queued, agent, reports,
          create, retry, request, results, retries, requests, failures>>

-----------------------------------------------------------------------------
(* Workflows and rows.                                                     *)

FinalPhases == {"Succeeded", "Failed"}
Phases == {"Pending", "Running"} \cup FinalPhases
FinalStates == {"SUCCEEDED", "FAILED"}
States == {"PENDING", "RUNNING", "CANCELING"} \cup FinalStates

(* A workflow: its resource version, its phase (Failed stands for Error    *)
(* too), the time it finished, the persistedFinalState label, whether its  *)
(* activeDeadlineSeconds are 0, and the time it was created.               *)
NoWorkflow == [exists |-> FALSE, rv |-> 0, phase |-> "Pending", finishedAt |-> 0,
               persisted |-> FALSE, terminating |-> FALSE, created |-> 0]

Final(w) == w.phase \in FinalPhases

(* RuntimeState.ToV2 of the phase.                                         *)
ToV2(phase) ==
    CASE phase = "Pending" -> "PENDING"
      [] phase = "Running" -> "RUNNING"
      [] phase = "Succeeded" -> "SUCCEEDED"
      [] phase = "Failed" -> "FAILED"

(* The state a report stores: a terminating workflow is CANCELING until it *)
(* is final.                                                               *)
ReportedState(w) ==
    IF w.terminating /\ ~Final(w) THEN "CANCELING" ELSE ToV2(w.phase)

(* A row: state, FinishedAtInSec, and the phase of the stored              *)
(* WorkflowRuntimeManifest, from which RetryRun starts.                    *)
NoRow == [exists |-> FALSE, state |-> "PENDING", finishedAt |-> 0,
          manifest |-> "Pending"]

RowOf(w) == [exists |-> TRUE, state |-> ReportedState(w),
             finishedAt |-> w.finishedAt, manifest |-> w.phase]

(* UpdateRun and CreateRun of the run store.                               *)
StoreRow(r) ==
    /\ row' = r
    /\ written' = written \cup {<<r.state, r.finishedAt>>}

(* The cluster stores a new version of the workflow.                       *)
Put(w) ==
    /\ version' = version + 1
    /\ wf' = [w EXCEPT !.rv = version + 1]

DeleteWorkflow == wf' = NoWorkflow /\ UNCHANGED version

FreeReport == [pc |-> "free", obj |-> NoWorkflow, awaited |-> FALSE]
IdleAgent == [pc |-> "idle", final |-> FALSE]
NoResults == [tasks |-> FALSE, metrics |-> FALSE]

Init ==
    /\ now = 0
    /\ wf = NoWorkflow
    /\ version = 0
    /\ cache = NoWorkflow
    /\ row = NoRow
    /\ written = {}
    /\ queued = FALSE
    /\ agent = IdleAgent
    /\ reports = [r \in Reports |-> FreeReport]
    /\ create = "workflow"
    /\ retry = [pc |-> "idle", rv |-> 0]
    /\ request = "idle"
    /\ results = NoResults
    /\ retries = 0
    /\ requests = 0
    /\ failures = 0

-----------------------------------------------------------------------------
(* CreateRun: the workflow first, the row second.  The workflow that a     *)
(* recurring run embeds is created by the controller, without a row.       *)

CreateRunWorkflow ==
    /\ create = "workflow"
    /\ Put([NoWorkflow EXCEPT !.exists = TRUE, !.created = now])
    /\ create' \in IF FromJob THEN {"row", "done"} ELSE {"row"}
    /\ UNCHANGED <<now, dbVars, agentVars, reports, retry, request, retries,
                   requests, failures>>

(* The store inserts the row as PENDING.  For a recurring run a row that   *)
(* a report has inserted meanwhile is returned as it is.                   *)
CreateRunRow ==
    /\ create = "row"
    /\ IF row.exists THEN UNCHANGED <<row, written>>
       ELSE StoreRow([NoRow EXCEPT !.exists = TRUE])
    /\ create' = "done"
    /\ UNCHANGED <<now, clusterVars, results, agentVars, reports, retry,
                   request, retries, requests, failures>>

-----------------------------------------------------------------------------
(* The persistence agent.                                                  *)

Informer ==
    /\ cache # wf
    /\ cache' = wf
    /\ queued' = TRUE
    /\ UNCHANGED <<now, clusterVars, dbVars, agent, reports, userVars, failures>>

Resync ==
    /\ cache.exists
    /\ ~queued
    /\ queued' = TRUE
    /\ UNCHANGED <<now, clusterVars, dbVars, cache, agent, reports, userVars, failures>>

(* Mutant: a finished workflow counts as persisted.                        *)
KeepFinished == Final(cache)

(* A persisted workflow is left alone until its time to live is over.      *)
KeepPersisted == cache.persisted /\ now - cache.finishedAt < TTL

(* The first step of ReportWorkflowResource for a workflow.                *)
FirstStep(w) ==
    IF w.persisted THEN "collect" ELSE IF Final(w) THEN "verify" ELSE "read"

Save ==
    /\ agent.pc = "idle"
    /\ queued
    /\ queued' = FALSE
    /\ \/ /\ ~cache.exists \/ KeepPersisted
          /\ UNCHANGED <<agent, reports>>
       \/ /\ cache.exists /\ ~KeepPersisted
          /\ \E r \in Reports :
               /\ reports[r].pc = "free"
               /\ reports' = [reports EXCEPT ![r] =
                     [pc |-> FirstStep(cache), obj |-> cache, awaited |-> TRUE]]
          /\ agent' = [pc |-> "wait", final |-> Final(cache)]
    /\ UNCHANGED <<now, clusterVars, dbVars, cache, userVars, failures>>

(* After a report that succeeded the agent reports the metrics; a failure  *)
(* that is not permanent puts the key back into the queue.                 *)
ReportMetrics ==
    /\ agent.pc = "metrics"
    /\ results' = [results EXCEPT !.metrics = results.metrics \/ agent.final]
    /\ agent' = IdleAgent
    /\ UNCHANGED <<now, clusterVars, row, written, cache, queued, reports,
                   userVars, failures>>

-----------------------------------------------------------------------------
(* ReportWorkflowResource, and the report of the tasks that follows it.    *)

(* The call returns.  Its answer reaches the agent unless the agent has    *)
(* given up on it.                                                         *)
Return(r, outcome) ==
    /\ reports' = [reports EXCEPT ![r] = FreeReport]
    /\ IF ~reports[r].awaited THEN UNCHANGED <<agent, queued>>
       ELSE /\ agent' = IF outcome = "ok" THEN [agent EXCEPT !.pc = "metrics"]
                        ELSE IdleAgent
            /\ queued' = (queued \/ outcome = "transient")

Goto(r, pc) ==
    /\ reports' = [reports EXCEPT ![r].pc = pc]
    /\ UNCHANGED <<agent, queued>>

(* The context of a call the agent has given up on is cancelled: its calls *)
(* to the cluster fail, its calls to the database do not.                  *)
ClusterSteps == {"collect", "verify", "orphan", "label"}

Abandon(r) ==
    /\ reports[r].pc \in ClusterSteps
    /\ ~reports[r].awaited
    /\ Return(r, "transient")
    /\ UNCHANGED <<now, clusterVars, dbVars, cache, userVars, failures>>

(* The workflow is persisted and its time to live is over: it is deleted,  *)
(* by name.                                                                *)
Collect(r) ==
    /\ reports[r].pc = "collect"
    /\ reports[r].awaited
    /\ \/ /\ ~wf.exists
          /\ Return(r, "permanent")
          /\ UNCHANGED clusterVars
       \/ /\ wf.exists
          /\ DeleteWorkflow
          /\ Goto(r, IF Final(reports[r].obj) THEN "verify" ELSE "read")
    /\ UNCHANGED <<now, dbVars, cache, userVars, failures>>

(* The workflow is still the version that was reported, or is gone.        *)
StillReportedVersion(w) == wf.exists => wf.rv = w.rv

VerifyVersion(r) ==
    /\ reports[r].pc = "verify"
    /\ reports[r].awaited
    /\ IF StillReportedVersion(reports[r].obj) THEN Goto(r, "read")
       ELSE Return(r, "transient")
    /\ UNCHANGED <<now, clusterVars, dbVars, cache, userVars, failures>>

(* Mutant: no grace period.                                                *)
NoGrace(w) == FALSE

WithinGrace(w) == now - w.created < Grace

(* Mutant: the label first, the row not at all.                            *)
ReadRowLabelsFirst(r) ==
    /\ reports[r].pc = "read"
    /\ Goto(r, IF Final(reports[r].obj) THEN "label" ELSE "write")
    /\ UNCHANGED <<now, clusterVars, dbVars, cache, userVars, failures>>

(* Mutant: a workflow without a row is not dealt with.                     *)
ReadRowGivesUp(r) ==
    /\ reports[r].pc = "read"
    /\ IF row.exists THEN Goto(r, "write") ELSE Return(r, "permanent")
    /\ UNCHANGED <<now, clusterVars, dbVars, cache, userVars, failures>>

(* GetRun.  A workflow without a row is left alone during its grace period. *)
ReadRow(r) ==
    /\ reports[r].pc = "read"
    /\ IF row.exists THEN Goto(r, "write")
       ELSE IF FromJob THEN Goto(r, "insert")
       ELSE IF WithinGrace(reports[r].obj) THEN Return(r, "transient")
       ELSE Goto(r, "orphan")
    /\ UNCHANGED <<now, clusterVars, dbVars, cache, userVars, failures>>

AfterStore(r) == Goto(r, IF Final(reports[r].obj) THEN "check" ELSE "tasks")

(* UpdateRun: by identifier, whatever the row holds by now.                *)
WriteRow(r) ==
    /\ reports[r].pc = "write"
    /\ \/ /\ ~row.exists
          /\ Return(r, "permanent")
          /\ UNCHANGED <<row, written>>
       \/ /\ row.exists
          /\ StoreRow(RowOf(reports[r].obj))
          /\ AfterStore(r)
    /\ UNCHANGED <<now, clusterVars, results, cache, userVars, failures>>

(* The run of a recurring run is inserted, unless its row has appeared     *)
(* since it was looked for.                                                *)
InsertRow(r) ==
    /\ reports[r].pc = "insert"
    /\ IF row.exists THEN UNCHANGED <<row, written>>
       ELSE StoreRow(RowOf(reports[r].obj))
    /\ AfterStore(r)
    /\ UNCHANGED <<now, clusterVars, results, cache, userVars, failures>>

(* After the grace period it is deleted, by name.                          *)
CollectOrphan(r) ==
    /\ reports[r].pc = "orphan"
    /\ reports[r].awaited
    /\ DeleteWorkflow
    /\ Return(r, "permanent")
    /\ UNCHANGED <<now, dbVars, cache, userVars, failures>>

RowStillMatches(w) == row.state = ReportedState(w) /\ row.finishedAt = w.finishedAt

(* The row must still hold the final state.                                *)
CheckRow(r) ==
    /\ reports[r].pc = "check"
    /\ IF ~row.exists THEN Return(r, "permanent")
       ELSE IF RowStillMatches(reports[r].obj) THEN Goto(r, "label")
       ELSE Return(r, "transient")
    /\ UNCHANGED <<now, clusterVars, dbVars, cache, userVars, failures>>

(* Mutant: the label is added to whatever workflow has the name.           *)
PatchWithoutTest(w) == TRUE

PatchTestHolds(w) == wf.rv = w.rv

(* The label is added if the workflow is still the reported version.       *)
AddLabel(r) ==
    /\ reports[r].pc = "label"
    /\ reports[r].awaited
    /\ \/ /\ ~wf.exists
          /\ Return(r, "permanent")
          /\ UNCHANGED clusterVars
       \/ /\ wf.exists
          /\ ~PatchTestHolds(reports[r].obj)
          /\ Return(r, "transient")
          /\ UNCHANGED clusterVars
       \/ /\ wf.exists
          /\ PatchTestHolds(reports[r].obj)
          /\ Put([wf EXCEPT !.persisted = TRUE])
          /\ Goto(r, "tasks")
    /\ UNCHANGED <<now, dbVars, cache, userVars, failures>>

(* The report server stores the tasks of the workflow after all that.      *)
ReportTasks(r) ==
    /\ reports[r].pc = "tasks"
    /\ results' = [results EXCEPT !.tasks = results.tasks \/ Final(reports[r].obj)]
    /\ Return(r, "ok")
    /\ UNCHANGED <<now, clusterVars, row, written, cache, userVars, failures>>

ReportStep(r) ==
    \/ Abandon(r) \/ Collect(r) \/ VerifyVersion(r) \/ ReadRow(r) \/ WriteRow(r)
    \/ InsertRow(r) \/ CollectOrphan(r) \/ CheckRow(r) \/ AddLabel(r) \/ ReportTasks(r)

-----------------------------------------------------------------------------
(* TerminateRun: the row first, then the workflow.                         *)

(* Mutant: a run that is final can be terminated.                          *)
AnyTerminable == States

Terminable == {"PENDING", "RUNNING"}

TerminateRunRow ==
    /\ request = "idle"
    /\ requests < MaxRequests
    /\ requests' = requests + 1
    /\ row.exists
    /\ row.state \in Terminable
    /\ StoreRow([row EXCEPT !.state = "CANCELING"])
    /\ request' = "terminate"
    /\ UNCHANGED <<now, clusterVars, results, agentVars, reports, create, retry,
                   retries, failures>>

TerminateWorkflow ==
    /\ request = "terminate"
    /\ \/ wf.exists /\ Put([wf EXCEPT !.terminating = TRUE])
       \/ ~wf.exists /\ UNCHANGED clusterVars
    /\ request' = "idle"
    /\ UNCHANGED <<now, dbVars, agentVars, reports, create, retry, retries,
                   requests, failures>>

(* DeleteRun: the workflow first, whether or not that succeeds, then the   *)
(* row.                                                                    *)
DeleteRunWorkflow ==
    /\ request = "idle"
    /\ requests < MaxRequests
    /\ requests' = requests + 1
    /\ row.exists
    /\ DeleteWorkflow
    /\ request' = "delete"
    /\ UNCHANGED <<now, dbVars, agentVars, reports, create, retry, retries, failures>>

DeleteRunRow ==
    /\ request = "delete"
    /\ row' = NoRow
    /\ request' = "idle"
    /\ UNCHANGED <<now, clusterVars, written, results, agentVars, reports, create,
                   retry, retries, requests, failures>>

(* RetryRun: the manifest is read from the row, the workflow is updated or *)
(* created anew from it, then the row is written.                          *)
RetryRunRead ==
    /\ retry.pc = "idle"
    /\ retries < MaxRetries
    /\ now <= LastWork
    /\ retries' = retries + 1
    /\ row.exists
    /\ row.manifest = "Failed"
    /\ retry' = [retry EXCEPT !.pc = "get"]
    /\ UNCHANGED <<now, clusterVars, dbVars, agentVars, reports, create, request,
                   requests, failures>>

RetryGet ==
    /\ retry.pc = "get"
    /\ retry' = [pc |-> "put", rv |-> IF wf.exists THEN wf.rv ELSE 0]
    /\ UNCHANGED <<now, clusterVars, dbVars, agentVars, reports, create, request,
                   retries, requests, failures>>

(* GenerateRetryExecution: running again, without deadline and label.      *)
Retried(created) ==
    [NoWorkflow EXCEPT !.exists = TRUE, !.phase = "Running", !.created = created]

(* Update of the version that was read; a workflow that is gone is created. *)
(* A conflict, or a workflow that has appeared, starts over.               *)
RetryPut ==
    /\ retry.pc = "put"
    /\ \/ /\ wf.exists /\ wf.rv = retry.rv
          /\ Put(Retried(wf.created))
          /\ retry' = [pc |-> "row", rv |-> 0]
       \/ /\ ~wf.exists
          /\ Put(Retried(now))
          /\ retry' = [pc |-> "row", rv |-> 0]
       \/ /\ wf.exists /\ wf.rv # retry.rv
          /\ retry' = [pc |-> "get", rv |-> 0]
          /\ UNCHANGED clusterVars
    /\ UNCHANGED <<now, dbVars, agentVars, reports, create, request, retries,
                   requests, failures>>

(* Mutant: the row is inserted if it is gone.                              *)
RetryRunRowUpserts ==
    /\ retry.pc = "row"
    /\ StoreRow([row EXCEPT !.exists = TRUE, !.state = "RUNNING", !.finishedAt = 0])
    /\ retry' = [pc |-> "idle", rv |-> 0]
    /\ UNCHANGED <<now, clusterVars, results, agentVars, reports, create, request,
                   retries, requests, failures>>

RetryRunRow ==
    /\ retry.pc = "row"
    /\ IF row.exists
       THEN StoreRow([row EXCEPT !.state = "RUNNING", !.finishedAt = 0,
                                 !.manifest = "Running"])
       ELSE UNCHANGED <<row, written>>
    /\ retry' = [pc |-> "idle", rv |-> 0]
    /\ UNCHANGED <<now, clusterVars, results, agentVars, reports, create, request,
                   retries, requests, failures>>

-----------------------------------------------------------------------------
(* Argo, the clock, failures.                                              *)

Argo ==
    /\ wf.exists
    /\ \/ /\ wf.phase = "Pending"
          /\ Put([wf EXCEPT !.phase = "Running"])
       \/ /\ wf.phase = "Running"
          /\ \E phase \in IF wf.terminating THEN {"Failed"} ELSE FinalPhases :
               Put([wf EXCEPT !.phase = phase, !.finishedAt = now])
    /\ UNCHANGED <<now, dbVars, agentVars, reports, userVars, failures>>

Quiet == create = "done" /\ retry.pc = "idle" /\ (wf.exists => Final(wf))

(* Time passes; CreateRun inserts its row within CreateTime.               *)
Advance ==
    /\ now < MaxNow
    /\ now = LastWork => Quiet
    /\ create = "row" => now - wf.created < CreateTime
    /\ now' = now + 1
    /\ UNCHANGED <<clusterVars, dbVars, agentVars, reports, userVars, failures>>

Fail(kind) ==
    /\ kind \in MayFail
    /\ failures < MaxFailures
    /\ failures' = failures + 1

(* The API server dies, or fails, between the workflow and the row.        *)
CreateRunFails ==
    /\ Fail("create")
    /\ create = "row"
    /\ create' = "done"
    /\ UNCHANGED <<now, clusterVars, dbVars, agentVars, reports, retry, request,
                   retries, requests>>

(* A report fails: a call of the handler, a plugin that asks for a retry,  *)
(* or the API server.                                                      *)
ReportFails(r) ==
    /\ Fail("report")
    /\ reports[r].pc # "free"
    /\ Return(r, "transient")
    /\ UNCHANGED <<now, clusterVars, dbVars, cache, userVars>>

(* The agent gives up on a report after a minute.                          *)
AgentTimeout ==
    /\ Fail("timeout")
    /\ agent.pc = "wait"
    /\ agent' = IdleAgent
    /\ queued' = TRUE
    /\ reports' = [r \in Reports |-> [reports[r] EXCEPT !.awaited = FALSE]]
    /\ UNCHANGED <<now, clusterVars, dbVars, cache, userVars>>

MetricsFail ==
    /\ Fail("metrics")
    /\ agent.pc = "metrics"
    /\ agent' = IdleAgent
    /\ queued' = TRUE
    /\ UNCHANGED <<now, clusterVars, dbVars, cache, reports, userVars>>

(* A TerminateRun or a RetryRun stops half way; the workflow of a run that *)
(* is being deleted survives.                                              *)
RequestFails ==
    /\ Fail("request")
    /\ \/ /\ request = "terminate" /\ request' = "idle"
          /\ UNCHANGED <<retry, requests>>
       \/ /\ retry.pc # "idle" /\ retry' = [pc |-> "idle", rv |-> 0]
          /\ UNCHANGED <<request, requests>>
       \/ /\ request = "idle" /\ row.exists
          /\ requests < MaxRequests
          /\ requests' = requests + 1
          /\ request' = "delete"
          /\ UNCHANGED retry
    /\ UNCHANGED <<now, clusterVars, dbVars, agentVars, reports, create, retries>>

(* DeleteRun stops between the workflow and the row.                       *)
DeleteRunFails ==
    /\ Fail("delete")
    /\ request = "delete"
    /\ request' = "idle"
    /\ UNCHANGED <<now, clusterVars, dbVars, agentVars, reports, create, retry,
                   retries, requests>>

AgentRestart ==
    /\ Fail("restart")
    /\ agent' = IdleAgent
    /\ cache' = wf
    /\ queued' = wf.exists
    /\ reports' = [r \in Reports |-> [reports[r] EXCEPT !.awaited = FALSE]]
    /\ UNCHANGED <<now, clusterVars, dbVars, userVars>>

-----------------------------------------------------------------------------
CreateRun == CreateRunWorkflow \/ CreateRunRow
AgentStep == Save \/ ReportMetrics
RequestStep == TerminateWorkflow \/ DeleteRunRow
RetryStep == RetryGet \/ RetryPut \/ RetryRunRow
Failure == \/ CreateRunFails \/ AgentTimeout \/ MetricsFail \/ RequestFails
           \/ DeleteRunFails \/ AgentRestart
           \/ \E r \in Reports : ReportFails(r)

Next ==
    \/ CreateRun
    \/ Informer \/ Resync \/ AgentStep
    \/ \E r \in Reports : ReportStep(r)
    \/ TerminateRunRow \/ DeleteRunWorkflow \/ RequestStep
    \/ RetryRunRead \/ RetryStep
    \/ Argo \/ Advance
    \/ Failure

Spec == Init /\ [][Next]_vars

(* Handlers, the agent with its resync, Argo and the clock keep going.     *)
Fairness ==
    /\ WF_vars(CreateRun)
    /\ WF_vars(Informer)
    /\ WF_vars(Resync)
    /\ WF_vars(AgentStep)
    /\ \A r \in Reports : WF_vars(ReportStep(r))
    /\ WF_vars(RequestStep)
    /\ WF_vars(RetryStep)
    /\ WF_vars(Argo)
    /\ WF_vars(Advance)

FairSpec == Spec /\ Fairness

-----------------------------------------------------------------------------
(* Properties.                                                             *)

WorkflowType ==
    [exists : BOOLEAN, rv : Nat, phase : Phases, finishedAt : Nat,
     persisted : BOOLEAN, terminating : BOOLEAN, created : Nat]

RowType == [exists : BOOLEAN, state : States, finishedAt : Nat, manifest : Phases]

ReportType ==
    [pc : ClusterSteps \cup {"free", "read", "write", "insert", "check", "tasks"},
     obj : WorkflowType, awaited : BOOLEAN]

(* Every variable keeps its type.                                          *)
TypeOK ==
    /\ now \in Nat
    /\ wf \in WorkflowType
    /\ version \in Nat
    /\ cache \in WorkflowType
    /\ row \in RowType
    /\ written \in SUBSET (States \X Nat)
    /\ queued \in BOOLEAN
    /\ agent \in [pc : {"idle", "wait", "metrics"}, final : BOOLEAN]
    /\ reports \in [Reports -> ReportType]
    /\ create \in {"workflow", "row", "done"}
    /\ retry \in [pc : {"idle", "get", "put", "row"}, rv : Nat]
    /\ request \in {"idle", "terminate", "delete"}
    /\ results \in [tasks : BOOLEAN, metrics : BOOLEAN]
    /\ retries \in Nat /\ requests \in Nat /\ failures \in Nat

(* A workflow that RetryRun has set running again never carries the        *)
(* persistedFinalState label, however late a report of its earlier end is  *)
(* (addWorkflowLabelIfWorkflowUnchanged).                                  *)
LabelOnlyFinal == wf.exists /\ wf.persisted => Final(wf)

(* The label is added only after the final state and the finishing time of *)
(* this very workflow were stored in the row.                              *)
LabelledWasWritten ==
    wf.exists /\ wf.persisted => <<ToV2(wf.phase), wf.finishedAt>> \in written

(* The workflow of a CreateRun request whose row is still to be inserted   *)
(* is not collected as an orphan (the grace period).                       *)
InFlightNotCollected == create = "row" => wf.exists

(* Unless the run is retried, a final state in the row is never replaced.  *)
FinalStays ==
    [][ retries = 0 /\ row.exists /\ row.state \in FinalStates /\ row'.exists =>
          row'.state = row.state ]_vars

(* A run that was deleted does not come back.                              *)
DeletedStaysDeleted == [][ written # {} /\ ~row.exists => ~row'.exists ]_vars

(* The workflow is gone and no DeleteRun will remove the row, but a state  *)
(* that is not final is still to be written: by an overtaken report, or,   *)
(* after a DeleteRun, by the insertion of the row.                         *)
LateWrite ==
    /\ ~wf.exists /\ request # "delete"
    /\ IF row.exists
       THEN \E r \in Reports : reports[r].pc = "write" /\ ~Final(reports[r].obj)
       ELSE \/ create = "row"
            \/ \E r \in Reports : reports[r].pc = "insert" /\ ~Final(reports[r].obj)

(* The workflow of a retried run is collected, by name, for its persisted  *)
(* predecessor, or is gone before RetryRun writes RUNNING to the row.      *)
LostRetry ==
    \/ wf.exists /\ ~wf.persisted /\ \E r \in Reports : reports[r].pc = "collect"
    \/ retry.pc = "row" /\ ~wf.exists /\ row.exists /\ request # "delete"

(* Whatever requests, reports and failures interleave, every run reaches a *)
(* final state in the database or is deleted, unless its workflow was gone *)
(* too early in one of these two ways.  (A DeleteRun that stops half way,  *)
(* and a report that stops after it deleted a retried workflow whose end   *)
(* RetryRun has overwritten, also leave the row as it is.)                 *)
RunSettles ==
    []~(LateWrite \/ LostRetry) =>
        (row.exists ~> ~row.exists \/ row.state \in FinalStates)

(* A workflow without a row, because CreateRun died or DeleteRun left it   *)
(* behind, does not leak.                                                  *)
NoLeak ==
    create = "done" /\ wf.exists /\ ~row.exists ~> ~wf.exists \/ row.exists

=============================================================================
