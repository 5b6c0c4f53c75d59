------------------------- MODULE RunLifecycleProofs -------------------------
(***************************************************************************)
(* Proofs about RunLifecycle, for any number of overlapping reports, of    *)
(* requests and of failures: the types, and what the persistedFinalState   *)
(* label of a workflow guarantees; then what holds between the requests of *)
(* users and the reports of the agent: a run that is being created is not  *)
(* collected, a deleted one does not come back, a final state is not       *)
(* replaced.                                                               *)
(***************************************************************************)
EXTENDS RunLifecycle, TLAPS

-----------------------------------------------------------------------------
(* Types.                                                                  *)

LEMMA ObjectTypes ==
    /\ NoWorkflow \in WorkflowType
    /\ NoRow \in RowType
    /\ FreeReport \in ReportType
    /\ IdleAgent \in [pc : {"idle", "wait", "metrics"}, final : BOOLEAN]
    /\ NoResults \in [tasks : BOOLEAN, metrics : BOOLEAN]
  BY DEF NoWorkflow, WorkflowType, NoRow, RowType, FreeReport, ReportType, IdleAgent,
         NoResults, Phases, FinalPhases, States, FinalStates, ClusterSteps

(* What a report stores of a workflow is a state and a row.                *)
LEMMA RowOfType ==
    ASSUME NEW w \in WorkflowType
    PROVE  /\ ToV2(w.phase) \in States
           /\ ReportedState(w) \in States
           /\ RowOf(w) \in RowType
           /\ RowOf(w).state = ReportedState(w)
           /\ RowOf(w).finishedAt = w.finishedAt
           /\ Final(w) => ReportedState(w) = ToV2(w.phase)
  BY DEF WorkflowType, ToV2, ReportedState, RowOf, RowType, Final, Phases, FinalPhases,
         States, FinalStates

LEMMA StoreRowType ==
    ASSUME TypeOK, NEW r \in RowType, StoreRow(r)
    PROVE  row' \in RowType /\ written' \in SUBSET (States \X Nat)
  BY DEF TypeOK, StoreRow, RowType

LEMMA PutType ==
    ASSUME TypeOK, NEW w \in WorkflowType, Put(w)
    PROVE  wf' \in WorkflowType /\ version' \in Nat
  BY DEF TypeOK, Put, WorkflowType

(* The answer of a report, and a step within it.                           *)
LEMMA ReturnType ==
    ASSUME TypeOK, NEW r \in Reports, NEW outcome, Return(r, outcome)
    PROVE  /\ reports' \in [Reports -> ReportType]
           /\ queued' \in BOOLEAN
           /\ agent' \in [pc : {"idle", "wait", "metrics"}, final : BOOLEAN]
  <1>1. reports' \in [Reports -> ReportType]
    BY ObjectTypes DEF TypeOK, Return
  <1>2. queued' \in BOOLEAN
    BY DEF TypeOK, Return
  <1>3. agent' \in [pc : {"idle", "wait", "metrics"}, final : BOOLEAN]
    BY ObjectTypes DEF TypeOK, Return
  <1> QED BY <1>1, <1>2, <1>3

LEMMA GotoType ==
    ASSUME TypeOK, NEW r \in Reports,
           NEW pc \in ClusterSteps \cup {"free", "read", "write", "insert", "check", "tasks"},
           Goto(r, pc)
    PROVE  /\ reports' \in [Reports -> ReportType]
           /\ queued' \in BOOLEAN
           /\ agent' \in [pc : {"idle", "wait", "metrics"}, final : BOOLEAN]
  BY DEF TypeOK, Goto, ReportType

(* Every initial state has the types.                                      *)
LEMMA InitType == Init => TypeOK
  <1> SUFFICES ASSUME Init PROVE TypeOK
    OBVIOUS
  <1>1. reports \in [Reports -> ReportType]
    BY ObjectTypes DEF Init
  <1>2. retry \in [pc : {"idle", "get", "put", "row"}, rv : Nat]
    BY DEF Init
  <1>3. wf \in WorkflowType /\ cache \in WorkflowType /\ row \in RowType
    BY ObjectTypes DEF Init
  <1>4. /\ agent \in [pc : {"idle", "wait", "metrics"}, final : BOOLEAN]
        /\ results \in [tasks : BOOLEAN, metrics : BOOLEAN]
    BY ObjectTypes DEF Init
  <1>5. written \in SUBSET (States \X Nat)
    BY DEF Init
  <1> QED BY <1>1, <1>2, <1>3, <1>4, <1>5 DEF Init, TypeOK

LEMMA ReportStepType ==
    ASSUME TypeOK, NEW r \in Reports, ReportStep(r)
    PROVE  TypeOK'
  <1> USE DEF ClusterSteps
  <1>obj. reports[r] \in ReportType /\ reports[r].obj \in WorkflowType
    BY DEF TypeOK, ReportType
  <1>1. CASE Abandon(r)
    BY <1>1, ReturnType DEF Abandon, TypeOK, clusterVars, dbVars, userVars
  <1>2. CASE Collect(r)
    <2>1. CASE ~wf.exists /\ Return(r, "permanent") /\ UNCHANGED clusterVars
      BY <1>2, <2>1, ReturnType DEF Collect, TypeOK, clusterVars, dbVars, userVars
    <2>2. CASE DeleteWorkflow /\ Goto(r, IF Final(reports[r].obj) THEN "verify" ELSE "read")
      BY <1>2, <2>2, GotoType, ObjectTypes
         DEF Collect, DeleteWorkflow, TypeOK, dbVars, userVars
    <2> QED BY <1>2, <2>1, <2>2 DEF Collect
  <1>3. CASE VerifyVersion(r)
    BY <1>3, GotoType, ReturnType DEF VerifyVersion, TypeOK, clusterVars, dbVars, userVars
  <1>4. CASE ReadRow(r)
    BY <1>4, GotoType, ReturnType DEF ReadRow, TypeOK, clusterVars, dbVars, userVars
  <1>5. CASE WriteRow(r)
    <2>1. CASE Return(r, "permanent") /\ UNCHANGED <<row, written>>
      BY <1>5, <2>1, ReturnType DEF WriteRow, TypeOK, clusterVars, userVars
    <2>2. CASE StoreRow(RowOf(reports[r].obj)) /\ AfterStore(r)
      BY <1>5, <1>obj, <2>2, GotoType, RowOfType, StoreRowType
         DEF WriteRow, AfterStore, TypeOK, clusterVars, userVars
    <2> QED BY <1>5, <2>1, <2>2 DEF WriteRow
  <1>6. CASE InsertRow(r)
    <2>1. row' \in RowType /\ written' \in SUBSET (States \X Nat)
      BY <1>6, <1>obj, RowOfType, StoreRowType DEF InsertRow, TypeOK
    <2> QED
      BY <1>6, <2>1, GotoType DEF InsertRow, AfterStore, TypeOK, clusterVars, userVars
  <1>7. CASE CollectOrphan(r)
    BY <1>7, ReturnType, ObjectTypes
       DEF CollectOrphan, DeleteWorkflow, TypeOK, dbVars, userVars
  <1>8. CASE CheckRow(r)
    BY <1>8, GotoType, ReturnType DEF CheckRow, TypeOK, clusterVars, dbVars, userVars
  <1>9. CASE AddLabel(r)
    <2>1. CASE UNCHANGED clusterVars
      BY <1>9, <2>1, ReturnType, GotoType DEF AddLabel, TypeOK, clusterVars, dbVars, userVars
    <2>2. CASE Put([wf EXCEPT !.persisted = TRUE]) /\ Goto(r, "tasks")
      <3>1. [wf EXCEPT !.persisted = TRUE] \in WorkflowType
        BY DEF TypeOK, WorkflowType
      <3> QED BY <1>9, <2>2, <3>1, PutType, GotoType DEF AddLabel, TypeOK, dbVars, userVars
    <2> QED BY <1>9, <2>1, <2>2 DEF AddLabel
  <1>10. CASE ReportTasks(r)
    <2>1. results' \in [tasks : BOOLEAN, metrics : BOOLEAN]
      BY <1>10 DEF ReportTasks, TypeOK, Final
    <2> QED BY <1>10, <2>1, ReturnType DEF ReportTasks, TypeOK, clusterVars, userVars
  <1> QED
    BY <1>1, <1>2, <1>3, <1>4, <1>5, <1>6, <1>7, <1>8, <1>9, <1>10 DEF ReportStep

LEMMA UserStepType ==
    ASSUME TypeOK,
           \/ CreateRun \/ TerminateRunRow \/ DeleteRunWorkflow \/ RequestStep
           \/ RetryRunRead \/ RetryStep
    PROVE  TypeOK'
  <1>1. CASE CreateRunWorkflow
    <2>1. [NoWorkflow EXCEPT !.exists = TRUE, !.created = now] \in WorkflowType
      BY ObjectTypes DEF TypeOK, WorkflowType
    <2>2. create' \in {"row", "done"}
      BY <1>1 DEF CreateRunWorkflow
    <2> QED
      BY <1>1, <2>1, <2>2, PutType DEF CreateRunWorkflow, TypeOK, dbVars, agentVars
  <1>2. CASE CreateRunRow
    <2>1. [NoRow EXCEPT !.exists = TRUE] \in RowType
      BY ObjectTypes DEF RowType
    <2>2. row' \in RowType /\ written' \in SUBSET (States \X Nat)
      BY <1>2, <2>1, StoreRowType DEF CreateRunRow, TypeOK
    <2> QED BY <1>2, <2>2 DEF CreateRunRow, TypeOK, clusterVars, agentVars
  <1>3. CASE TerminateRunRow
    <2>1. [row EXCEPT !.state = "CANCELING"] \in RowType
      BY DEF TypeOK, RowType, States
    <2>2. row' \in RowType /\ written' \in SUBSET (States \X Nat)
      BY <1>3, <2>1, StoreRowType DEF TerminateRunRow
    <2> QED BY <1>3, <2>2 DEF TerminateRunRow, TypeOK, clusterVars, agentVars
  <1>4. CASE TerminateWorkflow
    <2>1. [wf EXCEPT !.terminating = TRUE] \in WorkflowType
      BY DEF TypeOK, WorkflowType
    <2>2. wf' \in WorkflowType /\ version' \in Nat
      BY <1>4, <2>1, PutType DEF TerminateWorkflow, TypeOK, clusterVars
    <2> QED BY <1>4, <2>2 DEF TerminateWorkflow, TypeOK, dbVars, agentVars
  <1>5. CASE DeleteRunWorkflow
    BY <1>5, ObjectTypes DEF DeleteRunWorkflow, DeleteWorkflow, TypeOK, dbVars, agentVars
  <1>6. CASE DeleteRunRow
    BY <1>6, ObjectTypes DEF DeleteRunRow, TypeOK, clusterVars, agentVars
  <1>7. CASE RetryRunRead
    BY <1>7 DEF RetryRunRead, TypeOK, clusterVars, dbVars, agentVars
  <1>8. CASE RetryGet
    <2>1. wf.rv \in Nat
      BY DEF TypeOK, WorkflowType
    <2> QED BY <1>8, <2>1 DEF RetryGet, TypeOK, clusterVars, dbVars, agentVars
  <1>9. CASE RetryPut
    <2>1. \A t \in Nat : Retried(t) \in WorkflowType
      BY ObjectTypes DEF Retried, WorkflowType, Phases
    <2>2. wf.created \in Nat /\ now \in Nat
      BY DEF TypeOK, WorkflowType
    <2>3. wf' \in WorkflowType /\ version' \in Nat
      BY <1>9, <2>1, <2>2, PutType DEF RetryPut, TypeOK, clusterVars
    <2>4. retry' \in [pc : {"idle", "get", "put", "row"}, rv : Nat]
      BY <1>9 DEF RetryPut
    <2> QED BY <1>9, <2>3, <2>4 DEF RetryPut, TypeOK, dbVars, agentVars
  <1>10. CASE RetryRunRow
    <2>1. [row EXCEPT !.state = "RUNNING", !.finishedAt = 0, !.manifest = "Running"]
            \in RowType
      BY DEF TypeOK, RowType, States, Phases
    <2>2. row' \in RowType /\ written' \in SUBSET (States \X Nat)
      BY <1>10, <2>1, StoreRowType DEF RetryRunRow, TypeOK
    <2> QED BY <1>10, <2>2 DEF RetryRunRow, TypeOK, clusterVars, agentVars
  <1> QED
    BY <1>1, <1>2, <1>3, <1>4, <1>5, <1>6, <1>7, <1>8, <1>9, <1>10
       DEF CreateRun, RequestStep, RetryStep

LEMMA FailureType ==
    ASSUME TypeOK, Failure
    PROVE  TypeOK'
  <1> USE DEF Fail
  <1>1. CASE CreateRunFails
    BY <1>1 DEF CreateRunFails, TypeOK, clusterVars, dbVars, agentVars
  <1>2. ASSUME NEW r \in Reports, ReportFails(r) PROVE TypeOK'
    BY <1>2, ReturnType DEF ReportFails, TypeOK, clusterVars, dbVars, userVars
  <1>3. ([r \in Reports |-> [reports[r] EXCEPT !.awaited = FALSE]]) \in [Reports -> ReportType]
    BY DEF TypeOK, ReportType
  <1>4. CASE AgentTimeout
    BY <1>3, <1>4, ObjectTypes DEF AgentTimeout, TypeOK, clusterVars, dbVars, userVars
  <1>5. CASE MetricsFail
    BY <1>5, ObjectTypes DEF MetricsFail, TypeOK, clusterVars, dbVars, userVars
  <1>6. CASE RequestFails
    <2>1. retry' \in [pc : {"idle", "get", "put", "row"}, rv : Nat]
      BY <1>6 DEF RequestFails, TypeOK
    <2>2. request' \in {"idle", "terminate", "delete"} /\ requests' \in Nat
      BY <1>6 DEF RequestFails, TypeOK
    <2> QED BY <1>6, <2>1, <2>2 DEF RequestFails, TypeOK, clusterVars, dbVars, agentVars
  <1>7. CASE AgentRestart
    <2>1. wf.exists \in BOOLEAN
      BY DEF TypeOK, WorkflowType
    <2> QED
      BY <1>3, <1>7, <2>1, ObjectTypes DEF AgentRestart, TypeOK, clusterVars, dbVars, userVars
  <1>8. CASE DeleteRunFails
    BY <1>8 DEF DeleteRunFails, TypeOK, clusterVars, dbVars, agentVars
  <1> QED BY <1>1, <1>2, <1>4, <1>5, <1>6, <1>7, <1>8 DEF Failure

(* Every step keeps the types.                                             *)
LEMMA NextType == TypeOK /\ [Next]_vars => TypeOK'
  <1> SUFFICES ASSUME TypeOK, [Next]_vars PROVE TypeOK'
    OBVIOUS
  <1>1. CASE Informer
    BY <1>1 DEF Informer, TypeOK, clusterVars, dbVars, userVars
  <1>2. CASE Resync
    BY <1>2 DEF Resync, TypeOK, clusterVars, dbVars, userVars
  <1>3. CASE Save
    <2>1. CASE UNCHANGED <<agent, reports>>
      BY <1>3, <2>1 DEF Save, TypeOK, clusterVars, dbVars, userVars
    <2>2. ASSUME NEW r \in Reports,
                 reports' = [reports EXCEPT ![r] =
                     [pc |-> FirstStep(cache), obj |-> cache, awaited |-> TRUE]],
                 agent' = [pc |-> "wait", final |-> Final(cache)]
          PROVE  TypeOK'
      <3>1. [pc |-> FirstStep(cache), obj |-> cache, awaited |-> TRUE] \in ReportType
        BY DEF FirstStep, ReportType, ClusterSteps, TypeOK
      <3>2. reports' \in [Reports -> ReportType]
        BY <2>2, <3>1 DEF TypeOK
      <3>3. agent' \in [pc : {"idle", "wait", "metrics"}, final : BOOLEAN]
        BY <2>2 DEF Final
      <3> QED BY <1>3, <3>2, <3>3 DEF Save, TypeOK, clusterVars, dbVars, userVars
    <2> QED BY <1>3, <2>1, <2>2 DEF Save
  <1>4. CASE ReportMetrics
    <2>1. results' \in [tasks : BOOLEAN, metrics : BOOLEAN]
      BY <1>4 DEF ReportMetrics, TypeOK
    <2> QED BY <1>4, <2>1, ObjectTypes DEF ReportMetrics, TypeOK, clusterVars, userVars
  <1>5. CASE Argo
    <2>1. [wf EXCEPT !.phase = "Running"] \in WorkflowType
      BY DEF TypeOK, WorkflowType, Phases
    <2>2. \A p \in FinalPhases : [wf EXCEPT !.phase = p, !.finishedAt = now] \in WorkflowType
      BY DEF TypeOK, WorkflowType, Phases
    <2>3. wf' \in WorkflowType /\ version' \in Nat
      BY <1>5, <2>1, <2>2, PutType DEF Argo, FinalPhases
    <2> QED BY <1>5, <2>3 DEF Argo, TypeOK, dbVars, agentVars, userVars
  <1>6. CASE Advance
    BY <1>6 DEF Advance, TypeOK, clusterVars, dbVars, agentVars, userVars
  <1>7. CASE UNCHANGED vars
    BY <1>7 DEF vars, TypeOK
  <1> QED
    BY <1>1, <1>2, <1>3, <1>4, <1>5, <1>6, <1>7, ReportStepType, UserStepType, FailureType
       DEF Next, AgentStep

(* In every reachable state the variables have their types, whatever the   *)
(* interleaving of reports, requests and failures.                         *)
THEOREM TypeCorrect == Spec => []TypeOK
  BY InitType, NextType, PTL DEF Spec

-----------------------------------------------------------------------------
(* The label.  A copy of the workflow that carries the version the cluster *)
(* has is the workflow the cluster has; so a report that adds the label on *)
(* the condition that the version has not changed labels the workflow it   *)
(* reports, which is final, and whose end it has found in the row.         *)

Known(o) == o.exists => o.rv <= version /\ (wf.exists /\ wf.rv = o.rv => wf = o)

VersionsAgree ==
    /\ wf.exists => wf.rv <= version
    /\ Known(cache)
    /\ \A r \in Reports : Known(reports[r].obj)

EndWritten(w) == <<ToV2(w.phase), w.finishedAt>> \in written

ReportSound(q) ==
    /\ q.pc # "free" => q.obj.exists
    /\ q.pc \in {"check", "label"} => Final(q.obj)
    /\ q.pc = "label" => EndWritten(q.obj)

ReportsSound == \A r \in Reports : ReportSound(reports[r])

RowWritten == row.exists => <<row.state, row.finishedAt>> \in written

LabelInv ==
    /\ TypeOK
    /\ VersionsAgree
    /\ ReportsSound
    /\ RowWritten
    /\ LabelOnlyFinal
    /\ LabelledWasWritten

(* The cluster changes the workflow and the copies stay, or the cluster    *)
(* stays and the copies are renewed.                                       *)
LEMMA VersionsStep ==
    ASSUME TypeOK, VersionsAgree,
           \/ UNCHANGED clusterVars
           \/ cache' = cache /\ DeleteWorkflow
           \/ cache' = cache /\ \E w \in WorkflowType : Put(w),
           cache' \in {cache, wf},
           \A r \in Reports : reports'[r].obj \in {reports[r].obj, cache, NoWorkflow}
    PROVE  VersionsAgree'
  <1>1. CASE UNCHANGED clusterVars
    BY <1>1 DEF VersionsAgree, Known, clusterVars, NoWorkflow
  <1>2. CASE cache' = cache /\ DeleteWorkflow
    BY <1>2 DEF VersionsAgree, Known, DeleteWorkflow, NoWorkflow
  <1>3. ASSUME cache' = cache, NEW w \in WorkflowType, Put(w) PROVE VersionsAgree'
    <2>1. wf'.rv = version + 1 /\ version' = version + 1 /\ version \in Nat
      BY <1>3 DEF Put, WorkflowType, TypeOK
    <2>2. \A o \in WorkflowType : Known(o) => Known(o)'
      BY <2>1 DEF Known, WorkflowType
    <2>3. cache \in WorkflowType /\ NoWorkflow \in WorkflowType
      BY ObjectTypes DEF TypeOK
    <2>4. \A r \in Reports : reports[r].obj \in WorkflowType
      BY DEF TypeOK, ReportType
    <2>5. Known(cache) /\ Known(NoWorkflow) /\ \A r \in Reports : Known(reports[r].obj)
      BY DEF VersionsAgree, Known, NoWorkflow
    <2>6. Known(cache)'
      BY <1>3, <2>2, <2>3, <2>5 DEF Known
    <2>7. ASSUME NEW r \in Reports PROVE Known(reports[r].obj)'
      BY <2>2, <2>3, <2>4, <2>5 DEF Known
    <2> QED BY <2>1, <2>6, <2>7 DEF VersionsAgree
  <1> QED BY <1>1, <1>2, <1>3

(* A report returns, or goes on with what it has established.              *)
LEMMA SoundReturn ==
    ASSUME TypeOK, ReportsSound, written \subseteq written',
           NEW r \in Reports, NEW outcome, Return(r, outcome)
    PROVE  /\ ReportsSound'
           /\ \A q \in Reports : reports'[q].obj \in {reports[q].obj, cache, NoWorkflow}
  <1>1. \A q \in Reports : reports'[q] = IF q = r THEN FreeReport ELSE reports[q]
    BY DEF TypeOK, Return
  <1> QED
    BY <1>1 DEF ReportsSound, ReportSound, EndWritten, FreeReport

LEMMA SoundGoto ==
    ASSUME TypeOK, ReportsSound, written \subseteq written',
           NEW r \in Reports, NEW pc, Goto(r, pc), reports[r].pc # "free",
           pc \in {"check", "label"} => Final(reports[r].obj),
           pc = "label" => EndWritten(reports[r].obj)
    PROVE  /\ ReportsSound'
           /\ \A q \in Reports : reports'[q].obj \in {reports[q].obj, cache, NoWorkflow}
  <1>1. \A q \in Reports : q # r => reports'[q] = reports[q]
    BY DEF TypeOK, Goto
  <1>2. reports'[r].pc = pc /\ reports'[r].obj = reports[r].obj
    BY DEF TypeOK, Goto, ReportType
  <1>3. ReportSound(reports[r])'
    BY <1>2 DEF ReportsSound, ReportSound, EndWritten
  <1>4. ASSUME NEW q \in Reports, q # r PROVE ReportSound(reports[q])'
    BY <1>1, <1>4 DEF ReportsSound, ReportSound, EndWritten
  <1> QED BY <1>1, <1>2, <1>3, <1>4 DEF ReportsSound

LEMMA SoundUnchanged ==
    ASSUME ReportsSound, written \subseteq written', UNCHANGED reports
    PROVE  ReportsSound'
  BY DEF ReportsSound, ReportSound, EndWritten

(* The label of a workflow that is not changed, or is gone.                *)
LEMMA LabelKept ==
    ASSUME LabelInv, written \subseteq written', wf' = wf \/ ~wf'.exists
    PROVE  LabelOnlyFinal' /\ LabelledWasWritten'
  BY DEF LabelInv, LabelOnlyFinal, LabelledWasWritten

LEMMA StoreRowWritten ==
    ASSUME NEW r, StoreRow(r)
    PROVE  RowWritten' /\ written \subseteq written'
  BY DEF StoreRow, RowWritten

LEMMA ReportStepLabel ==
    ASSUME LabelInv, NEW r \in Reports, ReportStep(r)
    PROVE  LabelInv'
  <1> DEFINE obj == reports[r].obj
             Copies == \A q \in Reports :
                          reports'[q].obj \in {reports[q].obj, cache, NoWorkflow}
  <1>ty. TypeOK /\ TypeOK' /\ obj \in WorkflowType /\ ReportsSound /\ ReportSound(reports[r])
    BY ReportStepType DEF LabelInv, TypeOK, ReportType, ReportsSound
  <1>1. ASSUME UNCHANGED <<clusterVars, row, written, cache>>, ReportsSound', Copies
        PROVE  LabelInv'
    <2>1. VersionsAgree'
      BY <1>1, <1>ty, VersionsStep DEF LabelInv
    <2>2. LabelOnlyFinal' /\ LabelledWasWritten'
      BY <1>1, LabelKept DEF clusterVars
    <2> QED BY <1>1, <1>ty, <2>1, <2>2 DEF LabelInv, RowWritten
  <1>2. ASSUME DeleteWorkflow, UNCHANGED <<row, written, cache>>, ReportsSound', Copies
        PROVE  LabelInv'
    <2>1. VersionsAgree'
      BY <1>2, <1>ty, VersionsStep DEF LabelInv
    <2>2. LabelOnlyFinal' /\ LabelledWasWritten'
      BY <1>2, LabelKept DEF DeleteWorkflow, NoWorkflow
    <2> QED BY <1>2, <1>ty, <2>1, <2>2 DEF LabelInv, RowWritten
  <1>3. ASSUME UNCHANGED clusterVars, UNCHANGED cache, ReportsSound', Copies, RowWritten',
               written \subseteq written'
        PROVE  LabelInv'
    <2>1. VersionsAgree'
      BY <1>3, <1>ty, VersionsStep DEF LabelInv
    <2>2. LabelOnlyFinal' /\ LabelledWasWritten'
      BY <1>3, LabelKept DEF clusterVars
    <2> QED BY <1>3, <1>ty, <2>1, <2>2 DEF LabelInv
  <1>4. CASE Abandon(r)
    BY <1>1, <1>4, <1>ty, SoundReturn DEF Abandon, dbVars
  <1>5. CASE Collect(r)
    <2>1. CASE Return(r, "permanent") /\ UNCHANGED clusterVars
      BY <1>1, <1>5, <1>ty, <2>1, SoundReturn DEF Collect, dbVars
    <2>2. CASE DeleteWorkflow /\ Goto(r, IF Final(obj) THEN "verify" ELSE "read")
      BY <1>2, <1>5, <1>ty, <2>2, SoundGoto DEF Collect, dbVars
    <2> QED BY <1>5, <2>1, <2>2 DEF Collect
  <1>6. CASE VerifyVersion(r)
    BY <1>1, <1>6, <1>ty, SoundGoto, SoundReturn DEF VerifyVersion, dbVars
  <1>7. CASE ReadRow(r)
    BY <1>1, <1>7, <1>ty, SoundGoto, SoundReturn DEF ReadRow, dbVars
  <1>8. CASE WriteRow(r)
    <2>1. CASE Return(r, "permanent") /\ UNCHANGED <<row, written>>
      BY <1>1, <1>8, <1>ty, <2>1, SoundReturn DEF WriteRow
    <2>2. CASE StoreRow(RowOf(obj)) /\ AfterStore(r)
      <3>1. RowWritten' /\ written \subseteq written'
        BY <2>2, StoreRowWritten
      <3>2. ReportsSound' /\ Copies
        BY <1>8, <1>ty, <2>2, <3>1, SoundGoto DEF AfterStore, WriteRow
      <3> QED BY <1>3, <1>8, <3>1, <3>2 DEF WriteRow
    <2> QED BY <1>8, <2>1, <2>2 DEF WriteRow
  <1>9. CASE InsertRow(r)
    <2>1. RowWritten' /\ written \subseteq written'
      BY <1>9, StoreRowWritten DEF InsertRow, LabelInv, RowWritten
    <2>2. ReportsSound' /\ Copies
      BY <1>9, <1>ty, <2>1, SoundGoto DEF AfterStore, InsertRow
    <2> QED BY <1>3, <1>9, <2>1, <2>2 DEF InsertRow
  <1>10. CASE CollectOrphan(r)
    BY <1>2, <1>10, <1>ty, SoundReturn DEF CollectOrphan, dbVars
  <1>11. CASE CheckRow(r)
    <2>1. CASE Goto(r, "label") /\ row.exists /\ RowStillMatches(obj)
      <3>1. Final(obj)
        BY <1>11, <1>ty DEF CheckRow, ReportSound
      <3>2. EndWritten(obj)
        BY <1>ty, <2>1, <3>1, RowOfType DEF EndWritten, RowStillMatches, LabelInv, RowWritten
      <3>3. ReportsSound' /\ Copies
        BY <1>11, <1>ty, <2>1, <3>1, <3>2, SoundGoto DEF CheckRow, dbVars
      <3> QED BY <1>1, <1>11, <3>3 DEF CheckRow, dbVars
    <2>2. CASE Return(r, "permanent") \/ Return(r, "transient")
      BY <1>1, <1>11, <1>ty, <2>2, SoundReturn DEF CheckRow, dbVars
    <2> QED BY <1>11, <2>1, <2>2 DEF CheckRow
  <1>12. CASE AddLabel(r)
    <2>1. CASE (Return(r, "permanent") \/ Return(r, "transient")) /\ UNCHANGED clusterVars
      BY <1>1, <1>12, <1>ty, <2>1, SoundReturn DEF AddLabel, dbVars
    <2>2. CASE /\ wf.exists /\ PatchTestHolds(obj)
               /\ Put([wf EXCEPT !.persisted = TRUE]) /\ Goto(r, "tasks")
      <3>1. wf = obj
        BY <1>12, <1>ty, <2>2
           DEF AddLabel, ReportSound, PatchTestHolds, LabelInv, VersionsAgree, Known
      <3>2. Final(wf) /\ EndWritten(wf)
        BY <1>12, <1>ty, <3>1 DEF AddLabel, ReportSound
      <3>3. [wf EXCEPT !.persisted = TRUE] \in WorkflowType
        BY <1>ty DEF TypeOK, WorkflowType
      <3>4. wf'.phase = wf.phase /\ wf'.finishedAt = wf.finishedAt
        BY <1>ty, <2>2 DEF Put, TypeOK, WorkflowType
      <3>5. UNCHANGED <<row, written, cache>>
        BY <1>12 DEF AddLabel, dbVars
      <3>6. LabelOnlyFinal' /\ LabelledWasWritten'
        BY <3>2, <3>4, <3>5 DEF LabelOnlyFinal, LabelledWasWritten, Final, EndWritten
      <3>7. ReportsSound' /\ Copies
        BY <1>12, <1>ty, <2>2, <3>5, SoundGoto DEF AddLabel
      <3>8. VersionsAgree'
        BY <1>ty, <2>2, <3>3, <3>5, <3>7, VersionsStep DEF LabelInv
      <3> QED BY <1>ty, <3>5, <3>6, <3>7, <3>8 DEF LabelInv, RowWritten
    <2> QED BY <1>12, <2>1, <2>2 DEF AddLabel
  <1>13. CASE ReportTasks(r)
    BY <1>1, <1>13, <1>ty, SoundReturn DEF ReportTasks
  <1> QED
    BY <1>4, <1>5, <1>6, <1>7, <1>8, <1>9, <1>10, <1>11, <1>12, <1>13 DEF ReportStep

(* The steps that leave the label inductive invariant to the lemmas above: *)
(* nothing it depends on changes, the workflow is changed but not labelled, *)
(* or the row is written.                                                  *)
LEMMA OtherStepLabel ==
    ASSUME LabelInv, TypeOK', ReportsSound',
           \A q \in Reports : reports'[q].obj \in {reports[q].obj, cache, NoWorkflow},
           RowWritten', written \subseteq written',
           cache' \in {cache, wf},
           \/ UNCHANGED clusterVars
           \/ cache' = cache /\ DeleteWorkflow
           \/ /\ cache' = cache
              /\ \E w \in WorkflowType :
                   /\ Put(w)
                   /\ \/ ~w.persisted
                      \/ /\ wf.exists /\ wf.persisted
                         /\ w.phase = wf.phase /\ w.finishedAt = wf.finishedAt
    PROVE  LabelInv'
  <1>1. VersionsAgree'
    BY VersionsStep DEF LabelInv
  <1>2. LabelOnlyFinal' /\ LabelledWasWritten'
    <2>1. CASE UNCHANGED clusterVars \/ DeleteWorkflow
      BY <2>1, LabelKept DEF clusterVars, DeleteWorkflow, NoWorkflow
    <2>2. ASSUME NEW w \in WorkflowType, Put(w), ~w.persisted
          PROVE  LabelOnlyFinal' /\ LabelledWasWritten'
      BY <2>2 DEF Put, WorkflowType, LabelOnlyFinal, LabelledWasWritten
    <2>3. ASSUME NEW w \in WorkflowType, Put(w), wf.exists, wf.persisted,
                 w.phase = wf.phase, w.finishedAt = wf.finishedAt
          PROVE  LabelOnlyFinal' /\ LabelledWasWritten'
      <3>1. wf'.phase = wf.phase /\ wf'.finishedAt = wf.finishedAt
        BY <2>3 DEF Put, WorkflowType
      <3> QED BY <2>3, <3>1 DEF LabelInv, LabelOnlyFinal, LabelledWasWritten, Final
    <2> QED BY <2>1, <2>2, <2>3
  <1> QED BY <1>1, <1>2 DEF LabelInv

LEMMA UserStepLabel ==
    ASSUME LabelInv,
           \/ CreateRun \/ TerminateRunRow \/ DeleteRunWorkflow \/ RequestStep
           \/ RetryRunRead \/ RetryStep
    PROVE  LabelInv'
  <1>ty. TypeOK /\ TypeOK' /\ ReportsSound /\ RowWritten
    BY UserStepType DEF LabelInv
  <1>same. ASSUME UNCHANGED <<reports, cache>>, written \subseteq written'
           PROVE  /\ ReportsSound' /\ cache' \in {cache, wf}
                  /\ \A q \in Reports : reports'[q].obj \in {reports[q].obj, cache, NoWorkflow}
    BY <1>same, <1>ty, SoundUnchanged
  <1>1. CASE CreateRunWorkflow
    <2> DEFINE w == [NoWorkflow EXCEPT !.exists = TRUE, !.created = now]
    <2>1. w \in WorkflowType /\ ~w.persisted
      BY <1>ty, ObjectTypes DEF TypeOK, WorkflowType, NoWorkflow
    <2>2. UNCHANGED <<row, written, reports, cache>> /\ Put(w)
      BY <1>1 DEF CreateRunWorkflow, dbVars, agentVars
    <2>3. RowWritten'
      BY <1>ty, <2>2 DEF RowWritten
    <2> HIDE DEF w
    <2> QED BY <1>ty, <1>same, <2>1, <2>2, <2>3, OtherStepLabel
  <1>2. CASE CreateRunRow
    <2>1. UNCHANGED <<clusterVars, reports, cache>>
      BY <1>2 DEF CreateRunRow, agentVars
    <2>2. RowWritten' /\ written \subseteq written'
      BY <1>2, <1>ty, StoreRowWritten DEF CreateRunRow, RowWritten
    <2> QED BY <1>ty, <1>same, <2>1, <2>2, OtherStepLabel
  <1>3. CASE TerminateRunRow
    <2>1. UNCHANGED <<clusterVars, reports, cache>>
      BY <1>3 DEF TerminateRunRow, agentVars
    <2>2. RowWritten' /\ written \subseteq written'
      BY <1>3, StoreRowWritten DEF TerminateRunRow
    <2> QED BY <1>ty, <1>same, <2>1, <2>2, OtherStepLabel
  <1>4. CASE TerminateWorkflow
    <2> DEFINE w == [wf EXCEPT !.terminating = TRUE]
    <2>1. /\ w \in WorkflowType /\ w.phase = wf.phase /\ w.finishedAt = wf.finishedAt
          /\ w.persisted = wf.persisted
      BY <1>ty DEF TypeOK, WorkflowType
    <2>2. UNCHANGED <<row, written, reports, cache>>
      BY <1>4 DEF TerminateWorkflow, dbVars, agentVars
    <2>3. UNCHANGED clusterVars \/ (wf.exists /\ Put(w))
      BY <1>4 DEF TerminateWorkflow
    <2>4. RowWritten'
      BY <1>ty, <2>2 DEF RowWritten
    <2> HIDE DEF w
    <2> QED BY <1>ty, <1>same, <2>1, <2>2, <2>3, <2>4, OtherStepLabel
  <1>5. CASE DeleteRunWorkflow
    <2>1. DeleteWorkflow /\ UNCHANGED <<row, written, reports, cache>>
      BY <1>5 DEF DeleteRunWorkflow, dbVars, agentVars
    <2>2. RowWritten'
      BY <1>ty, <2>1 DEF RowWritten
    <2> QED BY <1>ty, <1>same, <2>1, <2>2, OtherStepLabel
  <1>6. CASE DeleteRunRow
    <2>1. UNCHANGED <<clusterVars, written, reports, cache>> /\ ~row'.exists
      BY <1>6 DEF DeleteRunRow, agentVars, NoRow
    <2>2. RowWritten'
      BY <2>1 DEF RowWritten
    <2> QED BY <1>ty, <1>same, <2>1, <2>2, OtherStepLabel
  <1>7. CASE RetryRunRead \/ RetryGet
    <2>1. UNCHANGED <<clusterVars, row, written, reports, cache>>
      BY <1>7 DEF RetryRunRead, RetryGet, dbVars, agentVars
    <2>2. RowWritten'
      BY <1>ty, <2>1 DEF RowWritten
    <2> QED BY <1>ty, <1>same, <2>1, <2>2, OtherStepLabel
  <1>8. CASE RetryPut
    <2>1. \A t \in Nat : Retried(t) \in WorkflowType /\ ~Retried(t).persisted
      BY ObjectTypes DEF Retried, WorkflowType, Phases, NoWorkflow
    <2>2. wf.created \in Nat /\ now \in Nat
      BY <1>ty DEF TypeOK, WorkflowType
    <2>3. UNCHANGED <<row, written, reports, cache>>
      BY <1>8 DEF RetryPut, dbVars, agentVars
    <2>4. UNCHANGED clusterVars \/ \E t \in Nat : Put(Retried(t))
      BY <1>8, <2>2 DEF RetryPut
    <2>5. RowWritten'
      BY <1>ty, <2>3 DEF RowWritten
    <2> QED BY <1>ty, <1>same, <2>1, <2>3, <2>4, <2>5, OtherStepLabel
  <1>9. CASE RetryRunRow
    <2>1. UNCHANGED <<clusterVars, reports, cache>>
      BY <1>9 DEF RetryRunRow, agentVars
    <2>2. RowWritten' /\ written \subseteq written'
      BY <1>9, <1>ty, StoreRowWritten DEF RetryRunRow, RowWritten
    <2> QED BY <1>ty, <1>same, <2>1, <2>2, OtherStepLabel
  <1> QED
    BY <1>1, <1>2, <1>3, <1>4, <1>5, <1>6, <1>7, <1>8, <1>9
       DEF CreateRun, RequestStep, RetryStep

LEMMA FailureLabel ==
    ASSUME LabelInv, Failure
    PROVE  LabelInv'
  <1>ty. TypeOK /\ TypeOK' /\ ReportsSound /\ RowWritten
    BY FailureType DEF LabelInv
  <1>1. UNCHANGED <<clusterVars, row, written>> /\ cache' \in {cache, wf}
    BY DEF Failure, CreateRunFails, AgentTimeout, MetricsFail, RequestFails,
           DeleteRunFails, AgentRestart,
           ReportFails, dbVars, agentVars
  <1>2. RowWritten'
    BY <1>ty, <1>1 DEF RowWritten
  <1>3. /\ ReportsSound'
        /\ \A q \in Reports : reports'[q].obj \in {reports[q].obj, cache, NoWorkflow}
    <2>1. CASE UNCHANGED reports
      BY <1>ty, <1>1, <2>1, SoundUnchanged
    <2>2. CASE reports' = [r \in Reports |-> [reports[r] EXCEPT !.awaited = FALSE]]
      <3>1. \A q \in Reports : /\ reports'[q].obj = reports[q].obj
                                /\ reports'[q].pc = reports[q].pc
        BY <1>ty, <2>2 DEF TypeOK, ReportType
      <3> QED BY <1>ty, <1>1, <3>1 DEF ReportsSound, ReportSound, EndWritten
    <2>3. ASSUME NEW r \in Reports, ReportFails(r)
          PROVE  /\ ReportsSound'
                 /\ \A q \in Reports : reports'[q].obj \in {reports[q].obj, cache, NoWorkflow}
      BY <1>ty, <1>1, <2>3, SoundReturn DEF ReportFails
    <2> QED
      BY <2>1, <2>2, <2>3
         DEF Failure, CreateRunFails, AgentTimeout, MetricsFail, RequestFails,
           DeleteRunFails, AgentRestart
  <1> QED BY <1>ty, <1>1, <1>2, <1>3, OtherStepLabel

LEMMA NextLabel == LabelInv /\ [Next]_vars => LabelInv'
  <1> SUFFICES ASSUME LabelInv, [Next]_vars PROVE LabelInv'
    OBVIOUS
  <1>ty. TypeOK /\ TypeOK' /\ ReportsSound /\ RowWritten
    BY NextType DEF LabelInv
  <1>1. CASE Informer \/ Resync \/ ReportMetrics \/ Advance \/ UNCHANGED vars
    <2>1. UNCHANGED <<clusterVars, row, written, reports>> /\ cache' \in {cache, wf}
      BY <1>1 DEF Informer, Resync, ReportMetrics, Advance, vars, clusterVars, dbVars, agentVars
    <2>2. RowWritten' /\ ReportsSound'
      BY <1>ty, <2>1, SoundUnchanged DEF RowWritten
    <2> QED BY <1>ty, <2>1, <2>2, OtherStepLabel
  <1>2. CASE Save
    <2>1. UNCHANGED <<clusterVars, row, written, cache>>
      BY <1>2 DEF Save, dbVars
    <2>2. RowWritten'
      BY <1>ty, <2>1 DEF RowWritten
    <2>3. /\ ReportsSound'
          /\ \A q \in Reports : reports'[q].obj \in {reports[q].obj, cache, NoWorkflow}
      <3>1. CASE UNCHANGED reports
        BY <1>ty, <2>1, <3>1, SoundUnchanged
      <3>2. ASSUME NEW r \in Reports, cache.exists,
                   reports' = [reports EXCEPT ![r] =
                       [pc |-> FirstStep(cache), obj |-> cache, awaited |-> TRUE]]
            PROVE  /\ ReportsSound'
                   /\ \A q \in Reports : reports'[q].obj \in {reports[q].obj, cache, NoWorkflow}
        <4>1. \A q \in Reports : q # r => reports'[q] = reports[q]
          BY <1>ty, <3>2 DEF TypeOK
        <4>2. /\ reports'[r].obj = cache /\ reports'[r].pc = FirstStep(cache)
              /\ FirstStep(cache) \notin {"check", "label"}
          BY <1>ty, <3>2 DEF TypeOK, FirstStep
        <4> QED
          BY <1>ty, <2>1, <3>2, <4>1, <4>2 DEF ReportsSound, ReportSound, EndWritten
      <3> QED BY <1>2, <3>1, <3>2 DEF Save
    <2> QED BY <1>ty, <2>1, <2>2, <2>3, OtherStepLabel
  <1>3. CASE Argo
    <2>1. UNCHANGED <<row, written, reports, cache>>
      BY <1>3 DEF Argo, dbVars, agentVars
    <2>2. RowWritten' /\ ReportsSound'
      BY <1>ty, <2>1, SoundUnchanged DEF RowWritten
    <2>3. ~wf.persisted
      BY <1>3 DEF Argo, LabelInv, LabelOnlyFinal, Final, FinalPhases
    <2>4. PICK p \in Phases, t \in Nat : Put([wf EXCEPT !.phase = p, !.finishedAt = t])
      <3>1. CASE Put([wf EXCEPT !.phase = "Running"])
        <4>1. [wf EXCEPT !.phase = "Running"]
                = [wf EXCEPT !.phase = "Running", !.finishedAt = wf.finishedAt]
          BY <1>ty DEF TypeOK, WorkflowType
        <4>2. wf.finishedAt \in Nat /\ "Running" \in Phases
          BY <1>ty DEF TypeOK, WorkflowType, Phases
        <4> QED BY <3>1, <4>1, <4>2
      <3>2. CASE \E p \in FinalPhases : Put([wf EXCEPT !.phase = p, !.finishedAt = now])
        BY <1>ty, <3>2 DEF TypeOK, Phases
      <3> QED BY <1>3, <3>1, <3>2 DEF Argo, FinalPhases
    <2> DEFINE w == [wf EXCEPT !.phase = p, !.finishedAt = t]
    <2>5. w \in WorkflowType /\ ~w.persisted
      BY <1>ty, <2>3 DEF TypeOK, WorkflowType
    <2>6. Put(w)
      BY <2>4
    <2> HIDE DEF w
    <2> QED BY <1>ty, <2>1, <2>2, <2>5, <2>6, OtherStepLabel
  <1> QED
    BY <1>1, <1>2, <1>3, ReportStepLabel, UserStepLabel, FailureLabel DEF Next, AgentStep

LEMMA InitLabel == Init => LabelInv
  BY InitType DEF Init, LabelInv, VersionsAgree, Known, ReportsSound, ReportSound, RowWritten,
     LabelOnlyFinal, LabelledWasWritten, NoWorkflow, FreeReport, NoRow

(* However many reports overlap, and however late they are, a workflow     *)
(* that carries the persistedFinalState label is final                     *)
(* (addWorkflowLabelIfWorkflowUnchanged).                                  *)
THEOREM LabelOnlyFinalAlways == Spec => []LabelOnlyFinal
  <1>1. LabelInv => LabelOnlyFinal
    BY DEF LabelInv
  <1> QED BY <1>1, InitLabel, NextLabel, PTL DEF Spec

(* However many reports overlap, the label is on a workflow only if the    *)
(* final state and the finishing time of that workflow were stored in the  *)
(* row of its run (ReportWorkflowResource).                                *)
THEOREM LabelledWasWrittenAlways == Spec => []LabelledWasWritten
  <1>1. LabelInv => LabelledWasWritten
    BY DEF LabelInv
  <1> QED BY <1>1, InitLabel, NextLabel, PTL DEF Spec

-----------------------------------------------------------------------------
(* A call the API server is working on.                                    *)
Active(r) == reports[r].pc # "free"

-----------------------------------------------------------------------------
(* Which steps write the row, the request and the slots of the reports.    *)

LEMMA RowStep ==
    ASSUME [Next]_vars
    PROVE  \/ UNCHANGED <<row, written>>
           \/ CreateRunRow \/ TerminateRunRow \/ DeleteRunRow \/ RetryRunRow
           \/ \E r \in Reports : WriteRow(r) \/ InsertRow(r)
  <1>1. ASSUME NEW r \in Reports, ReportStep(r)
        PROVE  UNCHANGED <<row, written>> \/ WriteRow(r) \/ InsertRow(r)
    BY <1>1 DEF ReportStep, Abandon, Collect, VerifyVersion, ReadRow, CollectOrphan, CheckRow,
                AddLabel, ReportTasks, dbVars
  <1>2. CASE CreateRun \/ Informer \/ Resync \/ AgentStep \/ Argo \/ Advance \/ UNCHANGED vars
    BY <1>2 DEF CreateRun, CreateRunWorkflow, Informer, Resync, AgentStep, Save, ReportMetrics,
                Argo, Advance, vars, dbVars
  <1>3. CASE RequestStep \/ RetryRunRead \/ RetryStep \/ TerminateRunRow \/ DeleteRunWorkflow
    BY <1>3 DEF RequestStep, TerminateWorkflow, RetryRunRead, RetryStep, RetryGet, RetryPut,
                DeleteRunWorkflow, dbVars
  <1>4. CASE Failure
    BY <1>4 DEF Failure, CreateRunFails, AgentTimeout, MetricsFail, RequestFails,
           DeleteRunFails, AgentRestart,
                ReportFails, dbVars
  <1> QED BY <1>1, <1>2, <1>3, <1>4 DEF Next

LEMMA CreateStep ==
    ASSUME [Next]_vars
    PROVE  create' = create \/ CreateRunWorkflow \/ CreateRunRow \/ CreateRunFails
  <1>1. ASSUME NEW r \in Reports, ReportStep(r) PROVE create' = create
    BY <1>1 DEF ReportStep, Abandon, Collect, VerifyVersion, ReadRow, WriteRow, InsertRow,
                CollectOrphan, CheckRow, AddLabel, ReportTasks, userVars
  <1>2. CASE Informer \/ Resync \/ AgentStep \/ Argo \/ Advance \/ UNCHANGED vars
    BY <1>2 DEF Informer, Resync, AgentStep, Save, ReportMetrics, Argo, Advance, vars, userVars
  <1>3. CASE RequestStep \/ RetryRunRead \/ RetryStep \/ TerminateRunRow \/ DeleteRunWorkflow
    BY <1>3 DEF RequestStep, TerminateWorkflow, DeleteRunRow, RetryRunRead, RetryStep, RetryGet,
                RetryPut, RetryRunRow, TerminateRunRow, DeleteRunWorkflow
  <1>4. CASE Failure
    BY <1>4 DEF Failure, AgentTimeout, MetricsFail, RequestFails,
           DeleteRunFails, AgentRestart, ReportFails,
                userVars
  <1> QED BY <1>1, <1>2, <1>3, <1>4 DEF Next, CreateRun

(* What a step makes of one report: nothing, the agent gives up on it, it  *)
(* returns, it goes on, or it starts.                                      *)
Kept(q) == reports'[q] = reports[q]
GivenUp(q) == /\ AgentTimeout \/ AgentRestart
              /\ reports'[q] = [reports[q] EXCEPT !.awaited = FALSE]
Freed(q) == Active(q) /\ (ReportStep(q) \/ ReportFails(q)) /\ reports'[q] = FreeReport
GoesOn(q) == /\ Active(q) /\ ReportStep(q)
             /\ reports'[q] = [reports[q] EXCEPT !.pc = reports'[q].pc]
             /\ reports'[q].pc # "free"
Starts(q) == /\ ~Active(q) /\ Save /\ cache.exists /\ agent.pc = "idle"
             /\ reports'[q] = [pc |-> FirstStep(cache), obj |-> cache, awaited |-> TRUE]
             /\ agent'.pc = "wait"

SlotStep(q) == Kept(q) \/ GivenUp(q) \/ Freed(q) \/ GoesOn(q) \/ Starts(q)

LEMMA ReturnFrees ==
    ASSUME TypeOK, NEW r \in Reports, NEW outcome, Return(r, outcome)
    PROVE  reports'[r] = FreeReport /\ \A q \in Reports : q # r => reports'[q] = reports[q]
  BY DEF TypeOK, Return

LEMMA GotoGoes ==
    ASSUME TypeOK, NEW r \in Reports, NEW pc, Goto(r, pc)
    PROVE  /\ reports'[r] = [reports[r] EXCEPT !.pc = pc]
           /\ reports'[r].pc = pc
           /\ reports'[r].obj = reports[r].obj
           /\ reports'[r].awaited = reports[r].awaited
           /\ \A q \in Reports : q # r => reports'[q] = reports[q]
  BY DEF TypeOK, Goto, ReportType

(* A step of one report frees it or takes it to its next call.             *)
LEMMA OneReportStep ==
    ASSUME TypeOK, NEW r \in Reports, ReportStep(r)
    PROVE  /\ Active(r)
           /\ \/ \E o \in {"ok", "transient", "permanent"} : Return(r, o)
              \/ \E pc \in {"verify", "read", "write", "insert", "orphan", "check",
                            "label", "tasks"} : Goto(r, pc)
  BY DEF ReportStep, Abandon, Collect, VerifyVersion, ReadRow, WriteRow, InsertRow,
         CollectOrphan, CheckRow, AddLabel, ReportTasks, AfterStore, Active, ClusterSteps

LEMMA EverySlotStep ==
    ASSUME TypeOK, [Next]_vars, NEW q \in Reports
    PROVE  SlotStep(q)
  <1>1. ASSUME NEW r \in Reports, ReportStep(r) PROVE SlotStep(q)
    <2>1. ASSUME NEW o, Return(r, o) PROVE SlotStep(q)
      BY <1>1, <2>1, ReturnFrees, OneReportStep DEF SlotStep, Kept, Freed
    <2>2. ASSUME NEW pc, Goto(r, pc), pc # "free" PROVE SlotStep(q)
      BY <1>1, <2>2, GotoGoes, OneReportStep DEF SlotStep, Kept, GoesOn
    <2> QED BY <1>1, <2>1, <2>2, OneReportStep
  <1>2. CASE reports' = reports
    BY <1>2 DEF SlotStep, Kept
  <1>3. CASE AgentTimeout \/ AgentRestart
    BY <1>3 DEF SlotStep, GivenUp, AgentTimeout, AgentRestart
  <1>4. ASSUME NEW r \in Reports, ReportFails(r) PROVE SlotStep(q)
    BY <1>4, ReturnFrees DEF ReportFails, SlotStep, Kept, Freed, Active
  <1>5. CASE Save
    <2>1. ASSUME NEW r \in Reports, cache.exists, reports[r].pc = "free",
                 reports' = [reports EXCEPT ![r] =
                     [pc |-> FirstStep(cache), obj |-> cache, awaited |-> TRUE]],
                 agent' = [pc |-> "wait", final |-> Final(cache)]
          PROVE  SlotStep(q)
      <3>1. CASE q = r
        BY <1>5, <2>1, <3>1 DEF SlotStep, Starts, Save, Active, TypeOK
      <3>2. CASE q # r
        BY <2>1, <3>2 DEF SlotStep, Kept, TypeOK
      <3> QED BY <3>1, <3>2
    <2> QED BY <1>2, <1>5, <2>1 DEF Save
  <1>6. CASE CreateRun \/ Informer \/ Resync \/ ReportMetrics \/ Argo \/ Advance \/ UNCHANGED vars
    BY <1>2, <1>6 DEF CreateRun, CreateRunWorkflow, CreateRunRow, Informer, Resync,
                      ReportMetrics, Argo, Advance, vars
  <1>7. CASE RequestStep \/ RetryRunRead \/ RetryStep \/ TerminateRunRow \/ DeleteRunWorkflow
    BY <1>2, <1>7 DEF RequestStep, TerminateWorkflow, DeleteRunRow, RetryRunRead, RetryStep,
                      RetryGet, RetryPut, RetryRunRow, TerminateRunRow, DeleteRunWorkflow
  <1>8. CASE CreateRunFails \/ MetricsFail \/ RequestFails \/ DeleteRunFails
    BY <1>2, <1>8 DEF CreateRunFails, MetricsFail, RequestFails, DeleteRunFails
  <1> QED BY <1>1, <1>3, <1>4, <1>5, <1>6, <1>7, <1>8 DEF Next, AgentStep, Failure

-----------------------------------------------------------------------------
(* The row of a run that CreateRun makes is first written by CreateRun.    *)

RowComesLast ==
    /\ create # "done" => ~row.exists /\ written = {}
    /\ \A r \in Reports : reports[r].pc # "insert"

LEMMA InitRowComesLast == Init => RowComesLast
  BY DEF Init, RowComesLast, NoRow, FreeReport

LEMMA NextRowComesLast ==
    ASSUME ~FromJob, TypeOK, RowComesLast, [Next]_vars
    PROVE  RowComesLast'
  <1>1. ASSUME NEW r \in Reports PROVE reports'[r].pc # "insert"
    <2>ty. reports[r] \in ReportType
      BY DEF TypeOK
    <2>a. ASSUME NEW o, Return(r, o) PROVE reports'[r].pc # "insert"
      BY <2>a, ReturnFrees DEF FreeReport
    <2>b. ASSUME NEW pc, Goto(r, pc), pc # "insert" PROVE reports'[r].pc # "insert"
      BY <2>b, GotoGoes
    <2>1. SlotStep(r)
      BY EverySlotStep
    <2>2. CASE Kept(r) \/ GivenUp(r)
      BY <2>2, <2>ty DEF Kept, GivenUp, RowComesLast, ReportType
    <2>3. CASE Freed(r)
      BY <2>3 DEF Freed, FreeReport
    <2>4. CASE GoesOn(r)
      <3>1. CASE ReadRow(r)
        <4>1. \/ \E o \in {"transient"} : Return(r, o)
              \/ \E pc \in {"write", "orphan"} : Goto(r, pc)
          BY <3>1 DEF ReadRow
        <4> QED BY <2>a, <2>b, <4>1
      <3>2. CASE ~ReadRow(r)
        <4>1. \/ \E o \in {"ok", "transient", "permanent"} : Return(r, o)
              \/ \E pc \in {"verify", "read", "check", "label", "tasks"} : Goto(r, pc)
          BY <2>4, <3>2
             DEF GoesOn, ReportStep, Abandon, Collect, VerifyVersion, WriteRow, InsertRow,
                 CollectOrphan, CheckRow, AddLabel, ReportTasks, AfterStore
        <4> QED BY <2>a, <2>b, <4>1
      <3> QED BY <3>1, <3>2
    <2>5. CASE Starts(r)
      BY <2>5 DEF Starts, FirstStep
    <2> QED BY <2>1, <2>2, <2>3, <2>4, <2>5 DEF SlotStep
  <1>2. create' # "done" => create # "done"
    BY CreateStep DEF CreateRunWorkflow, CreateRunRow, CreateRunFails
  <1>3. ASSUME create' # "done" PROVE ~row'.exists /\ written' = {}
    BY <1>2, <1>3, RowStep
       DEF RowComesLast, CreateRunRow, TerminateRunRow, DeleteRunRow, RetryRunRow, WriteRow,
           InsertRow, NoRow
  <1> QED BY <1>1, <1>3 DEF RowComesLast

(* A run that CreateRun made and DeleteRun deleted does not come back: no  *)
(* report that is under way, and no retry, inserts its row again           *)
(* (UpdateRun of the run store changes the row only if it is there).  The  *)
(* runs of a recurring run are excepted: a report inserts those.           *)
THEOREM DeletedStaysDeletedAlways ==
    ASSUME ~FromJob
    PROVE  Spec => DeletedStaysDeleted
  <1> DEFINE Deleted == written # {} /\ ~row.exists
  <1>1. TypeOK /\ RowComesLast /\ [Next]_vars => (Deleted => ~row'.exists)
    <2> SUFFICES ASSUME TypeOK, RowComesLast, [Next]_vars, Deleted PROVE ~row'.exists
      OBVIOUS
    <2>1. create = "done"
      BY DEF RowComesLast
    <2> QED
      BY <2>1, RowStep
         DEF RowComesLast, CreateRunRow, TerminateRunRow, DeleteRunRow, RetryRunRow, WriteRow,
             InsertRow, NoRow
  <1>2. TypeOK /\ RowComesLast /\ [Next]_vars => TypeOK' /\ RowComesLast'
    BY NextType, NextRowComesLast
  <1>3. Init => TypeOK /\ RowComesLast
    BY InitType, InitRowComesLast
  <1>4. TypeOK /\ RowComesLast /\ [Next]_vars => [Deleted => ~row'.exists]_vars
    BY <1>1
  <1> QED BY <1>2, <1>3, <1>4, PTL DEF Spec, DeletedStaysDeleted

-----------------------------------------------------------------------------
(* Between the workflow and the row nobody but Argo touches the workflow:  *)
(* reports find no row and stop, requests need one.                        *)

InFlight ==
    /\ wf.exists /\ ~wf.persisted
    /\ now - wf.created <= CreateTime
    /\ retry.pc = "idle" /\ request = "idle"
    /\ cache.exists => ~cache.persisted /\ cache.created = wf.created
    /\ \A r \in Reports : /\ reports[r].pc \in {"free", "verify", "read"}
                          /\ reports[r].pc # "free" => reports[r].obj.created = wf.created

Nothing ==
    /\ ~wf.exists /\ ~cache.exists
    /\ retry.pc = "idle" /\ request = "idle"
    /\ \A r \in Reports : reports[r].pc = "free"

InFlightInv ==
    /\ create = "workflow" => Nothing
    /\ create = "row" => InFlight

LEMMA InitInFlight == Init => InFlightInv
  BY DEF Init, InFlightInv, Nothing, NoWorkflow, FreeReport

(* Until CreateRun has made the workflow there is nothing to work on.      *)
LEMMA NothingStays ==
    ASSUME TypeOK, RowComesLast, create = "workflow", Nothing, [Next]_vars, create' = create
    PROVE  Nothing'
  <1>1. ~row.exists
    BY DEF RowComesLast
  <1>2. ASSUME NEW r \in Reports PROVE reports'[r].pc = "free"
    <2>1. CASE Kept(r) \/ GivenUp(r)
      BY <2>1 DEF Kept, GivenUp, Nothing, TypeOK, ReportType
    <2>2. ~Freed(r) /\ ~GoesOn(r) /\ ~Starts(r)
      BY DEF Nothing, Active, Freed, GoesOn, Starts
    <2> QED BY <2>1, <2>2, EverySlotStep DEF SlotStep
  <1>3. ASSUME NEW r \in Reports PROVE ~ReportStep(r)
    BY OneReportStep DEF Nothing, Active
  <1>4. ~wf'.exists /\ ~cache'.exists /\ retry'.pc = "idle" /\ request' = "idle"
    <2>1. CASE CreateRun \/ Informer \/ Resync \/ AgentStep \/ Argo \/ Advance \/ UNCHANGED vars
      BY <2>1 DEF CreateRun, CreateRunWorkflow, CreateRunRow, Informer, Resync, AgentStep, Save,
                  ReportMetrics, Argo, Advance, vars, Nothing, clusterVars, agentVars, userVars
    <2>2. CASE RequestStep \/ RetryRunRead \/ RetryStep \/ TerminateRunRow \/ DeleteRunWorkflow
      BY <1>1, <2>2 DEF RequestStep, TerminateWorkflow, DeleteRunRow, RetryRunRead, RetryStep,
                  RetryGet, RetryPut, RetryRunRow, TerminateRunRow, DeleteRunWorkflow, Nothing
    <2>3. CASE Failure
      BY <1>1, <2>3 DEF Failure, CreateRunFails, AgentTimeout, MetricsFail, RequestFails,
                  DeleteRunFails, AgentRestart, ReportFails, Nothing, clusterVars, agentVars, userVars
    <2> QED BY <1>3, <2>1, <2>2, <2>3 DEF Next
  <1> QED BY <1>2, <1>4 DEF Nothing

(* A report of the workflow in flight finds no row, and the workflow       *)
(* within its grace period: it goes no further than to look for the row.   *)
LEMMA InFlightReport ==
    ASSUME ~FromJob, CreateTime < Grace, TypeOK, RowComesLast, create = "row", InFlight,
           NEW r \in Reports, ReportStep(r)
    PROVE  /\ Abandon(r) \/ VerifyVersion(r) \/ ReadRow(r)
           /\ reports'[r].pc \in {"free", "read"}
  <1>1. ~row.exists
    BY DEF RowComesLast
  <1>2. reports[r].pc \in {"free", "verify", "read"}
    BY DEF InFlight
  <1>3. Active(r)
    BY OneReportStep
  <1>4. Abandon(r) \/ VerifyVersion(r) \/ ReadRow(r)
    BY <1>2, <1>3 DEF Active, ReportStep, Collect, WriteRow, InsertRow, CollectOrphan, CheckRow,
                      AddLabel, ReportTasks
  <1>5. WithinGrace(reports[r].obj)
    <2>1. reports[r].obj.created = wf.created
      BY <1>3 DEF InFlight, Active
    <2>2. now \in Nat /\ wf.created \in Nat /\ CreateTime \in Nat /\ Grace \in Nat
      BY ConstantsAssumption DEF TypeOK, WorkflowType
    <2> QED BY <2>1, <2>2 DEF InFlight, WithinGrace
  <1>6. Return(r, "transient") \/ Goto(r, "read")
    BY <1>1, <1>4, <1>5 DEF Abandon, VerifyVersion, ReadRow
  <1>7. CASE Return(r, "transient")
    BY <1>4, <1>7, ReturnFrees DEF FreeReport
  <1>8. CASE Goto(r, "read")
    BY <1>4, <1>8, GotoGoes
  <1> QED BY <1>6, <1>7, <1>8

(* While CreateRun is between the workflow and the row the workflow stays. *)
LEMMA InFlightStays ==
    ASSUME ~FromJob, CreateTime < Grace, TypeOK, RowComesLast, create = "row", InFlight,
           [Next]_vars, create' = create
    PROVE  InFlight'
  <1>1. ~row.exists
    BY DEF RowComesLast
  <1>2. ~CreateRun /\ ~CreateRunFails
    BY DEF CreateRun, CreateRunWorkflow, CreateRunRow, CreateRunFails
  <1>3. /\ ~RequestStep /\ ~RetryRunRead /\ ~RetryStep
        /\ ~TerminateRunRow /\ ~DeleteRunWorkflow
        /\ ~RequestFails /\ ~DeleteRunFails
    BY <1>1 DEF InFlight, RequestStep, TerminateWorkflow, DeleteRunRow, RetryRunRead, RetryStep,
                RetryGet, RetryPut, RetryRunRow, TerminateRunRow, DeleteRunWorkflow, RequestFails,
                DeleteRunFails
  <1>4. retry' = retry /\ request' = request
    <2>1. ASSUME NEW r \in Reports, ReportStep(r) PROVE retry' = retry /\ request' = request
      BY <2>1, InFlightReport DEF Abandon, VerifyVersion, ReadRow, userVars
    <2>2. CASE Informer \/ Resync \/ AgentStep \/ Argo \/ Advance \/ UNCHANGED vars
      BY <2>2 DEF Informer, Resync, AgentStep, Save, ReportMetrics, Argo, Advance, vars, userVars
    <2>3. CASE Failure
      BY <1>2, <1>3, <2>3
         DEF Failure, AgentTimeout, MetricsFail, AgentRestart, ReportFails, userVars
    <2> QED BY <1>2, <1>3, <2>1, <2>2, <2>3 DEF Next
  <1>5. UNCHANGED wf \/ Argo
    <2>1. ASSUME NEW r \in Reports, ReportStep(r) PROVE UNCHANGED wf
      BY <2>1, InFlightReport DEF Abandon, VerifyVersion, ReadRow, clusterVars
    <2>2. CASE Informer \/ Resync \/ AgentStep \/ Advance \/ UNCHANGED vars
      BY <2>2 DEF Informer, Resync, AgentStep, Save, ReportMetrics, Advance, vars, clusterVars
    <2>3. CASE Failure
      BY <1>2, <1>3, <2>3
         DEF Failure, AgentTimeout, MetricsFail, AgentRestart, ReportFails, clusterVars
    <2> QED BY <1>2, <1>3, <2>1, <2>2, <2>3 DEF Next
  <1>6. wf'.exists = wf.exists /\ wf'.persisted = wf.persisted /\ wf'.created = wf.created
    <2>1. CASE Argo
      BY <2>1 DEF Argo, Put, TypeOK, WorkflowType
    <2> QED BY <1>5, <2>1
  <1>7. now' - wf'.created <= CreateTime
    <2>1. now \in Nat /\ wf.created \in Nat /\ CreateTime \in Nat
      BY ConstantsAssumption DEF TypeOK, WorkflowType
    <2>2. UNCHANGED now \/ Advance
      <3>1. ASSUME NEW r \in Reports, ReportStep(r) PROVE UNCHANGED now
        BY <3>1, InFlightReport DEF Abandon, VerifyVersion, ReadRow
      <3>2. CASE Informer \/ Resync \/ AgentStep \/ Argo \/ UNCHANGED vars
        BY <3>2 DEF Informer, Resync, AgentStep, Save, ReportMetrics, Argo, vars
      <3>3. CASE Failure
        BY <1>2, <1>3, <3>3 DEF Failure, AgentTimeout, MetricsFail, AgentRestart, ReportFails
      <3> QED BY <1>2, <1>3, <3>1, <3>2, <3>3 DEF Next
    <2>3. CASE UNCHANGED now
      BY <1>6, <2>3 DEF InFlight
    <2>4. CASE Advance
      BY <1>6, <2>1, <2>4 DEF Advance
    <2> QED BY <2>2, <2>3, <2>4
  <1>8. cache' = cache \/ cache' = wf
    <2>1. ASSUME NEW r \in Reports, ReportStep(r) PROVE cache' = cache
      BY <2>1, InFlightReport DEF Abandon, VerifyVersion, ReadRow
    <2>2. CASE Informer \/ Resync \/ AgentStep \/ Argo \/ Advance \/ UNCHANGED vars
      BY <2>2 DEF Informer, Resync, AgentStep, Save, ReportMetrics, Argo, Advance, vars, agentVars
    <2>3. CASE Failure
      BY <1>2, <1>3, <2>3 DEF Failure, AgentTimeout, MetricsFail, AgentRestart, ReportFails
    <2> QED BY <1>2, <1>3, <2>1, <2>2, <2>3 DEF Next
  <1>9. cache'.exists => ~cache'.persisted /\ cache'.created = wf'.created
    BY <1>6, <1>8 DEF InFlight
  <1>10. ASSUME NEW r \in Reports
         PROVE  /\ reports'[r].pc \in {"free", "verify", "read"}
                /\ reports'[r].pc # "free" => reports'[r].obj.created = wf'.created
    <2>ty. reports[r] \in ReportType
      BY DEF TypeOK
    <2>old. /\ reports[r].pc \in {"free", "verify", "read"}
            /\ reports[r].pc # "free" => reports[r].obj.created = wf.created
      BY DEF InFlight
    <2>1. CASE Kept(r)
      BY <1>6, <2>1, <2>old DEF Kept
    <2>2. CASE GivenUp(r)
      <3>1. reports'[r].pc = reports[r].pc /\ reports'[r].obj = reports[r].obj
        BY <2>2, <2>ty DEF GivenUp, ReportType
      <3> QED BY <1>6, <2>old, <3>1
    <2>3. CASE Freed(r)
      BY <2>3 DEF Freed, FreeReport
    <2>4. CASE GoesOn(r)
      <3>1. reports'[r].pc \in {"free", "read"}
        BY <2>4, InFlightReport DEF GoesOn
      <3>2. reports'[r].obj = reports[r].obj /\ reports[r].pc # "free"
        BY <2>4, <2>ty DEF GoesOn, Active, ReportType
      <3> QED BY <1>6, <2>old, <3>1, <3>2
    <2>5. CASE Starts(r)
      BY <1>6, <2>5 DEF Starts, FirstStep, InFlight
    <2> QED BY <2>1, <2>2, <2>3, <2>4, <2>5, EverySlotStep DEF SlotStep
  <1> QED BY <1>4, <1>6, <1>7, <1>9, <1>10 DEF InFlight

LEMMA NextInFlight ==
    ASSUME ~FromJob, CreateTime < Grace, TypeOK, RowComesLast, InFlightInv, [Next]_vars
    PROVE  InFlightInv'
  <1>1. CASE create' = create
    BY <1>1, NothingStays, InFlightStays DEF InFlightInv
  <1>2. CASE CreateRunWorkflow
    <2> DEFINE w == [NoWorkflow EXCEPT !.exists = TRUE, !.created = now]
    <2>1. w.exists /\ ~w.persisted /\ w.created = now /\ w \in WorkflowType
      BY ObjectTypes DEF TypeOK, WorkflowType, NoWorkflow
    <2>2. Nothing
      BY <1>2 DEF CreateRunWorkflow, InFlightInv
    <2>3. Put(w) /\ create' = "row" /\ UNCHANGED <<now, cache, reports, retry, request>>
      BY <1>2 DEF CreateRunWorkflow, agentVars
    <2> HIDE DEF w
    <2>4. wf'.exists /\ ~wf'.persisted /\ wf'.created = now
      BY <2>1, <2>3 DEF Put, WorkflowType
    <2>5. now' - wf'.created <= CreateTime
      BY <2>3, <2>4, ConstantsAssumption DEF TypeOK
    <2> QED BY <2>2, <2>3, <2>4, <2>5 DEF InFlightInv, InFlight, Nothing
  <1>3. CASE CreateRunRow \/ CreateRunFails
    BY <1>3 DEF CreateRunRow, CreateRunFails, InFlightInv
  <1> QED BY <1>1, <1>2, <1>3, CreateStep

(* When CreateRun takes less than the grace period between the workflow    *)
(* and the row, no report of the agent, however early, late or repeated,   *)
(* and no request collects the workflow of a run that is being created     *)
(* (the grace period in ReportWorkflowResource).                           *)
THEOREM InFlightNotCollectedAlways ==
    ASSUME ~FromJob, CreateTime < Grace
    PROVE  Spec => []InFlightNotCollected
  <1> DEFINE Inv == TypeOK /\ RowComesLast /\ InFlightInv
  <1>1. Init => Inv
    BY InitType, InitRowComesLast, InitInFlight
  <1>2. Inv /\ [Next]_vars => Inv'
    BY NextType, NextRowComesLast, NextInFlight
  <1>3. Inv => InFlightNotCollected
    BY DEF InFlightInv, InFlight, InFlightNotCollected
  <1> QED BY <1>1, <1>2, <1>3, PTL DEF Spec

-----------------------------------------------------------------------------
(* One report at a time, and while no run is retried the workflow, the     *)
(* informer's copy, the report and the row are each at most one step       *)
(* behind: when one is final, those in front of it are final in the same   *)
(* way.                                                                    *)

OneReport ==
    \A r \in Reports : Active(r) => /\ agent.pc = "wait" /\ reports[r].awaited
                                    /\ reports[r].obj.exists
                                    /\ \A s \in Reports : Active(s) => s = r

EndsAs(w, phase) == w.exists => w.phase = phase

EndsInOrder ==
    /\ retry.pc = "idle"
    /\ create = "workflow" => /\ ~wf.exists /\ ~cache.exists /\ ~row.exists
                              /\ \A r \in Reports : ~Active(r)
    /\ cache.exists /\ Final(cache) => EndsAs(wf, cache.phase)
    /\ \A r \in Reports : Active(r) /\ Final(reports[r].obj) =>
           EndsAs(wf, reports[r].obj.phase) /\ EndsAs(cache, reports[r].obj.phase)
    /\ row.exists /\ row.state \in FinalStates =>
           \E phase \in FinalPhases :
               /\ ToV2(phase) = row.state
               /\ EndsAs(wf, phase) /\ EndsAs(cache, phase)
               /\ \A r \in Reports : Active(r) => reports[r].obj.phase = phase

OnceInv == OneReport /\ (retries = 0 => EndsInOrder)

(* The agent waits for the answer of each report.                          *)
AgentWaits == MayFail \cap {"timeout", "restart"} = {}

LEMMA NoGivingUp ==
    ASSUME AgentWaits
    PROVE  ~AgentTimeout /\ ~AgentRestart /\ \A q \in Reports : ~GivenUp(q)
  BY DEF AgentWaits, AgentTimeout, AgentRestart, GivenUp, Fail

LEMMA StartsAlone ==
    ASSUME TypeOK, NEW q \in Reports, Starts(q), NEW s \in Reports, s # q
    PROVE  Kept(s)
  <1>1. reports'[q] # reports[q]
    BY DEF Starts, FirstStep, Active
  <1>2. CASE UNCHANGED reports
    BY <1>1, <1>2
  <1>3. ASSUME NEW r \in Reports,
               reports' = [reports EXCEPT ![r] =
                   [pc |-> FirstStep(cache), obj |-> cache, awaited |-> TRUE]]
        PROVE  Kept(s)
    BY <1>1, <1>3 DEF Kept, TypeOK
  <1> QED BY <1>2, <1>3 DEF Starts, Save

(* A report that goes on or stays is the report of the same workflow.      *)
LEMMA SameReport ==
    ASSUME TypeOK, NEW q \in Reports, Kept(q) \/ GoesOn(q)
    PROVE  /\ reports'[q].obj = reports[q].obj
           /\ reports'[q].awaited = reports[q].awaited
           /\ reports'[q].pc # "free" => Active(q)
  BY DEF TypeOK, Kept, GoesOn, Active, ReportType

(* The agent leaves its waiting for a report only when that report returns. *)
LEMMA AgentMoves ==
    ASSUME AgentWaits, TypeOK, [Next]_vars
    PROVE  \/ agent' = agent
           \/ agent.pc # "wait"
           \/ \E q \in Reports : Active(q) /\ reports'[q] = FreeReport
  <1>1. ASSUME NEW r \in Reports, ReportStep(r) \/ ReportFails(r)
        PROVE  agent' = agent \/ (Active(r) /\ reports'[r] = FreeReport)
    <2>1. Active(r)
      BY <1>1, OneReportStep DEF ReportFails, Active
    <2>2. ASSUME NEW o, Return(r, o) PROVE reports'[r] = FreeReport
      BY <2>2, ReturnFrees
    <2>3. ASSUME NEW pc, Goto(r, pc) PROVE agent' = agent
      BY <2>3 DEF Goto
    <2> QED BY <1>1, <2>1, <2>2, <2>3, OneReportStep DEF ReportFails
  <1>2. CASE CreateRun \/ Informer \/ Resync \/ AgentStep \/ Argo \/ Advance \/ UNCHANGED vars
    BY <1>2 DEF CreateRun, CreateRunWorkflow, CreateRunRow, Informer, Resync, AgentStep, Save,
                ReportMetrics, Argo, Advance, vars, agentVars
  <1>3. CASE RequestStep \/ RetryRunRead \/ RetryStep \/ TerminateRunRow \/ DeleteRunWorkflow
    BY <1>3 DEF RequestStep, TerminateWorkflow, DeleteRunRow, RetryRunRead, RetryStep, RetryGet,
                RetryPut, RetryRunRow, TerminateRunRow, DeleteRunWorkflow, agentVars
  <1>4. CASE CreateRunFails \/ MetricsFail \/ RequestFails \/ DeleteRunFails
    BY <1>4 DEF CreateRunFails, MetricsFail, RequestFails, DeleteRunFails, agentVars
  <1> QED BY <1>1, <1>2, <1>3, <1>4, NoGivingUp DEF Next, Failure

LEMMA NextOneReport ==
    ASSUME AgentWaits, TypeOK, OneReport, [Next]_vars
    PROVE  OneReport'
  <1> SUFFICES ASSUME NEW r \in Reports, reports'[r].pc # "free"
               PROVE  /\ agent'.pc = "wait" /\ reports'[r].awaited
                      /\ reports'[r].obj.exists
                      /\ \A s \in Reports : reports'[s].pc # "free" => s = r
    BY DEF OneReport, Active
  <1>1. CASE Kept(r) \/ GoesOn(r)
    <2>1. /\ Active(r) /\ reports'[r].obj = reports[r].obj
          /\ reports'[r].awaited = reports[r].awaited
      BY <1>1, SameReport
    <2>2. agent.pc = "wait" /\ \A s \in Reports : Active(s) => s = r
      BY <2>1 DEF OneReport
    <2>3. agent' = agent
      BY <2>2, AgentMoves DEF FreeReport
    <2>4. ASSUME NEW s \in Reports, s # r PROVE reports'[s].pc = "free"
      BY <2>2, <2>4, EverySlotStep, NoGivingUp
         DEF SlotStep, Kept, Freed, GoesOn, Starts, Active
    <2> QED BY <2>1, <2>2, <2>3, <2>4 DEF OneReport
  <1>2. CASE Starts(r)
    <2>1. \A s \in Reports : ~Active(s)
      BY <1>2 DEF Starts, OneReport
    <2>2. ASSUME NEW s \in Reports, s # r PROVE reports'[s].pc = "free"
      BY <1>2, <2>1, <2>2, StartsAlone DEF Kept, Active
    <2> QED BY <1>2, <2>2 DEF Starts
  <1>3. CASE Freed(r)
    BY <1>3 DEF Freed, FreeReport
  <1> QED BY <1>1, <1>2, <1>3, EverySlotStep, NoGivingUp DEF SlotStep

(* While no run is retried the phase of a final workflow does not change.  *)
LEMMA WorkflowMoves ==
    ASSUME TypeOK, retry.pc = "idle", [Next]_vars
    PROVE  \/ wf' = wf \/ ~wf'.exists \/ CreateRunWorkflow
           \/ wf.exists /\ (Final(wf) => wf'.phase = wf.phase)
  <1>1. ASSUME NEW r \in Reports, ReportStep(r)
        PROVE  wf' = wf \/ ~wf'.exists \/ (wf.exists /\ wf'.phase = wf.phase)
    <2>1. CASE AddLabel(r)
      BY <2>1 DEF AddLabel, Put, clusterVars, TypeOK, WorkflowType
    <2>2. CASE Collect(r) \/ CollectOrphan(r)
      BY <2>2 DEF Collect, CollectOrphan, DeleteWorkflow, NoWorkflow, clusterVars
    <2>3. CASE ~AddLabel(r) /\ ~Collect(r) /\ ~CollectOrphan(r)
      BY <1>1, <2>3 DEF ReportStep, Abandon, VerifyVersion, ReadRow, WriteRow, InsertRow,
                        CheckRow, ReportTasks, clusterVars
    <2> QED BY <2>1, <2>2, <2>3
  <1>2. CASE CreateRun \/ Informer \/ Resync \/ AgentStep \/ Advance \/ UNCHANGED vars
    BY <1>2 DEF CreateRun, CreateRunRow, Informer, Resync, AgentStep, Save, ReportMetrics,
                Advance, vars, clusterVars
  <1>3. CASE RequestStep \/ RetryRunRead \/ TerminateRunRow \/ DeleteRunWorkflow
    <2>1. CASE TerminateWorkflow
      BY <2>1 DEF TerminateWorkflow, Put, clusterVars, TypeOK, WorkflowType
    <2>2. CASE ~TerminateWorkflow
      BY <1>3, <2>2 DEF RequestStep, DeleteRunRow, RetryRunRead, TerminateRunRow,
                        DeleteRunWorkflow, DeleteWorkflow, NoWorkflow, clusterVars
    <2> QED BY <2>1, <2>2
  <1>4. ~RetryStep
    BY DEF RetryStep, RetryGet, RetryPut, RetryRunRow
  <1>5. CASE Argo
    BY <1>5 DEF Argo, Final, FinalPhases
  <1>6. CASE Failure
    BY <1>6 DEF Failure, CreateRunFails, AgentTimeout, MetricsFail, RequestFails,
           DeleteRunFails, AgentRestart,
                ReportFails, clusterVars
  <1> QED BY <1>1, <1>2, <1>3, <1>4, <1>5, <1>6 DEF Next

(* The informer's copy is renewed in a step of its own.                    *)
LEMMA CacheMoves ==
    ASSUME AgentWaits, [Next]_vars
    PROVE  cache' = cache \/ (cache' = wf /\ UNCHANGED <<wf, row, reports, create>>)
  <1>1. ASSUME NEW r \in Reports, ReportStep(r) PROVE cache' = cache
    BY <1>1 DEF ReportStep, Abandon, Collect, VerifyVersion, ReadRow, WriteRow, InsertRow,
                CollectOrphan, CheckRow, AddLabel, ReportTasks
  <1>2. CASE CreateRun \/ Resync \/ AgentStep \/ Argo \/ Advance \/ UNCHANGED vars
    BY <1>2 DEF CreateRun, CreateRunWorkflow, CreateRunRow, Resync, AgentStep, Save,
                ReportMetrics, Argo, Advance, vars, agentVars
  <1>3. CASE RequestStep \/ RetryRunRead \/ RetryStep \/ TerminateRunRow \/ DeleteRunWorkflow
    BY <1>3 DEF RequestStep, TerminateWorkflow, DeleteRunRow, RetryRunRead, RetryStep, RetryGet,
                RetryPut, RetryRunRow, TerminateRunRow, DeleteRunWorkflow, agentVars
  <1>4. CASE Failure
    BY <1>4, NoGivingUp
       DEF Failure, CreateRunFails, MetricsFail, RequestFails, DeleteRunFails,
           ReportFails, agentVars
  <1>5. CASE Informer
    BY <1>5 DEF Informer, clusterVars, dbVars, userVars
  <1> QED BY <1>1, <1>2, <1>3, <1>4, <1>5 DEF Next

(* RetryRun is counted, never forgotten.                                   *)
LEMMA RetriesGrow ==
    ASSUME TypeOK, [Next]_vars, retries' = 0
    PROVE  retries = 0
  <1>1. ASSUME NEW r \in Reports, ReportStep(r) PROVE retries' = retries
    BY <1>1 DEF ReportStep, Abandon, Collect, VerifyVersion, ReadRow, WriteRow, InsertRow,
                CollectOrphan, CheckRow, AddLabel, ReportTasks, userVars
  <1>2. CASE CreateRun \/ Informer \/ Resync \/ AgentStep \/ Argo \/ Advance \/ UNCHANGED vars
    BY <1>2 DEF CreateRun, CreateRunWorkflow, CreateRunRow, Informer, Resync, AgentStep, Save,
                ReportMetrics, Argo, Advance, vars, userVars
  <1>3. CASE RequestStep \/ TerminateRunRow \/ DeleteRunWorkflow \/ RetryStep
    BY <1>3 DEF RequestStep, TerminateWorkflow, DeleteRunRow, TerminateRunRow,
                DeleteRunWorkflow, RetryStep, RetryGet, RetryPut, RetryRunRow
  <1>4. CASE RetryRunRead
    BY <1>4 DEF RetryRunRead, TypeOK
  <1>5. CASE Failure
    BY <1>5 DEF Failure, CreateRunFails, AgentTimeout, MetricsFail, RequestFails,
           DeleteRunFails, AgentRestart,
                ReportFails, userVars
  <1> QED BY <1>1, <1>2, <1>3, <1>4, <1>5 DEF Next

LEMMA RetryMoves ==
    ASSUME TypeOK, retry.pc = "idle", [Next]_vars, retries' = 0
    PROVE  retry'.pc = "idle"
  <1>1. retries \in Nat
    BY DEF TypeOK
  <1>2. ASSUME NEW r \in Reports, ReportStep(r) PROVE retry' = retry
    BY <1>2 DEF ReportStep, Abandon, Collect, VerifyVersion, ReadRow, WriteRow, InsertRow,
                CollectOrphan, CheckRow, AddLabel, ReportTasks, userVars
  <1>3. CASE CreateRun \/ Informer \/ Resync \/ AgentStep \/ Argo \/ Advance \/ UNCHANGED vars
    <2>1. retry' = retry
      BY <1>3 DEF CreateRun, CreateRunWorkflow, CreateRunRow, Informer, Resync, AgentStep, Save,
                  ReportMetrics, Argo, Advance, vars, userVars
    <2> QED BY <2>1
  <1>4. CASE RequestStep \/ TerminateRunRow \/ DeleteRunWorkflow
    <2>1. retry' = retry
      BY <1>4 DEF RequestStep, TerminateWorkflow, DeleteRunRow, TerminateRunRow,
                  DeleteRunWorkflow
    <2> QED BY <2>1
  <1>5. ~RetryStep
    BY DEF RetryStep, RetryGet, RetryPut, RetryRunRow
  <1>6. ~RetryRunRead
    BY <1>1 DEF RetryRunRead
  <1>7. CASE RequestFails
    BY <1>7 DEF RequestFails
  <1>8. CASE Failure /\ ~RequestFails
    <2>1. retry' = retry
      BY <1>8 DEF Failure, CreateRunFails, AgentTimeout, MetricsFail, DeleteRunFails,
                  AgentRestart, ReportFails, userVars
    <2> QED BY <2>1
  <1> QED BY <1>2, <1>3, <1>4, <1>5, <1>6, <1>7, <1>8 DEF Next

(* A final state in the row is the final phase of the workflow reported.   *)
LEMMA FinalReported ==
    ASSUME NEW w \in WorkflowType, RowOf(w).state \in FinalStates
    PROVE  Final(w) /\ RowOf(w).state = ToV2(w.phase)
  BY DEF RowOf, ReportedState, ToV2, WorkflowType, Final, Phases, FinalPhases, FinalStates

LEMMA EndsBeforeWorkflow ==
    ASSUME AgentWaits, TypeOK, EndsInOrder, create = "workflow", [Next]_vars, retries' = 0
    PROVE  EndsInOrder'
  <1>1. ~wf.exists /\ ~cache.exists /\ ~row.exists /\ retry.pc = "idle"
    BY DEF EndsInOrder
  <1>2. \A r \in Reports : ~Active(r)
    BY DEF EndsInOrder
  <1>3. \A r \in Reports : reports'[r].pc = "free"
    BY <1>1, <1>2, EverySlotStep, NoGivingUp
       DEF SlotStep, Kept, Freed, GoesOn, Starts, Active
  <1>4. ~row'.exists
    BY <1>1, <1>2, RowStep
       DEF CreateRunRow, TerminateRunRow, DeleteRunRow, RetryRunRow, WriteRow, InsertRow, NoRow,
           Active
  <1>5. ~cache'.exists
    BY <1>1, CacheMoves
  <1>6. create' = "workflow" => ~wf'.exists
    BY <1>1, WorkflowMoves DEF CreateRunWorkflow
  <1>7. retry'.pc = "idle"
    BY <1>1, RetryMoves
  <1> QED BY <1>3, <1>4, <1>5, <1>6, <1>7 DEF EndsInOrder, Active

LEMMA EndsAfterWorkflow ==
    ASSUME AgentWaits, TypeOK, OneReport, EndsInOrder, create # "workflow", [Next]_vars,
           retries' = 0
    PROVE  EndsInOrder'
  <1>idle. retry.pc = "idle"
    BY DEF EndsInOrder
  <1>1. retry'.pc = "idle"
    BY <1>idle, RetryMoves
  <1>2. create' # "workflow"
    BY CreateStep DEF CreateRunWorkflow, CreateRunRow, CreateRunFails
  <1>3. ASSUME NEW p \in FinalPhases, EndsAs(wf, p) PROVE EndsAs(wf', p)
    BY <1>idle, <1>3, WorkflowMoves DEF CreateRunWorkflow, EndsAs, Final
  <1>4. ASSUME NEW p \in FinalPhases, EndsAs(wf, p), EndsAs(cache, p) PROVE EndsAs(cache', p)
    BY <1>4, CacheMoves
  <1>5. ASSUME cache'.exists, Final(cache') PROVE EndsAs(wf', cache'.phase)
    <2>1. CASE cache' = cache
      BY <1>3, <1>5, <2>1 DEF EndsInOrder, Final
    <2>2. CASE cache' = wf /\ wf' = wf
      BY <2>2 DEF EndsAs
    <2> QED BY <2>1, <2>2, CacheMoves
  <1>6. ASSUME NEW r \in Reports, reports'[r].pc # "free", Final(reports'[r].obj)
        PROVE  EndsAs(wf', reports'[r].obj.phase) /\ EndsAs(cache', reports'[r].obj.phase)
    <2>1. CASE Kept(r) \/ GoesOn(r)
      <3>1. Active(r) /\ reports'[r].obj = reports[r].obj
        BY <1>6, <2>1, SameReport
      <3> QED BY <1>3, <1>4, <1>6, <3>1 DEF EndsInOrder, Final
    <2>2. CASE Starts(r)
      <3>1. reports'[r].obj = cache /\ cache.exists
        BY <2>2 DEF Starts
      <3>2. EndsAs(wf, cache.phase) /\ EndsAs(cache, cache.phase) /\ cache.phase \in FinalPhases
        BY <1>6, <3>1 DEF EndsInOrder, EndsAs, Final
      <3> QED BY <1>3, <1>4, <3>1, <3>2
    <2>3. CASE Freed(r)
      BY <1>6, <2>3 DEF Freed, FreeReport
    <2> QED BY <2>1, <2>2, <2>3, EverySlotStep, NoGivingUp DEF SlotStep
  <1> DEFINE Settled(p) ==
                 /\ EndsAs(wf, p) /\ EndsAs(cache, p)
                 /\ \A q \in Reports : Active(q) => reports[q].obj.phase = p
  <1>7. ASSUME NEW p \in FinalPhases, Settled(p) PROVE Settled(p)'
    <2>1. EndsAs(wf', p) /\ EndsAs(cache', p)
      BY <1>3, <1>4, <1>7
    <2>2. ASSUME NEW q \in Reports, reports'[q].pc # "free" PROVE reports'[q].obj.phase = p
      <3>1. CASE Kept(q) \/ GoesOn(q)
        BY <1>7, <2>2, <3>1, SameReport
      <3>2. CASE Starts(q)
        BY <1>7, <3>2 DEF Starts, EndsAs
      <3>3. CASE Freed(q)
        BY <2>2, <3>3 DEF Freed, FreeReport
      <3> QED BY <3>1, <3>2, <3>3, EverySlotStep, NoGivingUp DEF SlotStep
    <2> QED BY <2>1, <2>2 DEF EndsAs, Active
  <1>8. ASSUME row'.exists, row'.state \in FinalStates
        PROVE  \E p \in FinalPhases : ToV2(p) = row'.state /\ Settled(p)'
    <2>1. CASE row' = row
      <3>1. PICK p \in FinalPhases : ToV2(p) = row.state /\ Settled(p)
        BY <1>8, <2>1 DEF EndsInOrder
      <3> HIDE DEF Settled
      <3> QED BY <1>7, <2>1, <3>1
    <2>2. ASSUME NEW r \in Reports, Active(r), row' = RowOf(reports[r].obj)
          PROVE  \E p \in FinalPhases : ToV2(p) = row'.state /\ Settled(p)'
      <3> DEFINE p == reports[r].obj.phase
      <3>1. reports[r].obj \in WorkflowType
        BY DEF TypeOK, ReportType
      <3>2. Final(reports[r].obj) /\ row'.state = ToV2(p)
        BY <1>8, <2>2, <3>1, FinalReported
      <3>3. Settled(p)
        BY <2>2, <3>2 DEF EndsInOrder, OneReport
      <3>4. p \in FinalPhases
        BY <3>2 DEF Final
      <3> HIDE DEF p, Settled
      <3> QED BY <1>7, <3>2, <3>3, <3>4
    <2>3. \/ row' = row
          \/ \E r \in Reports : Active(r) /\ row' = RowOf(reports[r].obj)
      BY <1>8, <1>idle, RowStep
         DEF CreateRunRow, TerminateRunRow, DeleteRunRow, RetryRunRow, WriteRow, InsertRow,
             StoreRow, NoRow, FinalStates, Active, TypeOK, RowType
    <2> QED BY <2>1, <2>2, <2>3
  <1> QED BY <1>1, <1>2, <1>5, <1>6, <1>8 DEF EndsInOrder, Active

LEMMA NextOnce ==
    ASSUME AgentWaits, TypeOK, OnceInv, [Next]_vars
    PROVE  OnceInv'
  <1>1. ASSUME retries' = 0 PROVE EndsInOrder'
    <2>1. retries = 0
      BY <1>1, RetriesGrow
    <2> QED BY <1>1, <2>1, EndsBeforeWorkflow, EndsAfterWorkflow DEF OnceInv
  <1> QED BY <1>1, NextOneReport DEF OnceInv

LEMMA InitOnce == Init => OnceInv
  BY DEF Init, OnceInv, OneReport, EndsInOrder, Active, NoWorkflow, NoRow, FreeReport

(* While no run is retried and the agent waits for each report, a final    *)
(* state in the row of a run is never replaced, whatever other requests    *)
(* come in between and whichever of the steps fail: TerminateRun refuses   *)
(* it, and a report can only store the same state again.                   *)
THEOREM FinalStaysAlways ==
    ASSUME AgentWaits
    PROVE  Spec => FinalStays
  <1> DEFINE Ended == retries = 0 /\ row.exists /\ row.state \in FinalStates
  <1>1. TypeOK /\ OnceInv /\ [Next]_vars =>
            (Ended /\ row'.exists => row'.state = row.state)
    <2> SUFFICES ASSUME TypeOK, OnceInv, [Next]_vars, Ended, row'.exists
                 PROVE  row'.state = row.state
      OBVIOUS
    <2>1. PICK p \in FinalPhases :
              /\ ToV2(p) = row.state
              /\ \A r \in Reports : Active(r) => reports[r].obj.phase = p
      BY DEF OnceInv, EndsInOrder
    <2>2. ASSUME NEW r \in Reports, Active(r), row' = RowOf(reports[r].obj)
          PROVE  row'.state = row.state
      <3>1. reports[r].obj \in WorkflowType /\ Final(reports[r].obj)
        BY <2>1, <2>2 DEF TypeOK, ReportType, Final
      <3> QED BY <2>1, <2>2, <3>1, RowOfType
    <2>3. \/ row' = row
          \/ \E r \in Reports : Active(r) /\ row' = RowOf(reports[r].obj)
      <3>1. retry.pc = "idle"
        BY DEF OnceInv, EndsInOrder
      <3> QED
        BY <3>1, RowStep
           DEF CreateRunRow, TerminateRunRow, DeleteRunRow, RetryRunRow, WriteRow, InsertRow,
               StoreRow, NoRow, FinalStates, Terminable, Active
    <2> QED BY <2>2, <2>3
  <1>2. TypeOK /\ OnceInv /\ [Next]_vars => TypeOK' /\ OnceInv'
    BY NextType, NextOnce
  <1>3. Init => TypeOK /\ OnceInv
    BY InitType, InitOnce
  <1>4. TypeOK /\ OnceInv /\ [Next]_vars =>
            [Ended /\ row'.exists => row'.state = row.state]_vars
    BY <1>1
  <1> QED BY <1>2, <1>3, <1>4, PTL DEF Spec, FinalStays

=============================================================================
