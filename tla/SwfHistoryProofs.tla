-------------------------- MODULE SwfHistoryProofs --------------------------
(***************************************************************************)
(* Proofs about SwfController, continued: which workflows were made for    *)
(* which index.  Nothing is recorded that was not made, and a schedule     *)
(* whose runs nobody deletes makes one workflow for an index, with         *)
(* embedded workflows whatever fails, through the API server as long as    *)
(* nothing fails.  The trigger times of the resource never go back, and    *)
(* the embedded workflows of a schedule that catches up are the runs of    *)
(* module RecurringRuns.                                                   *)
(***************************************************************************)
EXTENDS SwfControllerProofs, ScheduleProofs, SequenceTheorems, FiniteSetTheorems

-----------------------------------------------------------------------------
(* What was made stays made: the first part of the inductive invariant.    *)

Created(i) == \E w \in WfIds : wf[w].phase # "none" /\ wf[w].run = i

Phases == ActivePhases \cup {"none", "done", "deleted"}

\* Of the objects u and v of one identity, v is as old as u or younger.
Follows(v, u) ==
    /\ u.phase # "none" => v.phase # "none" /\ v.run = u.run /\ v.index = u.index
    /\ u.phase = "deleted" => v.phase = "deleted"

WfShape(w) == {"phase", "index", "run"} \subseteq DOMAIN w /\ w.phase \in Phases

CacheInv ==
    /\ \A w \in WfIds : WfShape(wf[w])
    /\ \A w \in WfIds : Follows(wf[w], wfCache[w])

\* The controller is told by a submission or by the cache that the workflow
\* it wants is there.
SubmittedWasCreated == ctl.submitted => Created(nextIndex(ctl.snap))

RowsWereCreated == \A i \in runs : Created(i)

CallShape(c) ==
    /\ {"pc", "index", "label", "awaited"} \subseteq DOMAIN c
    /\ c.pc \in {"free", "guard", "label", "create", "insert"}

CallsInv ==
    /\ \A c \in Calls : CallShape(calls[c])
    /\ \A c \in Calls : calls[c].pc = "insert" => Created(calls[c].index)

\* The worker waits for one call at a time, which it made for the index after
\* its copy of the resource.
AwaitedInv ==
    /\ \A c \in Calls :
          calls[c].awaited => ctl.pc = "wait" /\ calls[c].index = nextIndex(ctl.snap)
    /\ \A c, d \in Calls : calls[c].awaited /\ calls[d].awaited => c = d

HistoryInv ==
    /\ CacheInv
    /\ RecordedWasCreated
    /\ SubmittedWasCreated
    /\ RowsWereCreated
    /\ CallsInv
    /\ AwaitedInv

(* The second part: a history in which nothing was deleted and nothing     *)
(* failed has one call at a time, every workflow in the run table or about *)
(* to be, and calls past the guard are for the index that is next.         *)

Clean == NoneDeleted /\ crashes = 0

Unique == \A v, w \in EverCreated : wf[v].run = wf[w].run => v = w

LabelsAgree == \A w \in EverCreated : wf[w].index = wf[w].run

EmbeddedInv ==
    /\ crashes \in Nat
    /\ ~ViaRunsApi => \A c \in Calls : calls[c].pc = "free"
    /\ ~ViaRunsApi => LabelsAgree
    /\ ~ViaRunsApi /\ NoneDeleted => Unique

CallsAwaited == \A c \in Calls : calls[c].pc # "free" => calls[c].awaited

AllInTable ==
    \A w \in EverCreated :
        \/ wf[w].run \in runs
        \/ \E c \in Calls : calls[c].pc = "insert" /\ calls[c].index = wf[w].run

PastTheGuard ==
    \A c \in Calls :
        /\ calls[c].pc \in {"label", "create"} =>
               calls[c].index \notin runs /\ calls[c].index = nextIndex(swf)
        /\ calls[c].pc \in {"create", "insert"} => calls[c].label = calls[c].index

CleanInv ==
    Clean /\ ViaRunsApi =>
        CallsAwaited /\ AllInTable /\ PastTheGuard /\ Unique /\ LabelsAgree

OnceInv == IndexInv /\ HistoryInv /\ EmbeddedInv /\ CleanInv

-----------------------------------------------------------------------------
(* Workflows.                                                              *)

WfGrows ==
    /\ DOMAIN wf' = WfIds
    /\ \A w \in WfIds : WfShape(wf'[w])
    /\ \A w \in WfIds : Follows(wf'[w], wf[w])

LEMMA InitCache == Init => CacheInv
  BY DEF Init, CacheInv, WfShape, Follows, NoWorkflow, Phases

LEMMA NewWorkflowGrows ==
    ASSUME IndexInv, CacheInv, NEW v \in WfIds, wf[v].phase = "none",
           NEW index, NEW epoch, NEW run,
           wf' = [wf EXCEPT ![v] = Workflow(index, epoch, run)]
    PROVE  WfGrows
  BY DEF IndexInv, CacheInv, WfGrows, WfShape, Follows, Workflow, Phases, ActivePhases

LEMMA PhaseGrows ==
    ASSUME IndexInv, CacheInv, NEW v \in WfIds, wf[v].phase \notin {"none", "deleted"},
           NEW phase \in Phases \ {"none"},
           wf' = [wf EXCEPT ![v].phase = phase]
    PROVE  WfGrows
  BY DEF IndexInv, CacheInv, WfGrows, WfShape, Follows

\* Every step only adds workflows and changes phases.
LEMMA NextWfGrows == IndexInv /\ CacheInv /\ [Next]_vars => WfGrows
  <1> SUFFICES ASSUME IndexInv, CacheInv, [Next]_vars PROVE WfGrows
    OBVIOUS
  <1>0. CASE UNCHANGED wf
    BY <1>0 DEF IndexInv, CacheInv, WfGrows, Follows
  <1>1. CASE CreateWorkflow
    <2>1. ASSUME NEW v \in WfIds, wf[v].phase = "none",
                 wf' = [wf EXCEPT ![v] =
                     Workflow(NextResourceIndex, ctl.next, NextResourceIndex)]
          PROVE  WfGrows
      BY <2>1, NewWorkflowGrows
    <2> QED BY <1>0, <1>1, <2>1 DEF CreateWorkflow
  <1>2. ASSUME NEW c \in Calls, CreateRunWorkflow(c) PROVE WfGrows
    <2>1. PICK v \in WfIds :
             /\ wf[v].phase = "none"
             /\ wf' = [wf EXCEPT ![v] =
                   Workflow(calls[c].label, calls[c].at, calls[c].index)]
      BY <1>2 DEF CreateRunWorkflow
    <2> QED BY <2>1, NewWorkflowGrows
  <1>3. ASSUME NEW w \in WfIds, Argo(w) \/ DeleteRun(w) \/ CollectOwned(w) PROVE WfGrows
    <2>1. wf[w].phase \notin {"none", "deleted"}
      BY <1>3 DEF Argo, WfStart, WfFinish, DeleteRun, CollectOwned, Exists, ActivePhases
    <2>2. \E phase \in Phases \ {"none"} : wf' = [wf EXCEPT ![w].phase = phase]
      BY <1>3 DEF Argo, WfStart, WfFinish, DeleteRun, CollectOwned, Phases, ActivePhases
    <2> QED BY <2>1, <2>2, PhaseGrows
  <1>4. CASE RequestFails
    BY <1>0, <1>4, NewWorkflowGrows DEF RequestFails
  <1>5. ASSUME NEW c \in Calls, GuardRun(c) \/ LabelRun(c) \/ InsertRun(c) \/ CallFails(c)
        PROVE  UNCHANGED wf
    BY <1>5 DEF GuardRun, LabelRun, InsertRun, CallFails, cluster
  <1>6. CASE \/ SyncStart \/ Decide \/ CallCreateRun \/ updateStatus \/ Informers \/ Advance
             \/ ChangeJobMode \/ DeleteJob \/ ControllerCrash \/ UNCHANGED vars
    BY <1>0, <1>6
    DEF SyncStart, Decide, CallCreateRun, updateStatus, Informers, SwfInformer, WfInformer,
        Resync, Advance, ChangeJobMode, DeleteJob, ControllerCrash, cluster, vars
  <1> QED
    BY <1>0, <1>1, <1>2, <1>3, <1>4, <1>5, <1>6 DEF Next, ControllerStep, CallStep, Failure

LEMMA CreatedStays ==
    ASSUME WfGrows, NEW i, Created(i)
    PROVE  Created(i)'
  BY DEF WfGrows, Follows, Created

\* The informer's copies are old or fresh.
LEMMA NextCache == IndexInv /\ CacheInv /\ [Next]_vars => CacheInv'
  <1> SUFFICES ASSUME IndexInv, CacheInv, [Next]_vars PROVE CacheInv'
    OBVIOUS
  <1>1. WfGrows
    BY NextWfGrows
  <1>2. wfCache' \in {wfCache, wf}
    <2>1. ASSUME NEW c \in Calls, CallStep(c) \/ CallFails(c) PROVE wfCache' = wfCache
      BY <2>1 DEF CallStep, GuardRun, LabelRun, CreateRunWorkflow, InsertRun, CallFails, caches
    <2>2. ASSUME NEW w \in WfIds, Argo(w) \/ DeleteRun(w) \/ CollectOwned(w)
          PROVE  wfCache' = wfCache
      BY <2>2 DEF Argo, WfStart, WfFinish, DeleteRun, CollectOwned, caches
    <2>3. CASE ControllerStep \/ Informers
      BY <2>3 DEF ControllerStep, SyncStart, Decide, CreateWorkflow, CallCreateRun,
                  updateStatus, Informers, SwfInformer, WfInformer, Resync, caches
    <2>4. CASE \/ Advance \/ ChangeJobMode \/ DeleteJob \/ ControllerCrash \/ RequestFails
               \/ UNCHANGED vars
      BY <2>4 DEF Advance, ChangeJobMode, DeleteJob, ControllerCrash, RequestFails, caches, vars
    <2> QED BY <2>1, <2>2, <2>3, <2>4 DEF Next, Failure
  <1>3. CASE wfCache' = wfCache
    BY <1>1, <1>3 DEF CacheInv, WfGrows, Follows
  <1>4. CASE wfCache' = wf
    BY <1>1, <1>4 DEF CacheInv, WfGrows, Follows
  <1> QED BY <1>2, <1>3, <1>4

-----------------------------------------------------------------------------
(* Calls of CreateRun.                                                     *)

\* The steps that leave the calls alone, and the worker where it waits.
Elsewhere ==
    \/ SyncStart \/ Decide \/ CreateWorkflow \/ updateStatus
    \/ Informers \/ Advance
    \/ \E w \in WfIds : Argo(w) \/ DeleteRun(w) \/ CollectOwned(w)
    \/ ChangeJobMode \/ DeleteJob \/ RequestFails
    \/ UNCHANGED vars

LEMMA NextCases ==
    ASSUME [Next]_vars
    PROVE  \/ Elsewhere \/ CallCreateRun \/ ControllerCrash
           \/ \E c \in Calls : CallStep(c) \/ CallFails(c)
  BY DEF Next, ControllerStep, Failure, Elsewhere

LEMMA ElsewhereCalls ==
    ASSUME Elsewhere
    PROVE  UNCHANGED calls /\ (ctl.pc = "wait" => UNCHANGED ctl)
  <1>1. ASSUME NEW w \in WfIds, Argo(w) \/ DeleteRun(w) \/ CollectOwned(w)
        PROVE  UNCHANGED <<calls, ctl>>
    BY <1>1 DEF Argo, WfStart, WfFinish, DeleteRun, CollectOwned
  <1>2. CASE SyncStart \/ Decide \/ CreateWorkflow \/ updateStatus \/ RequestFails
    BY <1>2 DEF SyncStart, Decide, CreateWorkflow, updateStatus, RequestFails
  <1>3. CASE Informers \/ Advance \/ ChangeJobMode \/ DeleteJob \/ UNCHANGED vars
    BY <1>3 DEF Informers, SwfInformer, WfInformer, Resync, Advance, ChangeJobMode, DeleteJob,
                vars
  <1> QED BY <1>1, <1>2, <1>3 DEF Elsewhere

LEMMA InitCalls == Init => CallsInv /\ AwaitedInv
  BY DEF Init, CallsInv, AwaitedInv, CallShape, NoCall

\* A call that goes from one step to the next.
LEMMA NextCalls ==
    IndexInv /\ CacheInv /\ CallsInv /\ [Next]_vars => CallsInv'
  <1> SUFFICES ASSUME IndexInv, CacheInv, CallsInv, [Next]_vars PROVE CallsInv'
    OBVIOUS
  <1>1. \A i : Created(i) => Created(i)'
    BY NextWfGrows, CreatedStays
  <1>2. DOMAIN calls = Calls
    BY DEF IndexInv
  <1>3. CASE Elsewhere
    BY <1>1, <1>3, ElsewhereCalls DEF CallsInv
  <1>4. CASE CallCreateRun
    <2> DEFINE call == [NoCall EXCEPT !.pc = "guard", !.awaited = TRUE,
                                      !.index = NextResourceIndex]
    <2>1. CallShape(call) /\ call.pc # "insert"
      BY DEF CallShape, NoCall
    <2>2. \E c \in Calls : calls' = [calls EXCEPT ![c] = call]
      BY <1>4 DEF CallCreateRun
    <2> HIDE DEF call
    <2> QED BY <1>1, <1>2, <2>1, <2>2 DEF CallsInv
  <1>5. CASE ControllerCrash
    BY <1>1, <1>5 DEF ControllerCrash, CallsInv, CallShape
  <1>6. ASSUME NEW c \in Calls, Return(c, TRUE) \/ Return(c, FALSE) PROVE CallsInv'
    <2>1. CallShape(NoCall) /\ NoCall.pc # "insert"
      BY DEF CallShape, NoCall
    <2> QED BY <1>1, <1>2, <1>6, <2>1 DEF Return, CallsInv
  <1>7. ASSUME NEW c \in Calls, CallStep(c) \/ CallFails(c) PROVE CallsInv'
    <2>1. CASE /\ calls[c].pc = "guard"
               /\ calls' = [calls EXCEPT ![c].pc = "label", ![c].at = now]
      BY <1>1, <1>2, <2>1 DEF CallsInv, CallShape
    <2>2. CASE /\ calls[c].pc = "label"
               /\ calls' = [calls EXCEPT ![c].pc = "create", ![c].label = nextIndex(swf)]
      BY <1>1, <1>2, <2>2 DEF CallsInv, CallShape
    <2>3. CASE CreateRunWorkflow(c)
      <3>1. Created(calls[c].index)'
        BY <2>3 DEF CreateRunWorkflow, Created, Workflow, IndexInv
      <3>2. calls' = [calls EXCEPT ![c].pc = "insert"]
        BY <2>3 DEF CreateRunWorkflow
      <3>3. calls'[c].index = calls[c].index
        BY <1>2, <3>2 DEF CallsInv, CallShape
      <3> QED BY <1>1, <1>2, <3>1, <3>2, <3>3 DEF CallsInv, CallShape
    <2> QED
      BY <1>6, <1>7, <2>1, <2>2, <2>3 DEF CallStep, GuardRun, LabelRun, InsertRun, CallFails
  <1> QED BY <1>3, <1>4, <1>5, <1>7, NextCases

\* The worker makes one call and waits for it.
LEMMA NextAwaited ==
    IndexInv /\ CallsInv /\ AwaitedInv /\ [Next]_vars => AwaitedInv'
  <1> SUFFICES ASSUME IndexInv, CallsInv, AwaitedInv, [Next]_vars PROVE AwaitedInv'
    OBVIOUS
  <1>1. DOMAIN calls = Calls /\ CtlShape
    BY DEF IndexInv
  <1>2. CASE Elsewhere
    BY <1>2, ElsewhereCalls DEF AwaitedInv
  <1>3. CASE CallCreateRun
    <2> DEFINE call == [NoCall EXCEPT !.pc = "guard", !.awaited = TRUE,
                                      !.index = NextResourceIndex]
    <2>1. call.index = nextIndex(ctl.snap)
      BY DEF NoCall, NextResourceIndex
    <2>2. PICK c \in Calls : calls' = [calls EXCEPT ![c] = call]
      BY <1>3 DEF CallCreateRun
    <2> HIDE DEF call
    <2>3. \A d \in Calls : ~calls[d].awaited
      BY <1>3 DEF CallCreateRun, AwaitedInv
    <2>4. ctl'.pc = "wait" /\ ctl'.snap = ctl.snap
      BY <1>1, <1>3 DEF CallCreateRun, CtlShape
    <2> QED BY <1>1, <2>1, <2>2, <2>3, <2>4 DEF AwaitedInv
  <1>4. CASE ControllerCrash
    BY <1>4 DEF ControllerCrash, AwaitedInv, CallsInv, CallShape
  <1>5. ASSUME NEW c \in Calls, Return(c, TRUE) \/ Return(c, FALSE) PROVE AwaitedInv'
    <2>1. ~NoCall.awaited
      BY DEF NoCall
    <2>2. CASE calls[c].awaited
      <3>1. \A d \in Calls : ~calls'[d].awaited
        BY <1>1, <1>5, <2>1, <2>2 DEF Return, AwaitedInv
      <3> QED BY <3>1 DEF AwaitedInv
    <2>3. CASE ~calls[c].awaited
      BY <1>1, <1>5, <2>1, <2>3 DEF Return, AwaitedInv
    <2> QED BY <2>2, <2>3
  <1>6. ASSUME NEW c \in Calls, CallStep(c) \/ CallFails(c) PROVE AwaitedInv'
    <2>1. ASSUME UNCHANGED ctl, calls'[c].awaited = calls[c].awaited,
                 calls'[c].index = calls[c].index,
                 \A d \in Calls \ {c} : calls'[d] = calls[d]
          PROVE  AwaitedInv'
      BY <2>1 DEF AwaitedInv
    <2>2. CASE calls' = [calls EXCEPT ![c].pc = "label", ![c].at = now] /\ UNCHANGED ctl
      BY <1>1, <2>1, <2>2 DEF CallsInv, CallShape
    <2>3. CASE /\ calls' = [calls EXCEPT ![c].pc = "create", ![c].label = nextIndex(swf)]
               /\ UNCHANGED ctl
      BY <1>1, <2>1, <2>3 DEF CallsInv, CallShape
    <2>4. CASE calls' = [calls EXCEPT ![c].pc = "insert"] /\ UNCHANGED ctl
      BY <1>1, <2>1, <2>4 DEF CallsInv, CallShape
    <2> QED
      BY <1>5, <1>6, <2>2, <2>3, <2>4
      DEF CallStep, GuardRun, LabelRun, CreateRunWorkflow, InsertRun, CallFails
  <1> QED BY <1>2, <1>3, <1>4, <1>6, NextCases

-----------------------------------------------------------------------------
(* The run table, the submissions of the worker, and the status.           *)

LEMMA RunsChange ==
    ASSUME [Next]_vars
    PROVE  \/ runs' \subseteq runs
           \/ \E c \in Calls : calls[c].pc = "insert" /\ runs' = runs \cup {calls[c].index}
  <1>1. CASE Elsewhere \/ CallCreateRun \/ ControllerCrash
    BY <1>1
    DEF Elsewhere, SyncStart, Decide, CreateWorkflow, updateStatus, Informers, SwfInformer,
        WfInformer, Resync, Advance, Argo, WfStart, WfFinish, DeleteRun, CollectOwned,
        ChangeJobMode, DeleteJob, RequestFails, CallCreateRun, ControllerCrash, vars
  <1>2. ASSUME NEW c \in Calls, CallStep(c) \/ CallFails(c)
        PROVE  \/ UNCHANGED runs
               \/ calls[c].pc = "insert" /\ runs' = runs \cup {calls[c].index}
    BY <1>2 DEF CallStep, GuardRun, LabelRun, CreateRunWorkflow, InsertRun, CallFails
  <1> QED BY <1>1, <1>2, NextCases

LEMMA NextRows ==
    /\ IndexInv /\ CacheInv /\ CallsInv /\ RowsWereCreated
    /\ [Next]_vars
    => RowsWereCreated'
  <1> SUFFICES ASSUME IndexInv, CacheInv, CallsInv, RowsWereCreated, [Next]_vars
               PROVE  RowsWereCreated'
    OBVIOUS
  <1>1. \A i : Created(i) => Created(i)'
    BY NextWfGrows, CreatedStays
  <1>2. \A i \in runs' : Created(i)
    BY RunsChange DEF RowsWereCreated, CallsInv
  <1> QED BY <1>1, <1>2 DEF RowsWereCreated

\* The worker believes that its workflow was submitted after it found it in
\* the cache, created it, or had a call for it succeed.
LEMMA NextSubmitted ==
    /\ IndexInv /\ CacheInv /\ SubmittedWasCreated /\ RowsWereCreated
    /\ CallsInv /\ AwaitedInv /\ [Next]_vars
    => SubmittedWasCreated'
  <1> SUFFICES ASSUME IndexInv, CacheInv, SubmittedWasCreated, RowsWereCreated,
                      CallsInv, AwaitedInv, [Next]_vars
               PROVE  SubmittedWasCreated'
    OBVIOUS
  <1>1. \A i : Created(i) => Created(i)'
    BY NextWfGrows, CreatedStays
  <1>2. CtlShape
    BY DEF IndexInv
  <1>3. ASSUME ctl'.snap = ctl.snap, ctl'.submitted = ctl.submitted
        PROVE  SubmittedWasCreated'
    BY <1>1, <1>3 DEF SubmittedWasCreated
  <1>4. CASE ctl' = Idle
    BY <1>4 DEF SubmittedWasCreated, Idle
  <1>5. ASSUME Created(NextResourceIndex)', ctl'.snap = ctl.snap
        PROVE  SubmittedWasCreated'
    BY <1>5 DEF SubmittedWasCreated, NextResourceIndex, nextIndex
  <1>6. CASE SyncStart
    <2>1. ~ctl'.submitted
      BY <1>6 DEF SyncStart, Idle
    <2> QED BY <2>1 DEF SubmittedWasCreated
  <1>7. CASE Decide
    <2>1. ctl'.snap = ctl.snap /\ (ctl'.submitted => AlreadySubmitted)
      BY <1>2, <1>7 DEF Decide, CtlShape
    <2>2. AlreadySubmitted => Created(NextResourceIndex)
      BY DEF AlreadySubmitted, Created, CacheInv, Follows, Exists, ActivePhases
    <2> QED BY <1>1, <2>1, <2>2 DEF SubmittedWasCreated, NextResourceIndex, nextIndex
  <1>8. CASE CreateWorkflow
    <2>1. CASE EndSync(TRUE)
      BY <1>4, <2>1 DEF EndSync
    <2>2. CASE ~EndSync(TRUE)
      <3>1. Created(NextResourceIndex)'
        <4>1. PICK v \in WfIds : wf' = [wf EXCEPT ![v] =
                  Workflow(NextResourceIndex, ctl.next, NextResourceIndex)]
          BY <1>8, <2>2 DEF CreateWorkflow
        <4>2. wf'[v].phase # "none" /\ wf'[v].run = NextResourceIndex
          BY <4>1 DEF Workflow, IndexInv
        <4>3. NextResourceIndex' = NextResourceIndex
          BY <1>2, <1>8, <2>2 DEF CreateWorkflow, CtlShape, NextResourceIndex, nextIndex
        <4> QED BY <4>2, <4>3 DEF Created
      <3>2. ctl'.snap = ctl.snap
        BY <1>2, <1>8, <2>2 DEF CreateWorkflow, CtlShape
      <3> QED BY <1>5, <3>1, <3>2
    <2> QED BY <2>1, <2>2
  <1>9. CASE CallCreateRun
    BY <1>2, <1>3, <1>9 DEF CallCreateRun, CtlShape
  <1>10. CASE updateStatus \/ RequestFails \/ ControllerCrash
    BY <1>4, <1>10 DEF updateStatus, RequestFails, ControllerCrash, EndSync
  <1>11. ASSUME NEW c \in Calls, CallStep(c) \/ CallFails(c) PROVE SubmittedWasCreated'
    <2>1. CASE UNCHANGED ctl
      BY <1>3, <2>1
    <2>2. CASE Return(c, FALSE)
      BY <1>3, <1>4, <2>2 DEF Return, EndSync
    <2>3. CASE Return(c, TRUE) /\ Created(calls[c].index)
      <3>1. CASE calls[c].awaited
        <4>1. ctl'.snap = ctl.snap
          BY <1>2, <2>3, <3>1 DEF Return, CtlShape
        <4>2. calls[c].index = NextResourceIndex
          BY <3>1 DEF AwaitedInv, NextResourceIndex
        <4>3. Created(NextResourceIndex)
          BY <2>3, <4>2
        <4>4. Created(nextIndex(ctl.snap))'
          BY <1>1, <4>1, <4>3 DEF NextResourceIndex, nextIndex
        <4> QED BY <4>4 DEF SubmittedWasCreated
      <3>2. CASE ~calls[c].awaited
        BY <2>1, <2>3, <3>2 DEF Return
      <3> QED BY <3>1, <3>2
    <2>4. CASE GuardRun(c)
      BY <2>1, <2>3, <2>4 DEF GuardRun, RowsWereCreated
    <2>5. CASE InsertRun(c)
      BY <2>3, <2>5 DEF InsertRun, CallsInv
    <2> QED
      BY <1>11, <2>1, <2>2, <2>4, <2>5
      DEF CallStep, LabelRun, CreateRunWorkflow, CallFails
  <1>12. CASE \/ Informers \/ Advance
              \/ \E w \in WfIds : Argo(w) \/ DeleteRun(w) \/ CollectOwned(w)
              \/ ChangeJobMode \/ DeleteJob \/ UNCHANGED vars
    <2>1. UNCHANGED ctl
      BY <1>12 DEF Informers, SwfInformer, WfInformer, Resync, Advance, Argo, WfStart, WfFinish,
                   DeleteRun, CollectOwned, ChangeJobMode, DeleteJob, vars
    <2> QED BY <1>3, <2>1
  <1> QED
    BY <1>6, <1>7, <1>8, <1>9, <1>10, <1>11, <1>12, NextCases DEF Elsewhere

\* LastIndex changes when an accepted update records a submission.
LEMMA LastIndexChange ==
    ASSUME IndexInv, [Next]_vars
    PROVE  \/ swf'.lastIndex = swf.lastIndex
           \/ /\ ctl.pc = "update"
              /\ ctl.submitted
              /\ ctl.snap.lastIndex = swf.lastIndex
              /\ swf'.lastIndex = nextIndex(ctl.snap)
  <1>1. CASE updateStatus
    <2>1. CASE UNCHANGED swf
      BY <2>1
    <2>2. CASE UpdateAccepted /\ swf' = [UpdatedSwf EXCEPT !.rv = swf.rv + 1]
      <3>1. ctl.snap.lastIndex = swf.lastIndex
        BY <2>2 DEF UpdateAccepted, IndexInv, CopyOf
      <3>2. swf'.lastIndex = IF ctl.submitted THEN nextIndex(ctl.snap) ELSE ctl.snap.lastIndex
        BY <2>2, UpdatedShape DEF IndexInv, SwfShape
      <3> QED BY <1>1, <3>1, <3>2 DEF updateStatus
    <2> QED BY <1>1, <2>1, <2>2 DEF updateStatus
  <1>2. CASE ChangeJobMode \/ DeleteJob
    BY <1>2 DEF ChangeJobMode, DeleteJob, IndexInv, SwfShape
  <1>3. CASE UNCHANGED swf
    BY <1>3
  <1>4. ASSUME NEW c \in Calls, CallStep(c) \/ CallFails(c) PROVE UNCHANGED swf
    BY <1>4 DEF CallStep, GuardRun, LabelRun, CreateRunWorkflow, InsertRun, CallFails, cluster
  <1>5. ASSUME NEW w \in WfIds, Argo(w) \/ DeleteRun(w) \/ CollectOwned(w)
        PROVE  UNCHANGED swf
    BY <1>5 DEF Argo, WfStart, WfFinish, DeleteRun, CollectOwned
  <1>6. CASE \/ SyncStart \/ Decide \/ CreateWorkflow \/ CallCreateRun \/ Informers \/ Advance
             \/ RequestFails \/ ControllerCrash \/ UNCHANGED vars
    BY <1>3, <1>6
    DEF SyncStart, Decide, CreateWorkflow, CallCreateRun, Informers, SwfInformer, WfInformer,
        Resync, Advance, RequestFails, ControllerCrash, cluster, vars
  <1> QED BY <1>1, <1>2, <1>3, <1>4, <1>5, <1>6, NextCases DEF Elsewhere

LEMMA NextRecorded ==
    /\ IndexInv /\ CacheInv /\ RecordedWasCreated /\ SubmittedWasCreated /\ [Next]_vars
    => RecordedWasCreated'
  <1> SUFFICES ASSUME IndexInv, CacheInv, RecordedWasCreated, SubmittedWasCreated, [Next]_vars
               PROVE  RecordedWasCreated'
    OBVIOUS
  <1>1. \A i : Created(i) => Created(i)'
    BY NextWfGrows, CreatedStays
  <1>2. \A i \in 1..swf.lastIndex : Created(i)
    BY DEF RecordedWasCreated, Created, EverCreated
  <1>3. swf.lastIndex \in Nat
    BY DEF IndexInv, SwfShape
  <1>4. \A i \in 1..swf'.lastIndex : Created(i)
    <2>1. CASE swf'.lastIndex = swf.lastIndex
      BY <1>2, <2>1
    <2>2. CASE /\ ctl.submitted
               /\ ctl.snap.lastIndex = swf.lastIndex
               /\ swf'.lastIndex = nextIndex(ctl.snap)
      BY <1>2, <1>3, <2>2 DEF SubmittedWasCreated, nextIndex
    <2> QED BY <2>1, <2>2, LastIndexChange
  <1> QED BY <1>1, <1>4 DEF RecordedWasCreated, Created, EverCreated

LEMMA InitHistory == Init => HistoryInv
  <1> SUFFICES ASSUME Init PROVE HistoryInv
    OBVIOUS
  <1>1. RecordedWasCreated /\ SubmittedWasCreated /\ RowsWereCreated
    BY DEF Init, RecordedWasCreated, SubmittedWasCreated, RowsWereCreated, NewSwf, Idle
  <1> QED BY <1>1, InitCache, InitCalls DEF HistoryInv

LEMMA NextHistory == IndexInv /\ HistoryInv /\ [Next]_vars => HistoryInv'
  BY NextCache, NextRecorded, NextSubmitted, NextRows, NextCalls, NextAwaited DEF HistoryInv

(* LastIndex counts only workflows that were made, however stale the       *)
(* caches and whatever fails (submitNewWorkflowIfNotAlreadySubmitted,      *)
(* updateStatus).                                                          *)
THEOREM RecordedWasCreatedAlways == Spec => []RecordedWasCreated
  <1>1. Init => IndexInv /\ HistoryInv
    BY InitIndex, InitHistory
  <1>2. IndexInv /\ HistoryInv /\ [Next]_vars => (IndexInv /\ HistoryInv)'
    BY NextIndexInv, NextHistory
  <1>3. HistoryInv => RecordedWasCreated
    BY DEF HistoryInv
  <1> QED BY <1>1, <1>2, <1>3, PTL DEF Spec

-----------------------------------------------------------------------------
(* One workflow per index.                                                 *)

\* The workflow v is made, for run x and with label i.
Made(v, i, x) ==
    /\ wf[v].phase = "none"
    /\ wf'[v].phase = "pending" /\ wf'[v].run = x /\ wf'[v].index = i
    /\ \A w \in WfIds \ {v} : wf'[w] = wf[w]

\* Workflows are made by the controller, under a name that is free, and by
\* calls of CreateRun.
LEMMA WfCases ==
    ASSUME IndexInv, CacheInv, [Next]_vars
    PROVE  \/ EverCreated' = EverCreated
           \/ /\ ~ViaRunsApi
              /\ ~NameTaken(NextResourceIndex)
              /\ \E v \in WfIds : Made(v, NextResourceIndex, NextResourceIndex)
           \/ \E c \in Calls, v \in WfIds :
                 /\ CreateRunWorkflow(c)
                 /\ Made(v, calls[c].label, calls[c].index)
  <1>1. ASSUME NEW v \in WfIds, wf[v].phase = "none", NEW i, NEW e, NEW x,
               wf' = [wf EXCEPT ![v] = Workflow(i, e, x)]
        PROVE  Made(v, i, x)
    BY <1>1 DEF Made, Workflow, IndexInv
  <1>2. CASE CreateWorkflow \/ RequestFails
    <2>1. CASE UNCHANGED wf
      BY <2>1 DEF EverCreated
    <2>2. CASE ~UNCHANGED wf
      <3>1. PICK v \in WfIds :
               /\ wf[v].phase = "none"
               /\ wf' = [wf EXCEPT ![v] =
                     Workflow(NextResourceIndex, ctl.next, NextResourceIndex)]
        BY <1>2, <2>2 DEF CreateWorkflow, RequestFails
      <3>2. ~ViaRunsApi /\ ~NameTaken(NextResourceIndex)
        BY <1>2, <2>2 DEF CreateWorkflow, RequestFails
      <3> QED BY <1>1, <3>1, <3>2
    <2> QED BY <2>1, <2>2
  <1>3. ASSUME NEW c \in Calls, CreateRunWorkflow(c)
        PROVE  \E v \in WfIds : Made(v, calls[c].label, calls[c].index)
    BY <1>1, <1>3 DEF CreateRunWorkflow
  <1>4. ASSUME NEW w \in WfIds, Argo(w) \/ DeleteRun(w) \/ CollectOwned(w)
        PROVE  EverCreated' = EverCreated
    BY <1>4 DEF Argo, WfStart, WfFinish, DeleteRun, CollectOwned, Exists, ActivePhases,
                EverCreated, IndexInv, WfInRange
  <1>5. ASSUME NEW c \in Calls, GuardRun(c) \/ LabelRun(c) \/ InsertRun(c) \/ CallFails(c)
        PROVE  EverCreated' = EverCreated
    BY <1>5 DEF GuardRun, LabelRun, InsertRun, CallFails, cluster, EverCreated
  <1>6. CASE \/ SyncStart \/ Decide \/ CallCreateRun \/ updateStatus \/ Informers \/ Advance
             \/ ChangeJobMode \/ DeleteJob \/ ControllerCrash \/ UNCHANGED vars
    BY <1>6
    DEF SyncStart, Decide, CallCreateRun, updateStatus, Informers, SwfInformer, WfInformer,
        Resync, Advance, ChangeJobMode, DeleteJob, ControllerCrash, cluster, vars, EverCreated
  <1> QED
    BY <1>2, <1>3, <1>4, <1>5, <1>6 DEF Next, ControllerStep, CallStep, Failure

LEMMA MadeCreated ==
    ASSUME NEW v \in WfIds, NEW i, NEW x, Made(v, i, x)
    PROVE  EverCreated' = EverCreated \cup {v}
  BY DEF Made, EverCreated

\* A workflow that is deleted is never forgotten.
LEMMA DeletedStays ==
    ASSUME IndexInv, CacheInv, [Next]_vars, NoneDeleted'
    PROVE  NoneDeleted
  BY NextWfGrows DEF WfGrows, Follows, NoneDeleted

LEMMA CrashesGrow ==
    ASSUME crashes \in Nat, [Next]_vars
    PROVE  /\ crashes' \in Nat
           /\ crashes <= crashes'
           /\ ControllerCrash \/ RequestFails \/ (\E c \in Calls : CallFails(c)) => crashes' # 0
  <1>1. ASSUME NEW c \in Calls, CallStep(c) PROVE UNCHANGED crashes
    BY <1>1 DEF CallStep, GuardRun, LabelRun, CreateRunWorkflow, InsertRun, bounds
  <1>2. ASSUME NEW w \in WfIds, Argo(w) \/ DeleteRun(w) \/ CollectOwned(w)
        PROVE  UNCHANGED crashes
    BY <1>2 DEF Argo, WfStart, WfFinish, DeleteRun, CollectOwned, bounds
  <1>3. ASSUME ControllerStep \/ Informers \/ Advance \/ ChangeJobMode \/ DeleteJob \/ UNCHANGED vars
        PROVE  UNCHANGED crashes
    BY <1>3 DEF ControllerStep, SyncStart, Decide, CreateWorkflow, CallCreateRun, updateStatus,
                Informers, SwfInformer, WfInformer, Resync, Advance, ChangeJobMode, DeleteJob,
                bounds, vars
  <1>4. ControllerCrash \/ RequestFails \/ (\E c \in Calls : CallFails(c)) => Crash
    <2>1. \A c \in Calls : CallFails(c) => Crash
      BY DEF CallFails
    <2> QED BY <2>1 DEF ControllerCrash, RequestFails
  <1>5. Crash => crashes' = crashes + 1
    BY DEF Crash
  <1>6. UNCHANGED crashes \/ Crash
    BY <1>1, <1>2, <1>3, <1>4 DEF Next, Failure
  <1> QED BY <1>4, <1>5, <1>6

\* What holds of all workflows holds after a step that makes none.
LEMMA NothingMade ==
    ASSUME CacheInv, WfGrows, EverCreated' = EverCreated
    PROVE  (Unique => Unique') /\ (LabelsAgree => LabelsAgree')
  BY DEF CacheInv, WfGrows, Follows, EverCreated, Unique, LabelsAgree

LEMMA InitOnce == Init => EmbeddedInv /\ CleanInv
  BY DEF Init, EmbeddedInv, CleanInv, CallsAwaited, AllInTable, PastTheGuard, Unique,
         LabelsAgree, EverCreated, NoWorkflow, NoCall

\* Embedded workflows: the name is taken, or the index is new.
LEMMA NextEmbedded ==
    IndexInv /\ CacheInv /\ EmbeddedInv /\ [Next]_vars => EmbeddedInv'
  <1> SUFFICES ASSUME IndexInv, CacheInv, EmbeddedInv, [Next]_vars PROVE EmbeddedInv'
    OBVIOUS
  <1>1. crashes' \in Nat
    BY CrashesGrow DEF EmbeddedInv
  <1> SUFFICES ASSUME ~ViaRunsApi
               PROVE  /\ \A c \in Calls : calls'[c].pc = "free"
                      /\ LabelsAgree'
                      /\ NoneDeleted' => Unique'
    BY <1>1 DEF EmbeddedInv
  <1>2. \A c \in Calls : ~CallStep(c) /\ ~CallFails(c)
    BY DEF EmbeddedInv, CallStep, GuardRun, LabelRun, CreateRunWorkflow, InsertRun, CallFails
  <1>3. \A c \in Calls : calls'[c].pc = "free"
    <2>1. CASE Elsewhere
      BY <2>1, ElsewhereCalls DEF EmbeddedInv
    <2>2. CASE ControllerCrash
      BY <2>2 DEF ControllerCrash, EmbeddedInv, IndexInv, CallInRange
    <2> QED BY <1>2, <2>1, <2>2, NextCases DEF CallCreateRun
  <1>4. WfGrows
    BY NextWfGrows
  <1>5. CASE EverCreated' = EverCreated
    BY <1>3, <1>4, <1>5, NothingMade, DeletedStays DEF EmbeddedInv
  <1>6. ASSUME ~NameTaken(NextResourceIndex), NEW v \in WfIds,
               Made(v, NextResourceIndex, NextResourceIndex)
        PROVE  LabelsAgree' /\ (NoneDeleted' => Unique')
    <2>1. EverCreated' = EverCreated \cup {v}
      BY <1>6, MadeCreated
    <2>2. LabelsAgree'
      BY <1>6, <2>1 DEF EmbeddedInv, LabelsAgree, Made, EverCreated
    <2>3. ASSUME NoneDeleted' PROVE Unique'
      <3>1. NoneDeleted
        BY <2>3, DeletedStays
      <3>2. \A w \in EverCreated : wf[w].run # NextResourceIndex
        BY <1>6, <3>1
        DEF NameTaken, Exists, NoneDeleted, EverCreated, CacheInv, WfShape, Phases
      <3> QED BY <1>6, <2>1, <3>1, <3>2 DEF EmbeddedInv, Unique, Made, EverCreated
    <2> QED BY <2>2, <2>3
  <1> QED BY <1>2, <1>3, <1>5, <1>6, WfCases DEF CallStep

\* What a step changes of the run table when it deletes nothing.
LEMMA ElsewhereRuns ==
    ASSUME IndexInv, Elsewhere, NoneDeleted'
    PROVE  UNCHANGED runs
  <1>1. ASSUME NEW w \in WfIds PROVE ~DeleteRun(w)
    <2>1. DeleteRun(w) => wf'[w].phase = "deleted"
      BY DEF DeleteRun, IndexInv, WfInRange
    <2> QED BY <2>1 DEF NoneDeleted
  <1>2. ASSUME NEW w \in WfIds, Argo(w) \/ CollectOwned(w) PROVE UNCHANGED runs
    BY <1>2 DEF Argo, WfStart, WfFinish, CollectOwned
  <1>3. CASE \/ SyncStart \/ Decide \/ CreateWorkflow \/ updateStatus \/ Informers \/ Advance
             \/ ChangeJobMode \/ DeleteJob \/ RequestFails \/ UNCHANGED vars
    BY <1>3
    DEF SyncStart, Decide, CreateWorkflow, updateStatus, Informers, SwfInformer, WfInformer,
        Resync, Advance, ChangeJobMode, DeleteJob, RequestFails, vars
  <1> QED BY <1>1, <1>2, <1>3 DEF Elsewhere

CleanParts == CallsAwaited /\ AllInTable /\ PastTheGuard /\ Unique /\ LabelsAgree

\* There is one call at a time, and the worker waits for it.
LEMMA OneCall ==
    ASSUME HistoryInv, CallsAwaited
    PROVE  /\ \A c \in Calls : calls[c].pc # "free" => ctl.pc = "wait"
           /\ \A c, d \in Calls : calls[c].pc # "free" /\ calls[d].pc # "free" => c = d
  BY DEF HistoryInv, AwaitedInv, CallsAwaited

\* A call that finds no row for its index is for the index that is next: the
\* indices before it have workflows, and those have rows.
LEMMA GuardedIsNext ==
    ASSUME IndexInv, HistoryInv, CleanParts, NEW c \in Calls,
           calls[c].pc = "guard", calls[c].index \notin runs
    PROVE  calls[c].index = nextIndex(swf)
  <1>1. calls[c].index \in 1..nextIndex(swf) /\ swf.lastIndex \in Nat
    BY DEF IndexInv, CallInRange, SwfShape
  <1>2. \A d \in Calls : calls[d].pc # "insert"
    BY OneCall DEF CleanParts
  <1>3. \A w \in EverCreated : wf[w].run \in runs
    BY <1>2 DEF CleanParts, AllInTable
  <1>4. calls[c].index \notin 1..swf.lastIndex
    BY <1>3 DEF HistoryInv, RecordedWasCreated
  <1> QED BY <1>1, <1>4 DEF nextIndex

\* The steps of a call, while nothing fails and nothing is deleted.
LEMMA CleanCall ==
    ASSUME IndexInv, HistoryInv, CleanParts, [Next]_vars, NEW c \in Calls, CallStep(c)
    PROVE  CleanParts'
  <1>1. /\ DOMAIN calls = Calls
        /\ \A d \in Calls : CallShape(calls[d])
        /\ \A d \in Calls : d # c => calls[d].pc = "free"
    BY OneCall DEF IndexInv, HistoryInv, CallsInv, CleanParts, CallStep, GuardRun, LabelRun,
                   CreateRunWorkflow, InsertRun
  <1>2. calls[c].awaited
    BY DEF CleanParts, CallsAwaited, CallStep, GuardRun, LabelRun, CreateRunWorkflow, InsertRun
  <1>3. ASSUME UNCHANGED <<wf, swf, runs>>, calls[c].pc # "insert",
               calls' = [calls EXCEPT ![c] = NoCall]
        PROVE  CleanParts'
    BY <1>1, <1>3 DEF CleanParts, CallsAwaited, AllInTable, PastTheGuard, Unique, LabelsAgree,
                      EverCreated, NoCall
  <1>4. CASE GuardRun(c)
    <2>1. CASE calls[c].index \in runs
      BY <1>3, <1>4, <2>1 DEF GuardRun, Return, cluster
    <2>2. CASE calls[c].index \notin runs
      <3>1. calls[c].index = nextIndex(swf)
        BY <1>4, <2>2, GuardedIsNext DEF GuardRun
      <3>2. /\ calls'[c].pc = "label"
            /\ calls'[c].index = calls[c].index
            /\ calls'[c].awaited = calls[c].awaited
            /\ \A d \in Calls : d # c => calls'[d] = calls[d]
        BY <1>1, <1>4, <2>2 DEF GuardRun, CallShape
      <3>3. UNCHANGED <<wf, swf, runs>> /\ calls[c].pc = "guard"
        BY <1>4, <2>2 DEF GuardRun, cluster
      <3> QED
        BY <1>1, <1>2, <2>2, <3>1, <3>2, <3>3
        DEF CleanParts, CallsAwaited, AllInTable, PastTheGuard, Unique, LabelsAgree, EverCreated,
            nextIndex
    <2> QED BY <2>1, <2>2
  <1>5. CASE LabelRun(c)
    <2>1. CASE ~swf.exists
      BY <1>3, <1>5, <2>1 DEF LabelRun, Return, cluster
    <2>2. CASE swf.exists
      <3>1. /\ calls'[c].pc = "create"
            /\ calls'[c].index = calls[c].index
            /\ calls'[c].label = nextIndex(swf)
            /\ calls'[c].awaited = calls[c].awaited
            /\ \A d \in Calls : d # c => calls'[d] = calls[d]
        BY <1>1, <1>5, <2>2 DEF LabelRun, CallShape
      <3>2. UNCHANGED <<wf, swf, runs>> /\ calls[c].pc = "label"
        BY <1>5, <2>2 DEF LabelRun, cluster
      <3>3. CallsAwaited' /\ AllInTable'
        BY <1>1, <1>2, <3>1, <3>2 DEF CleanParts, CallsAwaited, AllInTable, EverCreated
      <3>4. PastTheGuard'
        BY <1>1, <3>1, <3>2 DEF CleanParts, PastTheGuard, nextIndex
      <3>5. Unique' /\ LabelsAgree'
        BY <3>2 DEF CleanParts, Unique, LabelsAgree, EverCreated
      <3> QED BY <3>3, <3>4, <3>5 DEF CleanParts
    <2> QED BY <2>1, <2>2
  <1>6. CASE CreateRunWorkflow(c)
    <2>1. PICK v \in WfIds :
             /\ wf[v].phase = "none"
             /\ wf' = [wf EXCEPT ![v] = Workflow(calls[c].label, calls[c].at, calls[c].index)]
      BY <1>6 DEF CreateRunWorkflow
    <2>2. Made(v, calls[c].label, calls[c].index)
      BY <2>1 DEF Made, Workflow, IndexInv
    <2>3. EverCreated' = EverCreated \cup {v}
      BY <2>2, MadeCreated
    <2>4. /\ calls'[c].pc = "insert"
          /\ calls'[c].index = calls[c].index
          /\ calls'[c].label = calls[c].label
          /\ calls'[c].awaited = calls[c].awaited
          /\ \A d \in Calls : d # c => calls'[d] = calls[d]
      BY <1>1, <1>6 DEF CreateRunWorkflow, CallShape
    <2>5. UNCHANGED <<swf, runs>> /\ calls[c].pc = "create"
      BY <1>6 DEF CreateRunWorkflow
    <2>6. calls[c].label = calls[c].index /\ calls[c].index \notin runs
      BY <2>5 DEF CleanParts, PastTheGuard
    <2>7. \A w \in EverCreated : wf[w].run \in runs
      BY <1>1, <2>5 DEF CleanParts, AllInTable
    <2>8. \A w \in EverCreated : w # v /\ wf'[w] = wf[w]
      BY <2>2 DEF Made, EverCreated
    <2>9. wf'[v].run = calls[c].index /\ wf'[v].index = calls[c].label
      BY <2>2 DEF Made
    <2>10. CallsAwaited' /\ PastTheGuard'
      BY <1>1, <1>2, <2>4, <2>5, <2>6 DEF CleanParts, CallsAwaited, PastTheGuard, nextIndex
    <2>11. AllInTable'
      BY <2>3, <2>4, <2>5, <2>7, <2>8, <2>9 DEF AllInTable
    <2>12. Unique' /\ LabelsAgree'
      BY <2>3, <2>6, <2>7, <2>8, <2>9 DEF CleanParts, Unique, LabelsAgree
    <2> QED BY <2>10, <2>11, <2>12 DEF CleanParts
  <1>7. CASE InsertRun(c)
    <2>1. /\ UNCHANGED <<wf, swf>>
          /\ runs' = runs \cup {calls[c].index}
          /\ calls' = [calls EXCEPT ![c] = NoCall]
      BY <1>7 DEF InsertRun, Return, cluster
    <2> QED
      BY <1>1, <2>1
      DEF CleanParts, CallsAwaited, AllInTable, PastTheGuard, Unique, LabelsAgree, EverCreated,
          NoCall
  <1> QED BY <1>4, <1>5, <1>6, <1>7 DEF CallStep

LEMMA NextClean ==
    OnceInv /\ [Next]_vars => CleanInv'
  <1> SUFFICES ASSUME OnceInv, [Next]_vars, NoneDeleted', crashes' = 0, ViaRunsApi
               PROVE  CleanParts'
    BY DEF CleanInv, Clean, CleanParts
  <1> USE DEF OnceInv
  <1>1. NoneDeleted /\ crashes = 0
    BY DeletedStays, CrashesGrow DEF HistoryInv, EmbeddedInv
  <1>2. CleanParts
    BY <1>1 DEF CleanInv, Clean, CleanParts
  <1>3. ~ControllerCrash /\ \A c \in Calls : ~CallFails(c)
    BY CrashesGrow DEF EmbeddedInv
  <1>4. CASE Elsewhere
    <2>1. UNCHANGED <<calls, runs>>
      BY <1>4, ElsewhereCalls, ElsewhereRuns
    <2>2. EverCreated' = EverCreated
      <3>1. ASSUME NEW c \in Calls PROVE ~CreateRunWorkflow(c)
        BY <2>1 DEF CreateRunWorkflow, IndexInv, CallInRange
      <3> QED BY <3>1, WfCases DEF HistoryInv
    <2>3. Unique' /\ LabelsAgree'
      BY <1>2, <2>2, NextWfGrows, NothingMade DEF HistoryInv, CleanParts
    <2>4. \A w \in EverCreated : wf'[w].run = wf[w].run
      BY NextWfGrows DEF HistoryInv, WfGrows, Follows, EverCreated
    <2>5. AllInTable'
      BY <1>2, <2>1, <2>2, <2>4 DEF CleanParts, AllInTable
    <2>6. ASSUME NEW c \in Calls, calls[c].pc # "free" PROVE swf'.lastIndex = swf.lastIndex
      BY <1>2, <2>6, OneCall, LastIndexChange DEF CleanParts
    <2>7. PastTheGuard'
      BY <1>2, <2>1, <2>6 DEF CleanParts, PastTheGuard, nextIndex
    <2>8. CallsAwaited'
      BY <1>2, <2>1 DEF CleanParts, CallsAwaited
    <2> QED BY <2>3, <2>5, <2>7, <2>8 DEF CleanParts
  <1>5. CASE CallCreateRun
    <2> DEFINE call == [NoCall EXCEPT !.pc = "guard", !.awaited = TRUE,
                                      !.index = NextResourceIndex]
    <2>1. call.pc = "guard" /\ call.awaited
      BY DEF NoCall
    <2>2. PICK c \in Calls : calls' = [calls EXCEPT ![c] = call]
      BY <1>5 DEF CallCreateRun
    <2> HIDE DEF call
    <2>3. UNCHANGED <<swf, wf, runs>> /\ ctl.pc = "submit"
      BY <1>5 DEF CallCreateRun, cluster
    <2>4. \A d \in Calls : calls[d].pc = "free"
      BY <1>2, <2>3, OneCall DEF CleanParts
    <2>5. \A d \in Calls : calls'[d] = calls[d] \/ calls'[d] = call
      BY <2>2 DEF IndexInv
    <2>6. CallsAwaited' /\ PastTheGuard'
      BY <2>1, <2>4, <2>5 DEF CallsAwaited, PastTheGuard
    <2>7. AllInTable'
      BY <1>2, <2>3, <2>4 DEF CleanParts, AllInTable, EverCreated
    <2>8. Unique' /\ LabelsAgree'
      BY <1>2, <2>3 DEF CleanParts, Unique, LabelsAgree, EverCreated
    <2> QED BY <2>6, <2>7, <2>8 DEF CleanParts
  <1> QED BY <1>2, <1>3, <1>4, <1>5, CleanCall, NextCases

LEMMA NextOnce == OnceInv /\ [Next]_vars => OnceInv'
  BY NextIndexInv, NextHistory, NextEmbedded, NextClean DEF OnceInv, HistoryInv

LEMMA OnceAlways == Spec => []OnceInv
  <1>1. Init => OnceInv
    BY InitIndex, InitHistory, InitOnce DEF OnceInv
  <1> QED BY <1>1, NextOnce, PTL DEF Spec

(* A schedule whose runs nobody deletes makes one workflow per index:      *)
(* embedded workflows have predictable names, whatever crashes and however *)
(* stale the caches; CreateRun looks the run up, which is enough as long   *)
(* as nothing fails between the workflow and its row.                      *)
THEOREM OneWorkflowPerIndexAlways == Spec => []OneWorkflowPerIndex
  <1>1. OnceInv => OneWorkflowPerIndex
    BY DEF OnceInv, EmbeddedInv, CleanInv, Clean, OneWorkflowPerIndex, Unique
  <1> QED BY <1>1, OnceAlways, PTL

(* The index label that CreateRun takes from the resource as it finds it   *)
(* is the index that the controller asked for.                             *)
THEOREM LabelIsIndexAlways == Spec => []LabelIsIndex
  <1>1. OnceInv => LabelIsIndex
    BY ConstantsAssumption
    DEF OnceInv, EmbeddedInv, CleanInv, Clean, LabelIsIndex, LabelsAgree
  <1> QED BY <1>1, OnceAlways, PTL

-----------------------------------------------------------------------------
(* The times of the triggers.  A cron schedule without catch-up is left    *)
(* out, see ScheduleProofs.                                                *)

NoCronLoop == Trigger.kind = "cron" => ~NoCatchup

\* A copy of the resource has the last trigger of its version.
TimedSwf(s) ==
    /\ "lastTriggered" \in DOMAIN s
    /\ s.lastTriggered \in Nat \cup {Nil}
    /\ Trigger.kind # "oneoff" => LastAfterStart(Trigger, s.lastTriggered)

SameTrigger(s, t) == TimedSwf(s) /\ (s.rv = t.rv => s.lastTriggered = t.lastTriggered)

\* What the worker has submitted, or is about to submit, is due after the
\* last trigger of its copy.
Later(next, last) ==
    /\ next \in Nat
    /\ next > last
    /\ Trigger.kind # "oneoff" => LastAfterStart(Trigger, next)

TimeInv ==
    /\ now \in 0..MaxNow
    /\ TimedSwf(swf)
    /\ SameTrigger(NewSwf, swf)
    /\ SameTrigger(swfCache, swf)
    /\ SameTrigger(ctl.snap, swf)
    /\ {"now", "next"} \subseteq DOMAIN ctl
    /\ ctl.now \in 0..MaxNow
    /\ ctl.pc \in {"submit", "wait"} \/ ctl.submitted => Later(ctl.next, ctl.snap.lastTriggered)

LEMMA NewSwfTimed == TimedSwf(NewSwf) /\ NewSwf.lastTriggered = Nil
  BY DEF TimedSwf, NewSwf, LastAfterStart

LEMMA InitTime == Init => TimeInv
  <1> SUFFICES ASSUME Init PROVE TimeInv
    OBVIOUS
  <1>1. now \in 0..MaxNow /\ 0 \in 0..MaxNow
    BY ConstantsAssumption DEF Init
  <1>2. swf = NewSwf /\ swfCache = NewSwf /\ ctl = Idle
    BY DEF Init
  <1>3. /\ Idle.snap = NewSwf /\ Idle.now = 0 /\ Idle.pc = "idle" /\ ~Idle.submitted
        /\ {"now", "next"} \subseteq DOMAIN Idle
    BY DEF Idle
  <1> QED BY <1>1, <1>2, <1>3, NewSwfTimed DEF TimeInv, SameTrigger

(* The status that a sync would write, and what becomes of the resource.   *)
LEMMA UpdatedTrigger ==
    ASSUME IndexInv, TimeInv, NEW rv \in Nat
    PROVE  [UpdatedSwf EXCEPT !.rv = rv].lastTriggered =
               IF ctl.submitted THEN ctl.next ELSE ctl.snap.lastTriggered
  <1> DEFINE s == [ctl.snap EXCEPT
                     !.cond = Condition(ctl.snap, ActiveCount),
                     !.active = ctl.active,
                     !.completed = ctl.completed,
                     !.enabledLabel = IF ctl.snap.enabled THEN "true" ELSE "false"]
  <1>1. {"lastTriggered", "lastIndex", "rv"} \subseteq DOMAIN ctl.snap
    BY DEF TimeInv, SameTrigger, TimedSwf, IndexInv, CopyOf, SwfShape
  <1>2. DOMAIN s = DOMAIN ctl.snap /\ s.lastTriggered = ctl.snap.lastTriggered
    BY <1>1
  <1> HIDE DEF s
  <1>3. /\ DOMAIN UpdatedSwf = DOMAIN ctl.snap
        /\ UpdatedSwf.lastTriggered = IF ctl.submitted THEN ctl.next ELSE ctl.snap.lastTriggered
    <2>1. CASE ctl.submitted
      <3> DEFINE next == TriggeredTime(
                    getNextScheduledEpoch(Trigger, NoCatchup, ctl.next, Creation, 0))
      <3>1. UpdatedSwf = [s EXCEPT !.lastTriggered = ctl.next,
                                   !.lastIndex = nextIndex(ctl.snap),
                                   !.nextTriggered = next]
        BY <2>1 DEF UpdatedSwf, s
      <3> HIDE DEF next
      <3> QED BY <1>1, <1>2, <2>1, <3>1
    <2>2. CASE ~ctl.submitted
      <3> DEFINE next == TriggeredTime(ctl.next)
      <3>1. UpdatedSwf = [s EXCEPT !.nextTriggered = next]
        BY <2>2 DEF UpdatedSwf, s
      <3> HIDE DEF next
      <3> QED BY <1>1, <1>2, <2>2, <3>1
    <2> QED BY <2>1, <2>2
  <1> HIDE DEF UpdatedSwf
  <1> QED BY <1>1, <1>3

\* The status is written from a copy of the current version.
Recorded ==
    /\ ctl.snap.rv = swf.rv
    /\ swf'.rv = swf.rv + 1
    /\ ctl' = Idle
    /\ "lastTriggered" \in DOMAIN swf'
    /\ IF ctl.submitted
       THEN swf'.lastIndex = nextIndex(swf) /\ swf'.lastTriggered = ctl.next
       ELSE swf'.lastIndex = swf.lastIndex /\ swf'.lastTriggered = swf.lastTriggered

\* A user changes something else of the resource.
Edited ==
    /\ swf'.rv = swf.rv + 1
    /\ "lastTriggered" \in DOMAIN swf'
    /\ swf'.lastIndex = swf.lastIndex
    /\ swf'.lastTriggered = swf.lastTriggered
    /\ UNCHANGED ctl

LEMMA SwfMoves ==
    ASSUME IndexInv, TimeInv, [Next]_vars
    PROVE  \/ UNCHANGED swf
           \/ (Recorded \/ Edited) /\ UNCHANGED <<swfCache, now>>
  <1>sh. /\ SwfShape(swf) /\ "lastTriggered" \in DOMAIN swf /\ swf.rv + 1 \in Nat
         /\ "lastTriggered" \in DOMAIN ctl.snap
    BY DEF IndexInv, SwfShape, TimeInv, TimedSwf, SameTrigger
  <1>1. CASE updateStatus
    <2>1. CASE UpdateAccepted /\ swf' = [UpdatedSwf EXCEPT !.rv = swf.rv + 1]
      <3>1. /\ ctl.snap.rv = swf.rv /\ ctl.snap.lastIndex = swf.lastIndex
            /\ ctl.snap.lastTriggered = swf.lastTriggered
        BY <2>1 DEF UpdateAccepted, IndexInv, CopyOf, TimeInv, SameTrigger
      <3>2. swf'.rv = swf.rv + 1
        BY <1>sh, <2>1, UpdatedShape
      <3>3. swf'.lastIndex = IF ctl.submitted THEN nextIndex(ctl.snap) ELSE ctl.snap.lastIndex
        BY <1>sh, <2>1, UpdatedShape
      <3>4. swf'.lastTriggered = IF ctl.submitted THEN ctl.next ELSE ctl.snap.lastTriggered
        BY <1>sh, <2>1, UpdatedTrigger
      <3>5. "lastTriggered" \in DOMAIN swf'
        <4>1. DOMAIN swf' = DOMAIN UpdatedSwf
          BY <2>1
        <4>2. "lastTriggered" \in DOMAIN UpdatedSwf
          BY <1>sh DEF UpdatedSwf
        <4> QED BY <4>1, <4>2
      <3> QED BY <1>1, <3>1, <3>2, <3>3, <3>4, <3>5
              DEF updateStatus, EndSync, Recorded, nextIndex, caches
    <2> QED BY <1>1, <2>1 DEF updateStatus
  <1>2. CASE ChangeJobMode \/ DeleteJob
    BY <1>2, <1>sh DEF ChangeJobMode, DeleteJob, Edited, caches, SwfShape
  <1>3. ASSUME NEW c \in Calls, CallStep(c) \/ CallFails(c) PROVE UNCHANGED swf
    BY <1>3 DEF CallStep, GuardRun, LabelRun, CreateRunWorkflow, InsertRun, CallFails, cluster
  <1>4. ASSUME NEW w \in WfIds, Argo(w) \/ DeleteRun(w) \/ CollectOwned(w)
        PROVE  UNCHANGED swf
    BY <1>4 DEF Argo, WfStart, WfFinish, DeleteRun, CollectOwned
  <1>5. CASE \/ SyncStart \/ Decide \/ CreateWorkflow \/ CallCreateRun \/ Informers \/ Advance
             \/ RequestFails \/ ControllerCrash \/ UNCHANGED vars
    BY <1>5
    DEF SyncStart, Decide, CreateWorkflow, CallCreateRun, Informers, SwfInformer, WfInformer,
        Resync, Advance, RequestFails, ControllerCrash, cluster, vars
  <1> QED BY <1>1, <1>2, <1>3, <1>4, <1>5, NextCases DEF Elsewhere

\* What becomes of the worker: it ends its sync, starts one, decides, or goes
\* on with what it has.
Decided ==
    /\ ctl'.snap = ctl.snap /\ ctl'.now = ctl.now /\ ctl'.next = NextScheduledEpoch
    /\ ctl'.pc \in {"submit", "wait"} \/ ctl'.submitted => ShouldRunNow

Started ==
    ctl'.snap = swfCache /\ ctl'.now = now /\ ctl'.pc = "list" /\ ~ctl'.submitted

GoesOn ==
    /\ ctl'.snap = ctl.snap /\ ctl'.now = ctl.now /\ ctl'.next = ctl.next
    /\ \/ ctl'.pc \in {"submit", "wait"} \/ ctl'.submitted
       => \/ ctl.pc \in {"submit", "wait"} \/ ctl.submitted

LEMMA CtlMoves ==
    ASSUME IndexInv, AwaitedInv, TimeInv, [Next]_vars
    PROVE  /\ ctl' = Idle \/ Started \/ Decided \/ GoesOn
           /\ ctl' = Idle \/ {"now", "next"} \subseteq DOMAIN ctl'
  <1>1. {"now", "next", "pc", "snap", "submitted"} \subseteq DOMAIN ctl
    BY DEF IndexInv, CtlShape, TimeInv
  <1>2. CASE UNCHANGED ctl
    BY <1>1, <1>2 DEF GoesOn
  <1>3. CASE SyncStart
    BY <1>3 DEF SyncStart, Started, Idle
  <1>4. CASE Decide
    <2>1. ctl'.snap = ctl.snap /\ ctl'.now = ctl.now /\ ctl'.next = NextScheduledEpoch
      BY <1>1, <1>4 DEF Decide
    <2>2. /\ ctl'.submitted = (ShouldRunNow /\ AlreadySubmitted)
          /\ ctl'.pc = IF ShouldRunNow /\ ~AlreadySubmitted THEN "submit" ELSE "update"
      BY <1>1, <1>4 DEF Decide
    <2>3. {"now", "next"} \subseteq DOMAIN ctl'
      BY <1>1, <1>4 DEF Decide
    <2> QED BY <2>1, <2>2, <2>3 DEF Decided
  <1>5. ASSUME ctl' = [ctl EXCEPT !.pc = "update", !.submitted = TRUE],
               ctl.pc \in {"submit", "wait"}
        PROVE  GoesOn /\ {"now", "next"} \subseteq DOMAIN ctl'
    BY <1>1, <1>5 DEF GoesOn
  <1>6. CASE CreateWorkflow
    BY <1>5, <1>6 DEF CreateWorkflow, EndSync
  <1>7. CASE CallCreateRun
    BY <1>1, <1>7 DEF CallCreateRun, GoesOn
  <1>8. CASE updateStatus \/ RequestFails \/ ControllerCrash
    BY <1>8 DEF updateStatus, RequestFails, ControllerCrash, EndSync
  <1>9. ASSUME NEW c \in Calls, CallStep(c) \/ CallFails(c)
        PROVE  /\ ctl' = Idle \/ Started \/ Decided \/ GoesOn
               /\ ctl' = Idle \/ {"now", "next"} \subseteq DOMAIN ctl'
    <2>1. CASE Return(c, TRUE) \/ Return(c, FALSE)
      <3>1. CASE ~calls[c].awaited
        BY <1>2, <2>1, <3>1 DEF Return
      <3>2. CASE calls[c].awaited
        <4>1. ctl.pc = "wait"
          BY <3>2 DEF AwaitedInv
        <4>2. ctl' = Idle \/ ctl' = [ctl EXCEPT !.pc = "update", !.submitted = TRUE]
          BY <2>1, <3>2 DEF Return, EndSync
        <4> QED BY <1>5, <4>1, <4>2
      <3> QED BY <3>1, <3>2
    <2>2. UNCHANGED ctl \/ Return(c, TRUE) \/ Return(c, FALSE)
      BY <1>9 DEF CallStep, GuardRun, LabelRun, CreateRunWorkflow, InsertRun, CallFails
    <2> QED BY <1>2, <2>1, <2>2
  <1>10. ASSUME NEW w \in WfIds, Argo(w) \/ DeleteRun(w) \/ CollectOwned(w)
         PROVE  UNCHANGED ctl
    BY <1>10 DEF Argo, WfStart, WfFinish, DeleteRun, CollectOwned
  <1>11. CASE Informers \/ Advance \/ ChangeJobMode \/ DeleteJob \/ UNCHANGED vars
    BY <1>2, <1>11 DEF Informers, SwfInformer, WfInformer, Resync, Advance, ChangeJobMode,
                       DeleteJob, vars
  <1> QED
    BY <1>2, <1>3, <1>4, <1>6, <1>7, <1>8, <1>9, <1>10, <1>11, NextCases DEF Elsewhere

\* The clock and the cache.
LEMMA ClockMoves ==
    ASSUME TimeInv, [Next]_vars
    PROVE  now' \in 0..MaxNow /\ swfCache' \in {swfCache, swf}
  <1>1. CASE Advance
    BY <1>1, ConstantsAssumption DEF Advance, TimeInv, caches
  <1>2. ASSUME NEW c \in Calls, CallStep(c) \/ CallFails(c) PROVE UNCHANGED <<now, swfCache>>
    BY <1>2 DEF CallStep, GuardRun, LabelRun, CreateRunWorkflow, InsertRun, CallFails, caches
  <1>3. ASSUME NEW w \in WfIds, Argo(w) \/ DeleteRun(w) \/ CollectOwned(w)
        PROVE  UNCHANGED <<now, swfCache>>
    BY <1>3 DEF Argo, WfStart, WfFinish, DeleteRun, CollectOwned, caches
  <1>4. CASE \/ SyncStart \/ Decide \/ CreateWorkflow \/ CallCreateRun \/ updateStatus
             \/ ChangeJobMode \/ DeleteJob \/ RequestFails \/ UNCHANGED vars
    BY <1>4
    DEF SyncStart, Decide, CreateWorkflow, CallCreateRun, updateStatus, ChangeJobMode,
        DeleteJob, RequestFails, caches, vars, TimeInv
  <1>5. CASE Informers \/ ControllerCrash
    BY <1>5 DEF Informers, SwfInformer, WfInformer, Resync, ControllerCrash, caches, TimeInv
  <1> QED BY <1>1, <1>2, <1>3, <1>4, <1>5, NextCases DEF Elsewhere, TimeInv

\* A workflow that is due is due after the last trigger.
LEMMA DueIsLater ==
    ASSUME NoCronLoop, TimeInv, ShouldRunNow
    PROVE  Later(NextScheduledEpoch, ctl.snap.lastTriggered)
  <1>1. /\ IsTrigger(Trigger) /\ NoCatchup \in BOOLEAN /\ Creation \in Nat
        /\ ctl.now \in Nat /\ ctl.now < Never
    BY ConstantsAssumption, NeverAssumption DEF TimeInv
  <1>2. /\ ctl.snap.lastTriggered \in Nat \cup {Nil}
        /\ Trigger.kind # "oneoff" => LastAfterStart(Trigger, ctl.snap.lastTriggered)
    BY DEF TimeInv, SameTrigger, TimedSwf
  <1>3. NextScheduledEpoch # Never
    BY <1>1, NeverAssumption DEF ShouldRunNow
  <1>4. NextScheduledEpoch # Never => Later(NextScheduledEpoch, ctl.snap.lastTriggered)
    BY <1>1, <1>2, NextIsLater DEF NextScheduledEpoch, Later, NoCronLoop
  <1> QED BY <1>3, <1>4

LEMMA NextTime ==
    ASSUME NoCronLoop, IndexInv, AwaitedInv, TimeInv, [Next]_vars
    PROVE  TimeInv'
  <1>1. now' \in 0..MaxNow /\ swfCache' \in {swfCache, swf}
    BY ClockMoves
  <1>2. TimedSwf(swf')
    <2>1. CASE UNCHANGED swf
      BY <2>1 DEF TimeInv, TimedSwf
    <2>2. CASE Recorded \/ Edited
      BY <2>2 DEF Recorded, Edited, TimeInv, TimedSwf, Later
    <2> QED BY <2>1, <2>2, SwfMoves
  <1>3. \A s : CopyOf(s, swf) /\ SameTrigger(s, swf) => SameTrigger(s, swf')
    BY SwfMoves DEF Recorded, Edited, CopyOf, SwfShape, SameTrigger, IndexInv
  <1>4. SameTrigger(NewSwf, swf') /\ NewSwf' = NewSwf
    BY <1>3 DEF IndexInv, TimeInv, NewSwf
  <1>5. SameTrigger(swfCache', swf')
    <2>1. CASE swfCache' = swfCache
      BY <1>3, <2>1 DEF IndexInv, TimeInv
    <2>2. CASE swfCache' = swf
      <3>1. CopyOf(swf, swf) /\ SameTrigger(swf, swf)
        BY DEF IndexInv, CopyOf, SwfShape, TimeInv, SameTrigger
      <3> QED BY <1>3, <2>2, <3>1
    <2> QED BY <1>1, <2>1, <2>2
  <1>6. /\ SameTrigger(ctl'.snap, swf')
        /\ {"now", "next"} \subseteq DOMAIN ctl' /\ ctl'.now \in 0..MaxNow
        /\ ctl'.pc \in {"submit", "wait"} \/ ctl'.submitted =>
               Later(ctl'.next, ctl'.snap.lastTriggered)
    <2>1. CASE ctl' = Idle
      <3>1. /\ Idle.snap = NewSwf /\ Idle.now = 0 /\ Idle.pc = "idle" /\ ~Idle.submitted
            /\ {"now", "next"} \subseteq DOMAIN Idle
        BY DEF Idle
      <3> QED BY <1>4, <2>1, <3>1, ConstantsAssumption
    <2>2. SameTrigger(ctl.snap, swf') /\ SameTrigger(swfCache, swf')
      BY <1>3 DEF IndexInv, TimeInv
    <2>3. CASE Started /\ {"now", "next"} \subseteq DOMAIN ctl'
      BY <2>2, <2>3 DEF Started, TimeInv
    <2>4. CASE Decided /\ {"now", "next"} \subseteq DOMAIN ctl'
      BY <2>2, <2>4, DueIsLater DEF Decided, TimeInv
    <2>5. CASE GoesOn /\ {"now", "next"} \subseteq DOMAIN ctl'
      BY <2>2, <2>5 DEF GoesOn, TimeInv
    <2> QED BY <2>1, <2>3, <2>4, <2>5, CtlMoves
  <1> QED BY <1>1, <1>2, <1>4, <1>5, <1>6 DEF TimeInv

(* A write of the status never undoes a trigger, however stale the copies  *)
(* are that the worker decides on and whatever users write in between:     *)
(* LastIndex grows by one or stays, and LastTriggeredTime grows with it    *)
(* (updateStatus, UpdateStatus).                                           *)
THEOREM TriggerOnlyAdvancesAlways ==
    ASSUME NoCronLoop
    PROVE  Spec => TriggerOnlyAdvances
  <1> DEFINE Inv == IndexInv /\ HistoryInv /\ TimeInv
             Step == /\ swf'.lastIndex \in {swf.lastIndex, nextIndex(swf)}
                     /\ IF swf'.lastIndex = swf.lastIndex
                        THEN swf'.lastTriggered = swf.lastTriggered
                        ELSE swf'.lastTriggered > swf.lastTriggered
  <1>1. Init => Inv
    BY InitIndex, InitHistory, InitTime
  <1>2. Inv /\ [Next]_vars => Inv'
    BY NextIndexInv, NextHistory, NextTime DEF HistoryInv
  <1>3. Inv /\ [Next]_vars => Step
    <2> SUFFICES ASSUME Inv, [Next]_vars PROVE Step
      OBVIOUS
    <2>1. CASE UNCHANGED swf
      BY <2>1
    <2>2. CASE Edited
      BY <2>2 DEF Edited
    <2>3. CASE Recorded
      <3>1. ctl.snap.lastTriggered = swf.lastTriggered
        BY <2>3 DEF Recorded, TimeInv, SameTrigger
      <3>2. nextIndex(swf) # swf.lastIndex
        BY DEF IndexInv, SwfShape, nextIndex
      <3> QED BY <2>3, <3>1, <3>2 DEF Recorded, TimeInv, Later
    <2> QED BY <2>1, <2>2, <2>3, SwfMoves
  <1>4. Inv /\ [Next]_vars => [Step]_vars
    BY <1>3
  <1> QED BY <1>1, <1>2, <1>4, PTL DEF Spec, TriggerOnlyAdvances

-----------------------------------------------------------------------------
(* The embedded workflows of a schedule that catches up are its slots.     *)
(* What is due after a trigger then depends on that trigger alone, so the  *)
(* epochs are a chain: each copy of the resource knows where it is in it,  *)
(* and a workflow that is made again gets the epoch of the one it          *)
(* replaces.                                                               *)

CatchesUp == ~ViaRunsApi /\ ~NoCatchup

NextAfter(t) == getNextScheduledEpoch(Trigger, FALSE, t, Creation, 0)

\* A copy of the resource has the epoch of the workflow it recorded last.
Dated(s) ==
    /\ s.lastIndex = 0 => s.lastTriggered = Nil
    /\ \A w \in EverCreated : wf[w].run = s.lastIndex => wf[w].epoch = s.lastTriggered

EpochsInv ==
    /\ \A w \in EverCreated : /\ "epoch" \in DOMAIN wf[w]
                              /\ wf[w].epoch \in 0..now
                              /\ OnSchedule(Trigger, Creation, wf[w].epoch)
                              /\ wf[w].run = 1 => wf[w].epoch = NextAfter(Nil)
    /\ \A v, w \in EverCreated :
           /\ wf[v].run = wf[w].run => wf[v].epoch = wf[w].epoch
           /\ wf[v].run = wf[w].run + 1 => wf[v].epoch = NextAfter(wf[w].epoch)

SlotInv ==
    /\ EpochsInv
    /\ Dated(NewSwf) /\ Dated(swf) /\ Dated(swfCache) /\ Dated(ctl.snap)
    /\ ctl.now <= now
    /\ ctl.pc \in {"submit", "wait"} \/ ctl.submitted =>
           ctl.next = NextAfter(ctl.snap.lastTriggered) /\ ctl.next <= ctl.now

LEMMA NextAfterIs ==
    ASSUME CatchesUp
    PROVE  NextScheduledEpoch = NextAfter(ctl.snap.lastTriggered)
  <1>1. NoCatchup = FALSE /\ Trigger.kind \in Kinds
    BY ConstantsAssumption DEF CatchesUp, IsTrigger
  <1>2. CASE Trigger.kind = "periodic"
    BY <1>1, <1>2 DEF NextScheduledEpoch, NextAfter, getNextScheduledEpoch
  <1>3. CASE Trigger.kind = "cron"
    BY <1>1, <1>3 DEF NextScheduledEpoch, NextAfter, getNextScheduledEpoch
  <1>4. CASE Trigger.kind = "oneoff"
    BY <1>1, <1>4 DEF NextScheduledEpoch, NextAfter, getNextScheduledEpoch
  <1> QED BY <1>1, <1>2, <1>3, <1>4 DEF Kinds

\* The next time after a trigger on the schedule is the next slot.
LEMMA NextAfterSlot ==
    ASSUME NEW t \in Nat \cup {Nil}, OnSchedule(Trigger, Creation, t)
    PROVE  NextSlot(Trigger, Creation, t, NextAfter(t))
  <1>1. IsTrigger(Trigger) /\ Creation \in Nat
    BY ConstantsAssumption
  <1> QED BY <1>1, CatchupNext DEF NextAfter

\* What a copy of the resource recorded last was made, and its epoch is on the
\* schedule; what it would record next has the next epoch.
LEMMA CopyDated ==
    ASSUME IndexInv, HistoryInv, EpochsInv, NEW s, CopyOf(s, swf), Dated(s)
    PROVE  /\ s.lastTriggered \in Nat \cup {Nil}
           /\ OnSchedule(Trigger, Creation, s.lastTriggered)
           /\ \A w \in EverCreated : wf[w].run = s.lastIndex + 1 =>
                  wf[w].epoch = NextAfter(s.lastTriggered)
  <1>1. s.lastIndex \in Nat /\ swf.lastIndex \in Nat /\ s.lastIndex <= swf.lastIndex
    BY DEF CopyOf, SwfShape, IndexInv
  <1>2. CASE s.lastIndex = 0
    <2>1. s.lastTriggered = Nil
      BY <1>2 DEF Dated
    <2> QED BY <1>2, <2>1 DEF EpochsInv, OnSchedule
  <1>3. CASE s.lastIndex # 0
    <2>1. s.lastIndex \in 1..swf.lastIndex
      BY <1>1, <1>3
    <2>2. PICK v \in EverCreated : wf[v].run = s.lastIndex
      BY <2>1 DEF HistoryInv, RecordedWasCreated
    <2>3. wf[v].epoch = s.lastTriggered
      BY <2>2 DEF Dated
    <2>4. wf[v].epoch \in Nat /\ OnSchedule(Trigger, Creation, wf[v].epoch)
      BY DEF EpochsInv
    <2>5. \A w \in EverCreated : wf[w].run = s.lastIndex + 1 =>
             wf[w].epoch = NextAfter(wf[v].epoch)
      BY <2>2 DEF EpochsInv
    <2> QED BY <2>3, <2>4, <2>5
  <1> QED BY <1>2, <1>3

-----------------------------------------------------------------------------
(* How workflows come about.                                               *)

NoneNew ==
    /\ EverCreated' = EverCreated
    /\ \A w \in EverCreated : /\ "epoch" \in DOMAIN wf'[w]
                              /\ wf'[w].run = wf[w].run /\ wf'[w].epoch = wf[w].epoch

\* The workflow v is new: the next one of the copy the worker has.
NewIs(v) ==
    /\ EverCreated' = EverCreated \cup {v} /\ v \notin EverCreated
    /\ "epoch" \in DOMAIN wf'[v]
    /\ wf'[v].run = nextIndex(ctl.snap) /\ wf'[v].epoch = ctl.next
    /\ \A w \in EverCreated : wf'[w] = wf[w]
    /\ ctl.pc = "submit"
    /\ UNCHANGED <<now, swf, swfCache>>

LEMMA EpochCases ==
    ASSUME CatchesUp, IndexInv, CacheInv, EmbeddedInv, EpochsInv, [Next]_vars
    PROVE  NoneNew \/ \E v \in WfIds : NewIs(v)
  <1>0. CASE UNCHANGED wf
    BY <1>0 DEF NoneNew, EverCreated, EpochsInv
  <1>1. ASSUME NEW v \in WfIds, wf[v].phase = "none", ctl.pc = "submit",
               UNCHANGED <<now, swf, swfCache>>,
               wf' = [wf EXCEPT ![v] =
                   Workflow(NextResourceIndex, ctl.next, NextResourceIndex)]
        PROVE  NewIs(v)
    <2>1. /\ wf'[v] = Workflow(NextResourceIndex, ctl.next, NextResourceIndex)
          /\ \A w \in WfIds : w # v => wf'[w] = wf[w]
      BY <1>1 DEF IndexInv
    <2>2. EverCreated' = EverCreated \cup {v} /\ v \notin EverCreated
      BY <1>1, <2>1 DEF EverCreated, Workflow
    <2>3. \A w \in EverCreated : wf'[w] = wf[w]
      BY <2>1, <2>2 DEF EverCreated
    <2> QED BY <1>1, <2>1, <2>2, <2>3 DEF NewIs, Workflow, NextResourceIndex
  <1>2. CASE CreateWorkflow \/ RequestFails
    <2>1. CASE ~UNCHANGED wf
      <3>1. PICK v \in WfIds :
               /\ wf[v].phase = "none"
               /\ wf' = [wf EXCEPT ![v] =
                     Workflow(NextResourceIndex, ctl.next, NextResourceIndex)]
        BY <1>2, <2>1 DEF CreateWorkflow, RequestFails
      <3>2. ctl.pc = "submit" /\ UNCHANGED <<now, swf, swfCache>>
        BY <1>2, <2>1 DEF CreateWorkflow, RequestFails, caches
      <3> QED BY <1>1, <3>1, <3>2
    <2> QED BY <1>0, <2>1
  <1>3. ASSUME NEW w \in WfIds, Argo(w) \/ DeleteRun(w) \/ CollectOwned(w) PROVE NoneNew
    <2>1. wf[w].phase \notin {"none"}
      BY <1>3 DEF Argo, WfStart, WfFinish, DeleteRun, CollectOwned, Exists, ActivePhases
    <2>2. PICK phase \in Phases \ {"none"} : wf' = [wf EXCEPT ![w].phase = phase]
      BY <1>3 DEF Argo, WfStart, WfFinish, DeleteRun, CollectOwned, Phases, ActivePhases
    <2>3. w \in EverCreated /\ {"phase", "run", "epoch"} \subseteq DOMAIN wf[w]
      BY <2>1 DEF EverCreated, EpochsInv, IndexInv, WfInRange
    <2>4. /\ wf'[w].phase # "none" /\ "epoch" \in DOMAIN wf'[w]
          /\ wf'[w].run = wf[w].run /\ wf'[w].epoch = wf[w].epoch
          /\ \A u \in WfIds : u # w => wf'[u] = wf[u]
      BY <2>2, <2>3 DEF IndexInv
    <2> QED BY <2>3, <2>4 DEF NoneNew, EverCreated, EpochsInv
  <1>4. \A c \in Calls : ~CallStep(c) /\ ~CallFails(c)
    BY DEF EmbeddedInv, CatchesUp, CallStep, GuardRun, LabelRun, CreateRunWorkflow, InsertRun,
           CallFails
  <1>5. CASE \/ SyncStart \/ Decide \/ CallCreateRun \/ updateStatus \/ Informers \/ Advance
             \/ ChangeJobMode \/ DeleteJob \/ ControllerCrash \/ UNCHANGED vars
    BY <1>0, <1>5
    DEF SyncStart, Decide, CallCreateRun, updateStatus, Informers, SwfInformer, WfInformer,
        Resync, Advance, ChangeJobMode, DeleteJob, ControllerCrash, cluster, vars
  <1> QED BY <1>2, <1>3, <1>4, <1>5, NextCases DEF Elsewhere

\* The clock does not go back, and goes on by one.
LEMMA ClockGrows ==
    ASSUME TimeInv, [Next]_vars
    PROVE  now' = now \/ (now' = now + 1 /\ UNCHANGED wf)
  <1>1. ASSUME NEW c \in Calls, CallStep(c) \/ CallFails(c) PROVE UNCHANGED now
    BY <1>1 DEF CallStep, GuardRun, LabelRun, CreateRunWorkflow, InsertRun, CallFails
  <1>2. ASSUME NEW w \in WfIds, Argo(w) \/ DeleteRun(w) \/ CollectOwned(w)
        PROVE  UNCHANGED now
    BY <1>2 DEF Argo, WfStart, WfFinish, DeleteRun, CollectOwned
  <1>3. CASE \/ SyncStart \/ Decide \/ CreateWorkflow \/ CallCreateRun \/ updateStatus
             \/ ChangeJobMode \/ DeleteJob \/ RequestFails \/ ControllerCrash \/ Informers
             \/ UNCHANGED vars
    BY <1>3
    DEF SyncStart, Decide, CreateWorkflow, CallCreateRun, updateStatus, ChangeJobMode,
        DeleteJob, RequestFails, ControllerCrash, Informers, SwfInformer, WfInformer, Resync, vars
  <1>4. CASE Advance
    BY <1>4 DEF Advance, cluster
  <1> QED BY <1>1, <1>2, <1>3, <1>4, NextCases DEF Elsewhere

-----------------------------------------------------------------------------
(* The invariant is kept.                                                  *)

LEMMA InitSlot == Init => SlotInv
  <1> SUFFICES ASSUME Init PROVE SlotInv
    OBVIOUS
  <1>1. EverCreated = {}
    BY DEF Init, EverCreated, NoWorkflow
  <1>2. /\ swf = NewSwf /\ swfCache = NewSwf /\ ctl = Idle
        /\ now \in Nat
    BY ConstantsAssumption DEF Init
  <1>3. /\ Idle.snap = NewSwf /\ Idle.now = 0 /\ Idle.pc = "idle" /\ ~Idle.submitted
        /\ NewSwf.lastTriggered = Nil
    BY DEF Idle, NewSwf
  <1>4. EpochsInv /\ Dated(NewSwf)
    BY <1>1, <1>3 DEF EpochsInv, Dated
  <1> QED BY <1>2, <1>3, <1>4 DEF SlotInv

\* What a workflow that the worker makes is given: the epoch of those that had
\* its index before, and the next one after those before it.
LEMMA NewEpoch ==
    ASSUME CatchesUp, IndexInv, HistoryInv, TimeInv, SlotInv, NEW v \in WfIds, NewIs(v)
    PROVE  /\ ctl.next \in 0..now
           /\ OnSchedule(Trigger, Creation, ctl.next)
           /\ ctl.snap.lastIndex = 0 => ctl.next = NextAfter(Nil)
           /\ \A w \in EverCreated :
                  /\ wf[w].run = nextIndex(ctl.snap) => wf[w].epoch = ctl.next
                  /\ nextIndex(ctl.snap) = wf[w].run + 1 => ctl.next = NextAfter(wf[w].epoch)
                  /\ wf[w].run = nextIndex(ctl.snap) + 1 => wf[w].epoch = NextAfter(ctl.next)
  <1> DEFINE last == ctl.snap.lastTriggered
  <1>1. /\ CopyOf(ctl.snap, swf) /\ Dated(ctl.snap) /\ EpochsInv
        /\ ctl.snap.lastIndex \in Nat /\ swf.lastIndex \in Nat
        /\ ctl.snap.lastIndex <= swf.lastIndex
    BY DEF IndexInv, CopyOf, SwfShape, SlotInv
  <1>2. /\ last \in Nat \cup {Nil} /\ OnSchedule(Trigger, Creation, last)
        /\ \A w \in EverCreated : wf[w].run = nextIndex(ctl.snap) =>
               wf[w].epoch = NextAfter(last)
    BY <1>1, CopyDated DEF nextIndex
  <1>3. ctl.next = NextAfter(last) /\ ctl.next <= ctl.now
    BY DEF NewIs, SlotInv
  <1>4. NextSlot(Trigger, Creation, last, ctl.next)
    BY <1>2, <1>3, NextAfterSlot
  <1>5. now \in Nat /\ ctl.now \in Nat /\ ctl.now <= now /\ now < Never /\ Never \in Nat
    BY ConstantsAssumption, NeverAssumption DEF TimeInv, SlotInv
  <1>6. ctl.next # Never
    BY <1>3, <1>5
  <1>7. ctl.next \in Nat /\ OnSchedule(Trigger, Creation, ctl.next)
    BY <1>4, <1>6 DEF NextSlot
  <1>8. ctl.next \in 0..now
    BY <1>3, <1>5, <1>7
  <1>9. ctl.snap.lastIndex = 0 => ctl.next = NextAfter(Nil)
    BY <1>1, <1>3 DEF Dated
  <1>10. ASSUME NEW w \in EverCreated
         PROVE  /\ wf[w].run = nextIndex(ctl.snap) => wf[w].epoch = ctl.next
                /\ nextIndex(ctl.snap) = wf[w].run + 1 => ctl.next = NextAfter(wf[w].epoch)
                /\ wf[w].run = nextIndex(ctl.snap) + 1 => wf[w].epoch = NextAfter(ctl.next)
    <2>1. wf[w].run \in 1..(swf.lastIndex + 1)
      BY DEF EverCreated, IndexInv, WfInRange, nextIndex
    <2>2. wf[w].run = nextIndex(ctl.snap) => wf[w].epoch = ctl.next
      BY <1>2, <1>3
    <2>3. ASSUME nextIndex(ctl.snap) = wf[w].run + 1 PROVE ctl.next = NextAfter(wf[w].epoch)
      <3>1. wf[w].run = ctl.snap.lastIndex
        BY <1>1, <2>1, <2>3 DEF nextIndex
      <3>2. wf[w].epoch = last
        BY <1>1, <3>1 DEF Dated
      <3> QED BY <1>3, <3>2
    <2>4. ASSUME wf[w].run = nextIndex(ctl.snap) + 1 PROVE wf[w].epoch = NextAfter(ctl.next)
      <3>1. nextIndex(ctl.snap) \in 1..swf.lastIndex
        BY <1>1, <2>1, <2>4 DEF nextIndex
      <3>2. PICK u \in EverCreated : wf[u].run = nextIndex(ctl.snap)
        BY <3>1 DEF HistoryInv, RecordedWasCreated
      <3>3. wf[u].epoch = ctl.next
        BY <1>2, <1>3, <3>2
      <3>4. wf[w].epoch = NextAfter(wf[u].epoch)
        BY <1>1, <2>4, <3>2 DEF EpochsInv
      <3> QED BY <3>3, <3>4
    <2> QED BY <2>2, <2>3, <2>4
  <1> QED BY <1>7, <1>8, <1>9, <1>10

LEMMA NextEpochs ==
    ASSUME CatchesUp, IndexInv, HistoryInv, EmbeddedInv, TimeInv, SlotInv, [Next]_vars
    PROVE  EpochsInv'
  <1>1. CASE NoneNew
    <2>1. now \in Nat /\ now' \in Nat /\ now <= now'
      BY ClockGrows DEF TimeInv
    <2>2. \A w \in EverCreated : wf[w].epoch \in 0..now => wf'[w].epoch \in 0..now'
      BY <1>1, <2>1 DEF NoneNew
    <2>3. /\ EverCreated' = EverCreated
          /\ \A w \in EverCreated : /\ "epoch" \in DOMAIN wf'[w]
                                    /\ wf'[w].run = wf[w].run /\ wf'[w].epoch = wf[w].epoch
      BY <1>1 DEF NoneNew
    <2>4. ASSUME NEW w \in EverCreated'
          PROVE  /\ "epoch" \in DOMAIN wf'[w]
                 /\ wf'[w].epoch \in 0..now'
                 /\ OnSchedule(Trigger, Creation, wf'[w].epoch)
                 /\ wf'[w].run = 1 => wf'[w].epoch = NextAfter(Nil)
      BY <2>2, <2>3 DEF SlotInv, EpochsInv
    <2>5. ASSUME NEW u \in EverCreated', NEW w \in EverCreated'
          PROVE  /\ wf'[u].run = wf'[w].run => wf'[u].epoch = wf'[w].epoch
                 /\ wf'[u].run = wf'[w].run + 1 => wf'[u].epoch = NextAfter(wf'[w].epoch)
      BY <2>3 DEF SlotInv, EpochsInv
    <2> QED BY <2>4, <2>5 DEF EpochsInv, NextAfter
  <1>2. ASSUME NEW v \in WfIds, NewIs(v) PROVE EpochsInv'
    <2> DEFINE k == nextIndex(ctl.snap)
               e == ctl.next
    <2>1. /\ e \in 0..now
          /\ OnSchedule(Trigger, Creation, e)
          /\ ctl.snap.lastIndex = 0 => e = NextAfter(Nil)
          /\ \A w \in EverCreated :
                 /\ wf[w].run = k => wf[w].epoch = e
                 /\ k = wf[w].run + 1 => e = NextAfter(wf[w].epoch)
                 /\ wf[w].run = k + 1 => wf[w].epoch = NextAfter(e)
      BY <1>2, NewEpoch
    <2>2. /\ EverCreated' = EverCreated \cup {v} /\ now' = now
          /\ "epoch" \in DOMAIN wf'[v] /\ wf'[v].run = k /\ wf'[v].epoch = e
          /\ \A w \in EverCreated : wf'[w] = wf[w]
      BY <1>2 DEF NewIs
    <2>3. k \in Nat /\ k # k + 1 /\ (k = 1 => ctl.snap.lastIndex = 0)
      BY DEF nextIndex, IndexInv, CopyOf, SwfShape
    <2> HIDE DEF k, e
    <2>4. ASSUME NEW w \in EverCreated'
          PROVE  /\ "epoch" \in DOMAIN wf'[w]
                 /\ wf'[w].epoch \in 0..now'
                 /\ OnSchedule(Trigger, Creation, wf'[w].epoch)
                 /\ wf'[w].run = 1 => wf'[w].epoch = NextAfter(Nil)
      BY <2>1, <2>2, <2>3 DEF SlotInv, EpochsInv
    <2>5. ASSUME NEW u \in EverCreated', NEW w \in EverCreated'
          PROVE  /\ wf'[u].run = wf'[w].run => wf'[u].epoch = wf'[w].epoch
                 /\ wf'[u].run = wf'[w].run + 1 => wf'[u].epoch = NextAfter(wf'[w].epoch)
      <3>1. CASE u = v /\ w = v
        BY <2>2, <2>3, <3>1
      <3>2. CASE u = v /\ w \in EverCreated
        BY <2>1, <2>2, <3>2
      <3>3. CASE u \in EverCreated /\ w = v
        BY <2>1, <2>2, <3>3
      <3>4. CASE u \in EverCreated /\ w \in EverCreated
        BY <2>2, <3>4 DEF SlotInv, EpochsInv
      <3> QED BY <2>2, <3>1, <3>2, <3>3, <3>4
    <2> QED BY <2>4, <2>5 DEF EpochsInv, NextAfter
  <1> QED BY <1>1, <1>2, EpochCases DEF HistoryInv, SlotInv

\* A copy of the resource keeps its place.
DatedThen(s) ==
    /\ s.lastIndex = 0 => s.lastTriggered = Nil
    /\ \A w \in EverCreated' : wf'[w].run = s.lastIndex => wf'[w].epoch = s.lastTriggered

LEMMA StaysDated ==
    ASSUME CatchesUp, IndexInv, HistoryInv, EmbeddedInv, TimeInv, SlotInv, [Next]_vars,
           NEW s, CopyOf(s, swf), Dated(s)
    PROVE  DatedThen(s)
  <1>1. CASE NoneNew
    BY <1>1 DEF NoneNew, Dated, DatedThen
  <1>2. ASSUME NEW v \in WfIds, NewIs(v) PROVE DatedThen(s)
    <2>1. /\ EverCreated' = EverCreated \cup {v}
          /\ wf'[v].run = nextIndex(ctl.snap) /\ wf'[v].epoch = ctl.next
          /\ \A w \in EverCreated : wf'[w] = wf[w]
      BY <1>2 DEF NewIs
    <2>2. ASSUME nextIndex(ctl.snap) = s.lastIndex PROVE ctl.next = s.lastTriggered
      <3>1. s.lastIndex \in 1..swf.lastIndex
        BY <2>2 DEF IndexInv, CopyOf, SwfShape, nextIndex
      <3>2. PICK u \in EverCreated : wf[u].run = s.lastIndex
        BY <3>1 DEF HistoryInv, RecordedWasCreated
      <3>3. wf[u].epoch = ctl.next
        BY <1>2, <2>2, <3>2, NewEpoch
      <3> QED BY <3>2, <3>3 DEF Dated
    <2> QED BY <2>1, <2>2 DEF Dated, DatedThen
  <1> QED BY <1>1, <1>2, EpochCases DEF HistoryInv, SlotInv

LEMMA NextSlotInv ==
    ASSUME CatchesUp, IndexInv, HistoryInv, EmbeddedInv, TimeInv, SlotInv, [Next]_vars
    PROVE  SlotInv'
  <1>1. EpochsInv'
    BY NextEpochs
  <1>2. /\ CopyOf(NewSwf, swf) /\ CopyOf(swf, swf) /\ CopyOf(swfCache, swf)
        /\ CopyOf(ctl.snap, swf)
    BY DEF IndexInv, CopyOf, SwfShape
  <1>3. DatedThen(NewSwf) /\ DatedThen(swf) /\ DatedThen(swfCache) /\ DatedThen(ctl.snap)
    BY <1>2, StaysDated DEF SlotInv
  <1>4. DatedThen(swf')
    <2>1. CASE UNCHANGED swf
      BY <1>3, <2>1 DEF DatedThen
    <2>2. CASE Edited
      BY <1>3, <2>2 DEF DatedThen, Edited
    <2>3. CASE Recorded /\ ~ctl.submitted
      BY <1>3, <2>3 DEF DatedThen, Recorded
    <2>4. CASE Recorded /\ ctl.submitted
      <3>1. ctl.snap.lastIndex = swf.lastIndex /\ swf.lastIndex \in Nat
        BY <2>4 DEF Recorded, IndexInv, CopyOf, SwfShape
      <3>2. swf'.lastIndex = swf.lastIndex + 1 /\ swf'.lastTriggered = ctl.next
        BY <2>4 DEF Recorded, nextIndex
      <3>3. ctl.next = NextAfter(ctl.snap.lastTriggered)
        BY <2>4 DEF SlotInv
      <3>4. \A w \in EverCreated : wf[w].run = ctl.snap.lastIndex + 1 => wf[w].epoch = ctl.next
        BY <1>2, <3>3, CopyDated DEF SlotInv
      <3>5. NoneNew
        <4>1. ASSUME NEW v \in WfIds PROVE ~NewIs(v)
          <5>1. swf'.lastIndex # swf.lastIndex
            BY <3>1, <3>2
          <5> QED BY <5>1 DEF NewIs
        <4> QED BY <4>1, EpochCases DEF HistoryInv, SlotInv
      <3> QED BY <3>1, <3>2, <3>4, <3>5 DEF DatedThen, NoneNew
    <2> QED BY <2>1, <2>2, <2>3, <2>4, SwfMoves
  <1>5. DatedThen(swfCache')
    <2>1. swfCache' = swfCache \/ swfCache' = swf
      BY ClockMoves
    <2>2. CASE swfCache' = swfCache
      BY <1>3, <2>2
    <2>3. CASE swfCache' = swf
      BY <1>3, <2>3
    <2> QED BY <2>1, <2>2, <2>3
  <1>6. now \in Nat /\ now' \in Nat /\ now <= now'
    BY ClockGrows DEF TimeInv
  <1>7. /\ DatedThen(ctl'.snap)
        /\ ctl'.now <= now'
        /\ ctl'.pc \in {"submit", "wait"} \/ ctl'.submitted =>
               ctl'.next = NextAfter(ctl'.snap.lastTriggered) /\ ctl'.next <= ctl'.now
    <2>n. ctl.now \in Nat /\ ctl.now <= now
      BY DEF TimeInv, SlotInv
    <2>1. CASE ctl' = Idle
      <3>1. /\ Idle.snap = NewSwf /\ Idle.now = 0 /\ Idle.pc = "idle" /\ ~Idle.submitted
        BY DEF Idle
      <3> QED BY <1>3, <1>6, <2>1, <3>1
    <2>2. CASE Started
      BY <1>3, <1>6, <2>2 DEF Started
    <2>3. CASE Decided
      BY <1>3, <1>6, <2>3, <2>n, NextAfterIs DEF Decided, ShouldRunNow
    <2>4. CASE GoesOn
      BY <1>3, <1>6, <2>4, <2>n DEF GoesOn, SlotInv
    <2> QED BY <2>1, <2>2, <2>3, <2>4, CtlMoves DEF HistoryInv
  <1>8. \A s : DatedThen(s) => (/\ s.lastIndex = 0 => s.lastTriggered = Nil
                                /\ \A w \in EverCreated' : wf'[w].run = s.lastIndex =>
                                                           wf'[w].epoch = s.lastTriggered)
    BY DEF DatedThen
  <1>9. Dated(NewSwf)'
    <2>1. NewSwf' = NewSwf
      BY DEF NewSwf
    <2> QED BY <1>3, <2>1 DEF Dated, DatedThen
  <1>10. Dated(swf)' /\ Dated(swfCache)' /\ Dated(ctl.snap)'
    BY <1>4, <1>5, <1>7 DEF Dated, DatedThen
  <1> QED BY <1>1, <1>7, <1>9, <1>10 DEF SlotInv, NextAfter

-----------------------------------------------------------------------------
(* The refinement mapping: the epochs of the workflows in the order of     *)
(* their indices.                                                          *)

MadeFor(i) == CHOOSE x \in {wf[w] : w \in EverCreated} : x.run = i

RunSet == {wf[w].run : w \in EverCreated}

Fired == [i \in 1..Cardinality(RunSet) |-> MadeFor(i).epoch]

LEMMA RunsAre ==
    ASSUME IndexInv, HistoryInv
    PROVE  /\ RunSet \in {1..swf.lastIndex, 1..nextIndex(swf)}
           /\ \A m \in Nat : RunSet = 1..m => Cardinality(RunSet) = m
           /\ swf.lastIndex \in Nat
  <1>1. swf.lastIndex \in Nat
    BY DEF IndexInv, SwfShape
  <1>2. RunSet \subseteq 1..nextIndex(swf)
    BY DEF RunSet, EverCreated, IndexInv, WfInRange
  <1>3. 1..swf.lastIndex \subseteq RunSet
    BY DEF RunSet, HistoryInv, RecordedWasCreated
  <1>4. \A i \in 1..nextIndex(swf) : i \in 1..swf.lastIndex \/ i = nextIndex(swf)
    BY <1>1 DEF nextIndex
  <1>5. ASSUME nextIndex(swf) \in RunSet PROVE RunSet = 1..nextIndex(swf)
    BY <1>2, <1>3, <1>4, <1>5
  <1>6. ASSUME nextIndex(swf) \notin RunSet PROVE RunSet = 1..swf.lastIndex
    <2>1. 1..swf.lastIndex \subseteq 1..nextIndex(swf)
      BY <1>1 DEF nextIndex
    <2> QED BY <1>2, <1>3, <1>4, <1>6, <2>1
  <1>7. ASSUME NEW m \in Nat PROVE Cardinality(1..m) = m
    BY FS_Interval
  <1> QED BY <1>1, <1>5, <1>6, <1>7

\* Which of the workflows of an index is chosen makes no difference.
LEMMA EpochIs ==
    ASSUME EpochsInv, NEW w \in EverCreated
    PROVE  MadeFor(wf[w].run).epoch = wf[w].epoch
  <1> DEFINE S == {wf[v] : v \in EverCreated}
  <1>1. wf[w] \in S
    OBVIOUS
  <1>2. MadeFor(wf[w].run) \in S /\ MadeFor(wf[w].run).run = wf[w].run
    <2>1. MadeFor(wf[w].run) = CHOOSE x \in S : x.run = wf[w].run
      BY DEF MadeFor
    <2> HIDE DEF S
    <2> QED BY <1>1, <2>1
  <1>3. PICK v \in EverCreated : MadeFor(wf[w].run) = wf[v]
    BY <1>2
  <1> QED BY <1>2, <1>3 DEF EpochsInv

LEMMA FiredIs ==
    ASSUME IndexInv, HistoryInv, EpochsInv, NEW m \in Nat, RunSet = 1..m
    PROVE  /\ Fired \in Seq(Nat) /\ Len(Fired) = m
           /\ \A w \in EverCreated : wf[w].run \in 1..m /\ Fired[wf[w].run] = wf[w].epoch
           /\ \A i \in 1..m : \E w \in EverCreated : wf[w].run = i
  <1>1. Fired = [i \in 1..m |-> MadeFor(i).epoch]
    BY RunsAre DEF Fired
  <1>2. \A i \in 1..m : \E w \in EverCreated : wf[w].run = i
    BY DEF RunSet
  <1>3. \A w \in EverCreated : wf[w].run \in 1..m
    BY DEF RunSet
  <1>4. \A w \in EverCreated : MadeFor(wf[w].run).epoch = wf[w].epoch /\ wf[w].epoch \in Nat
    BY EpochIs DEF EpochsInv
  <1>5. \A i \in 1..m : MadeFor(i).epoch \in Nat
    BY <1>2, <1>4
  <1>6. Fired \in Seq(Nat) /\ Len(Fired) = m
    BY <1>1, <1>5
  <1> QED BY <1>1, <1>2, <1>3, <1>4, <1>6

\* The same of the next state.
FiredFor(m) ==
    /\ Fired \in Seq(Nat) /\ Len(Fired) = m
    /\ \A w \in EverCreated : wf[w].run \in 1..m /\ Fired[wf[w].run] = wf[w].epoch
    /\ \A i \in 1..m : \E w \in EverCreated : wf[w].run = i

FiredShape == \A m \in Nat : RunSet = 1..m => FiredFor(m)

LEMMA FiredThen == IndexInv /\ HistoryInv /\ EpochsInv => FiredShape
  BY FiredIs DEF FiredShape, FiredFor

\* A step that makes no workflow, or one of an index that has one.
LEMMA FiredStays ==
    ASSUME IndexInv, HistoryInv, EpochsInv, (IndexInv /\ HistoryInv /\ EpochsInv)',
           RunSet' = RunSet,
           \A w \in EverCreated : /\ w \in EverCreated'
                                  /\ wf'[w].run = wf[w].run /\ wf'[w].epoch = wf[w].epoch
    PROVE  Fired' = Fired
  <1>0. swf.lastIndex \in Nat /\ nextIndex(swf) \in Nat
    BY RunsAre DEF nextIndex
  <1>1. PICK m \in Nat : RunSet = 1..m
    BY <1>0, RunsAre
  <1>2. FiredFor(m)
    BY <1>1, FiredThen DEF FiredShape
  <1>3. /\ Fired' \in Seq(Nat) /\ Len(Fired') = m
        /\ \A w \in EverCreated' : wf'[w].run \in 1..m /\ Fired'[wf'[w].run] = wf'[w].epoch
    <2>1. (IndexInv /\ HistoryInv /\ EpochsInv)' => FiredShape'
      BY FiredThen, PTL
    <2>2. FiredShape'
      BY <2>1
    <2> QED BY <1>1, <2>2 DEF FiredShape, FiredFor
  <1>4. ASSUME NEW i \in 1..m PROVE Fired'[i] = Fired[i]
    <2>1. PICK w \in EverCreated : wf[w].run = i
      BY <1>2 DEF FiredFor
    <2> QED BY <1>2, <1>3, <2>1 DEF FiredFor
  <1> HIDE DEF Fired
  <1>5. Fired \in Seq(Nat) /\ Len(Fired) = m
    BY <1>2 DEF FiredFor
  <1> QED BY <1>3, <1>4, <1>5, SeqEqual


\* A step that makes a workflow of a new index.
LEMMA FiredGrows ==
    ASSUME IndexInv, HistoryInv, EpochsInv, (IndexInv /\ HistoryInv /\ EpochsInv)',
           NEW m \in Nat, RunSet = 1..m,
           NEW v \in WfIds, NewIs(v), nextIndex(ctl.snap) = m + 1, ctl.next \in Nat
    PROVE  Fired' = Append(Fired, ctl.next)
  <1>1. /\ EverCreated' = EverCreated \cup {v}
        /\ wf'[v].run = m + 1 /\ wf'[v].epoch = ctl.next
        /\ \A w \in EverCreated : wf'[w] = wf[w]
    BY DEF NewIs
  <1>2. RunSet' = 1..(m + 1)
    <2>1. RunSet' = RunSet \cup {m + 1}
      BY <1>1 DEF RunSet
    <2>2. 1..(m + 1) = 1..m \cup {m + 1}
      OBVIOUS
    <2> QED BY <2>1, <2>2
  <1>3. FiredFor(m)
    BY FiredThen DEF FiredShape
  <1>4. /\ Fired' \in Seq(Nat) /\ Len(Fired') = m + 1
        /\ \A w \in EverCreated' : Fired'[wf'[w].run] = wf'[w].epoch
    <2>1. (IndexInv /\ HistoryInv /\ EpochsInv)' => FiredShape'
      BY FiredThen, PTL
    <2>2. FiredShape' /\ m + 1 \in Nat
      BY <2>1
    <2> QED BY <1>2, <2>2 DEF FiredShape, FiredFor
  <1>5. ASSUME NEW i \in 1..m PROVE Fired'[i] = Fired[i]
    <2>1. PICK w \in EverCreated : wf[w].run = i
      BY <1>3 DEF FiredFor
    <2>2. Fired[i] = wf[w].epoch
      BY <1>3, <2>1 DEF FiredFor
    <2>3. Fired'[i] = wf'[w].epoch /\ wf'[w] = wf[w]
      BY <1>1, <1>4, <2>1
    <2> QED BY <2>2, <2>3
  <1>6. Fired'[m + 1] = ctl.next
    BY <1>1, <1>4
  <1>7. Fired \in Seq(Nat) /\ Len(Fired) = m
    BY <1>3 DEF FiredFor
  <1> HIDE DEF Fired
  <1>8. /\ Append(Fired, ctl.next) \in Seq(Nat) /\ Len(Append(Fired, ctl.next)) = m + 1
        /\ \A i \in 1..m : Append(Fired, ctl.next)[i] = Fired[i]
        /\ Append(Fired, ctl.next)[m + 1] = ctl.next
    BY <1>7, AppendProperties
  <1>9. \A i \in 1..(m + 1) : Fired'[i] = Append(Fired, ctl.next)[i]
    <2>1. \A i \in 1..(m + 1) : i \in 1..m \/ i = m + 1
      OBVIOUS
    <2> QED BY <1>5, <1>6, <1>8, <2>1
  <1> QED BY <1>4, <1>8, <1>9, SeqEqual

\* The slots of the promise are those of the lemmas.
LEMMA PromiseSlots ==
    /\ Promise!Last = IF Fired = << >> THEN Nil ELSE Fired[Len(Fired)]
    /\ \A t : Promise!IsSlot(t) <=> SlotOf(Trigger, Creation, t)
  <1>1. Promise!Base = BaseOf(Trigger, Creation)
    BY DEF Promise!Base, BaseOf
  <1>2. \A t : Promise!InWindow(t) <=> WindowOf(Trigger, t)
    BY DEF Promise!InWindow, WindowOf
  <1>3. Trigger.kind \in Kinds
    BY ConstantsAssumption DEF IsTrigger
  <1>4. \A t : Promise!IsSlot(t) <=> SlotOf(Trigger, Creation, t)
    BY <1>1, <1>2, <1>3 DEF Promise!IsSlot, SlotOf, getInterval, Kinds
  <1>5. Promise!Last = IF Fired = << >> THEN Nil ELSE Fired[Len(Fired)]
    BY DEF Promise!Last, Fired, RunSet, MadeFor
  <1> QED BY <1>4, <1>5

\* The workflow of a new index is due.
LEMMA NewIsDue ==
    ASSUME CatchesUp, IndexInv, HistoryInv, TimeInv, SlotInv, NEW v \in WfIds, NewIs(v),
           nextIndex(ctl.snap) \notin RunSet
    PROVE  /\ RunSet = 1..swf.lastIndex /\ nextIndex(ctl.snap) = swf.lastIndex + 1
           /\ Promise!Due(ctl.next)
  <1> DEFINE m == swf.lastIndex
             last == ctl.snap.lastTriggered
             e == ctl.next
  <1>1. /\ m \in Nat /\ ctl.snap.lastIndex \in Nat /\ ctl.snap.lastIndex <= m
        /\ RunSet \in {1..m, 1..(m + 1)}
    BY RunsAre DEF IndexInv, CopyOf, SwfShape, nextIndex
  <1>2. ctl.snap.lastIndex = m /\ RunSet = 1..m
    BY <1>1 DEF nextIndex
  <1>3. CopyOf(ctl.snap, swf) /\ Dated(ctl.snap) /\ EpochsInv
    BY DEF IndexInv, SlotInv
  <1>4. FiredFor(m)
    BY <1>1, <1>2, <1>3, FiredThen DEF FiredShape
  <1>5. Fired \in Seq(Nat) /\ Len(Fired) = m
    BY <1>4 DEF FiredFor
  <1>6. Promise!Last = last /\ (last = Nil => Fired = << >>)
    <2>1. CASE m = 0
      <3>1. last = Nil
        BY <1>2, <1>3, <2>1 DEF Dated
      <3>2. Fired = << >>
        BY <1>5, <2>1
      <3> QED BY <3>1, <3>2, PromiseSlots
    <2>2. CASE m # 0
      <3>1. m \in 1..m
        BY <1>1, <2>2
      <3>2. PICK w \in EverCreated : wf[w].run = m
        BY <1>4, <3>1 DEF FiredFor
      <3>3. Fired[m] = wf[w].epoch /\ wf[w].epoch = last /\ wf[w].epoch \in Nat
        BY <1>2, <1>3, <1>4, <3>2 DEF FiredFor, Dated, EpochsInv
      <3>4. Fired # << >>
        BY <1>5, <2>2
      <3>5. last # Nil
        BY <3>3 DEF Nil
      <3> QED BY <1>5, <3>3, <3>4, <3>5, PromiseSlots
    <2> QED BY <2>1, <2>2
  <1>7. last \in Nat \cup {Nil} /\ OnSchedule(Trigger, Creation, last)
    BY <1>3, CopyDated
  <1>8. e = NextAfter(last) /\ e \in 0..now
    BY NewEpoch DEF NewIs, SlotInv
  <1>9. NextSlot(Trigger, Creation, last, e)
    BY <1>7, <1>8, NextAfterSlot
  <1>10. now \in Nat /\ now < Never /\ Never \in Nat
    BY ConstantsAssumption, NeverAssumption DEF TimeInv
  <1>11. e \in Nat /\ e <= now /\ e # Never /\ e < Never
    BY <1>8, <1>10
  <1>12. /\ e > last /\ SlotOf(Trigger, Creation, e)
         /\ Trigger.kind = "oneoff" => last = Nil
    BY <1>9, <1>11 DEF NextSlot
  <1>13. ASSUME NEW u \in (last + 1)..(e - 1) PROVE ~SlotOf(Trigger, Creation, u)
    <2>1. u \in Nat /\ u > last /\ u < e /\ u < Never
      BY <1>7, <1>10, <1>11 DEF Nil
    <2> QED BY <1>9, <1>11, <2>1 DEF NextSlot
  <1>14. Trigger.kind = "oneoff" => Fired = << >>
    BY <1>6, <1>12
  <1>15. Promise!Due(e)
    <2> HIDE DEF e, last, m
    <2>1. Fired = [i \in 1..Cardinality({wf[w].run : w \in EverCreated}) |->
                     (CHOOSE x \in {wf[w] : w \in EverCreated} : x.run = i).epoch]
      BY DEF Fired, RunSet, MadeFor
    <2>2. Promise!Due(e) <=>
            /\ e <= now
            /\ e > last
            /\ Trigger.kind = "oneoff" => Fired = << >>
            /\ Promise!IsSlot(e)
            /\ \A u \in (last + 1)..(e - 1) : ~Promise!IsSlot(u)
      BY <1>6, <2>1 DEF Promise!Due, CatchesUp
    <2> QED BY <1>11, <1>12, <1>13, <1>14, <2>2, PromiseSlots
  <1> QED BY <1>1, <1>2, <1>15 DEF nextIndex

\* What is kept, and what each step is for the promise.
RefinementInv == IndexInv /\ HistoryInv /\ EmbeddedInv /\ TimeInv /\ SlotInv

LEMMA NextRefinement ==
    ASSUME CatchesUp, RefinementInv, [Next]_vars
    PROVE  RefinementInv'
  <1>1. NoCronLoop
    BY DEF CatchesUp, NoCronLoop
  <1>2. IndexInv' /\ HistoryInv' /\ EmbeddedInv'
    BY NextIndexInv, NextHistory, NextEmbedded DEF RefinementInv, HistoryInv
  <1>3. TimeInv'
    BY <1>1, NextTime DEF RefinementInv, HistoryInv
  <1>4. SlotInv'
    BY NextSlotInv DEF RefinementInv
  <1> QED BY <1>2, <1>3, <1>4 DEF RefinementInv

LEMMA FiredStep ==
    ASSUME CatchesUp, RefinementInv, [Next]_vars
    PROVE  \/ Fired' = Fired /\ now' \in {now, now + 1}
           \/ /\ Promise!Due(ctl.next) /\ ctl.next \in 0..now
              /\ Fired' = Append(Fired, ctl.next) /\ UNCHANGED now
  <1>1. /\ IndexInv /\ HistoryInv /\ EmbeddedInv /\ TimeInv /\ SlotInv
        /\ CacheInv /\ EpochsInv
    BY DEF RefinementInv, HistoryInv, SlotInv
  <1>2. (IndexInv /\ HistoryInv /\ EpochsInv)'
    BY NextRefinement DEF RefinementInv, SlotInv
  <1>3. now' \in {now, now + 1}
    BY <1>1, ClockGrows
  <1>4. CASE NoneNew
    <2>1. RunSet' = RunSet
      BY <1>4 DEF NoneNew, RunSet
    <2>2. \A w \in EverCreated : /\ w \in EverCreated'
                                 /\ wf'[w].run = wf[w].run /\ wf'[w].epoch = wf[w].epoch
      BY <1>4 DEF NoneNew
    <2> QED BY <1>1, <1>2, <1>3, <2>1, <2>2, FiredStays
  <1>5. ASSUME NEW v \in WfIds, NewIs(v)
        PROVE  \/ Fired' = Fired /\ now' \in {now, now + 1}
               \/ /\ Promise!Due(ctl.next) /\ ctl.next \in 0..now
                  /\ Fired' = Append(Fired, ctl.next) /\ UNCHANGED now
    <2>1. CASE nextIndex(ctl.snap) \in RunSet
      <3>1. RunSet' = RunSet \cup {nextIndex(ctl.snap)}
        BY <1>5 DEF NewIs, RunSet
      <3>2. RunSet' = RunSet
        BY <2>1, <3>1
      <3>3. \A w \in EverCreated : /\ w \in EverCreated'
                                   /\ wf'[w].run = wf[w].run /\ wf'[w].epoch = wf[w].epoch
        BY <1>5 DEF NewIs
      <3> QED BY <1>1, <1>2, <1>3, <3>2, <3>3, FiredStays
    <2>2. CASE nextIndex(ctl.snap) \notin RunSet
      <3>1. /\ RunSet = 1..swf.lastIndex /\ nextIndex(ctl.snap) = swf.lastIndex + 1
            /\ Promise!Due(ctl.next)
        BY <1>1, <1>5, <2>2, NewIsDue
      <3>2. ctl.next \in 0..now /\ ctl.next \in Nat
        BY <1>1, <1>5, NewEpoch
      <3>3. swf.lastIndex \in Nat
        BY <1>1, RunsAre
      <3>4. Fired' = Append(Fired, ctl.next)
        BY <1>1, <1>2, <1>5, <3>1, <3>2, <3>3, FiredGrows
      <3> QED BY <1>5, <3>1, <3>2, <3>4 DEF NewIs
    <2> QED BY <2>1, <2>2
  <1> QED BY <1>1, <1>4, <1>5, EpochCases

(* The embedded workflows of a schedule that catches up are the runs that  *)
(* RecurringRuns promises, whatever is stale, fails, crashes, is edited or *)
(* deleted: each slot of the schedule once, in order, none early, none     *)
(* outside the window, none left out; and a workflow that is made again    *)
(* has the slot of the one it replaces (syncHandler,                       *)
(* submitNewWorkflowIfNotAlreadySubmitted, updateStatus).                  *)
THEOREM ControllerImplementsRecurringRuns ==
    ASSUME CatchesUp
    PROVE  Spec => ImplementsRecurringRuns
  <1>0. Fired = [i \in 1..Cardinality({wf[w].run : w \in EverCreated}) |->
                   (CHOOSE x \in {wf[w] : w \in EverCreated} : x.run = i).epoch]
    BY DEF Fired, RunSet, MadeFor
  <1>1. Init => RefinementInv
    BY InitIndex, InitHistory, InitOnce, InitTime, InitSlot DEF RefinementInv
  <1>2. RefinementInv /\ [Next]_vars => RefinementInv'
    BY NextRefinement
  <1>3. Init => Promise!Init
    <2> SUFFICES ASSUME Init PROVE Promise!Init
      OBVIOUS
    <2>1. RunSet = {}
      BY DEF Init, RunSet, EverCreated, NoWorkflow
    <2>2. Fired = << >>
      BY <2>1, FS_EmptySet DEF Fired
    <2> QED BY <1>0, <2>2 DEF Promise!Init
  <1>4. RefinementInv /\ [Next]_vars => [Promise!Next]_(Promise!vars)
    <2> SUFFICES ASSUME RefinementInv, [Next]_vars PROVE [Promise!Next]_(Promise!vars)
      OBVIOUS
    <2>1. CASE Fired' = Fired /\ now' = now
      BY <2>1 DEF Promise!vars, Fired, RunSet, MadeFor
    <2>2. CASE Fired' = Fired /\ now' = now + 1
      BY <2>2 DEF Promise!Next, Promise!Advance, Fired, RunSet, MadeFor
    <2>3. CASE /\ Promise!Due(ctl.next) /\ ctl.next \in 0..now
               /\ Fired' = Append(Fired, ctl.next) /\ UNCHANGED now
      <3>1. PICK t \in 0..now : t = ctl.next
        BY <2>3
      <3>2. Promise!Fire(t)
        BY <2>3, <3>1 DEF Promise!Fire, Fired, RunSet, MadeFor
      <3> QED BY <3>2 DEF Promise!Next
    <2> QED BY <2>1, <2>2, <2>3, FiredStep
  <1> QED
    BY <1>1, <1>2, <1>3, <1>4, PTL DEF Spec, ImplementsRecurringRuns, Promise!Spec
=============================================================================
