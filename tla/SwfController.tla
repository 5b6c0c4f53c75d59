--------------------------- MODULE SwfController ----------------------------
(***************************************************************************)
(* The ScheduledWorkflow controller and one ScheduledWorkflow resource.    *)
(*                                                                         *)
(* A sync of the resource is a sequence of steps: it reads the resource    *)
(* and its workflows from informer caches that lag behind the cluster,     *)
(* decides whether a workflow is due, creates it (itself, when the         *)
(* resource embeds a workflow, or through CreateRun of the API server),    *)
(* and writes the status back under optimistic concurrency.  Between the   *)
(* steps users and the API server change the resource, workflows run,      *)
(* finish and are deleted, calls fail and the processes crash.             *)
(*                                                                         *)
(* The work queue never hands out a key that is being processed, so one    *)
(* resource is synced by one worker at a time and resources do not         *)
(* interact: one resource and one worker stand for all.                    *)
(***************************************************************************)
EXTENDS Schedule, FiniteSets

CONSTANTS
    Trigger,         \* spec.trigger, see module Schedule
    NoCatchup,       \* spec.noCatchup
    MaxConcurrency,  \* spec.maxConcurrency, or Nil
    MaxHistory,      \* spec.maxHistory, or Nil
    Creation,        \* metadata.creationTimestamp
    ViaRunsApi,      \* TRUE: no embedded workflow, runs are made by CreateRun
    WfIds,           \* identities of Argo workflow objects
    Calls,           \* identities of CreateRun calls in the API server
    MaxNow,          \* bound of the clock
    MaxEdits,        \* bound on the number of edits by users
    MaxCrashes       \* bound on the number of crashes and failed calls

ASSUME ConstantsAssumption ==
    /\ IsTrigger(Trigger)
    /\ {NoCatchup, ViaRunsApi} \subseteq BOOLEAN
    /\ {MaxConcurrency, MaxHistory} \subseteq Nat \cup {Nil}
    /\ {MaxNow, MaxEdits, MaxCrashes} \subseteq Nat /\ Creation \in 0..MaxNow
    /\ Never > MaxNow

VARIABLES
    now,        \* the clock
    swf,        \* the ScheduledWorkflow in the cluster
    swfCache,   \* the controller's informer copy of it
    wf,         \* the Argo workflows in the cluster
    wfCache,    \* the controller's informer copy of them
    queued,     \* the key of the resource is in the work queue
    ctl,        \* the worker that syncs the resource
    calls,      \* CreateRun calls the API server is working on
    runs,       \* indices of the runs of this schedule in the run table
    edits,      \* user edits so far
    crashes     \* crashes and failed calls so far

cluster == <<swf, wf>>
caches == <<swfCache, wfCache>>
bounds == <<edits, crashes>>
vars == <<now, swf, swfCache, wf, wfCache, queued, ctl, calls, runs,
          edits, crashes>>

-----------------------------------------------------------------------------
(* Objects.                                                                *)

ActivePhases == {"pending", "running"}

(* A workflow: its phase ("done" is the label workflows.argoproj.io/       *)
(* completed), its index and epoch labels, and the run it executes, which  *)
(* is the index in the name that the controller asked for.  An identity    *)
(* that is not in use yet has the phase "none".                            *)
NoWorkflow == [phase |-> "none", index |-> 0, epoch |-> 0, run |-> 0]
Workflow(index, epoch, run) ==
    [phase |-> "pending", index |-> index, epoch |-> epoch, run |-> run]

Exists(w) == w.phase \in ActivePhases \cup {"done"}
EverCreated == {w \in WfIds : wf[w].phase # "none"}

(* The resource.  UpdateStatus sets the status label to the same value as  *)
(* the condition, so the field cond stands for both.                       *)
NewSwf ==
    [exists |-> TRUE, rv |-> 0, enabled |-> TRUE,
     lastIndex |-> 0, lastTriggered |-> Nil, nextTriggered |-> Nil,
     cond |-> "none", enabledLabel |-> "none",
     active |-> [w \in WfIds |-> "absent"], completed |-> {}]

Idle == [pc |-> "idle", snap |-> NewSwf, now |-> 0,
         active |-> NewSwf.active, completed |-> {},
         next |-> 0, submitted |-> FALSE]

NoCall == [pc |-> "free", index |-> 0, at |-> 0, label |-> 0, awaited |-> FALSE]

Init ==
    /\ now = Creation
    /\ swf = NewSwf
    /\ swfCache = NewSwf
    /\ wf = [w \in WfIds |-> NoWorkflow]
    /\ wfCache = wf
    /\ queued = TRUE
    /\ ctl = Idle
    /\ calls = [c \in Calls |-> NoCall]
    /\ runs = {}
    /\ edits = 0
    /\ crashes = 0

-----------------------------------------------------------------------------
(* The sync handler.                                                       *)

(* A sync ends: on an error the key is requeued, rate limited; after a     *)
(* submission it is requeued after ten seconds; otherwise it is forgotten. *)
EndSync(requeue) ==
    /\ ctl' = Idle
    /\ queued' = (queued \/ requeue)

(* workqueue.Get, the lister's copy of the resource, the clock (read once  *)
(* for the whole sync) and the list of active workflows.  A resource that  *)
(* is gone is a permanent failure: the key is forgotten.                   *)
SyncStart ==
    /\ ctl.pc = "idle"
    /\ queued
    /\ queued' = FALSE
    /\ ctl' = IF swfCache.exists
              THEN [Idle EXCEPT
                      !.pc = "list", !.snap = swfCache, !.now = now,
                      !.active = [w \in WfIds |->
                          IF wfCache[w].phase \in ActivePhases
                          THEN wfCache[w].phase ELSE "absent"]]
              ELSE Idle
    /\ UNCHANGED <<now, cluster, caches, calls, runs, bounds>>

nextIndex(s) == s.lastIndex + 1

ActiveCount == Cardinality({w \in WfIds : ctl.active[w] # "absent"})

NextScheduledEpoch ==
    getNextScheduledEpoch(Trigger, NoCatchup, ctl.snap.lastTriggered,
                          Creation, ctl.now)

(* Mutant: the scheduled time is not waited for.                           *)
ShouldRunNowEarly ==
    /\ ctl.snap.enabled
    /\ ActiveCount < maxConcurrency(MaxConcurrency)

ShouldRunNow ==
    /\ ctl.snap.enabled
    /\ ActiveCount < maxConcurrency(MaxConcurrency)
    /\ NextScheduledEpoch <= ctl.now

(* Mutant: the workflows are counted instead.                              *)
CountedIndex == Cardinality(EverCreated) + 1

(* The index in the name of the workflow that a sync would create.         *)
NextResourceIndex == nextIndex(ctl.snap)

(* Mutants: a workflow that is not there counts as submitted; the look-up  *)
(* is left out.                                                            *)
AlwaysSubmitted == TRUE
NeverSubmitted == FALSE

(* The workflow of the next index is in the informer cache: an earlier     *)
(* sync created it.  Only embedded workflows carry the predictable name;   *)
(* the API server lets the cluster generate one.                           *)
AlreadySubmitted ==
    /\ ~ViaRunsApi
    /\ \E w \in WfIds : Exists(wfCache[w]) /\ wfCache[w].run = NextResourceIndex

(* The list of completed workflows, the decision, and the look-up of the   *)
(* next workflow in the cache.                                             *)
Decide ==
    /\ ctl.pc = "list"
    /\ ctl' = [ctl EXCEPT
          !.completed = {w \in WfIds :
              /\ wfCache[w].phase = "done"
              /\ wfCache[w].index > MinIndex(ctl.snap.lastIndex, MaxHistory)},
          !.next = NextScheduledEpoch,
          !.submitted = ShouldRunNow /\ AlreadySubmitted,
          !.pc = IF ShouldRunNow /\ ~AlreadySubmitted THEN "submit" ELSE "update"]
    /\ UNCHANGED <<now, cluster, caches, queued, calls, runs, bounds>>

(* Mutant: the embedded workflow gets a generated name too.                *)
NameNeverTaken(index) == FALSE

NameTaken(index) == \E w \in WfIds : Exists(wf[w]) /\ wf[w].run = index

(* The controller creates the embedded workflow under its predictable      *)
(* name; a name that is taken is an error like any other.                  *)
CreateWorkflow ==
    /\ ctl.pc = "submit"
    /\ ~ViaRunsApi
    /\ \/ /\ NameTaken(NextResourceIndex)
          /\ EndSync(TRUE)
          /\ UNCHANGED wf
       \/ /\ ~NameTaken(NextResourceIndex)
          /\ \E w \in WfIds :
               /\ wf[w].phase = "none"
               /\ wf' = [wf EXCEPT ![w] =
                     Workflow(NextResourceIndex, ctl.next, NextResourceIndex)]
          /\ ctl' = [ctl EXCEPT !.pc = "update", !.submitted = TRUE]
          /\ UNCHANGED queued
    /\ UNCHANGED <<now, swf, caches, calls, runs, bounds>>

(* UpdateStatus on a copy of the resource that was read.  The condition is *)
(* computed before the trigger is, from the old trigger.                   *)
Condition(s, activeCount) ==
    CASE Trigger.kind = "oneoff" ->
            IF s.lastTriggered # Nil /\ activeCount = 0 THEN "Succeeded" ELSE "Running"
      [] OTHER -> IF s.enabled THEN "Enabled" ELSE "Disabled"

TriggeredTime(epoch) == IF epoch < Never THEN epoch ELSE Nil

UpdatedSwf ==
    LET s == [ctl.snap EXCEPT
                !.cond = Condition(ctl.snap, ActiveCount),
                !.active = ctl.active,
                !.completed = ctl.completed,
                !.enabledLabel = IF ctl.snap.enabled THEN "true" ELSE "false"]
    IN  IF ctl.submitted
        THEN [s EXCEPT
                !.lastTriggered = ctl.next,
                !.lastIndex = nextIndex(ctl.snap),
                !.nextTriggered = TriggeredTime(
                    getNextScheduledEpoch(Trigger, NoCatchup, ctl.next, Creation, 0))]
        ELSE [s EXCEPT !.nextTriggered = TriggeredTime(ctl.next)]

(* Mutant: the history is not compared either.                             *)
StatusChangedNoHistory ==
    \/ UpdatedSwf.cond # ctl.snap.cond
    \/ UpdatedSwf.enabledLabel # ctl.snap.enabledLabel

(* The pre-update check: conditions, history and labels are compared, the  *)
(* trigger is not.                                                         *)
StatusChanged ==
    \/ UpdatedSwf.cond # ctl.snap.cond
    \/ UpdatedSwf.active # ctl.snap.active
    \/ UpdatedSwf.completed # ctl.snap.completed
    \/ UpdatedSwf.enabledLabel # ctl.snap.enabledLabel

(* Mutant: an update that does not compare the resource version.           *)
UnconditionalUpdate == swf.exists

(* The cluster accepts an update of the version that is current.           *)
UpdateAccepted == swf.exists /\ ctl.snap.rv = swf.rv

updateStatus ==
    /\ ctl.pc = "update"
    /\ \/ /\ ~StatusChanged
          /\ EndSync(ctl.submitted)
          /\ UNCHANGED swf
       \/ /\ StatusChanged
          /\ UpdateAccepted
          /\ swf' = [UpdatedSwf EXCEPT !.rv = swf.rv + 1]
          /\ EndSync(ctl.submitted)
       \/ /\ StatusChanged
          /\ ~UpdateAccepted
          /\ EndSync(TRUE)
          /\ UNCHANGED swf
    /\ UNCHANGED <<now, wf, caches, calls, runs, bounds>>

-----------------------------------------------------------------------------
(* CreateRun of the API server, for a schedule without embedded workflow.  *)

CallCreateRun ==
    /\ ctl.pc = "submit"
    /\ ViaRunsApi
    /\ \E c \in Calls :
         /\ calls[c].pc = "free"
         /\ calls' = [calls EXCEPT ![c] =
               [NoCall EXCEPT !.pc = "guard", !.awaited = TRUE,
                              !.index = NextResourceIndex]]
    /\ ctl' = [ctl EXCEPT !.pc = "wait"]
    /\ UNCHANGED <<now, cluster, caches, queued, runs, bounds>>

(* The call returns.  The controller may have crashed since it called; the *)
(* answer is then lost.                                                    *)
Return(c, ok) ==
    /\ calls' = [calls EXCEPT ![c] = NoCall]
    /\ IF ~calls[c].awaited THEN UNCHANGED <<ctl, queued>>
       ELSE IF ok THEN /\ ctl' = [ctl EXCEPT !.pc = "update", !.submitted = TRUE]
                       /\ UNCHANGED queued
       ELSE EndSync(TRUE)

(* Mutant: no look-up by display name.                                     *)
GuardRunMissing(c) ==
    /\ calls[c].pc = "guard"
    /\ calls' = [calls EXCEPT ![c].pc = "label", ![c].at = now]
    /\ UNCHANGED <<now, cluster, caches, queued, ctl, runs, bounds>>

(* A run of this schedule with this display name already exists: it is     *)
(* returned.  Otherwise the creation time is taken.                        *)
GuardRun(c) ==
    /\ calls[c].pc = "guard"
    /\ \/ /\ calls[c].index \in runs
          /\ Return(c, TRUE)
       \/ /\ calls[c].index \notin runs
          /\ calls' = [calls EXCEPT ![c].pc = "label", ![c].at = now]
          /\ UNCHANGED <<ctl, queued>>
    /\ UNCHANGED <<now, cluster, caches, runs, bounds>>

(* The labels of the workflow come from the resource as it is in the       *)
(* cluster now, not from what the controller read.                         *)
LabelRun(c) ==
    /\ calls[c].pc = "label"
    /\ \/ /\ ~swf.exists
          /\ Return(c, FALSE)
       \/ /\ swf.exists
          /\ calls' = [calls EXCEPT ![c].pc = "create", ![c].label = nextIndex(swf)]
          /\ UNCHANGED <<ctl, queued>>
    /\ UNCHANGED <<now, cluster, caches, runs, bounds>>

(* The workflow is created, under a generated name.                        *)
CreateRunWorkflow(c) ==
    /\ calls[c].pc = "create"
    /\ \E w \in WfIds :
         /\ wf[w].phase = "none"
         /\ wf' = [wf EXCEPT ![w] =
               Workflow(calls[c].label, calls[c].at, calls[c].index)]
    /\ calls' = [calls EXCEPT ![c].pc = "insert"]
    /\ UNCHANGED <<now, swf, caches, queued, ctl, runs, bounds>>

(* The row is inserted.  The run identifier is derived from the schedule   *)
(* and the display name, so a second insert collides and returns the first. *)
InsertRun(c) ==
    /\ calls[c].pc = "insert"
    /\ runs' = runs \cup {calls[c].index}
    /\ Return(c, TRUE)
    /\ UNCHANGED <<now, cluster, caches, bounds>>

-----------------------------------------------------------------------------
(* Informers and the resync of the work queue.  A cache that catches up    *)
(* catches up completely.                                                  *)

SwfInformer ==
    /\ swfCache # swf
    /\ swfCache' = swf
    /\ queued' = TRUE
    /\ UNCHANGED <<now, cluster, wfCache, ctl, calls, runs, bounds>>

(* handleWorkflow enqueues the owner, if the lister still has it.          *)
WfInformer ==
    /\ wfCache # wf
    /\ wfCache' = wf
    /\ queued' = (queued \/ swfCache.exists)
    /\ UNCHANGED <<now, cluster, swfCache, ctl, calls, runs, bounds>>

Resync ==
    /\ swfCache.exists
    /\ ~queued
    /\ queued' = TRUE
    /\ UNCHANGED <<now, cluster, caches, ctl, calls, runs, bounds>>

-----------------------------------------------------------------------------
(* The environment: the clock, Argo, users, failures.                      *)

Advance ==
    /\ now < MaxNow
    /\ now' = now + 1
    /\ UNCHANGED <<cluster, caches, queued, ctl, calls, runs, bounds>>

WfStart(w) ==
    /\ wf[w].phase = "pending"
    /\ wf' = [wf EXCEPT ![w].phase = "running"]
    /\ UNCHANGED <<now, swf, caches, queued, ctl, calls, runs, bounds>>

WfFinish(w) ==
    /\ wf[w].phase \in ActivePhases
    /\ wf' = [wf EXCEPT ![w].phase = "done"]
    /\ UNCHANGED <<now, swf, caches, queued, ctl, calls, runs, bounds>>

(* A user deletes the run of a workflow, with its row; module RunLifecycle  *)
(* has the steps of it.                                                    *)
DeleteRun(w) ==
    /\ Exists(wf[w])
    /\ edits < MaxEdits
    /\ edits' = edits + 1
    /\ wf' = [wf EXCEPT ![w].phase = "deleted"]
    /\ runs' = runs \ {wf[w].run}
    /\ UNCHANGED <<now, swf, caches, queued, ctl, calls, crashes>>

(* The cluster collects the workflows that a deleted schedule owned.       *)
CollectOwned(w) ==
    /\ Exists(wf[w])
    /\ ~swf.exists
    /\ wf' = [wf EXCEPT ![w].phase = "deleted"]
    /\ UNCHANGED <<now, swf, caches, queued, ctl, calls, runs, bounds>>

(* ChangeJobMode patches spec.enabled.                                     *)
ChangeJobMode ==
    /\ swf.exists
    /\ edits < MaxEdits
    /\ edits' = edits + 1
    /\ swf' = [swf EXCEPT !.enabled = ~swf.enabled, !.rv = swf.rv + 1]
    /\ UNCHANGED <<now, wf, caches, queued, ctl, calls, runs, crashes>>

DeleteJob ==
    /\ swf.exists
    /\ edits < MaxEdits
    /\ edits' = edits + 1
    /\ swf' = [swf EXCEPT !.exists = FALSE, !.rv = swf.rv + 1]
    /\ UNCHANGED <<now, wf, caches, queued, ctl, calls, runs, crashes>>

Crash == crashes < MaxCrashes /\ crashes' = crashes + 1

(* The controller restarts: its queue and its sync are gone, its informers *)
(* list everything anew.                                                   *)
ControllerCrash ==
    /\ Crash
    /\ ctl' = Idle
    /\ queued' = TRUE
    /\ swfCache' = swf
    /\ wfCache' = wf
    /\ calls' = [c \in Calls |-> [calls[c] EXCEPT !.awaited = FALSE]]
    /\ UNCHANGED <<now, cluster, runs, edits>>

(* A request of the controller fails: nothing is created or updated, or    *)
(* the answer to a creation is lost.                                       *)
RequestFails ==
    /\ Crash
    /\ \/ ctl.pc \in {"submit", "update"} /\ UNCHANGED wf
       \/ /\ ctl.pc = "submit" /\ ~ViaRunsApi
          /\ ~NameTaken(NextResourceIndex)
          /\ \E w \in WfIds :
               /\ wf[w].phase = "none"
               /\ wf' = [wf EXCEPT ![w] =
                     Workflow(NextResourceIndex, ctl.next, NextResourceIndex)]
    /\ EndSync(TRUE)
    /\ UNCHANGED <<now, swf, caches, calls, runs, edits>>

(* A CreateRun call dies with the API server, or a step of it fails.       *)
CallFails(c) ==
    /\ Crash
    /\ calls[c].pc # "free"
    /\ Return(c, FALSE)
    /\ UNCHANGED <<now, cluster, caches, runs, edits>>

-----------------------------------------------------------------------------
ControllerStep == SyncStart \/ Decide \/ CreateWorkflow \/ CallCreateRun \/ updateStatus
CallStep(c) == GuardRun(c) \/ LabelRun(c) \/ CreateRunWorkflow(c) \/ InsertRun(c)
Informers == SwfInformer \/ WfInformer \/ Resync
Failure == ControllerCrash \/ RequestFails \/ \E c \in Calls : CallFails(c)
Argo(w) == WfStart(w) \/ WfFinish(w)

Next ==
    \/ ControllerStep
    \/ \E c \in Calls : CallStep(c)
    \/ Informers
    \/ Advance
    \/ \E w \in WfIds : Argo(w) \/ DeleteRun(w) \/ CollectOwned(w)
    \/ ChangeJobMode
    \/ DeleteJob
    \/ Failure

Spec == Init /\ [][Next]_vars

(* The worker, the handlers of the API server, the informers and the       *)
(* 30-second resync keep going; Argo finishes the workflows it runs; time  *)
(* passes.  Nothing is assumed of users and failures: they are bounded.    *)
Fairness ==
    /\ WF_vars(ControllerStep)
    /\ \A c \in Calls : WF_vars(CallStep(c))
    /\ WF_vars(SwfInformer)
    /\ WF_vars(WfInformer)
    /\ WF_vars(Resync)
    /\ \A w \in WfIds : WF_vars(Argo(w))
    /\ WF_vars(Advance)

FairSpec == Spec /\ Fairness

-----------------------------------------------------------------------------
(* Properties.                                                             *)

(* However stale the caches and wherever a sync is cut off, the LastIndex  *)
(* of the resource is at most one behind the workflows that exist or ever  *)
(* existed, and no workflow skips an index (syncHandler, CreateRun).       *)
IndexLagsByOne ==
    \A w \in EverCreated :
        /\ wf[w].run \in 1..nextIndex(swf)
        /\ wf[w].index \in 1..nextIndex(swf)

(* LastIndex counts only workflows that were created: every index up to it *)
(* has one.                                                                *)
RecordedWasCreated ==
    \A i \in 1..swf.lastIndex : \E w \in EverCreated : wf[w].run = i

NoneDeleted == \A w \in WfIds : wf[w].phase # "deleted"

(* A schedule whose runs nobody deletes makes one workflow per index, with *)
(* embedded workflows whatever fails, through the API server as long as    *)
(* nothing fails (submitNewWorkflowIfNotAlreadySubmitted; the guard of     *)
(* CreateRun).                                                             *)
OneWorkflowPerIndex ==
    swf.exists /\ NoneDeleted /\ (ViaRunsApi => crashes = 0) =>
        \A v, w \in EverCreated : wf[v].run = wf[w].run => v = w

(* Through the API server, the index label, which the server takes from    *)
(* the resource as it finds it, is the index the controller asked for.     *)
LabelIsIndex ==
    NoneDeleted /\ crashes = 0 => \A w \in EverCreated : wf[w].index = wf[w].run

(* A write of the status never undoes a trigger: LastIndex grows by one or *)
(* stays, and LastTriggeredTime grows with it.                             *)
TriggerOnlyAdvances ==
    [][ /\ swf'.lastIndex \in {swf.lastIndex, nextIndex(swf)}
        /\ IF swf'.lastIndex = swf.lastIndex
           THEN swf'.lastTriggered = swf.lastTriggered
           ELSE swf'.lastTriggered > swf.lastTriggered ]_vars

(* The embedded workflows of a schedule that catches up are the runs that  *)
(* module RecurringRuns promises: each slot once, in order, none early,    *)
(* none outside the window, none left out.  A workflow that is made again  *)
(* because a user deleted it has the slot of the one it replaces.          *)
Promise == INSTANCE RecurringRuns WITH
    Unset <- Nil, trigger <- Trigger, skip <- NoCatchup, created <- Creation,
    fired <- [i \in 1..Cardinality({wf[w].run : w \in EverCreated}) |->
                (CHOOSE x \in {wf[w] : w \in EverCreated} : x.run = i).epoch]
ImplementsRecurringRuns == Promise!Spec

(* A submission that the pre-update check kept out of the status reaches   *)
(* it in the end, while the schedule stays enabled.                        *)
EventuallyRecorded ==
    <>[](swf.exists /\ swf.enabled) =>
        []<>(\A w \in EverCreated : wf[w].run <= swf.lastIndex)

(* Every slot of a schedule that catches up and stays enabled is run.      *)
EverySlotRuns ==
    \A t \in 0..MaxNow :
        [](swf.exists /\ swf.enabled) /\ Promise!IsSlot(t) =>
            <>(\E w \in EverCreated : wf[w].epoch = t)

=============================================================================
