------------------------ MODULE SwfControllerProofs -------------------------
(***************************************************************************)
(* Proofs about SwfController, for every trigger, every limit and any      *)
(* number of workflows, calls, edits and crashes: how far the status of    *)
(* the resource can be from the workflows that were made for it.           *)
(*                                                                         *)
(* The times of a schedule play no part in the argument, so it makes no    *)
(* claim about their types: objects are described by the fields that       *)
(* matter.                                                                 *)
(***************************************************************************)
EXTENDS SwfController, TLAPS

-----------------------------------------------------------------------------
(* The inductive invariant.  A copy of the resource that carries the       *)
(* version in the cluster carries its LastIndex too, and no copy is ahead  *)
(* of it; so an index that is one past a copy is at most one past the      *)
(* resource, and an accepted update moves LastIndex by at most one.        *)

SwfShape(s) ==
    /\ {"exists", "rv", "enabled", "lastIndex"} \subseteq DOMAIN s
    /\ s.rv \in Nat
    /\ s.lastIndex \in Nat

CopyOf(s, t) ==
    /\ SwfShape(s)
    /\ s.rv <= t.rv
    /\ s.lastIndex <= t.lastIndex
    /\ s.rv = t.rv => s.lastIndex = t.lastIndex

WfInRange(w, t) ==
    /\ {"phase", "index", "run"} \subseteq DOMAIN w
    /\ w.phase # "none" => w.run \in 1..nextIndex(t) /\ w.index \in 1..nextIndex(t)

CallInRange(c, t) ==
    /\ {"pc", "index", "label"} \subseteq DOMAIN c
    /\ c.pc # "free" => c.index \in 1..nextIndex(t)
    /\ c.pc \in {"create", "insert"} => c.label \in 1..nextIndex(t)

CtlShape == {"pc", "snap", "submitted"} \subseteq DOMAIN ctl

IndexInv ==
    /\ SwfShape(swf)
    /\ CopyOf(NewSwf, swf)
    /\ CopyOf(swfCache, swf)
    /\ CtlShape
    /\ CopyOf(ctl.snap, swf)
    /\ DOMAIN wf = WfIds
    /\ \A w \in WfIds : WfInRange(wf[w], swf)
    /\ DOMAIN calls = Calls
    /\ \A c \in Calls : CallInRange(calls[c], swf)

LEMMA InitIndex == Init => IndexInv
  <1> SUFFICES ASSUME Init PROVE IndexInv
    OBVIOUS
  <1>1. /\ SwfShape(swf) /\ CopyOf(NewSwf, swf) /\ CopyOf(swfCache, swf)
        /\ CtlShape /\ CopyOf(ctl.snap, swf)
    BY DEF Init, CopyOf, SwfShape, NewSwf, Idle, CtlShape
  <1>2. DOMAIN wf = WfIds /\ \A w \in WfIds : WfInRange(wf[w], swf)
    BY DEF Init, WfInRange, NoWorkflow
  <1>3. DOMAIN calls = Calls /\ \A c \in Calls : CallInRange(calls[c], swf)
    BY DEF Init, CallInRange, NoCall
  <1> QED BY <1>1, <1>2, <1>3 DEF IndexInv

(* The resource stays, or gets a new version with the same LastIndex or    *)
(* the next one.                                                           *)
Grows(s, t) ==
    \/ t = s
    \/ /\ SwfShape(t)
       /\ t.rv = s.rv + 1
       /\ t.lastIndex \in {s.lastIndex, s.lastIndex + 1}

(* What was a copy of the resource, or in its range, stays so.             *)
LEMMA GrowthKeeps ==
    ASSUME NEW s, NEW t, SwfShape(s), Grows(s, t)
    PROVE  /\ SwfShape(t)
           /\ CopyOf(t, t)
           /\ \A u : CopyOf(u, s) => CopyOf(u, t)
           /\ \A w : WfInRange(w, s) => WfInRange(w, t)
           /\ \A c : CallInRange(c, s) => CallInRange(c, t)
  <1>1. CASE t = s
    BY <1>1 DEF CopyOf, SwfShape
  <1>2. CASE /\ SwfShape(t) /\ t.rv = s.rv + 1
             /\ t.lastIndex \in {s.lastIndex, s.lastIndex + 1}
    <2>1. CopyOf(t, t)
      BY <1>2 DEF CopyOf, SwfShape
    <2>2. \A u : CopyOf(u, s) => CopyOf(u, t)
      BY <1>2 DEF CopyOf, SwfShape
    <2>3. 1..nextIndex(s) \subseteq 1..nextIndex(t)
      BY <1>2 DEF SwfShape, nextIndex
    <2>4. \A w : WfInRange(w, s) => WfInRange(w, t)
      BY <2>3 DEF WfInRange
    <2>5. \A c : CallInRange(c, s) => CallInRange(c, t)
      BY <2>3 DEF CallInRange
    <2> QED BY <1>2, <2>1, <2>2, <2>4, <2>5
  <1> QED BY <1>1, <1>2 DEF Grows

(* A step keeps the invariant if the resource grows, the copies are old    *)
(* ones or fresh, and workflows and calls are in the range of the resource *)
(* before the step.                                                        *)
LEMMA IndexStep ==
    ASSUME IndexInv, Grows(swf, swf'),
           swfCache' \in {swfCache, swf},
           CtlShape', ctl'.snap \in {ctl.snap, swfCache, NewSwf},
           DOMAIN wf' = WfIds, \A w \in WfIds : WfInRange(wf'[w], swf),
           DOMAIN calls' = Calls, \A c \in Calls : CallInRange(calls'[c], swf)
    PROVE  IndexInv'
  <1>1. CopyOf(swf, swf)
    BY DEF IndexInv, CopyOf, SwfShape
  <1>2. /\ SwfShape(swf')
        /\ \A u : CopyOf(u, swf) => CopyOf(u, swf')
        /\ \A w : WfInRange(w, swf) => WfInRange(w, swf')
        /\ \A c : CallInRange(c, swf) => CallInRange(c, swf')
    BY GrowthKeeps DEF IndexInv
  <1>3. CopyOf(NewSwf, swf') /\ CopyOf(swfCache', swf') /\ CopyOf(ctl'.snap, swf')
    BY <1>1, <1>2 DEF IndexInv
  <1>4. NewSwf' = NewSwf
    BY DEF NewSwf
  <1> QED BY <1>2, <1>3, <1>4 DEF IndexInv

LEMMA NextResource ==
    ASSUME IndexInv
    PROVE  NextResourceIndex \in 1..nextIndex(swf)
  BY DEF IndexInv, CopyOf, SwfShape, NextResourceIndex, nextIndex

(* A workflow that is made under an index in range.                        *)
LEMMA CreatedInRange ==
    ASSUME IndexInv, NEW v \in WfIds, NEW epoch,
           NEW index \in 1..nextIndex(swf), NEW run \in 1..nextIndex(swf),
           wf' = [wf EXCEPT ![v] = Workflow(index, epoch, run)]
    PROVE  DOMAIN wf' = WfIds /\ \A w \in WfIds : WfInRange(wf'[w], swf)
  <1>1. WfInRange(Workflow(index, epoch, run), swf)
    BY DEF WfInRange, Workflow
  <1> QED BY <1>1 DEF IndexInv

(* A workflow whose phase alone changes, and is not none.                  *)
LEMMA PhaseInRange ==
    ASSUME IndexInv, NEW v \in WfIds, NEW phase, wf[v].phase # "none",
           wf' = [wf EXCEPT ![v].phase = phase]
    PROVE  DOMAIN wf' = WfIds /\ \A w \in WfIds : WfInRange(wf'[w], swf)
  <1>1. WfInRange(wf[v], swf)
    BY DEF IndexInv
  <1>2. WfInRange(wf'[v], swf)
    BY <1>1 DEF IndexInv, WfInRange
  <1> QED BY <1>2 DEF IndexInv

(* A sync ends, or goes on with the copy it has.                           *)
LEMMA IdleShape ==
    ASSUME ctl' = Idle
    PROVE  CtlShape' /\ ctl'.snap = NewSwf
  BY DEF Idle, CtlShape

LEMMA CtlStepShape ==
    ASSUME CtlShape, NEW pc, NEW submitted,
           \/ ctl' = [ctl EXCEPT !.pc = pc]
           \/ ctl' = [ctl EXCEPT !.pc = pc, !.submitted = submitted]
    PROVE  CtlShape' /\ ctl'.snap = ctl.snap
  BY DEF CtlShape

(* A call that ends, and the sync that waits for it.                       *)
LEMMA ReturnInRange ==
    ASSUME IndexInv, NEW c \in Calls, NEW ok, Return(c, ok)
    PROVE  /\ DOMAIN calls' = Calls /\ \A d \in Calls : CallInRange(calls'[d], swf)
           /\ CtlShape' /\ ctl'.snap \in {ctl.snap, NewSwf}
  <1>1. CallInRange(NoCall, swf)
    BY DEF CallInRange, NoCall
  <1>2. DOMAIN calls' = Calls /\ \A d \in Calls : CallInRange(calls'[d], swf)
    BY <1>1 DEF IndexInv, Return
  <1>3. CtlShape' /\ ctl'.snap \in {ctl.snap, NewSwf}
    <2>1. CASE UNCHANGED ctl
      BY <2>1 DEF IndexInv, CtlShape
    <2>2. CASE ctl' = [ctl EXCEPT !.pc = "update", !.submitted = TRUE]
      BY <2>2, CtlStepShape DEF IndexInv
    <2>3. CASE ctl' = Idle
      BY <2>3, IdleShape
    <2> QED BY <2>1, <2>2, <2>3 DEF Return, EndSync
  <1> QED BY <1>2, <1>3

(* The status that a sync would write.                                     *)
LEMMA UpdatedShape ==
    ASSUME IndexInv, NEW rv \in Nat
    PROVE  /\ SwfShape([UpdatedSwf EXCEPT !.rv = rv])
           /\ [UpdatedSwf EXCEPT !.rv = rv].rv = rv
           /\ [UpdatedSwf EXCEPT !.rv = rv].lastIndex =
                 IF ctl.submitted THEN nextIndex(ctl.snap) ELSE ctl.snap.lastIndex
  <1> DEFINE s == [ctl.snap EXCEPT
                     !.cond = Condition(ctl.snap, ActiveCount),
                     !.active = ctl.active,
                     !.completed = ctl.completed,
                     !.enabledLabel = IF ctl.snap.enabled THEN "true" ELSE "false"]
  <1>1. SwfShape(ctl.snap)
    BY DEF IndexInv, CopyOf
  <1>2. DOMAIN s = DOMAIN ctl.snap /\ s.lastIndex = ctl.snap.lastIndex
    BY <1>1 DEF SwfShape
  <1> HIDE DEF s
  <1>3. /\ DOMAIN UpdatedSwf = DOMAIN ctl.snap
        /\ UpdatedSwf.lastIndex =
              IF ctl.submitted THEN nextIndex(ctl.snap) ELSE ctl.snap.lastIndex
    <2>1. CASE ctl.submitted
      <3> DEFINE next == TriggeredTime(
                    getNextScheduledEpoch(Trigger, NoCatchup, ctl.next, Creation, 0))
      <3>1. UpdatedSwf = [s EXCEPT !.lastTriggered = ctl.next,
                                   !.lastIndex = nextIndex(ctl.snap),
                                   !.nextTriggered = next]
        BY <2>1 DEF UpdatedSwf, s
      <3> HIDE DEF next
      <3> QED BY <1>1, <1>2, <2>1, <3>1 DEF SwfShape, nextIndex
    <2>2. CASE ~ctl.submitted
      <3> DEFINE next == TriggeredTime(ctl.next)
      <3>1. UpdatedSwf = [s EXCEPT !.nextTriggered = next]
        BY <2>2 DEF UpdatedSwf, s
      <3> HIDE DEF next
      <3> QED BY <1>1, <1>2, <2>2, <3>1 DEF SwfShape
    <2> QED BY <2>1, <2>2
  <1>4. (IF ctl.submitted THEN nextIndex(ctl.snap) ELSE ctl.snap.lastIndex) \in Nat
    BY <1>1 DEF SwfShape, nextIndex
  <1> HIDE DEF UpdatedSwf
  <1>5. [UpdatedSwf EXCEPT !.rv = rv].lastIndex = UpdatedSwf.lastIndex
    BY <1>1, <1>3 DEF SwfShape
  <1>6. SwfShape([UpdatedSwf EXCEPT !.rv = rv]) /\ [UpdatedSwf EXCEPT !.rv = rv].rv = rv
    BY <1>1, <1>3, <1>4, <1>5 DEF SwfShape
  <1> QED BY <1>3, <1>5, <1>6

LEMMA SyncIndex ==
    ASSUME IndexInv, ControllerStep
    PROVE  IndexInv'
  <1>wf. DOMAIN wf = WfIds /\ \A w \in WfIds : WfInRange(wf[w], swf)
    BY DEF IndexInv
  <1>calls. DOMAIN calls = Calls /\ \A c \in Calls : CallInRange(calls[c], swf)
    BY DEF IndexInv
  <1>1. CASE SyncStart
    <2>1. CtlShape' /\ ctl'.snap \in {swfCache, NewSwf}
      BY <1>1 DEF SyncStart, Idle, CtlShape
    <2> QED BY <1>1, <1>wf, <1>calls, <2>1, IndexStep DEF SyncStart, Grows, cluster, caches
  <1>2. CASE Decide
    <2>1. CtlShape' /\ ctl'.snap = ctl.snap
      BY <1>2 DEF Decide, IndexInv, CtlShape
    <2> QED BY <1>2, <1>wf, <1>calls, <2>1, IndexStep DEF Decide, Grows, cluster, caches
  <1>3. CASE CreateWorkflow
    <2>1. CtlShape' /\ ctl'.snap \in {ctl.snap, NewSwf}
      BY <1>3, IdleShape, CtlStepShape DEF CreateWorkflow, EndSync, IndexInv
    <2>2. DOMAIN wf' = WfIds /\ \A w \in WfIds : WfInRange(wf'[w], swf)
      <3>1. ASSUME NEW v \in WfIds,
                   wf' = [wf EXCEPT ![v] =
                       Workflow(NextResourceIndex, ctl.next, NextResourceIndex)]
            PROVE  DOMAIN wf' = WfIds /\ \A w \in WfIds : WfInRange(wf'[w], swf)
        BY <3>1, CreatedInRange, NextResource
      <3>2. CASE UNCHANGED wf
        BY <1>wf, <3>2
      <3> QED BY <1>3, <3>1, <3>2 DEF CreateWorkflow
    <2> QED BY <1>3, <1>calls, <2>1, <2>2, IndexStep DEF CreateWorkflow, Grows, caches
  <1>4. CASE CallCreateRun
    <2>1. CtlShape' /\ ctl'.snap = ctl.snap
      BY <1>4, CtlStepShape DEF CallCreateRun, IndexInv
    <2>2. DOMAIN calls' = Calls /\ \A c \in Calls : CallInRange(calls'[c], swf)
      <3> DEFINE call == [NoCall EXCEPT !.pc = "guard", !.awaited = TRUE,
                                        !.index = NextResourceIndex]
      <3>1. CallInRange(call, swf)
        BY NextResource DEF CallInRange, NoCall
      <3>2. \E c \in Calls : calls' = [calls EXCEPT ![c] = call]
        BY <1>4 DEF CallCreateRun
      <3> HIDE DEF call
      <3> QED BY <1>calls, <3>1, <3>2
    <2> QED BY <1>4, <1>wf, <2>1, <2>2, IndexStep DEF CallCreateRun, Grows, cluster, caches
  <1>5. CASE updateStatus
    <2>1. CtlShape' /\ ctl'.snap = NewSwf
      BY <1>5, IdleShape DEF updateStatus, EndSync
    <2>2. Grows(swf, swf')
      <3>1. CASE UNCHANGED swf
        BY <3>1 DEF Grows
      <3>2. CASE UpdateAccepted /\ swf' = [UpdatedSwf EXCEPT !.rv = swf.rv + 1]
        <4>1. ctl.snap.lastIndex = swf.lastIndex /\ swf.rv + 1 \in Nat
          BY <3>2 DEF UpdateAccepted, IndexInv, CopyOf, SwfShape
        <4> QED BY <3>2, <4>1, UpdatedShape DEF Grows, nextIndex
      <3> QED BY <1>5, <3>1, <3>2 DEF updateStatus
    <2> QED BY <1>5, <1>wf, <1>calls, <2>1, <2>2, IndexStep DEF updateStatus, caches
  <1> QED BY <1>1, <1>2, <1>3, <1>4, <1>5 DEF ControllerStep

LEMMA CallIndex ==
    ASSUME IndexInv, NEW c \in Calls, CallStep(c)
    PROVE  IndexInv'
  <1>wf. DOMAIN wf = WfIds /\ \A w \in WfIds : WfInRange(wf[w], swf)
    BY DEF IndexInv
  <1>calls. /\ DOMAIN calls = Calls /\ \A d \in Calls : CallInRange(calls[d], swf)
            /\ CtlShape
    BY DEF IndexInv
  <1>1. ASSUME Return(c, TRUE) \/ Return(c, FALSE), UNCHANGED <<cluster, caches>>
        PROVE  IndexInv'
    BY <1>1, <1>wf, ReturnInRange, IndexStep DEF Grows, cluster, caches
  <1>2. ASSUME UNCHANGED <<cluster, caches, ctl>>, DOMAIN calls' = Calls,
               \A d \in Calls : CallInRange(calls'[d], swf)
        PROVE  IndexInv'
    BY <1>2, <1>wf, <1>calls, IndexStep DEF Grows, cluster, caches, CtlShape
  <1>3. CASE GuardRun(c)
    <2>1. CASE Return(c, TRUE)
      BY <1>1, <1>3, <2>1 DEF GuardRun
    <2>2. CASE /\ calls' = [calls EXCEPT ![c].pc = "label", ![c].at = now]
               /\ UNCHANGED <<ctl, queued>>
      <3>1. CallInRange(calls'[c], swf)
        BY <1>3, <1>calls, <2>2 DEF GuardRun, CallInRange
      <3>2. DOMAIN calls' = Calls /\ \A d \in Calls : CallInRange(calls'[d], swf)
        BY <1>calls, <2>2, <3>1
      <3> QED BY <1>2, <1>3, <2>2, <3>2 DEF GuardRun
    <2> QED BY <1>3, <2>1, <2>2 DEF GuardRun
  <1>4. CASE LabelRun(c)
    <2>1. CASE Return(c, FALSE)
      BY <1>1, <1>4, <2>1 DEF LabelRun
    <2>2. CASE /\ calls' = [calls EXCEPT ![c].pc = "create", ![c].label = nextIndex(swf)]
               /\ UNCHANGED <<ctl, queued>>
      <3>1. nextIndex(swf) \in 1..nextIndex(swf)
        BY DEF nextIndex, IndexInv, SwfShape
      <3>2. CallInRange(calls'[c], swf)
        BY <1>4, <1>calls, <2>2, <3>1 DEF LabelRun, CallInRange
      <3>3. DOMAIN calls' = Calls /\ \A d \in Calls : CallInRange(calls'[d], swf)
        BY <1>calls, <2>2, <3>2
      <3> QED BY <1>2, <1>4, <2>2, <3>3 DEF LabelRun
    <2> QED BY <1>4, <2>1, <2>2 DEF LabelRun
  <1>5. CASE CreateRunWorkflow(c)
    <2>1. calls[c].index \in 1..nextIndex(swf) /\ calls[c].label \in 1..nextIndex(swf)
      BY <1>5, <1>calls DEF CreateRunWorkflow, CallInRange
    <2>2. PICK v \in WfIds : wf' = [wf EXCEPT ![v] =
                       Workflow(calls[c].label, calls[c].at, calls[c].index)]
      BY <1>5 DEF CreateRunWorkflow
    <2>w. DOMAIN wf' = WfIds /\ \A w \in WfIds : WfInRange(wf'[w], swf)
      BY <2>1, <2>2, CreatedInRange
    <2>3. CallInRange(calls'[c], swf)
      BY <1>5, <1>calls DEF CreateRunWorkflow, CallInRange
    <2>4. DOMAIN calls' = Calls /\ \A d \in Calls : CallInRange(calls'[d], swf)
      BY <1>5, <1>calls, <2>3 DEF CreateRunWorkflow
    <2> QED
      BY <1>5, <1>calls, <2>w, <2>4, IndexStep DEF CreateRunWorkflow, Grows, caches, CtlShape
  <1>6. CASE InsertRun(c)
    BY <1>1, <1>6 DEF InsertRun
  <1> QED BY <1>3, <1>4, <1>5, <1>6 DEF CallStep

LEMMA NextIndexInv == IndexInv /\ [Next]_vars => IndexInv'
  <1> SUFFICES ASSUME IndexInv, [Next]_vars PROVE IndexInv'
    OBVIOUS
  <1>wf. DOMAIN wf = WfIds /\ \A w \in WfIds : WfInRange(wf[w], swf)
    BY DEF IndexInv
  <1>calls. /\ DOMAIN calls = Calls /\ \A d \in Calls : CallInRange(calls[d], swf)
            /\ CtlShape
    BY DEF IndexInv
  <1>1. CASE Informers \/ Advance \/ UNCHANGED vars
    <2>1. UNCHANGED <<swf, wf, ctl, calls>> /\ swfCache' \in {swfCache, swf}
      BY <1>1 DEF Informers, SwfInformer, WfInformer, Resync, Advance, vars, cluster, caches
    <2> QED BY <1>wf, <1>calls, <2>1, IndexStep DEF Grows, CtlShape
  <1>2. ASSUME NEW w \in WfIds, Argo(w) \/ DeleteRun(w) \/ CollectOwned(w) PROVE IndexInv'
    <2>1. /\ \E phase : wf' = [wf EXCEPT ![w].phase = phase]
          /\ wf[w].phase # "none"
      BY <1>2 DEF Argo, WfStart, WfFinish, DeleteRun, CollectOwned, Exists,
                  ActivePhases
    <2>2. DOMAIN wf' = WfIds /\ \A v \in WfIds : WfInRange(wf'[v], swf)
      BY <2>1, PhaseInRange
    <2>3. UNCHANGED <<swf, swfCache, ctl, calls>>
      BY <1>2 DEF Argo, WfStart, WfFinish, DeleteRun, CollectOwned, caches
    <2> QED BY <1>calls, <2>2, <2>3, IndexStep DEF Grows, CtlShape
  <1>3. CASE ChangeJobMode \/ DeleteJob
    <2>1. UNCHANGED <<wf, swfCache, ctl, calls>>
      BY <1>3 DEF ChangeJobMode, DeleteJob, caches
    <2>2. SwfShape(swf)
      BY DEF IndexInv
    <2>3. CASE swf' = [swf EXCEPT !.enabled = ~swf.enabled, !.rv = swf.rv + 1]
      BY <1>wf, <1>calls, <2>1, <2>2, <2>3, IndexStep DEF Grows, SwfShape, CtlShape
    <2>4. CASE swf' = [swf EXCEPT !.exists = FALSE, !.rv = swf.rv + 1]
      BY <1>wf, <1>calls, <2>1, <2>2, <2>4, IndexStep DEF Grows, SwfShape, CtlShape
    <2> QED BY <1>3, <2>3, <2>4 DEF ChangeJobMode, DeleteJob
  <1>4. CASE ControllerCrash
    <2>1. CtlShape' /\ ctl'.snap = NewSwf
      BY <1>4, IdleShape DEF ControllerCrash
    <2>2. DOMAIN calls' = Calls /\ \A d \in Calls : CallInRange(calls'[d], swf)
      BY <1>4, <1>calls DEF ControllerCrash, CallInRange
    <2> QED BY <1>4, <1>wf, <2>1, <2>2, IndexStep DEF ControllerCrash, Grows, cluster
  <1>5. CASE RequestFails
    <2>1. CtlShape' /\ ctl'.snap = NewSwf
      BY <1>5, IdleShape DEF RequestFails, EndSync
    <2>2. DOMAIN wf' = WfIds /\ \A w \in WfIds : WfInRange(wf'[w], swf)
      BY <1>5, <1>wf, CreatedInRange, NextResource DEF RequestFails
    <2> QED BY <1>5, <1>calls, <2>1, <2>2, IndexStep DEF RequestFails, Grows, caches
  <1>6. ASSUME NEW c \in Calls, CallFails(c) PROVE IndexInv'
    BY <1>6, <1>wf, ReturnInRange, IndexStep DEF CallFails, Grows, cluster, caches
  <1> QED
    BY <1>1, <1>2, <1>3, <1>4, <1>5, <1>6, SyncIndex, CallIndex DEF Next, Failure

(* For every schedule, however stale the caches and whatever crashes, the  *)
(* name index and the label index of every workflow ever made are at most  *)
(* one past the LastIndex of the resource (syncHandler, CreateRun).        *)
THEOREM IndexLagsByOneAlways == Spec => []IndexLagsByOne
  <1>1. IndexInv => IndexLagsByOne
    BY DEF IndexInv, IndexLagsByOne, EverCreated, WfInRange
  <1> QED BY <1>1, InitIndex, NextIndexInv, PTL DEF Spec

=============================================================================
