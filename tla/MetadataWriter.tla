--------------------------- MODULE MetadataWriter ---------------------------
(***************************************************************************)
(* The metadata writer: one process that watches the pods of Argo          *)
(* workflows and records each as an execution, with its input and output   *)
(* artifacts, in ML Metadata (MLMD), then labels the pod with what it      *)
(* wrote.  Events are snapshots of pods and arrive late, so the writer     *)
(* keeps three LRU caches of what it has done.  Any MLMD call may fail     *)
(* (the watch is then opened again), a patch may be given up, the process  *)
(* may restart.  Argo, the API server's watch and MLMD are external.       *)
(***************************************************************************)
EXTENDS Naturals, Sequences, FiniteSets, SequencesExt

CONSTANTS
    Pods,          \* pods of Argo workflows
    NoPod,         \* no pod
    Upstream,      \* the pod whose output each pod reads, or NoPod
    Setups,        \* the setups considered, see below
    MaxFailures,   \* bound: exceptions, patches given up, ended watches, restarts
    MaxBacklog     \* bound: the cluster is at most this many events ahead

\* A setup is a record with the workflow of each pod, the set own of TFX and KFP v2
\* pods, which have their own metadata writers, and the sizes of the three caches:
\* podSize (POD_NAME_TO_EXECUTION_ID_SIZE), contextSize
\* (WORKFLOW_NAME_TO_CONTEXT_ID_SIZE) and writtenSize (PODS_WITH_WRITTEN_METADATA_SIZE).
\* The defaults are equal; a smaller context cache would raise KeyError at line 226.
ASSUME SetupsAssumption ==
    \A s \in Setups :
        /\ {s.podSize, s.contextSize, s.writtenSize} \subseteq Nat \ {0}
        /\ s.contextSize >= s.podSize

ASSUME PodsAssumption ==
    /\ IsFiniteSet(Pods) /\ NoPod \notin Pods
    /\ Upstream \in [Pods -> Pods \cup {NoPod}]

ASSUME BoundsAssumption == {MaxFailures, MaxBacklog} \subseteq Nat

VARIABLES
    setup,        \* the setup, which never changes
    pods,         \* the pods as the API server holds them
    watching,     \* the watch is open
    stream,       \* events of the watch that the writer has not read
    pc,           \* where the writer is in its loop
    event,        \* the event it handles
    execution,    \* the execution id it holds
    execIds,      \* pod_name_to_execution_id, most recently used first
    contextIds,   \* workflow_name_to_context_id
    written,      \* pods_with_written_metadata
    contexts,     \* MLMD: the run contexts, by name
    executions,   \* MLMD: executions, by id
    artifacts,    \* MLMD: artifacts, by id
    failures,     \* failures so far
    execFaults,   \* for each pod, how often the writer lost track of its execution
    artFaults     \* for each pod, how often it lost track of its artifacts

cluster == <<pods, watching, stream>>
caches == <<execIds, contextIds, written>>
mlmd == <<contexts, executions, artifacts>>
faults == <<failures, execFaults, artFaults>>
vars == <<setup, cluster, pc, event, execution, caches, mlmd, faults>>

NoEvent == [pod |-> NoPod]

Init ==
    /\ setup \in Setups
    /\ pods = [p \in Pods |-> [status |-> "none", outputs |-> FALSE, completed |-> FALSE,
                               exec |-> 0, written |-> FALSE]]
    /\ watching = FALSE
    /\ stream = <<>>
    /\ pc = "idle"
    /\ event = NoEvent
    /\ execution = 0
    /\ execIds = <<>> /\ contextIds = <<>> /\ written = <<>>
    /\ contexts = {} /\ executions = <<>> /\ artifacts = <<>>
    /\ failures = 0
    /\ execFaults = [p \in Pods |-> 0]
    /\ artFaults = [p \in Pods |-> 0]

-----------------------------------------------------------------------------
(* lru.LRU: a read or a write makes the key the most recent one.           *)

Has(cache, k) == \E i \in DOMAIN cache : cache[i].key = k

Get(cache, k) == cache[CHOOSE i \in DOMAIN cache : cache[i].key = k].val

\* Where the key is, or where it would be if it came last.
Position(cache, k) ==
    IF Has(cache, k) THEN CHOOSE i \in DOMAIN cache : cache[i].key = k ELSE Len(cache) + 1

\* The key comes first; the entries in front of its position move back by one, and
\* the last one is thrown out of a full cache.
Put(cache, size, k, v) ==
    LET at == Position(cache, k)
        len == IF at > Len(cache) /\ Len(cache) < size THEN at ELSE Len(cache)
    IN  [i \in 1..len |->
            IF i = 1 THEN [key |-> k, val |-> v]
            ELSE IF i <= at THEN cache[i - 1] ELSE cache[i]]

\* The key that Put throws out.
Evicted(cache, size, k) ==
    IF Has(cache, k) \/ Len(cache) < size THEN {} ELSE {Last(cache).key}

ExecutionsOf(p) == {e \in DOMAIN executions : executions[e].pod = p}

ArtifactsOf(p) == {a \in DOMAIN artifacts : artifacts[a].pod = p}

Lose(count, ps) == [p \in Pods |-> IF p \in ps THEN count[p] + 1 ELSE count[p]]

-----------------------------------------------------------------------------
(* The cluster: Argo's pods and the watch.                                 *)

\* Pod p becomes new, and the open watch sends the new version.
Change(p, new) ==
    /\ pods' = [pods EXCEPT ![p] = new]
    /\ stream' = IF watching
                   THEN Append(stream, [pod |-> p, state |-> new, listed |-> FALSE])
                   ELSE stream
    /\ UNCHANGED watching

\* Argo starts a pod when the pod it reads from has reported its outputs.
PodCreated(p) ==
    /\ pods[p].status = "none"
    /\ Upstream[p] # NoPod => pods[Upstream[p]].outputs
    /\ Change(p, [pods[p] EXCEPT !.status = "here"])
    /\ Len(stream) < MaxBacklog
    /\ UNCHANGED <<pc, event, execution, caches, mlmd, faults>>

PodReportsOutputs(p) ==
    /\ pods[p].status = "here" /\ ~pods[p].outputs /\ ~pods[p].completed
    /\ Change(p, [pods[p] EXCEPT !.outputs = TRUE])
    /\ Len(stream) < MaxBacklog
    /\ UNCHANGED <<pc, event, execution, caches, mlmd, faults>>

\* A pod that fails completes without outputs.
PodCompleted(p) ==
    /\ pods[p].status = "here" /\ ~pods[p].completed
    /\ Change(p, [pods[p] EXCEPT !.completed = TRUE])
    /\ Len(stream) < MaxBacklog
    /\ UNCHANGED <<pc, event, execution, caches, mlmd, faults>>

\* The DELETED event carries the last version.
PodDeleted(p) ==
    /\ pods[p].status = "here" /\ pods[p].completed
    /\ Change(p, [pods[p] EXCEPT !.status = "gone"])
    /\ Len(stream) < MaxBacklog
    /\ UNCHANGED <<pc, event, execution, caches, mlmd, faults>>

\* stream() lists the pods, in an order of its own, and then watches.
Watch ==
    /\ ~watching
    /\ watching' = TRUE
    /\ \E order \in SetToSeqs({p \in Pods : pods[p].status = "here"}) :
           stream' = [i \in DOMAIN order |->
                         [pod |-> order[i], state |-> pods[order[i]], listed |-> TRUE]]
    /\ UNCHANGED <<pods, pc, event, execution, caches, mlmd, faults>>

-----------------------------------------------------------------------------
(* The writer's loop, one step per call to MLMD or to the API server.      *)

\* Mutant: a pod that has its execution is done.
Ignored_Labelled(e) == e.state.exec # 0 \/ e.pod \in setup.own

Ignored(e) == e.state.written \/ e.pod \in setup.own

\* Mutant: outputs are written when the pod has completed.
Done_Completed(e) == e.state.completed

\* The outputs of the pod are to be written.
Done(e) == e.state.completed \/ e.state.outputs

AfterExecution(e) ==
    IF Has(written, e.pod) \/ ~Done(e) THEN "idle"
    ELSE IF e.state.outputs THEN "artifact" ELSE "written"

\* The writer turns to place; between two events it holds nothing.
Goto(place, e, x) ==
    /\ pc' = place
    /\ event' = IF place = "idle" THEN NoEvent ELSE e
    /\ execution' = IF place = "idle" THEN 0 ELSE x

\* The next event: ignored, or of a pod whose execution is known, from the cache or
\* from its label, or of a new pod.  The read of the context cache is unchecked: its
\* KeyError would end the watch (see ContextIsCached).
Handle ==
    /\ pc = "idle" /\ stream # <<>>
    /\ stream' = Tail(stream)
    /\ LET e == Head(stream)
           w == setup.workflow[e.pod]
       IN  \/ /\ Ignored(e)
              /\ UNCHANGED <<pc, event, execution, execIds, contextIds>>
           \/ /\ ~Ignored(e) /\ Has(execIds, e.pod) /\ Has(contextIds, w)
              /\ execIds' = Put(execIds, setup.podSize, e.pod, Get(execIds, e.pod))
              /\ contextIds' = Put(contextIds, setup.contextSize, w, w)
              /\ Goto(AfterExecution(e), e, Get(execIds, e.pod))
           \/ /\ ~Ignored(e) /\ ~Has(execIds, e.pod) /\ e.state.exec # 0
              /\ Goto(AfterExecution(e), e, e.state.exec)
              /\ UNCHANGED <<execIds, contextIds>>
           \/ /\ ~Ignored(e) /\ ~Has(execIds, e.pod) /\ e.state.exec = 0
              /\ Goto("context", e, 0)
              /\ UNCHANGED <<execIds, contextIds>>
    /\ UNCHANGED <<pods, watching, written, mlmd, faults>>

\* get_or_create_run_context.
GetOrCreateContext ==
    /\ pc = "context"
    /\ contexts' = contexts \cup {setup.workflow[event.pod]}
    /\ Goto("execution", event, 0)
    /\ UNCHANGED <<cluster, caches, executions, artifacts, faults>>

\* put_executions; the links of the execution come later.
PutExecution ==
    /\ pc = "execution"
    /\ executions' = Append(executions, [pod |-> event.pod, context |-> {}, linked |-> 0,
                                         listed |-> event.listed])
    /\ Goto("associate", event, Len(executions) + 1)
    /\ UNCHANGED <<cluster, caches, contexts, artifacts, faults>>

Associate ==
    /\ pc = "associate"
    /\ executions' = [executions EXCEPT ![execution].context = {setup.workflow[event.pod]}]
    /\ Goto("inputs", event, execution)
    /\ UNCHANGED <<cluster, caches, contexts, artifacts, faults>>

\* get_artifacts_by_uri, of which the last one counts.
Matching == {a \in DOMAIN artifacts : artifacts[a].pod = Upstream[event.pod]}

LinkInput ==
    /\ pc = "inputs"
    /\ executions' = IF Matching = {} THEN executions
                     ELSE [executions EXCEPT ![execution].linked = Max(Matching)]
    /\ Goto("label", event, execution)
    /\ UNCHANGED <<cluster, caches, contexts, artifacts, faults>>

\* Mutant: only the first execution in a context caches it.
RememberContext_First ==
    contextIds' = IF \E e \in DOMAIN executions \ {execution} :
                          setup.workflow[executions[e].pod] = setup.workflow[event.pod]
                    THEN contextIds
                    ELSE Put(contextIds, setup.contextSize,
                             setup.workflow[event.pod], setup.workflow[event.pod])

RememberContext ==
    contextIds' = Put(contextIds, setup.contextSize,
                             setup.workflow[event.pod], setup.workflow[event.pod])

\* Mutant: the label is enough.
RememberExecution_LabelOnly ==
    /\ UNCHANGED <<execIds, contextIds>>
    /\ Goto(AfterExecution(event), event, execution)

RememberExecution ==
    /\ execIds' = Put(execIds, setup.podSize, event.pod, execution)
    /\ RememberContext
    /\ Goto(AfterExecution(event), event, execution)

LabelExecution ==
    /\ pc = "label"
    /\ pods[event.pod].status = "here"
    /\ Change(event.pod, [pods[event.pod] EXCEPT !.exec = execution])
    /\ RememberExecution
    /\ execFaults' = Lose(execFaults, Evicted(execIds, setup.podSize, event.pod))
    /\ UNCHANGED <<written, mlmd, failures, artFaults>>

\* patch_pod_metadata gives up after patch_retries attempts and says nothing: the
\* pod is gone or the API server does not answer.
PatchFails ==
    IF pods[event.pod].status = "gone" THEN UNCHANGED failures
    ELSE failures < MaxFailures /\ failures' = failures + 1

GiveUpLabel ==
    /\ pc = "label"
    /\ PatchFails
    /\ RememberExecution
    /\ execFaults' = Lose(execFaults, {event.pod} \cup Evicted(execIds, setup.podSize, event.pod))
    /\ UNCHANGED <<cluster, written, mlmd, artFaults>>

PutArtifact ==
    /\ pc = "artifact"
    /\ artifacts' = Append(artifacts, [pod |-> event.pod, output |-> 0, context |-> {}])
    /\ Goto("event", event, execution)
    /\ UNCHANGED <<cluster, caches, contexts, executions, faults>>

PutEvent ==
    /\ pc = "event"
    /\ artifacts' = [artifacts EXCEPT ![Len(artifacts)].output = execution]
    /\ Goto("attribute", event, execution)
    /\ UNCHANGED <<cluster, caches, contexts, executions, faults>>

\* Mutant: the attribution is forgotten.
Attribute_Not ==
    /\ pc = "attribute"
    /\ Goto("written", event, execution)
    /\ UNCHANGED <<cluster, caches, mlmd, faults>>

Attribute ==
    /\ pc = "attribute"
    /\ artifacts' = [artifacts EXCEPT ![Len(artifacts)].context = {setup.workflow[event.pod]}]
    /\ Goto("written", event, execution)
    /\ UNCHANGED <<cluster, caches, contexts, executions, faults>>

RememberWritten == written' = Put(written, setup.writtenSize, event.pod, 0)

LabelWritten ==
    /\ pc = "written"
    /\ pods[event.pod].status = "here"
    /\ Change(event.pod, [pods[event.pod] EXCEPT !.written = TRUE])
    /\ RememberWritten
    /\ artFaults' = Lose(artFaults, Evicted(written, setup.writtenSize, event.pod))
    /\ Goto("idle", event, execution)
    /\ UNCHANGED <<execIds, contextIds, mlmd, failures, execFaults>>

GiveUpWritten ==
    /\ pc = "written"
    /\ PatchFails
    /\ RememberWritten
    /\ artFaults' = Lose(artFaults, {event.pod} \cup Evicted(written, setup.writtenSize, event.pod))
    /\ Goto("idle", event, execution)
    /\ UNCHANGED <<cluster, execIds, contextIds, mlmd, execFaults>>

-----------------------------------------------------------------------------
(* Failures.                                                               *)

\* The watch and the work in hand are lost.
Interrupt ==
    /\ failures < MaxFailures
    /\ failures' = failures + 1
    /\ execFaults' = Lose(execFaults,
                          IF pc \in {"associate", "inputs", "label"} THEN {event.pod} ELSE {})
    /\ artFaults' = Lose(artFaults,
                         IF pc \in {"event", "attribute", "written"} THEN {event.pod} ELSE {})
    /\ watching' = FALSE
    /\ stream' = <<>>
    /\ Goto("idle", event, execution)
    /\ UNCHANGED <<pods, mlmd>>

\* A call to MLMD raises, or the watch does between two events or times out: the loop
\* opens another.
Raise ==
    /\ watching
    /\ pc \notin {"label", "written"}
    /\ Interrupt
    /\ UNCHANGED caches

\* The caches are lost with the process.
Restart ==
    /\ Interrupt
    /\ execIds' = <<>> /\ contextIds' = <<>> /\ written' = <<>>

-----------------------------------------------------------------------------
Step ==
    \/ Watch \/ Handle
    \/ GetOrCreateContext \/ PutExecution \/ Associate \/ LinkInput \/ LabelExecution
    \/ PutArtifact \/ PutEvent \/ Attribute \/ LabelWritten

Next ==
    /\ \/ Step \/ GiveUpLabel \/ GiveUpWritten \/ Raise \/ Restart
       \/ \E p \in Pods :
              PodCreated(p) \/ PodReportsOutputs(p) \/ PodCompleted(p) \/ PodDeleted(p)
    /\ UNCHANGED setup

Spec == Init /\ [][Next]_vars

\* The writer's loop goes on: while True.
FairSpec == Spec /\ WF_vars((Step \/ GiveUpLabel \/ GiveUpWritten) /\ UNCHANGED setup)

-----------------------------------------------------------------------------
\* A pod in pod_name_to_execution_id has its workflow in workflow_name_to_context_id,
\* whatever the order of events and evictions, so that the unchecked read of the
\* second cache after a hit in the first finds its key.
ContextIsCached ==
    \A i \in DOMAIN execIds : Has(contextIds, setup.workflow[execIds[i].key])

\* A pod is recorded once, with one execution and one output artifact.  It has another
\* execution only if the writer was interrupted between put_executions and the label, if
\* the label was given up, or if the pod was thrown out of the cache, and another
\* artifact only for the same between put_artifacts and the metadata_written label;
\* stale events and restarts alone cost nothing ("These caches are only used to prevent
\* race conditions").
RecordedOnce ==
    \A p \in Pods : /\ Cardinality(ExecutionsOf(p)) <= 1 + execFaults[p]
                    /\ Cardinality(ArtifactsOf(p)) <= 1 + artFaults[p]

\* What the labels of a pod say is in MLMD: its execution id is an execution of that
\* pod in the context of its workflow, and metadata_written means that its output is
\* there, linked to an execution of the pod and to the context.
LabelsAreTrue ==
    \A p \in Pods :
        /\ pods[p].exec # 0 => /\ executions[pods[p].exec].pod = p
                               /\ executions[pods[p].exec].context = {setup.workflow[p]}
        /\ (pods[p].written /\ pods[p].outputs) =>
               \E a \in ArtifactsOf(p) : /\ artifacts[a].output \in ExecutionsOf(p)
                                         /\ artifacts[a].context = {setup.workflow[p]}

\* An execution made from an event of the watch, in the order of the changes, is
\* linked to its input artifact: the upstream pod's outputs were recorded before
\* (link_execution_to_input_artifact reports and skips a missing artifact).  One made
\* from a listing, or after the upstream pod was deleted, need not be.
InputsAreLinked ==
    \A e \in DOMAIN executions :
        LET up == Upstream[executions[e].pod] IN
            \/ executions[e].listed \/ up = NoPod \/ up \in setup.own
            \/ pods[up].status = "gone"
            \/ executions[e].linked \in ArtifactsOf(up)
            \/ execution = e /\ pc \in {"associate", "inputs"}
            \/ execFaults[executions[e].pod] > 0

\* A pod that completes with outputs and stays is eventually recorded, with its
\* output, after any finite number of failures.
PodsAreRecorded ==
    \A p \in Pods :
        (p \notin setup.own /\ pods[p].completed /\ pods[p].outputs) ~>
            \/ pods[p].status = "gone"
            \/ \E a \in ArtifactsOf(p) : artifacts[a].output \in ExecutionsOf(p)

=============================================================================
