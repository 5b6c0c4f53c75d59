------------------------ MODULE MetadataWriterProofs ------------------------
(***************************************************************************)
(* Proofs about MetadataWriter, for any number of pods and workflows, any  *)
(* order of events, any cache sizes that fit, any number of failures: the  *)
(* unchecked read of the context cache finds its key, pods are recorded    *)
(* once, what the labels say is in MLMD, and executions are linked to      *)
(* their inputs.                                                           *)
(***************************************************************************)
EXTENDS MetadataWriter, FiniteSetTheorems, SequenceTheorems, WellFoundedInduction, TLAPS

-----------------------------------------------------------------------------
(* Types.                                                                  *)

PodStates ==
    [status : {"none", "here", "gone"}, outputs : BOOLEAN, completed : BOOLEAN,
     exec : Nat, written : BOOLEAN]

Events == [pod : Pods, state : PodStates, listed : BOOLEAN]

\* An execution is in hand from put_executions to its label, an artifact from
\* put_artifacts to the label metadata_written.
ExecutionInHand == {"associate", "inputs", "label"}
ArtifactInHand == {"event", "attribute", "written"}

Places == {"idle", "context", "execution", "artifact"} \cup ExecutionInHand \cup ArtifactInHand

\* A cache: what keys and values are, how many entries fit, one entry per key.
CacheOK(cache, keys, values, size) ==
    /\ cache \in Seq([key : keys, val : values])
    /\ Len(cache) <= size
    /\ \A i, j \in DOMAIN cache : cache[i].key = cache[j].key => i = j

Workflows == {setup.workflow[p] : p \in Pods}

ClusterOK ==
    /\ pods \in [Pods -> PodStates]
    /\ stream \in Seq(Events)

HandOK ==
    /\ pc \in Places
    /\ pc # "idle" => event \in Events
    /\ execution \in Nat

CachesOK ==
    /\ CacheOK(execIds, Pods, Nat, setup.podSize)
    /\ CacheOK(contextIds, Workflows, Workflows, setup.contextSize)
    /\ CacheOK(written, Pods, {0}, setup.writtenSize)

StoreOK ==
    /\ executions \in Seq([pod : Pods, context : SUBSET Workflows, linked : Nat,
                           listed : BOOLEAN])
    /\ artifacts \in Seq([pod : Pods, output : Nat, context : SUBSET Workflows])

FaultsOK == execFaults \in [Pods -> Nat] /\ artFaults \in [Pods -> Nat]

TypeOK == setup \in Setups /\ ClusterOK /\ HandOK /\ CachesOK /\ StoreOK /\ FaultsOK

-----------------------------------------------------------------------------
(* The caches of the executions and of the contexts are written together,  *)
(* so a workflow is never further back than a pod of it.                   *)

CachesPaired ==
    \A i \in DOMAIN execIds :
        \E j \in DOMAIN contextIds :
            j <= i /\ contextIds[j].key = setup.workflow[execIds[i].key]

-----------------------------------------------------------------------------
(* An execution is counted as long as it is in hand; after that the pod,   *)
(* the cache or a fault accounts for it, and no event that would make      *)
(* another one gets past them.  The same for artifacts.                    *)

HoldsExecution(p) == pc \in ExecutionInHand /\ event.pod = p
HoldsArtifact(p) == pc \in ArtifactInHand /\ event.pod = p

\* An event that has the writer make an execution, or an artifact, of p.
WantsExecution(p) ==
    \/ \E i \in DOMAIN stream : stream[i].pod = p /\ stream[i].state.exec = 0
    \/ pc \in {"context", "execution"} /\ event.pod = p

WantsArtifact(p) ==
    \/ \E i \in DOMAIN stream : stream[i].pod = p /\ ~stream[i].state.written
    \/ pc \in {"context", "execution", "artifact"} \cup ExecutionInHand /\ event.pod = p

\* No execution, or artifact, of p that no fault accounts for is known of: if the
\* writer made another one, that would be the only one.
ExecutionFree(p) ==
    /\ ~HoldsExecution(p)
    /\ pods[p].exec = 0 \/ (~Has(execIds, p) /\ WantsExecution(p))

ArtifactFree(p) ==
    /\ ~HoldsArtifact(p)
    /\ ~pods[p].written \/ (~Has(written, p) /\ WantsArtifact(p))

ExecutionsCounted(p) ==
    /\ Cardinality(ExecutionsOf(p)) <= 1 + execFaults[p]
    /\ ExecutionFree(p) => Cardinality(ExecutionsOf(p)) <= execFaults[p]

ArtifactsCounted(p) ==
    /\ Cardinality(ArtifactsOf(p)) <= 1 + artFaults[p]
    /\ ArtifactFree(p) => Cardinality(ArtifactsOf(p)) <= artFaults[p]

CountInv ==
    /\ pc \in {"context", "execution"} => ~Has(execIds, event.pod)
    /\ pc = "artifact" => ~Has(written, event.pod)
    /\ pc \in ExecutionInHand => execution # 0
    /\ \A p \in Pods : ExecutionsCounted(p) /\ ArtifactsCounted(p)

-----------------------------------------------------------------------------
(* An id that is in a label, in an event, in the cache or in hand is an    *)
(* execution of its pod, in its context; an event never says more of the   *)
(* outputs of a pod than the pod does, and the same once it has completed. *)

ExecutionOf(x, p) ==
    /\ x \in DOMAIN executions
    /\ executions[x].pod = p
    /\ executions[x].context = {setup.workflow[p]}

OutputRecorded(p) ==
    \E a \in DOMAIN artifacts :
        /\ artifacts[a].pod = p
        /\ artifacts[a].output \in ExecutionsOf(p)
        /\ artifacts[a].context = {setup.workflow[p]}

\* s is a version of pod p, now or earlier.
VersionOf(s, p) ==
    /\ s.exec # 0 => ExecutionOf(s.exec, p)
    /\ s.outputs => pods[p].outputs
    /\ s.completed => pods[p].completed /\ pods[p].outputs = s.outputs

\* The execution in hand and the artifact in hand.
HandTrue ==
    /\ pc = "associate" => execution \in ExecutionsOf(event.pod)
    /\ pc \in {"inputs", "label", "artifact"} \cup ArtifactInHand =>
           ExecutionOf(execution, event.pod)
    /\ pc \in {"artifact"} \cup ArtifactInHand => Done(event)
    /\ pc \in {"event", "attribute"} =>
           /\ artifacts # <<>>
           /\ artifacts[Len(artifacts)].pod = event.pod
    /\ pc = "attribute" => artifacts[Len(artifacts)].output = execution
    /\ pc = "written" /\ event.state.outputs => OutputRecorded(event.pod)

LabelInv ==
    /\ \A p \in Pods :
          /\ pods[p].exec # 0 => ExecutionOf(pods[p].exec, p)
          /\ pods[p].written => pods[p].outputs \/ pods[p].completed
          /\ pods[p].written /\ pods[p].outputs => OutputRecorded(p)
    /\ \A i \in DOMAIN stream : VersionOf(stream[i].state, stream[i].pod)
    /\ pc # "idle" => VersionOf(event.state, event.pod)
    /\ \A i \in DOMAIN execIds : ExecutionOf(execIds[i].val, execIds[i].key)
    /\ HandTrue

-----------------------------------------------------------------------------
(* The caches.                                                             *)

LEMMA FunctionIsSeq ==
    ASSUME NEW n \in Nat, NEW S, NEW f \in [1..n -> S]
    PROVE  f \in Seq(S) /\ Len(f) = n
  <1>1. f \in Seq(S)
    BY SeqDef
  <1>2. Len(f) \in Nat /\ DOMAIN f = 1..Len(f)
    BY <1>1, LenProperties
  <1> QED BY <1>1, <1>2

LEMMA PositionIs ==
    ASSUME NEW cache, NEW keys, NEW values, NEW size,
           CacheOK(cache, keys, values, size), NEW k
    PROVE  /\ Position(cache, k) \in 1..(Len(cache) + 1)
           /\ Position(cache, k) <= Len(cache) => cache[Position(cache, k)].key = k
           /\ Has(cache, k) <=> Position(cache, k) <= Len(cache)
  <1>1. CASE Has(cache, k)
    BY <1>1 DEF CacheOK, Has, Position
  <1>2. CASE ~Has(cache, k)
    BY <1>2 DEF CacheOK, Position
  <1> QED BY <1>1, <1>2

\* Where the entry i of a cache with a new first entry was before.
Before(cache, k, i) == IF i <= Position(cache, k) THEN i - 1 ELSE i

PutOf(new, cache, keys, values, size, k, v) ==
    /\ new \in Seq([key : keys, val : values])
    /\ Len(new) = IF Position(cache, k) > Len(cache) /\ Len(cache) < size
                  THEN Position(cache, k) ELSE Len(cache)
    /\ new[1] = [key |-> k, val |-> v]
    /\ \A i \in 2..Len(new) : /\ Before(cache, k, i) \in 1..Len(cache)
                              /\ Before(cache, k, i) # Position(cache, k)
                              /\ new[i] = cache[Before(cache, k, i)]
    /\ \A i, j \in 2..Len(new) :
           Before(cache, k, i) = Before(cache, k, j) => i = j

LEMMA PutIs ==
    ASSUME NEW cache, NEW keys, NEW values, NEW size \in Nat \ {0},
           CacheOK(cache, keys, values, size), NEW k \in keys, NEW v \in values,
           NEW new, new = Put(cache, size, k, v)
    PROVE  PutOf(new, cache, keys, values, size, k, v)
  <1> DEFINE at == Position(cache, k)
             len == IF at > Len(cache) /\ Len(cache) < size THEN at ELSE Len(cache)
  <1>1. /\ cache \in Seq([key : keys, val : values]) /\ Len(cache) \in Nat
        /\ Len(cache) <= size
    BY DEF CacheOK
  <1>2. at \in 1..(Len(cache) + 1)
    BY PositionIs
  <1>3. at \in Nat /\ len \in Nat \ {0} /\ len <= Len(cache) + 1 /\ (len > Len(cache) => at = len)
    BY <1>1, <1>2
  <1>4. new = [i \in 1..len |-> IF i = 1 THEN [key |-> k, val |-> v]
                                ELSE IF i <= at THEN cache[i - 1] ELSE cache[i]]
    BY DEF Put
  <1> HIDE DEF at, len
  <1>5. \A i \in 2..len :
           Before(cache, k, i) \in 1..Len(cache) /\ Before(cache, k, i) # at
    BY <1>1, <1>2, <1>3 DEF Before, at
  <1>6. \A i \in 2..len : new[i] = cache[Before(cache, k, i)]
    BY <1>3, <1>4 DEF Before, at
  <1>7. new[1] = [key |-> k, val |-> v]
    BY <1>3, <1>4
  <1>8. \A i \in 1..len : new[i] \in [key : keys, val : values]
    <2> SUFFICES ASSUME NEW i \in 2..len PROVE new[i] \in [key : keys, val : values]
      BY <1>3, <1>7
    <2>1. cache[Before(cache, k, i)] \in [key : keys, val : values]
      BY <1>1, <1>5, ElementOfSeq
    <2> QED BY <1>6, <2>1
  <1>9. new \in [1..len -> [key : keys, val : values]]
    BY <1>4, <1>8
  <1>10. new \in Seq([key : keys, val : values]) /\ Len(new) = len
    BY <1>3, <1>9, FunctionIsSeq
  <1>11. \A i, j \in 2..len : Before(cache, k, i) = Before(cache, k, j) => i = j
    <2>1. \A i \in 2..len : Before(cache, k, i) # at
      BY <1>5
    <2> QED BY <1>3, <2>1 DEF Before, at
  <1> QED BY <1>3, <1>5, <1>6, <1>7, <1>10, <1>11 DEF at, len, PutOf

\* Where the entry j goes, unless it is thrown out.
After(cache, k, j) == IF j < Position(cache, k) THEN j + 1 ELSE j

LEMMA PutKeeps ==
    ASSUME NEW cache, NEW keys, NEW values, NEW size \in Nat \ {0},
           CacheOK(cache, keys, values, size), NEW k \in keys, NEW v \in values,
           NEW new, new = Put(cache, size, k, v),
           NEW j \in 1..Len(cache), j # Position(cache, k),
           Position(cache, k) > Len(cache) /\ Len(cache) = size => j < Len(cache)
    PROVE  After(cache, k, j) \in 2..Len(new) /\ new[After(cache, k, j)] = cache[j]
  <1> DEFINE at == Position(cache, k)
             i == After(cache, k, j)
  <1>1. Len(cache) \in Nat /\ Len(cache) <= size
    BY DEF CacheOK
  <1>2. at \in 1..(Len(cache) + 1)
    BY PositionIs
  <1>3. PutOf(new, cache, keys, values, size, k, v)
    BY PutIs
  <1>4. Len(new) = IF at > Len(cache) /\ Len(cache) < size THEN at ELSE Len(cache)
    BY <1>3 DEF PutOf
  <1>5. /\ j # at
        /\ at > Len(cache) /\ Len(cache) = size => j < Len(cache)
        /\ j < at => i = j + 1
        /\ ~(j < at) => i = j
        /\ Before(cache, k, i) = IF i <= at THEN i - 1 ELSE i
    BY DEF After, Before
  <1> HIDE DEF at, i
  <1>6. i \in 2..Len(new) /\ Before(cache, k, i) = j
    <2>1. CASE j > at
      BY <1>1, <1>2, <1>4, <1>5, <2>1
    <2>2. CASE j < at /\ at <= Len(cache)
      BY <1>1, <1>2, <1>4, <1>5, <2>2
    <2>3. CASE j < at /\ at > Len(cache) /\ Len(cache) < size
      BY <1>1, <1>2, <1>4, <1>5, <2>3
    <2>4. CASE j < at /\ at > Len(cache) /\ Len(cache) = size
      BY <1>1, <1>2, <1>4, <1>5, <2>4
    <2> QED BY <1>1, <1>2, <1>5, <2>1, <2>2, <2>3, <2>4
  <1> QED BY <1>3, <1>6 DEF PutOf, i

\* A cache that is written stays one: the key is in it, and of the others the
\* one that is thrown out is not.
LEMMA PutOK ==
    ASSUME NEW cache, NEW keys, NEW values, NEW size \in Nat \ {0},
           CacheOK(cache, keys, values, size), NEW k \in keys, NEW v \in values
    PROVE  /\ CacheOK(Put(cache, size, k, v), keys, values, size)
           /\ Has(Put(cache, size, k, v), k)
           /\ \A q : Has(cache, q) /\ q \notin Evicted(cache, size, k) =>
                         Has(Put(cache, size, k, v), q)
  <1> DEFINE new == Put(cache, size, k, v)
  <1>0. new = Put(cache, size, k, v)
    OBVIOUS
  <1> HIDE DEF new
  <1>1. /\ new \in Seq([key : keys, val : values])
        /\ Len(new) = IF Position(cache, k) > Len(cache) /\ Len(cache) < size
                      THEN Position(cache, k) ELSE Len(cache)
        /\ new[1] = [key |-> k, val |-> v]
        /\ \A i \in 2..Len(new) : /\ Before(cache, k, i) \in 1..Len(cache)
                                  /\ Before(cache, k, i) # Position(cache, k)
                                  /\ new[i] = cache[Before(cache, k, i)]
        /\ \A i, j \in 2..Len(new) :
               Before(cache, k, i) = Before(cache, k, j) => i = j
    <2>1. PutOf(new, cache, keys, values, size, k, v)
      BY <1>0, PutIs
    <2> QED BY <2>1 DEF PutOf
  <1>2. /\ cache \in Seq([key : keys, val : values]) /\ Len(cache) \in Nat
        /\ Len(cache) <= size
        /\ DOMAIN cache = 1..Len(cache)
        /\ \A i, j \in 1..Len(cache) : cache[i].key = cache[j].key => i = j
    BY DEF CacheOK
  <1>3. /\ Position(cache, k) \in 1..(Len(cache) + 1)
        /\ Position(cache, k) <= Len(cache) => cache[Position(cache, k)].key = k
        /\ Has(cache, k) <=> Position(cache, k) <= Len(cache)
    BY PositionIs
  <1>4. DOMAIN new = 1..Len(new) /\ Len(new) \in Nat \ {0} /\ Len(new) <= size
    BY <1>1, <1>2, <1>3
  <1>5. \A i \in 2..Len(new) : new[i].key # k
    <2> SUFFICES ASSUME NEW i \in 2..Len(new), new[i].key = k PROVE FALSE
      OBVIOUS
    <2>1. Before(cache, k, i) \in 1..Len(cache) /\ cache[Before(cache, k, i)].key = k
      BY <1>1
    <2>2. Has(cache, k)
      BY <1>2, <2>1 DEF Has
    <2> QED BY <1>1, <1>2, <1>3, <2>1, <2>2
  <1>6. \A i, j \in 1..Len(new) : new[i].key = new[j].key => i = j
    <2> SUFFICES ASSUME NEW i \in 1..Len(new), NEW j \in 1..Len(new),
                        new[i].key = new[j].key
                 PROVE  i = j
      OBVIOUS
    <2>1. CASE i = 1 \/ j = 1
      <3>1. new[1].key = k
        BY <1>1
      <3>2. i \in Nat /\ j \in Nat /\ (i # 1 => i \in 2..Len(new)) /\ (j # 1 => j \in 2..Len(new))
        BY <1>4
      <3> QED BY <1>5, <2>1, <3>1, <3>2
    <2>2. CASE i \in 2..Len(new) /\ j \in 2..Len(new)
      <3>1. /\ Before(cache, k, i) \in 1..Len(cache) /\ new[i] = cache[Before(cache, k, i)]
            /\ Before(cache, k, j) \in 1..Len(cache) /\ new[j] = cache[Before(cache, k, j)]
        BY <1>1, <2>2
      <3>2. Before(cache, k, i) = Before(cache, k, j)
        BY <1>2, <3>1
      <3> QED BY <1>1, <2>2, <3>2
    <2> QED BY <1>4, <2>1, <2>2
  <1>7. CacheOK(new, keys, values, size)
    BY <1>1, <1>4, <1>6 DEF CacheOK
  <1>8. Has(new, k)
    BY <1>1, <1>4 DEF Has
  <1>9. ASSUME NEW q, Has(cache, q), q \notin Evicted(cache, size, k)
        PROVE  Has(new, q)
    <2>1. PICK j \in 1..Len(cache) : cache[j].key = q
      BY <1>2, <1>9 DEF Has
    <2>2. CASE q = k
      BY <1>8, <2>2
    <2>3. CASE q # k
      <3>1. j # Position(cache, k)
        BY <1>3, <2>1, <2>3
      <3>2. Position(cache, k) > Len(cache) /\ Len(cache) = size => j < Len(cache)
        BY <1>2, <1>3, <1>9, <2>1 DEF Evicted, Last
      <3>3. After(cache, k, j) \in 2..Len(new) /\ new[After(cache, k, j)] = cache[j]
        BY <1>0, <3>1, <3>2, PutKeeps
      <3> QED BY <1>4, <2>1, <3>3 DEF Has
    <2> QED BY <2>2, <2>3
  <1> QED BY <1>7, <1>8, <1>9 DEF new

\* The two caches that are written together.
LEMMA PutPaired ==
    ASSUME TypeOK, CachesPaired, UNCHANGED setup, NEW p \in Pods, NEW x \in Nat,
           execIds' = Put(execIds, setup.podSize, p, x),
           contextIds' = Put(contextIds, setup.contextSize,
                             setup.workflow[p], setup.workflow[p])
    PROVE  CachesPaired'
  <1> DEFINE w == setup.workflow[p]
             atP == Position(execIds, p)
             atW == Position(contextIds, w)
  <1>1. /\ CacheOK(execIds, Pods, Nat, setup.podSize)
        /\ CacheOK(contextIds, Workflows, Workflows, setup.contextSize)
        /\ {setup.podSize, setup.contextSize} \subseteq Nat \ {0}
        /\ setup.podSize <= setup.contextSize
        /\ w \in Workflows
    BY SetupsAssumption DEF TypeOK, CachesOK, Workflows
  <1>2. PutOf(execIds', execIds, Pods, Nat, setup.podSize, p, x)
    BY <1>1, PutIs
  <1>3. PutOf(contextIds', contextIds, Workflows, Workflows, setup.contextSize, w, w)
    BY <1>1, PutIs
  <1>4. /\ CacheOK(execIds', Pods, Nat, setup.podSize)
        /\ CacheOK(contextIds', Workflows, Workflows, setup.contextSize)
    BY <1>1, PutOK
  <1>5. /\ DOMAIN execIds = 1..Len(execIds) /\ Len(execIds) \in Nat
        /\ DOMAIN execIds' = 1..Len(execIds') /\ Len(execIds') \in Nat
        /\ Len(execIds') <= setup.podSize
        /\ DOMAIN contextIds = 1..Len(contextIds) /\ Len(contextIds) \in Nat
        /\ DOMAIN contextIds' = 1..Len(contextIds') /\ Len(contextIds') \in Nat
    BY <1>1, <1>4 DEF CacheOK
  <1>6. 1 \in DOMAIN contextIds' /\ contextIds'[1].key = w
    <2>1. Has(contextIds', w)
      BY <1>1, PutOK
    <2> QED BY <1>3, <1>5, <2>1 DEF PutOf, Has
  <1> SUFFICES ASSUME NEW i \in 1..Len(execIds')
               PROVE  \E j \in DOMAIN contextIds' :
                         j <= i /\ contextIds'[j].key = setup.workflow[execIds'[i].key]
    BY <1>5 DEF CachesPaired
  <1>7. CASE i = 1
    BY <1>2, <1>6, <1>7 DEF PutOf
  <1>8. CASE i \in 2..Len(execIds') /\ setup.workflow[execIds'[i].key] = w
    BY <1>6, <1>8
  <1>9. CASE i \in 2..Len(execIds') /\ setup.workflow[execIds'[i].key] # w
    <2> DEFINE b == Before(execIds, p, i)
    <2>1. b \in 1..Len(execIds) /\ execIds'[i] = execIds[b] /\ b # atP
      BY <1>2, <1>9 DEF PutOf
    <2>2. PICK j \in 1..Len(contextIds) :
             j <= b /\ contextIds[j].key = setup.workflow[execIds[b].key]
      BY <1>5, <2>1 DEF CachesPaired
    <2>3. /\ atP \in 1..(Len(execIds) + 1)
          /\ atW \in 1..(Len(contextIds) + 1)
          /\ atW <= Len(contextIds) => contextIds[atW].key = w
          /\ atP <= Len(execIds) => execIds[atP].key = p
      BY <1>1, PositionIs
    <2>4. j # atW
      BY <1>9, <2>1, <2>2, <2>3
    <2>5. atP <= Len(execIds) => atW <= atP
      <3> SUFFICES ASSUME atP <= Len(execIds) PROVE atW <= atP
        OBVIOUS
      <3>1. PICK h \in 1..Len(contextIds) : h <= atP /\ contextIds[h].key = w
        BY <1>5, <2>3 DEF CachesPaired
      <3>2. Has(contextIds, w)
        BY <1>5, <3>1 DEF Has
      <3>3. atW <= Len(contextIds)
        BY <1>1, <3>2, PositionIs
      <3>4. \A m, n \in 1..Len(contextIds) : contextIds[m].key = contextIds[n].key => m = n
        BY <1>1, <1>5 DEF CacheOK
      <3>5. atW \in 1..Len(contextIds) /\ contextIds[atW].key = w
        BY <1>5, <2>3, <3>3
      <3>6. h = atW
        BY <3>1, <3>4, <3>5
      <3> QED BY <3>1, <3>6
    <2>6. b = IF i <= atP THEN i - 1 ELSE i
      BY DEF Before
    <2> HIDE DEF b, atP, atW
    <2>7. IF j < atW THEN j + 1 <= i ELSE j <= i
      <3>1. CASE i <= atP
        BY <1>5, <1>9, <2>2, <2>3, <2>6, <3>1
      <3>2. CASE i > atP
        BY <1>5, <1>9, <2>1, <2>2, <2>3, <2>5, <2>6, <3>2
      <3> QED BY <1>5, <2>3, <3>1, <3>2
    <2>8. atW > Len(contextIds) /\ Len(contextIds) = setup.contextSize => j < Len(contextIds)
      BY <1>1, <1>5, <1>9, <2>2, <2>3, <2>7
    <2>9. /\ After(contextIds, w, j) \in 2..Len(contextIds')
          /\ contextIds'[After(contextIds, w, j)] = contextIds[j]
      BY <1>1, <2>4, <2>8, PutKeeps DEF atW
    <2>10. After(contextIds, w, j) <= i
      BY <2>7 DEF After, atW
    <2> QED BY <1>5, <2>1, <2>2, <2>9, <2>10
  <1> QED BY <1>5, <1>7, <1>8, <1>9

-----------------------------------------------------------------------------
(* Types are kept.                                                         *)

LEMMA InitType == Init => TypeOK
  <1> SUFFICES ASSUME Init PROVE TypeOK
    OBVIOUS
  <1>1. setup \in Setups /\ ClusterOK /\ HandOK /\ StoreOK /\ FaultsOK
    BY DEF Init, ClusterOK, HandOK, StoreOK, FaultsOK, PodStates, Places
  <1>2. {setup.podSize, setup.contextSize, setup.writtenSize} \subseteq Nat \ {0}
    BY <1>1, SetupsAssumption
  <1>3. CachesOK
    BY <1>2 DEF Init, CachesOK, CacheOK
  <1> QED BY <1>1, <1>3 DEF TypeOK

\* The watch's events are snapshots of pods.
LEMMA ChangeOK ==
    ASSUME ClusterOK, NEW p \in Pods, NEW new \in PodStates, Change(p, new)
    PROVE  ClusterOK'
  <1>1. pods' \in [Pods -> PodStates]
    BY DEF ClusterOK, Change
  <1>2. CASE watching
    <2> DEFINE e == [pod |-> p, state |-> new, listed |-> FALSE]
    <2>1. e \in Events
      BY DEF Events
    <2>2. stream' = Append(stream, e)
      BY <1>2 DEF Change
    <2> HIDE DEF e
    <2> QED BY <1>1, <2>1, <2>2, AppendProperties DEF ClusterOK
  <1>3. CASE ~watching
    BY <1>1, <1>3 DEF ClusterOK, Change
  <1> QED BY <1>2, <1>3

LEMMA GotoOK ==
    ASSUME NEW place \in Places, NEW e, place # "idle" => e \in Events, NEW x \in Nat,
           Goto(place, e, x)
    PROVE  HandOK'
  BY DEF Goto, HandOK, Places

LEMMA AfterExecutionIs ==
    ASSUME NEW e
    PROVE  /\ AfterExecution(e) \in {"idle", "artifact", "written"}
           /\ AfterExecution(e) # "idle" => ~Has(written, e.pod) /\ Done(e)
           /\ AfterExecution(e) = "artifact" => e.state.outputs
           /\ AfterExecution(e) = "written" => ~e.state.outputs
  <1>1. CASE Has(written, e.pod) \/ ~Done(e)
    <2>1. AfterExecution(e) = "idle"
      BY <1>1 DEF AfterExecution
    <2> QED BY <2>1
  <1>2. CASE ~(Has(written, e.pod) \/ ~Done(e)) /\ e.state.outputs
    <2>1. AfterExecution(e) = "artifact"
      BY <1>2 DEF AfterExecution
    <2> QED BY <1>2, <2>1
  <1>3. CASE ~(Has(written, e.pod) \/ ~Done(e)) /\ ~e.state.outputs
    <2>1. AfterExecution(e) = "written"
      BY <1>3 DEF AfterExecution
    <2> QED BY <1>3, <2>1
  <1> QED BY <1>1, <1>2, <1>3

\* The listing of the pods that are there.
LEMMA WatchStream ==
    ASSUME ClusterOK, Watch
    PROVE  /\ stream' \in Seq(Events)
           /\ UNCHANGED pods
           /\ \A i \in DOMAIN stream' :
                  stream'[i].pod \in Pods /\ stream'[i].state = pods[stream'[i].pod]
  <1> DEFINE S == {p \in Pods : pods[p].status = "here"}
             n == Cardinality(S)
  <1>1. n \in Nat
    BY PodsAssumption, FS_Subset, FS_CardinalityType
  <1>2. PICK order \in [1..n -> S] :
           stream' = [i \in DOMAIN order |->
                         [pod |-> order[i], state |-> pods[order[i]], listed |-> TRUE]]
    BY DEF Watch, SetToSeqs
  <1> HIDE DEF n
  <1>3. /\ DOMAIN stream' = 1..n
        /\ \A i \in 1..n : /\ stream'[i] \in Events
                            /\ stream'[i].pod \in Pods
                            /\ stream'[i].state = pods[stream'[i].pod]
    BY <1>2 DEF Events, ClusterOK
  <1>4. stream' \in [1..n -> Events]
    BY <1>2, <1>3
  <1>5. stream' \in Seq(Events)
    BY <1>1, <1>4, FunctionIsSeq
  <1> QED BY <1>3, <1>5 DEF Watch

LEMMA LoseOK ==
    ASSUME NEW count \in [Pods -> Nat], NEW ps
    PROVE  /\ Lose(count, ps) \in [Pods -> Nat]
           /\ \A p \in Pods : Lose(count, ps)[p] = IF p \in ps THEN count[p] + 1 ELSE count[p]
  BY DEF Lose

\* The steps that change the pods, and how.
PodStep(p) == PodCreated(p) \/ PodReportsOutputs(p) \/ PodCompleted(p) \/ PodDeleted(p)

LEMMA PodStepIs ==
    ASSUME ClusterOK, NEW p \in Pods, PodStep(p)
    PROVE  /\ \E new \in PodStates :
                 /\ Change(p, new)
                 /\ new.exec = pods[p].exec /\ new.written = pods[p].written
                 /\ \/ new.outputs = pods[p].outputs /\ (pods[p].completed => new.completed)
                    \/ ~pods[p].completed /\ ~new.completed /\ ~pods[p].outputs
           /\ UNCHANGED <<pc, event, execution, caches, mlmd, faults>>
  <1>0. pods[p] \in PodStates
    BY DEF ClusterOK
  <1>1. CASE PodCreated(p)
    <2> DEFINE new == [pods[p] EXCEPT !.status = "here"]
    <2>1. /\ new \in PodStates /\ new.exec = pods[p].exec /\ new.written = pods[p].written
          /\ new.outputs = pods[p].outputs /\ new.completed = pods[p].completed
      BY <1>0 DEF PodStates
    <2> QED BY <1>1, <2>1 DEF PodCreated
  <1>2. CASE PodReportsOutputs(p)
    <2> DEFINE new == [pods[p] EXCEPT !.outputs = TRUE]
    <2>1. /\ new \in PodStates /\ new.exec = pods[p].exec /\ new.written = pods[p].written
          /\ new.completed = pods[p].completed
      BY <1>0 DEF PodStates
    <2> QED BY <1>2, <2>1 DEF PodReportsOutputs
  <1>3. CASE PodCompleted(p)
    <2> DEFINE new == [pods[p] EXCEPT !.completed = TRUE]
    <2>1. /\ new \in PodStates /\ new.exec = pods[p].exec /\ new.written = pods[p].written
          /\ new.outputs = pods[p].outputs /\ new.completed
      BY <1>0 DEF PodStates
    <2> QED BY <1>3, <2>1 DEF PodCompleted
  <1>4. CASE PodDeleted(p)
    <2> DEFINE new == [pods[p] EXCEPT !.status = "gone"]
    <2>1. /\ new \in PodStates /\ new.exec = pods[p].exec /\ new.written = pods[p].written
          /\ new.outputs = pods[p].outputs /\ new.completed = pods[p].completed
      BY <1>0 DEF PodStates
    <2> QED BY <1>4, <2>1 DEF PodDeleted
  <1> QED BY <1>1, <1>2, <1>3, <1>4 DEF PodStep

\* The largest of some numbers up to n.
LEMMA LargestOf ==
    ASSUME NEW n \in Nat, NEW S \in SUBSET (1..n), S # {}
    PROVE  \E m \in S : \A k \in S : m >= k
  <1> DEFINE T == {n - m : m \in S}
             R == OpToRel(<, Nat)
  <1>1. T \subseteq Nat /\ T # {}
    <2>1. PICK m \in S : TRUE
      OBVIOUS
    <2>2. n - m \in T
      BY <2>1
    <2>3. \A k \in S : n - k \in Nat
      OBVIOUS
    <2> QED BY <2>2, <2>3
  <1>2. \A x, y \in Nat : x < y => <<x, y>> \in R
    BY DEF OpToRel
  <1>3. IsWellFoundedOn(R, Nat)
    BY NatLessThanWellFounded
  <1> HIDE DEF R, T
  <1>4. PICK x \in T : \A y \in T : ~(<<y, x>> \in R)
    BY <1>1, <1>3, WFMin
  <1>5. \A y \in T : ~(y < x)
    BY <1>1, <1>2, <1>4
  <1>6. PICK m \in S : x = n - m
    BY <1>4 DEF T
  <1>7. \A k \in S : n - k \in T
    BY DEF T
  <1> QED BY <1>5, <1>6, <1>7

\* The artifact that is linked is one of the upstream pod.
LEMMA MatchingMax ==
    ASSUME NEW A, artifacts \in Seq(A), Matching # {}
    PROVE  Max(Matching) \in Matching
  <1>1. Matching \subseteq 1..Len(artifacts) /\ Len(artifacts) \in Nat
    BY DEF Matching
  <1>2. \E m \in Matching : \A n \in Matching : m >= n
    BY <1>1, LargestOf
  <1> QED BY <1>2 DEF Max

\* An entry of a sequence is replaced.
LEMMA UpdateOK ==
    ASSUME NEW S, NEW s \in Seq(S), NEW i, NEW e, i \in DOMAIN s => e \in S,
           NEW t, t = [s EXCEPT ![i] = e]
    PROVE  /\ t \in Seq(S) /\ Len(t) = Len(s) /\ DOMAIN t = DOMAIN s
           /\ \A j \in DOMAIN s : t[j] = IF j = i THEN e ELSE s[j]
  <1>1. Len(s) \in Nat /\ DOMAIN s = 1..Len(s) /\ \A j \in 1..Len(s) : s[j] \in S
    BY LenProperties
  <1>2. DOMAIN t = 1..Len(s) /\ \A j \in 1..Len(s) : t[j] = IF j = i THEN e ELSE s[j]
    BY <1>1
  <1>3. t \in [1..Len(s) -> S]
    BY <1>1, <1>2
  <1> QED BY <1>1, <1>2, <1>3, FunctionIsSeq

\* What the writer's steps put into MLMD.
LEMMA StoreStep ==
    ASSUME TypeOK, UNCHANGED setup,
           \/ PutExecution \/ Associate \/ LinkInput
           \/ PutArtifact \/ PutEvent \/ Attribute
    PROVE  StoreOK'
  <1> DEFINE E == [pod : Pods, context : SUBSET Workflows, linked : Nat, listed : BOOLEAN]
             A == [pod : Pods, output : Nat, context : SUBSET Workflows]
  <1>1. /\ executions \in Seq(E) /\ artifacts \in Seq(A)
        /\ event \in Events /\ execution \in Nat
        /\ Workflows' = Workflows /\ setup.workflow[event.pod] \in Workflows
    BY DEF TypeOK, StoreOK, HandOK, PutExecution, Associate, LinkInput, PutArtifact, PutEvent,
           Attribute, Workflows, Events
  <1> SUFFICES executions' \in Seq(E) /\ artifacts' \in Seq(A)
    BY <1>1 DEF StoreOK
  <1>2. CASE PutExecution
    <2> DEFINE e == [pod |-> event.pod, context |-> {}, linked |-> 0, listed |-> event.listed]
    <2>1. e \in E
      BY <1>1 DEF Events
    <2>2. executions' = Append(executions, e) /\ UNCHANGED artifacts
      BY <1>2 DEF PutExecution
    <2> HIDE DEF e, E
    <2> QED BY <1>1, <2>1, <2>2, AppendProperties
  <1>3. ASSUME NEW e, execution \in DOMAIN executions => e \in E,
               executions' = [executions EXCEPT ![execution] = e], UNCHANGED artifacts
        PROVE  executions' \in Seq(E) /\ artifacts' \in Seq(A)
    <2> HIDE DEF E
    <2> QED BY <1>1, <1>3, UpdateOK
  <1>4. CASE Associate
    <2> DEFINE e == [executions[execution] EXCEPT !.context = {setup.workflow[event.pod]}]
    <2>1. execution \in DOMAIN executions => executions[execution] \in E
      BY <1>1, ElementOfSeq, LenProperties
    <2>2. execution \in DOMAIN executions => e \in E
      BY <1>1, <2>1
    <2> QED BY <1>3, <1>4, <2>2 DEF Associate
  <1>5. CASE LinkInput
    <2>1. CASE Matching = {}
      BY <1>1, <1>5, <2>1 DEF LinkInput
    <2>2. CASE Matching # {}
      <3> DEFINE e == [executions[execution] EXCEPT !.linked = Max(Matching)]
      <3>1. Max(Matching) \in Matching
        BY <1>1, <2>2, MatchingMax
      <3>2. Max(Matching) \in Nat
        BY <1>1, <3>1, LenProperties DEF Matching
      <3>3. execution \in DOMAIN executions => executions[execution] \in E
        BY <1>1, ElementOfSeq, LenProperties
      <3>4. execution \in DOMAIN executions => e \in E
        BY <3>2, <3>3
      <3>5. executions' = [executions EXCEPT ![execution] = e] /\ UNCHANGED artifacts
        BY <1>5, <2>2 DEF LinkInput
      <3> QED BY <1>3, <3>4, <3>5
    <2> QED BY <2>1, <2>2
  <1>6. CASE PutArtifact
    <2> DEFINE a == [pod |-> event.pod, output |-> 0, context |-> {}]
    <2>1. a \in A
      BY <1>1 DEF Events
    <2>2. artifacts' = Append(artifacts, a) /\ UNCHANGED executions
      BY <1>6 DEF PutArtifact
    <2> HIDE DEF a, A
    <2> QED BY <1>1, <2>1, <2>2, AppendProperties
  <1>7. CASE PutEvent \/ Attribute
    <2>1. PICK e : /\ Len(artifacts) \in DOMAIN artifacts => e \in A
                   /\ artifacts' = [artifacts EXCEPT ![Len(artifacts)] = e]
                   /\ UNCHANGED executions
      <3> DEFINE last == artifacts[Len(artifacts)]
      <3>1. Len(artifacts) \in DOMAIN artifacts => last \in A
        BY <1>1, ElementOfSeq, LenProperties
      <3>2. CASE PutEvent
        <4> DEFINE e == [last EXCEPT !.output = execution]
        <4>1. Len(artifacts) \in DOMAIN artifacts => e \in A
          BY <1>1, <3>1
        <4>2. artifacts' = [artifacts EXCEPT ![Len(artifacts)] = e] /\ UNCHANGED executions
          BY <3>2 DEF PutEvent
        <4> QED BY <4>1, <4>2
      <3>3. CASE Attribute
        <4> DEFINE e == [last EXCEPT !.context = {setup.workflow[event.pod]}]
        <4>1. Len(artifacts) \in DOMAIN artifacts => e \in A
          BY <1>1, <3>1
        <4>2. artifacts' = [artifacts EXCEPT ![Len(artifacts)] = e] /\ UNCHANGED executions
          BY <3>3 DEF Attribute
        <4> QED BY <4>1, <4>2
      <3> QED BY <1>7, <3>2, <3>3
    <2> HIDE DEF A
    <2> QED BY <1>1, <2>1, UpdateOK
  <1> QED BY <1>2, <1>4, <1>5, <1>6, <1>7

\* RememberExecution: both caches are written.
LEMMA RememberOK ==
    ASSUME TypeOK, UNCHANGED setup, NEW p \in Pods, NEW x \in Nat,
           execIds' = Put(execIds, setup.podSize, p, x),
           contextIds' = Put(contextIds, setup.contextSize,
                             setup.workflow[p], setup.workflow[p])
    PROVE  /\ CacheOK(execIds', Pods, Nat, setup.podSize)
           /\ CacheOK(contextIds', Workflows, Workflows, setup.contextSize)
           /\ Has(execIds', p)
           /\ \A q : Has(execIds, q) /\ q \notin Evicted(execIds, setup.podSize, p) =>
                         Has(execIds', q)
  <1>1. /\ CacheOK(execIds, Pods, Nat, setup.podSize)
        /\ CacheOK(contextIds, Workflows, Workflows, setup.contextSize)
        /\ setup.podSize \in Nat \ {0} /\ setup.contextSize \in Nat \ {0}
        /\ setup.workflow[p] \in Workflows
    BY SetupsAssumption DEF TypeOK, CachesOK, Workflows
  <1> QED BY <1>1, PutOK

LEMMA RememberWrittenOK ==
    ASSUME TypeOK, UNCHANGED setup, event.pod \in Pods, RememberWritten
    PROVE  /\ CacheOK(written', Pods, {0}, setup.writtenSize)
           /\ Has(written', event.pod)
           /\ \A q : Has(written, q) /\ q \notin Evicted(written, setup.writtenSize, event.pod) =>
                         Has(written', q)
  <1>1. CacheOK(written, Pods, {0}, setup.writtenSize) /\ setup.writtenSize \in Nat \ {0}
    BY SetupsAssumption DEF TypeOK, CachesOK
  <1>2. 0 \in {0}
    OBVIOUS
  <1> QED BY <1>1, <1>2, PutOK DEF RememberWritten

\* An event in hand: its pod, and the execution.
LEMMA InHand ==
    ASSUME TypeOK, pc # "idle"
    PROVE  event \in Events /\ event.pod \in Pods /\ event.state \in PodStates
  BY DEF TypeOK, HandOK, Events

LEMMA GetIs ==
    ASSUME NEW cache, NEW keys, NEW values, NEW size,
           CacheOK(cache, keys, values, size), NEW k, Has(cache, k)
    PROVE  \E i \in DOMAIN cache : cache[i].key = k /\ Get(cache, k) = cache[i].val
  BY DEF Has, Get

LEMMA GetOK ==
    ASSUME NEW cache, NEW keys, NEW values, NEW size,
           CacheOK(cache, keys, values, size), NEW k, Has(cache, k)
    PROVE  Get(cache, k) \in values
  <1>1. PICK i \in DOMAIN cache : Get(cache, k) = cache[i].val
    BY GetIs
  <1>2. cache[i] \in [key : keys, val : values]
    <2>1. cache \in Seq([key : keys, val : values])
      BY DEF CacheOK
    <2> QED BY <2>1, ElementOfSeq, LenProperties
  <1> QED BY <1>1, <1>2

\* The head of the stream.
LEMMA StreamHead ==
    ASSUME ClusterOK, stream # <<>>
    PROVE  /\ Head(stream) \in Events /\ Head(stream).pod \in Pods
           /\ Head(stream).state \in PodStates
           /\ Tail(stream) \in Seq(Events)
           /\ 1 \in DOMAIN stream /\ Head(stream) = stream[1]
           /\ \A i \in DOMAIN Tail(stream) :
                  i + 1 \in DOMAIN stream /\ Tail(stream)[i] = stream[i + 1]
  <1>1. stream \in Seq(Events) /\ Len(stream) \in Nat \ {0} /\ DOMAIN stream = 1..Len(stream)
    BY LenProperties, EmptySeq DEF ClusterOK
  <1>2. /\ Tail(stream) \in Seq(Events) /\ Len(Tail(stream)) = Len(stream) - 1
        /\ \A i \in 1..Len(Tail(stream)) : Tail(stream)[i] = stream[i + 1]
        /\ Head(stream) = stream[1]
    BY <1>1, HeadTailProperties
  <1>3. DOMAIN Tail(stream) = 1..(Len(stream) - 1)
    BY <1>1, <1>2, LenProperties
  <1>4. Head(stream) \in Events
    BY <1>1, <1>2, ElementOfSeq
  <1>5. Head(stream).pod \in Pods /\ Head(stream).state \in PodStates
    BY <1>4 DEF Events
  <1> QED BY <1>1, <1>2, <1>3, <1>4, <1>5

LEMMA LoseFaults ==
    ASSUME FaultsOK, NEW ps, NEW qs,
           execFaults' \in {execFaults, Lose(execFaults, ps)},
           artFaults' \in {artFaults, Lose(artFaults, qs)}
    PROVE  FaultsOK'
  BY LoseOK DEF FaultsOK

LEMMA NextType == TypeOK /\ [Next]_vars => TypeOK'
  <1> SUFFICES ASSUME TypeOK, [Next]_vars PROVE TypeOK'
    OBVIOUS
  <1> USE DEF TypeOK
  <1>1. UNCHANGED setup /\ setup' \in Setups /\ Workflows' = Workflows
    BY DEF Next, vars, Workflows
  <1>2. /\ UNCHANGED caches => CachesOK'
        /\ UNCHANGED <<executions, artifacts>> => StoreOK'
        /\ UNCHANGED <<execFaults, artFaults>> => FaultsOK'
        /\ UNCHANGED <<pods, stream>> => ClusterOK'
        /\ UNCHANGED <<pc, event, execution>> => HandOK'
    BY <1>1 DEF caches, CachesOK, StoreOK, FaultsOK, ClusterOK, HandOK
  <1>3. CASE UNCHANGED vars
    BY <1>1, <1>2, <1>3 DEF vars, cluster, mlmd, faults
  <1>4. ASSUME NEW p \in Pods, PodStep(p) PROVE TypeOK'
    BY <1>1, <1>2, <1>4, PodStepIs, ChangeOK DEF mlmd, faults
  <1>5. CASE Watch
    BY <1>1, <1>2, <1>5, WatchStream DEF Watch, ClusterOK, mlmd, faults
  <1>6. CASE Handle
    <2> DEFINE e == Head(stream)
               w == setup.workflow[e.pod]
    <2>1. e \in Events /\ e.pod \in Pods /\ e.state.exec \in Nat /\ ClusterOK'
      BY <1>6, StreamHead DEF Handle, ClusterOK, PodStates
    <2>2. AfterExecution(e) \in Places
      BY AfterExecutionIs DEF Places, ArtifactInHand
    <2> HIDE DEF e
    <2>3. UNCHANGED <<written, executions, artifacts, execFaults, artFaults>>
      BY <1>6 DEF Handle, mlmd, faults
    <2>4. CASE UNCHANGED <<pc, event, execution, execIds, contextIds>>
      BY <1>1, <1>2, <2>1, <2>3, <2>4 DEF caches
    <2>5. CASE /\ Has(execIds, e.pod)
               /\ execIds' = Put(execIds, setup.podSize, e.pod, Get(execIds, e.pod))
               /\ contextIds' = Put(contextIds, setup.contextSize, w, w)
               /\ Goto(AfterExecution(e), e, Get(execIds, e.pod))
      <3>1. Get(execIds, e.pod) \in Nat
        BY <2>5, GetOK DEF CachesOK
      <3>2. HandOK'
        BY <2>1, <2>2, <2>5, <3>1, GotoOK
      <3>3. /\ CacheOK(execIds', Pods, Nat, setup.podSize)
            /\ CacheOK(contextIds', Workflows, Workflows, setup.contextSize)
        BY <1>1, <2>1, <2>5, <3>1, RememberOK
      <3>4. CachesOK'
        BY <1>1, <2>3, <3>3 DEF CachesOK
      <3> QED BY <1>1, <1>2, <2>1, <2>3, <3>2, <3>4
    <2>6. CASE Goto(AfterExecution(e), e, e.state.exec) /\ UNCHANGED <<execIds, contextIds>>
      BY <1>1, <1>2, <2>1, <2>2, <2>3, <2>6, GotoOK DEF caches
    <2>7. CASE Goto("context", e, 0) /\ UNCHANGED <<execIds, contextIds>>
      <3>1. "context" \in Places /\ 0 \in Nat
        BY DEF Places
      <3>2. HandOK'
        BY <2>1, <2>7, <3>1, GotoOK
      <3> QED BY <1>1, <1>2, <2>1, <2>3, <2>7, <3>2 DEF caches
    <2> QED BY <1>6, <2>4, <2>5, <2>6, <2>7 DEF Handle, e
  <1>7. CASE \/ GetOrCreateContext \/ PutExecution \/ Associate \/ LinkInput
             \/ PutArtifact \/ PutEvent \/ Attribute
    <2>1. event \in Events
      BY <1>7, InHand DEF GetOrCreateContext, PutExecution, Associate, LinkInput, PutArtifact,
                          PutEvent, Attribute
    <2>2. \E place \in Places, x \in Nat : Goto(place, event, x)
      <3>1. Len(executions) + 1 \in Nat /\ execution \in Nat /\ 0 \in Nat
        BY LenProperties DEF StoreOK, HandOK
      <3>2. {"execution", "associate", "inputs", "label", "event", "attribute", "written"}
              \subseteq Places
        BY DEF Places, ExecutionInHand, ArtifactInHand
      <3> QED
        BY <1>7, <3>1, <3>2 DEF GetOrCreateContext, PutExecution, Associate, LinkInput,
                                PutArtifact, PutEvent, Attribute
    <2>3. HandOK'
      BY <2>1, <2>2, GotoOK
    <2>4. UNCHANGED <<pods, stream, caches, execFaults, artFaults>>
      BY <1>7 DEF GetOrCreateContext, PutExecution, Associate, LinkInput, PutArtifact, PutEvent,
                  Attribute, cluster, faults
    <2>5. StoreOK'
      BY <1>1, <1>2, <1>7, StoreStep DEF GetOrCreateContext
    <2> QED BY <1>1, <1>2, <2>3, <2>4, <2>5
  <1>8. CASE LabelExecution \/ GiveUpLabel
    <2>1. /\ event \in Events /\ event.pod \in Pods /\ execution \in Nat
          /\ RememberExecution
          /\ UNCHANGED <<written, mlmd, artFaults>>
      BY <1>8, InHand DEF LabelExecution, GiveUpLabel, HandOK
    <2>2. ClusterOK'
      <3> DEFINE new == [pods[event.pod] EXCEPT !.exec = execution]
      <3>1. new \in PodStates
        BY <2>1 DEF ClusterOK, PodStates
      <3>2. CASE LabelExecution
        BY <2>1, <3>1, <3>2, ChangeOK DEF LabelExecution
      <3> QED BY <1>2, <1>8, <3>2 DEF GiveUpLabel, cluster
    <2>3. AfterExecution(event) \in Places
      BY AfterExecutionIs DEF Places, ArtifactInHand
    <2>4. HandOK'
      BY <2>1, <2>3, GotoOK DEF RememberExecution
    <2>5. CachesOK'
      <3>1. /\ CacheOK(execIds', Pods, Nat, setup.podSize)
            /\ CacheOK(contextIds', Workflows, Workflows, setup.contextSize)
        BY <1>1, <2>1, RememberOK DEF RememberExecution, RememberContext
      <3> QED BY <1>1, <2>1, <3>1 DEF CachesOK
    <2>6. FaultsOK'
      BY <1>8, <2>1, LoseFaults DEF LabelExecution, GiveUpLabel
    <2> QED BY <1>1, <1>2, <2>1, <2>2, <2>4, <2>5, <2>6 DEF mlmd
  <1>9. CASE LabelWritten \/ GiveUpWritten
    <2>1. /\ event \in Events /\ event.pod \in Pods /\ execution \in Nat
          /\ RememberWritten
          /\ Goto("idle", event, execution)
          /\ UNCHANGED <<execIds, contextIds, mlmd, execFaults>>
      BY <1>9, InHand DEF LabelWritten, GiveUpWritten, HandOK
    <2>2. ClusterOK'
      <3> DEFINE new == [pods[event.pod] EXCEPT !.written = TRUE]
      <3>1. new \in PodStates
        BY <2>1 DEF ClusterOK, PodStates
      <3>2. CASE LabelWritten
        BY <2>1, <3>1, <3>2, ChangeOK DEF LabelWritten
      <3> QED BY <1>2, <1>9, <3>2 DEF GiveUpWritten, cluster
    <2>3. "idle" \in Places
      BY DEF Places
    <2>4. HandOK'
      BY <2>1, <2>3, GotoOK
    <2>5. CachesOK'
      <3>1. CacheOK(written', Pods, {0}, setup.writtenSize)
        BY <1>1, <2>1, RememberWrittenOK
      <3> QED BY <1>1, <2>1, <3>1 DEF CachesOK
    <2>6. FaultsOK'
      BY <1>9, <2>1, LoseFaults DEF LabelWritten, GiveUpWritten
    <2> QED BY <1>1, <1>2, <2>1, <2>2, <2>4, <2>5, <2>6 DEF mlmd
  <1>10. CASE Raise \/ Restart
    <2>1. Interrupt
      BY <1>10 DEF Raise, Restart
    <2>2. ClusterOK'
      BY <2>1 DEF Interrupt, ClusterOK
    <2>3. HandOK'
      BY <2>1 DEF Interrupt, Goto, HandOK, Places
    <2>4. FaultsOK'
      BY <2>1, LoseFaults DEF Interrupt
    <2>5. CachesOK'
      <3>1. CASE Restart
        <4>1. setup.podSize \in Nat /\ setup.contextSize \in Nat /\ setup.writtenSize \in Nat
          BY SetupsAssumption
        <4> QED BY <1>1, <3>1, <4>1 DEF Restart, CachesOK, CacheOK
      <3> QED BY <1>2, <1>10, <3>1 DEF Raise
    <2> QED BY <1>1, <1>2, <2>1, <2>2, <2>3, <2>4, <2>5 DEF Interrupt, mlmd
  <1> QED
    BY <1>3, <1>4, <1>5, <1>6, <1>7, <1>8, <1>9, <1>10 DEF Next, Step, PodStep

-----------------------------------------------------------------------------
(* The context is cached.                                                  *)

LEMMA CacheCases ==
    ASSUME TypeOK, [Next]_vars
    PROVE  \/ UNCHANGED <<execIds, contextIds>>
           \/ execIds' = <<>> /\ contextIds' = <<>>
           \/ \E p \in Pods, x \in Nat :
                 /\ execIds' = Put(execIds, setup.podSize, p, x)
                 /\ contextIds' = Put(contextIds, setup.contextSize,
                                      setup.workflow[p], setup.workflow[p])
  <1>1. CASE Handle
    <2> DEFINE e == Head(stream)
    <2>1. e.pod \in Pods
      BY <1>1, StreamHead DEF Handle, TypeOK
    <2>2. Has(execIds, e.pod) => Get(execIds, e.pod) \in Nat
      BY GetOK DEF TypeOK, CachesOK
    <2> QED BY <1>1, <2>1, <2>2 DEF Handle
  <1>2. CASE LabelExecution \/ GiveUpLabel
    <2>1. event.pod \in Pods /\ execution \in Nat
      BY <1>2, InHand DEF LabelExecution, GiveUpLabel, TypeOK, HandOK
    <2> QED BY <1>2, <2>1 DEF LabelExecution, GiveUpLabel, RememberExecution, RememberContext
  <1>3. CASE Restart
    BY <1>3 DEF Restart
  <1>4. ASSUME NEW p \in Pods, PodStep(p) PROVE UNCHANGED caches
    BY <1>4 DEF PodStep, PodCreated, PodReportsOutputs, PodCompleted, PodDeleted
  <1>5. CASE \/ Watch \/ GetOrCreateContext \/ PutExecution \/ Associate \/ LinkInput
             \/ PutArtifact \/ PutEvent \/ Attribute \/ LabelWritten \/ GiveUpWritten \/ Raise
             \/ UNCHANGED vars
    BY <1>5 DEF Watch, GetOrCreateContext, PutExecution, Associate, LinkInput, PutArtifact,
                PutEvent, Attribute, LabelWritten, GiveUpWritten, Raise, caches, vars
  <1> QED BY <1>1, <1>2, <1>3, <1>4, <1>5 DEF Next, Step, PodStep, caches

LEMMA NextPaired == TypeOK /\ CachesPaired /\ [Next]_vars => CachesPaired'
  <1> SUFFICES ASSUME TypeOK, CachesPaired, [Next]_vars PROVE CachesPaired'
    OBVIOUS
  <1>1. UNCHANGED setup
    BY DEF Next, vars
  <1>2. CASE UNCHANGED <<execIds, contextIds>>
    BY <1>1, <1>2 DEF CachesPaired
  <1>3. CASE execIds' = <<>>
    BY <1>3 DEF CachesPaired
  <1>4. ASSUME NEW p \in Pods, NEW x \in Nat,
               execIds' = Put(execIds, setup.podSize, p, x),
               contextIds' = Put(contextIds, setup.contextSize,
                                 setup.workflow[p], setup.workflow[p])
        PROVE  CachesPaired'
    BY <1>1, <1>4, PutPaired
  <1> QED BY <1>2, <1>3, <1>4, CacheCases

(* A hit in pod_name_to_execution_id is a hit in                           *)
(* workflow_name_to_context_id, so the unchecked read after it never fails, *)
(* as long as the second cache is not the smaller one.                     *)
THEOREM ContextIsCachedAlways == Spec => []ContextIsCached
  <1>1. Init => TypeOK /\ CachesPaired
    BY InitType DEF Init, CachesPaired
  <1>2. TypeOK /\ CachesPaired /\ [Next]_vars => (TypeOK /\ CachesPaired)'
    BY NextType, NextPaired
  <1>3. CachesPaired => ContextIsCached
    BY DEF CachesPaired, ContextIsCached, Has
  <1> QED BY <1>1, <1>2, <1>3, PTL DEF Spec

-----------------------------------------------------------------------------
(* Pods are recorded once.                                                 *)

\* Every event of the stream was there before, or is the pod as it is now.
StreamKept ==
    \A i \in DOMAIN stream' :
        \/ \E j \in DOMAIN stream : stream'[i] = stream[j]
        \/ stream'[i].state = pods'[stream'[i].pod]

LEMMA ChangeKeepsStream ==
    ASSUME ClusterOK, NEW p \in Pods, NEW new, Change(p, new)
    PROVE  StreamKept
  <1>1. CASE watching
    <2> DEFINE e == [pod |-> p, state |-> new, listed |-> FALSE]
    <2>1. stream' = Append(stream, e) /\ e.pod = p /\ e.state = new
      BY <1>1 DEF Change
    <2>2. stream \in Seq(Events) /\ pods'[p] = new
      BY DEF Change, ClusterOK
    <2> HIDE DEF e
    <2>3. \A i \in DOMAIN stream' : \/ i \in DOMAIN stream /\ stream'[i] = stream[i]
                                    \/ stream'[i] = e
      BY <2>1, <2>2
    <2> QED BY <2>1, <2>2, <2>3 DEF StreamKept
  <1>2. CASE ~watching
    BY <1>2 DEF Change, StreamKept
  <1> QED BY <1>1, <1>2

LEMMA NextStream ==
    ASSUME TypeOK, [Next]_vars
    PROVE  StreamKept
  <1>1. ClusterOK
    BY DEF TypeOK
  <1>2. ASSUME NEW p \in Pods, PodStep(p) PROVE StreamKept
    BY <1>1, <1>2, PodStepIs, ChangeKeepsStream
  <1>3. CASE Watch
    BY <1>1, <1>3, WatchStream DEF StreamKept
  <1>4. CASE Handle
    BY <1>1, <1>4, StreamHead DEF Handle, StreamKept
  <1>5. CASE LabelExecution \/ LabelWritten
    BY <1>1, <1>5, InHand, ChangeKeepsStream DEF LabelExecution, LabelWritten
  <1>6. CASE Raise \/ Restart
    BY <1>6 DEF Raise, Restart, Interrupt, StreamKept
  <1>7. CASE \/ GetOrCreateContext \/ PutExecution \/ Associate \/ LinkInput
             \/ PutArtifact \/ PutEvent \/ Attribute \/ GiveUpLabel \/ GiveUpWritten
             \/ UNCHANGED vars
    <2>1. UNCHANGED stream
      BY <1>7 DEF GetOrCreateContext, PutExecution, Associate, LinkInput, PutArtifact, PutEvent,
                  Attribute, GiveUpLabel, GiveUpWritten, cluster, vars
    <2> QED BY <2>1 DEF StreamKept
  <1> QED BY <1>2, <1>3, <1>4, <1>5, <1>6, <1>7 DEF Next, Step, PodStep

\* How the labels of a pod change: not at all, but for the writer's two patches.
LEMMA LabelsChange ==
    ASSUME TypeOK, [Next]_vars, NEW p \in Pods
    PROVE  /\ \/ pods'[p].exec = pods[p].exec
              \/ LabelExecution /\ p = event.pod /\ pods'[p].exec = execution
           /\ \/ pods'[p].written = pods[p].written
              \/ LabelWritten /\ p = event.pod /\ pods'[p].written
  <1>1. CASE UNCHANGED pods
    BY <1>1
  <1>2. ASSUME NEW q \in Pods, PodStep(q)
        PROVE  pods'[p].exec = pods[p].exec /\ pods'[p].written = pods[p].written
    BY <1>2, PodStepIs DEF Change, TypeOK, ClusterOK
  <1>3. CASE LabelExecution
    <2>1. pods[event.pod] \in PodStates
      BY <1>3, InHand DEF LabelExecution, TypeOK, ClusterOK
    <2>2. pods' = [pods EXCEPT ![event.pod] = [pods[event.pod] EXCEPT !.exec = execution]]
      BY <1>3 DEF LabelExecution, Change
    <2> QED BY <1>3, <2>1, <2>2 DEF TypeOK, ClusterOK, PodStates
  <1>4. CASE LabelWritten
    <2>1. pods[event.pod] \in PodStates
      BY <1>4, InHand DEF LabelWritten, TypeOK, ClusterOK
    <2>2. pods' = [pods EXCEPT ![event.pod] = [pods[event.pod] EXCEPT !.written = TRUE]]
      BY <1>4 DEF LabelWritten, Change
    <2> QED BY <1>4, <2>1, <2>2 DEF TypeOK, ClusterOK, PodStates
  <1>5. CASE \/ Watch \/ Handle \/ GetOrCreateContext \/ PutExecution \/ Associate \/ LinkInput
             \/ PutArtifact \/ PutEvent \/ Attribute \/ GiveUpLabel \/ GiveUpWritten
             \/ Raise \/ Restart \/ UNCHANGED vars
    BY <1>1, <1>5 DEF Watch, Handle, GetOrCreateContext, PutExecution, Associate, LinkInput,
                      PutArtifact, PutEvent, Attribute, GiveUpLabel, GiveUpWritten, Raise, Restart,
                      Interrupt, cluster, vars
  <1> QED BY <1>2, <1>3, <1>4, <1>5 DEF Next, Step, PodStep

\* What lets p be free after a step, when it was not free before.
LEMMA ExecutionFreeKept ==
    ASSUME TypeOK, [Next]_vars, NEW p \in Pods, pods'[p].exec = pods[p].exec,
           Has(execIds, p) => Has(execIds', p),
           HoldsExecution(p) => HoldsExecution(p)',
           pc' \in {"context", "execution"} /\ event'.pod = p => WantsExecution(p),
           ExecutionFree(p)'
    PROVE  ExecutionFree(p)
  <1>1. ~HoldsExecution(p)
    BY DEF ExecutionFree
  <1>2. Has(execIds, p)' <=> Has(execIds', p)
    BY DEF Has
  <1>3. WantsExecution(p)' => WantsExecution(p) \/ pods'[p].exec = 0
    BY NextStream DEF WantsExecution, StreamKept
  <1> QED BY <1>1, <1>2, <1>3 DEF ExecutionFree

LEMMA ArtifactFreeKept ==
    ASSUME TypeOK, [Next]_vars, NEW p \in Pods, pods'[p].written = pods[p].written,
           Has(written, p) => Has(written', p),
           HoldsArtifact(p) => HoldsArtifact(p)',
           /\ pc' \in {"context", "execution", "artifact"} \cup ExecutionInHand
           /\ event'.pod = p
           => WantsArtifact(p),
           ArtifactFree(p)'
    PROVE  ArtifactFree(p)
  <1>1. ~HoldsArtifact(p)
    BY DEF ArtifactFree
  <1>2. Has(written, p)' <=> Has(written', p)
    BY DEF Has
  <1>3. WantsArtifact(p)' => WantsArtifact(p) \/ ~pods'[p].written
    BY NextStream DEF WantsArtifact, StreamKept
  <1> QED BY <1>1, <1>2, <1>3 DEF ArtifactFree

\* The steps that leave the writer's hand, caches and faults alone.
LEMMA ClusterSteps ==
    ASSUME TypeOK, [Next]_vars, NEW q \in Pods, PodStep(q) \/ Watch \/ UNCHANGED vars
    PROVE  UNCHANGED <<pc, event, execution, caches, executions, artifacts,
                       execFaults, artFaults>>
  BY PodStepIs DEF TypeOK, Watch, vars, mlmd, faults

\* The next event: it comes from the stream, and a hit throws nothing out.
LEMMA HandleIs ==
    ASSUME TypeOK, Handle, UNCHANGED setup
    PROVE  /\ pc = "idle" /\ pc' \in {"idle", "context", "artifact", "written"}
           /\ UNCHANGED <<pods, written, executions, artifacts, execFaults, artFaults>>
           /\ pc' # "idle" => event' = stream[1] /\ 1 \in DOMAIN stream /\ ~Ignored(event')
           /\ pc' = "context" => event'.state.exec = 0 /\ ~Has(execIds', event'.pod)
           /\ pc' = "artifact" => ~Has(written, event'.pod) /\ event'.state.outputs
           /\ pc' = "written" => ~event'.state.outputs
           /\ pc' \in {"artifact", "written"} => Done(event')
           /\ \A p : Has(execIds, p) => Has(execIds', p)
  <1> DEFINE e == Head(stream)
             w == setup.workflow[e.pod]
  <1>1. e.pod \in Pods /\ 1 \in DOMAIN stream /\ e = stream[1] /\ pc = "idle"
    BY StreamHead DEF Handle, TypeOK
  <1>2. UNCHANGED <<pods, written, executions, artifacts, execFaults, artFaults>>
    BY DEF Handle, mlmd, faults
  <1> HIDE DEF e
  <1>3. CASE UNCHANGED <<pc, event, execution, execIds, contextIds>>
    BY <1>1, <1>2, <1>3
  <1>4. ASSUME NEW x, ~Ignored(e), Goto(AfterExecution(e), e, x)
        PROVE  /\ pc' \in {"idle", "artifact", "written"}
               /\ pc' # "idle" => event' = e /\ ~Ignored(event')
               /\ pc' = "artifact" => ~Has(written, event'.pod) /\ event'.state.outputs
               /\ pc' = "written" => ~event'.state.outputs
               /\ pc' \in {"artifact", "written"} => Done(event')
    <2>1. pc' = AfterExecution(e) /\ (pc' # "idle" => event' = e)
      BY <1>4 DEF Goto
    <2> QED BY <1>4, <2>1, AfterExecutionIs
  <1>5. CASE /\ ~Ignored(e) /\ Has(execIds, e.pod)
             /\ execIds' = Put(execIds, setup.podSize, e.pod, Get(execIds, e.pod))
             /\ contextIds' = Put(contextIds, setup.contextSize, w, w)
             /\ Goto(AfterExecution(e), e, Get(execIds, e.pod))
    <2>1. Evicted(execIds, setup.podSize, e.pod) = {}
      BY <1>5 DEF Evicted
    <2>2. Get(execIds, e.pod) \in Nat
      BY <1>5, GetOK DEF TypeOK, CachesOK
    <2>3. \A p : Has(execIds, p) => Has(execIds', p)
      BY <1>1, <1>5, <2>1, <2>2, RememberOK
    <2> QED BY <1>1, <1>2, <1>4, <1>5, <2>3
  <1>6. CASE ~Ignored(e) /\ Goto(AfterExecution(e), e, e.state.exec) /\ UNCHANGED execIds
    BY <1>1, <1>2, <1>4, <1>6
  <1>7. CASE /\ ~Ignored(e) /\ ~Has(execIds, e.pod) /\ e.state.exec = 0
             /\ Goto("context", e, 0) /\ UNCHANGED execIds
    BY <1>1, <1>2, <1>7 DEF Goto
  <1> QED BY <1>3, <1>5, <1>6, <1>7 DEF Handle, e

\* A pod becomes free of executions, or of artifacts, only by a fault.
LEMMA NextExecutionFree ==
    ASSUME TypeOK, CountInv, [Next]_vars, NEW p \in Pods, ExecutionFree(p)'
    PROVE  ExecutionFree(p) \/ execFaults'[p] = execFaults[p] + 1
  <1>0. execFaults \in [Pods -> Nat] /\ UNCHANGED setup
    BY DEF TypeOK, FaultsOK, Next, vars
  <1>1. ASSUME NEW q \in Pods, PodStep(q) \/ Watch \/ UNCHANGED vars PROVE ExecutionFree(p)
    <2>1. UNCHANGED <<pc, event, execIds>>
      BY <1>1, ClusterSteps DEF caches
    <2>2. pods'[p].exec = pods[p].exec
      <3>1. CASE LabelExecution
        BY <2>1, <3>1, AfterExecutionIs DEF LabelExecution, RememberExecution, Goto
      <3> QED BY <3>1, LabelsChange
    <2> QED BY <2>1, <2>2, ExecutionFreeKept DEF HoldsExecution, WantsExecution
  <1>2. CASE Handle
    <2>1. pc = "idle" /\ UNCHANGED pods /\ (Has(execIds, p) => Has(execIds', p))
      BY <1>0, <1>2, HandleIs
    <2>2. ~HoldsExecution(p)
      BY <2>1 DEF HoldsExecution, ExecutionInHand
    <2>3. pc' \in {"context", "execution"} /\ event'.pod = p => WantsExecution(p)
      BY <1>0, <1>2, HandleIs DEF WantsExecution
    <2> QED BY <2>1, <2>2, <2>3, ExecutionFreeKept
  <1>3. CASE \/ GetOrCreateContext \/ PutExecution \/ Associate \/ LinkInput
             \/ PutArtifact \/ PutEvent \/ Attribute
    <2>1. UNCHANGED <<pods, execIds>>
      BY <1>3 DEF GetOrCreateContext, PutExecution, Associate, LinkInput, PutArtifact, PutEvent,
                  Attribute, cluster, caches
    <2>2. /\ HoldsExecution(p) => HoldsExecution(p)'
          /\ pc' \in {"context", "execution"} /\ event'.pod = p => WantsExecution(p)
      BY <1>3 DEF GetOrCreateContext, PutExecution, Associate, LinkInput, PutArtifact, PutEvent,
                  Attribute, Goto, HoldsExecution, ExecutionInHand, WantsExecution
    <2> QED BY <2>1, <2>2, ExecutionFreeKept
  <1>4. CASE LabelExecution \/ GiveUpLabel
    <2>1. event.pod \in Pods /\ execution \in Nat /\ pc = "label" /\ RememberExecution
      BY <1>4, InHand DEF LabelExecution, GiveUpLabel, TypeOK, HandOK
    <2>2. /\ Has(execIds', event.pod)
          /\ Has(execIds, p) /\ p \notin Evicted(execIds, setup.podSize, event.pod) =>
                 Has(execIds', p)
      BY <1>0, <2>1, RememberOK DEF RememberExecution, RememberContext
    <2>3. pc' \notin {"context", "execution"}
      BY <2>1, AfterExecutionIs DEF RememberExecution, Goto
    <2>4. CASE p \in Evicted(execIds, setup.podSize, event.pod)
      BY <1>0, <1>4, <2>4, LoseOK DEF LabelExecution, GiveUpLabel
    <2>5. CASE p = event.pod /\ GiveUpLabel
      BY <1>0, <2>5, LoseOK DEF GiveUpLabel
    <2>6. CASE p = event.pod /\ LabelExecution
      <3>1. pods'[p].exec = execution
        BY <2>1, <2>6 DEF LabelExecution, Change, TypeOK, ClusterOK, PodStates
      <3>2. execution # 0
        BY <2>1 DEF CountInv, ExecutionInHand
      <3>3. Has(execIds, p)'
        BY <2>2, <2>6 DEF Has
      <3> QED BY <3>1, <3>2, <3>3 DEF ExecutionFree
    <2>7. CASE p # event.pod /\ p \notin Evicted(execIds, setup.podSize, event.pod)
      <3>1. pods'[p].exec = pods[p].exec
        BY <2>7, LabelsChange
      <3>2. ~HoldsExecution(p)
        BY <2>7 DEF HoldsExecution
      <3> QED BY <2>2, <2>3, <2>7, <3>1, <3>2, ExecutionFreeKept
    <2> QED BY <1>4, <2>4, <2>5, <2>6, <2>7
  <1>5. CASE LabelWritten \/ GiveUpWritten
    <2>1. pc = "written" /\ pc' = "idle" /\ UNCHANGED execIds
      BY <1>5 DEF LabelWritten, GiveUpWritten, Goto
    <2>2. pods'[p].exec = pods[p].exec
      BY <2>1, LabelsChange DEF LabelExecution
    <2>3. ~HoldsExecution(p)
      BY <2>1 DEF HoldsExecution, ExecutionInHand
    <2> QED BY <2>1, <2>2, <2>3, ExecutionFreeKept
  <1>6. CASE Raise \/ Restart
    <2>1. Interrupt
      BY <1>6 DEF Raise, Restart
    <2>2. CASE HoldsExecution(p)
      BY <1>0, <2>1, <2>2, LoseOK DEF Interrupt, HoldsExecution, ExecutionInHand
    <2>3. CASE ~HoldsExecution(p)
      <3>1. ~WantsExecution(p)'
        BY <2>1 DEF Interrupt, Goto, WantsExecution
      <3>2. UNCHANGED pods
        BY <2>1 DEF Interrupt
      <3> QED BY <2>3, <3>1, <3>2 DEF ExecutionFree
    <2> QED BY <2>2, <2>3
  <1> QED BY <1>1, <1>2, <1>3, <1>4, <1>5, <1>6 DEF Next, Step, PodStep

LEMMA NextArtifactFree ==
    ASSUME TypeOK, CountInv, [Next]_vars, NEW p \in Pods, ArtifactFree(p)'
    PROVE  ArtifactFree(p) \/ artFaults'[p] = artFaults[p] + 1
  <1>0. artFaults \in [Pods -> Nat] /\ UNCHANGED setup
    BY DEF TypeOK, FaultsOK, Next, vars
  <1>1. ASSUME NEW q \in Pods, PodStep(q) \/ Watch \/ UNCHANGED vars PROVE ArtifactFree(p)
    <2>1. UNCHANGED <<pc, event, written>>
      BY <1>1, ClusterSteps DEF caches
    <2>2. pods'[p].written = pods[p].written
      <3>1. CASE LabelWritten
        BY <2>1, <3>1 DEF LabelWritten, Goto
      <3> QED BY <3>1, LabelsChange
    <2> QED BY <2>1, <2>2, ArtifactFreeKept DEF HoldsArtifact, WantsArtifact
  <1>2. CASE Handle
    <2>1. pc = "idle" /\ UNCHANGED <<pods, written>>
      BY <1>0, <1>2, HandleIs
    <2>2. ~HoldsArtifact(p)
      BY <2>1 DEF HoldsArtifact, ArtifactInHand
    <2>3. pc' \in {"context", "execution", "artifact"} \cup ExecutionInHand /\ event'.pod = p
            => WantsArtifact(p)
      BY <1>0, <1>2, HandleIs DEF WantsArtifact, ExecutionInHand, Ignored
    <2> QED BY <2>1, <2>2, <2>3, ArtifactFreeKept
  <1>3. CASE \/ GetOrCreateContext \/ PutExecution \/ Associate \/ LinkInput
             \/ PutArtifact \/ PutEvent \/ Attribute
    <2>1. UNCHANGED <<pods, written>>
      BY <1>3 DEF GetOrCreateContext, PutExecution, Associate, LinkInput, PutArtifact, PutEvent,
                  Attribute, cluster, caches
    <2>2. /\ HoldsArtifact(p) => HoldsArtifact(p)'
          /\ pc' \in {"context", "execution", "artifact"} \cup ExecutionInHand /\ event'.pod = p
               => WantsArtifact(p)
      BY <1>3 DEF GetOrCreateContext, PutExecution, Associate, LinkInput, PutArtifact, PutEvent,
                  Attribute, Goto, HoldsArtifact, ArtifactInHand, WantsArtifact, ExecutionInHand
    <2> QED BY <2>1, <2>2, ArtifactFreeKept
  <1>4. CASE LabelExecution \/ GiveUpLabel
    <2>1. pc = "label" /\ RememberExecution /\ UNCHANGED written
      BY <1>4 DEF LabelExecution, GiveUpLabel
    <2>2. pc' \in {"idle", "artifact", "written"} /\ (pc' # "idle" => event' = event)
      BY <2>1, AfterExecutionIs DEF RememberExecution, Goto
    <2>3. pods'[p].written = pods[p].written
      BY <2>1, LabelsChange DEF LabelWritten
    <2>4. ~HoldsArtifact(p)
      BY <2>1 DEF HoldsArtifact, ArtifactInHand
    <2>5. pc' \in {"context", "execution", "artifact"} \cup ExecutionInHand /\ event'.pod = p
            => WantsArtifact(p)
      BY <2>1, <2>2 DEF WantsArtifact, ExecutionInHand
    <2> QED BY <2>1, <2>3, <2>4, <2>5, ArtifactFreeKept
  <1>5. CASE LabelWritten \/ GiveUpWritten
    <2>1. event.pod \in Pods /\ pc = "written" /\ pc' = "idle" /\ RememberWritten
      BY <1>5, InHand DEF LabelWritten, GiveUpWritten, Goto
    <2>2. /\ Has(written', event.pod)
          /\ Has(written, p) /\ p \notin Evicted(written, setup.writtenSize, event.pod) =>
                 Has(written', p)
      BY <1>0, <2>1, RememberWrittenOK
    <2>3. pc' \notin {"context", "execution", "artifact"} \cup ExecutionInHand
      BY <2>1 DEF ExecutionInHand
    <2>4. CASE p \in Evicted(written, setup.writtenSize, event.pod)
      BY <1>0, <1>5, <2>4, LoseOK DEF LabelWritten, GiveUpWritten
    <2>5. CASE p = event.pod /\ GiveUpWritten
      BY <1>0, <2>5, LoseOK DEF GiveUpWritten
    <2>6. CASE p = event.pod /\ LabelWritten
      <3>1. pods'[p].written
        BY <2>1, <2>6 DEF LabelWritten, Change, TypeOK, ClusterOK, PodStates
      <3>2. Has(written, p)'
        BY <2>2, <2>6 DEF Has
      <3> QED BY <3>1, <3>2 DEF ArtifactFree
    <2>7. CASE p # event.pod /\ p \notin Evicted(written, setup.writtenSize, event.pod)
      <3>1. pods'[p].written = pods[p].written
        BY <2>7, LabelsChange
      <3>2. ~HoldsArtifact(p)
        BY <2>7 DEF HoldsArtifact
      <3> QED BY <2>2, <2>3, <2>7, <3>1, <3>2, ArtifactFreeKept
    <2> QED BY <1>5, <2>4, <2>5, <2>6, <2>7
  <1>6. CASE Raise \/ Restart
    <2>1. Interrupt
      BY <1>6 DEF Raise, Restart
    <2>2. CASE HoldsArtifact(p)
      BY <1>0, <2>1, <2>2, LoseOK DEF Interrupt, HoldsArtifact, ArtifactInHand
    <2>3. CASE ~HoldsArtifact(p)
      <3>1. ~WantsArtifact(p)'
        BY <2>1 DEF Interrupt, Goto, WantsArtifact, ExecutionInHand
      <3>2. UNCHANGED pods
        BY <2>1 DEF Interrupt
      <3> QED BY <2>3, <3>1, <3>2 DEF ArtifactFree
    <2> QED BY <2>2, <2>3
  <1> QED BY <1>1, <1>2, <1>3, <1>4, <1>5, <1>6 DEF Next, Step, PodStep

\* MLMD only grows: an execution keeps its pod, an artifact its pod.
LEMMA StoreKept ==
    ASSUME TypeOK, [Next]_vars
    PROVE  /\ \/ PutExecution
              \/ /\ DOMAIN executions' = DOMAIN executions
                 /\ \A e \in DOMAIN executions : executions'[e].pod = executions[e].pod
           /\ \/ PutArtifact
              \/ /\ DOMAIN artifacts' = DOMAIN artifacts
                 /\ \A a \in DOMAIN artifacts : artifacts'[a].pod = artifacts[a].pod
  <1> DEFINE E == [pod : Pods, context : SUBSET Workflows, linked : Nat, listed : BOOLEAN]
             A == [pod : Pods, output : Nat, context : SUBSET Workflows]
  <1>1. /\ \A e \in DOMAIN executions : executions[e] \in E
        /\ \A a \in DOMAIN artifacts : artifacts[a] \in A
    <2>1. executions \in Seq(E) /\ artifacts \in Seq(A)
      BY DEF TypeOK, StoreOK
    <2> HIDE DEF E, A
    <2> QED BY <2>1, ElementOfSeq, LenProperties
  <1>2. CASE UNCHANGED <<executions, artifacts>>
    BY <1>2
  <1>3. CASE PutExecution
    BY <1>3 DEF PutExecution
  <1>4. CASE Associate
    BY <1>1, <1>4 DEF Associate
  <1>5. CASE LinkInput
    <2>1. \/ UNCHANGED executions
          \/ executions' = [executions EXCEPT ![execution].linked = Max(Matching)]
      BY <1>5 DEF LinkInput
    <2> QED BY <1>1, <1>5, <2>1 DEF LinkInput
  <1>6. CASE PutArtifact
    BY <1>6 DEF PutArtifact
  <1>7. CASE PutEvent
    BY <1>1, <1>7 DEF PutEvent
  <1>8. CASE Attribute
    BY <1>1, <1>8 DEF Attribute
  <1>9. ASSUME NEW p \in Pods, PodStep(p) PROVE UNCHANGED mlmd
    BY <1>9 DEF PodStep, PodCreated, PodReportsOutputs, PodCompleted, PodDeleted
  <1>10. CASE \/ Watch \/ Handle \/ GetOrCreateContext \/ LabelExecution \/ GiveUpLabel
              \/ LabelWritten \/ GiveUpWritten \/ Raise \/ Restart \/ UNCHANGED vars
    BY <1>2, <1>10 DEF Watch, Handle, GetOrCreateContext, LabelExecution, GiveUpLabel,
                       LabelWritten, GiveUpWritten, Raise, Restart, Interrupt, mlmd, vars
  <1> QED
    BY <1>2, <1>3, <1>4, <1>5, <1>6, <1>7, <1>8, <1>9, <1>10 DEF Next, Step, PodStep, mlmd

LEMMA FaultsGrow ==
    ASSUME TypeOK, [Next]_vars, NEW p \in Pods
    PROVE  /\ execFaults[p] \in Nat /\ artFaults[p] \in Nat
           /\ execFaults'[p] \in {execFaults[p], execFaults[p] + 1}
           /\ artFaults'[p] \in {artFaults[p], artFaults[p] + 1}
  <1>1. execFaults \in [Pods -> Nat] /\ artFaults \in [Pods -> Nat]
    BY DEF TypeOK, FaultsOK
  <1>2. ASSUME NEW q \in Pods, PodStep(q) \/ Watch \/ UNCHANGED vars
        PROVE  UNCHANGED <<execFaults, artFaults>>
    BY <1>2, ClusterSteps
  <1>3. CASE \/ Handle \/ GetOrCreateContext \/ PutExecution \/ Associate \/ LinkInput
             \/ PutArtifact \/ PutEvent \/ Attribute
    BY <1>1, <1>3 DEF Handle, GetOrCreateContext, PutExecution, Associate, LinkInput,
                      PutArtifact, PutEvent, Attribute, faults
  <1>4. CASE LabelExecution \/ GiveUpLabel \/ LabelWritten \/ GiveUpWritten
    BY <1>1, <1>4, LoseOK DEF LabelExecution, GiveUpLabel, LabelWritten, GiveUpWritten
  <1>5. CASE Raise \/ Restart
    BY <1>1, <1>5, LoseOK DEF Raise, Restart, Interrupt
  <1> QED BY <1>1, <1>2, <1>3, <1>4, <1>5 DEF Next, Step, PodStep

\* The sets that are counted are finite.
LEMMA CountsAreFinite ==
    ASSUME TypeOK, NEW p
    PROVE  /\ IsFiniteSet(ExecutionsOf(p)) /\ Cardinality(ExecutionsOf(p)) \in Nat
           /\ IsFiniteSet(ArtifactsOf(p)) /\ Cardinality(ArtifactsOf(p)) \in Nat
           /\ Len(executions) \in Nat /\ DOMAIN executions = 1..Len(executions)
           /\ Len(artifacts) \in Nat /\ DOMAIN artifacts = 1..Len(artifacts)
  <1>1. /\ Len(executions) \in Nat /\ DOMAIN executions = 1..Len(executions)
        /\ Len(artifacts) \in Nat /\ DOMAIN artifacts = 1..Len(artifacts)
    BY DEF TypeOK, StoreOK
  <1>2. IsFiniteSet(DOMAIN executions) /\ IsFiniteSet(DOMAIN artifacts)
    BY <1>1, FS_Interval
  <1>3. ExecutionsOf(p) \subseteq DOMAIN executions /\ ArtifactsOf(p) \subseteq DOMAIN artifacts
    BY DEF ExecutionsOf, ArtifactsOf
  <1>4. IsFiniteSet(ExecutionsOf(p)) /\ IsFiniteSet(ArtifactsOf(p))
    BY <1>2, <1>3, FS_Subset
  <1> QED BY <1>1, <1>4, FS_CardinalityType

\* Where the writer is says what its caches do not have.
LEMMA NextPlaces ==
    ASSUME TypeOK, CountInv, [Next]_vars
    PROVE  /\ pc' \in {"context", "execution"} => ~Has(execIds', event'.pod)
           /\ pc' = "artifact" => ~Has(written', event'.pod)
           /\ pc' \in ExecutionInHand => execution' # 0
  <1> USE DEF ExecutionInHand
  <1>0. UNCHANGED setup
    BY DEF Next, vars
  <1>1. ASSUME NEW q \in Pods, PodStep(q) PROVE UNCHANGED <<pc, event, execution, caches>>
    BY <1>1, ClusterSteps
  <1>2. CASE UNCHANGED <<pc, event, execution, caches>>
    BY <1>2 DEF CountInv, caches
  <1>3. CASE Watch \/ UNCHANGED vars
    BY <1>2, <1>3 DEF Watch, vars
  <1>4. CASE Handle
    BY <1>0, <1>4, HandleIs
  <1>5. CASE \/ GetOrCreateContext \/ Associate \/ LinkInput \/ PutArtifact \/ PutEvent
             \/ Attribute
    BY <1>5 DEF GetOrCreateContext, Associate, LinkInput, PutArtifact, PutEvent, Attribute, Goto,
                CountInv, caches
  <1>6. CASE PutExecution
    <2>1. Len(executions) \in Nat
      BY CountsAreFinite
    <2> QED BY <1>6, <2>1 DEF PutExecution, Goto
  <1>7. CASE LabelExecution \/ GiveUpLabel
    <2>1. RememberExecution /\ UNCHANGED written
      BY <1>7 DEF LabelExecution, GiveUpLabel
    <2>2. pc' = AfterExecution(event) /\ (pc' # "idle" => event' = event)
      BY <2>1 DEF RememberExecution, Goto
    <2> QED BY <2>1, <2>2, AfterExecutionIs
  <1>8. CASE LabelWritten \/ GiveUpWritten \/ Raise \/ Restart
    BY <1>8 DEF LabelWritten, GiveUpWritten, Raise, Restart, Interrupt, Goto
  <1> QED
    BY <1>1, <1>2, <1>3, <1>4, <1>5, <1>6, <1>7, <1>8 DEF Next, Step, PodStep

LEMMA NextExecutionsCounted ==
    ASSUME TypeOK, CountInv, [Next]_vars, NEW p \in Pods
    PROVE  ExecutionsCounted(p)'
  <1>1. ExecutionsCounted(p) /\ Cardinality(ExecutionsOf(p)) \in Nat
    BY CountsAreFinite DEF CountInv
  <1>2. /\ execFaults[p] \in Nat
        /\ execFaults'[p] \in {execFaults[p], execFaults[p] + 1}
        /\ ExecutionFree(p)' => ExecutionFree(p) \/ execFaults'[p] = execFaults[p] + 1
    BY FaultsGrow, NextExecutionFree
  <1>3. CASE ExecutionsOf(p)' = ExecutionsOf(p)
    BY <1>1, <1>2, <1>3 DEF ExecutionsCounted
  <1>4. CASE PutExecution
    <2>1. /\ executions' = Append(executions, [pod |-> event.pod, context |-> {}, linked |-> 0,
                                               listed |-> event.listed])
          /\ pc = "execution" /\ pc' = "associate" /\ event' = event
      BY <1>4 DEF PutExecution, Goto
    <2>2. CASE p # event.pod
      <3>1. ExecutionsOf(p)' = ExecutionsOf(p)
        BY <2>1, <2>2, CountsAreFinite DEF ExecutionsOf, TypeOK, StoreOK
      <3> QED BY <1>3, <3>1
    <2>3. CASE p = event.pod
      <3>1. ExecutionsOf(p)' = ExecutionsOf(p) \cup {Len(executions) + 1}
        BY <2>1, <2>3, CountsAreFinite DEF ExecutionsOf, TypeOK, StoreOK
      <3>2. Len(executions) + 1 \notin ExecutionsOf(p)
        BY CountsAreFinite DEF ExecutionsOf
      <3>3. Cardinality(ExecutionsOf(p)') = Cardinality(ExecutionsOf(p)) + 1
        BY <3>1, <3>2, CountsAreFinite, FS_AddElement
      <3>4. ExecutionFree(p)
        BY <2>1, <2>3 DEF ExecutionFree, HoldsExecution, ExecutionInHand, WantsExecution, CountInv
      <3>5. ~ExecutionFree(p)'
        BY <2>1, <2>3 DEF ExecutionFree, HoldsExecution, ExecutionInHand
      <3>6. Cardinality(ExecutionsOf(p))' <= 1 + execFaults'[p]
        BY <1>1, <1>2, <3>3, <3>4 DEF ExecutionsCounted
      <3> QED BY <3>5, <3>6 DEF ExecutionsCounted
    <2> QED BY <2>2, <2>3
  <1>5. CASE ~PutExecution
    <2>1. ExecutionsOf(p)' = ExecutionsOf(p)
      BY <1>5, StoreKept DEF ExecutionsOf
    <2> QED BY <1>3, <2>1
  <1> QED BY <1>4, <1>5

LEMMA NextArtifactsCounted ==
    ASSUME TypeOK, CountInv, [Next]_vars, NEW p \in Pods
    PROVE  ArtifactsCounted(p)'
  <1>1. ArtifactsCounted(p) /\ Cardinality(ArtifactsOf(p)) \in Nat
    BY CountsAreFinite DEF CountInv
  <1>2. /\ artFaults[p] \in Nat
        /\ artFaults'[p] \in {artFaults[p], artFaults[p] + 1}
        /\ ArtifactFree(p)' => ArtifactFree(p) \/ artFaults'[p] = artFaults[p] + 1
    BY FaultsGrow, NextArtifactFree
  <1>3. CASE ArtifactsOf(p)' = ArtifactsOf(p)
    BY <1>1, <1>2, <1>3 DEF ArtifactsCounted
  <1>4. CASE PutArtifact
    <2>1. /\ artifacts' = Append(artifacts, [pod |-> event.pod, output |-> 0, context |-> {}])
          /\ pc = "artifact" /\ pc' = "event" /\ event' = event
      BY <1>4 DEF PutArtifact, Goto
    <2>2. CASE p # event.pod
      <3>1. ArtifactsOf(p)' = ArtifactsOf(p)
        BY <2>1, <2>2, CountsAreFinite DEF ArtifactsOf, TypeOK, StoreOK
      <3> QED BY <1>3, <3>1
    <2>3. CASE p = event.pod
      <3>1. ArtifactsOf(p)' = ArtifactsOf(p) \cup {Len(artifacts) + 1}
        BY <2>1, <2>3, CountsAreFinite DEF ArtifactsOf, TypeOK, StoreOK
      <3>2. Len(artifacts) + 1 \notin ArtifactsOf(p)
        BY CountsAreFinite DEF ArtifactsOf
      <3>3. Cardinality(ArtifactsOf(p)') = Cardinality(ArtifactsOf(p)) + 1
        BY <3>1, <3>2, CountsAreFinite, FS_AddElement
      <3>4. ArtifactFree(p)
        BY <2>1, <2>3 DEF ArtifactFree, HoldsArtifact, ArtifactInHand, WantsArtifact, CountInv
      <3>5. ~ArtifactFree(p)'
        BY <2>1, <2>3 DEF ArtifactFree, HoldsArtifact, ArtifactInHand
      <3>6. Cardinality(ArtifactsOf(p))' <= 1 + artFaults'[p]
        BY <1>1, <1>2, <3>3, <3>4 DEF ArtifactsCounted
      <3> QED BY <3>5, <3>6 DEF ArtifactsCounted
    <2> QED BY <2>2, <2>3
  <1>5. CASE ~PutArtifact
    <2>1. ArtifactsOf(p)' = ArtifactsOf(p)
      BY <1>5, StoreKept DEF ArtifactsOf
    <2> QED BY <1>3, <2>1
  <1> QED BY <1>4, <1>5

LEMMA InitCount == Init => CountInv
  <1> SUFFICES ASSUME Init PROVE CountInv
    OBVIOUS
  <1>1. \A p \in Pods : ExecutionsOf(p) = {} /\ ArtifactsOf(p) = {}
    BY DEF Init, ExecutionsOf, ArtifactsOf
  <1>2. Cardinality({}) = 0
    BY FS_EmptySet
  <1>3. \A p \in Pods : execFaults[p] = 0 /\ artFaults[p] = 0
    BY DEF Init
  <1>4. \A p \in Pods : ExecutionsCounted(p) /\ ArtifactsCounted(p)
    BY <1>1, <1>2, <1>3 DEF ExecutionsCounted, ArtifactsCounted
  <1> QED BY <1>4 DEF Init, CountInv, ExecutionInHand

LEMMA NextCount == TypeOK /\ CountInv /\ [Next]_vars => CountInv'
  <1> SUFFICES ASSUME TypeOK, CountInv, [Next]_vars PROVE CountInv'
    OBVIOUS
  <1>1. \A p \in Pods : (ExecutionsCounted(p) /\ ArtifactsCounted(p))'
    BY NextExecutionsCounted, NextArtifactsCounted
  <1>2. /\ pc' \in {"context", "execution"} => ~Has(execIds, event.pod)'
        /\ pc' = "artifact" => ~Has(written, event.pod)'
        /\ pc' \in ExecutionInHand => execution' # 0
    BY NextPlaces DEF Has
  <1> QED BY <1>1, <1>2 DEF CountInv

(* A pod has one execution and one artifact, and another one only for each *)
(* interruption between the call that makes it and its label, each label   *)
(* that is given up and each time the pod is thrown out of the cache,      *)
(* whatever the order of events, listings and restarts.                    *)
THEOREM RecordedOnceAlways == Spec => []RecordedOnce
  <1>1. Init => TypeOK /\ CountInv
    BY InitType, InitCount
  <1>2. TypeOK /\ CountInv /\ [Next]_vars => (TypeOK /\ CountInv)'
    BY NextType, NextCount
  <1>3. CountInv => RecordedOnce
    BY DEF CountInv, ExecutionsCounted, ArtifactsCounted, RecordedOnce
  <1> QED BY <1>1, <1>2, <1>3, PTL DEF Spec

-----------------------------------------------------------------------------
(* What the labels say is true.                                            *)

ExecutionRecords == [pod : Pods, context : SUBSET Workflows, linked : Nat, listed : BOOLEAN]
ArtifactRecords == [pod : Pods, output : Nat, context : SUBSET Workflows]

LEMMA StoreEntries ==
    ASSUME TypeOK
    PROVE  /\ executions \in Seq(ExecutionRecords) /\ artifacts \in Seq(ArtifactRecords)
           /\ Len(executions) \in Nat /\ DOMAIN executions = 1..Len(executions)
           /\ Len(artifacts) \in Nat /\ DOMAIN artifacts = 1..Len(artifacts)
           /\ \A e \in DOMAIN executions : executions[e] \in ExecutionRecords
           /\ \A a \in DOMAIN artifacts : artifacts[a] \in ArtifactRecords
  <1>1. executions \in Seq(ExecutionRecords) /\ artifacts \in Seq(ArtifactRecords)
    BY DEF TypeOK, StoreOK, ExecutionRecords, ArtifactRecords
  <1> QED BY <1>1, ElementOfSeq, LenProperties

\* How executions change, and artifacts.
LEMMA AssociateIs ==
    ASSUME TypeOK, Associate
    PROVE  /\ DOMAIN executions' = DOMAIN executions
           /\ \A e \in DOMAIN executions : executions'[e].pod = executions[e].pod
           /\ \A e \in DOMAIN executions \ {execution} : executions'[e] = executions[e]
           /\ execution \in DOMAIN executions =>
                  executions'[execution].context = {setup.workflow[event.pod]}
  <1> DEFINE r == [executions[execution] EXCEPT !.context = {setup.workflow[event.pod]}]
  <1>1. executions' = [executions EXCEPT ![execution] = r]
    BY DEF Associate
  <1>2. execution \in DOMAIN executions => /\ r.pod = executions[execution].pod
                                           /\ r.context = {setup.workflow[event.pod]}
    BY StoreEntries DEF ExecutionRecords
  <1> HIDE DEF r
  <1> QED BY <1>1, <1>2, StoreEntries

LEMMA ExecutionsChange ==
    ASSUME TypeOK, [Next]_vars
    PROVE  \/ UNCHANGED executions
           \/ /\ PutExecution
              /\ DOMAIN executions \subseteq DOMAIN executions'
              /\ \A e \in DOMAIN executions : executions'[e] = executions[e]
           \/ /\ Associate
              /\ DOMAIN executions' = DOMAIN executions
              /\ \A e \in DOMAIN executions : executions'[e].pod = executions[e].pod
              /\ \A e \in DOMAIN executions \ {execution} : executions'[e] = executions[e]
              /\ execution \in DOMAIN executions =>
                     executions'[execution].context = {setup.workflow[event.pod]}
           \/ /\ LinkInput
              /\ DOMAIN executions' = DOMAIN executions
              /\ \A e \in DOMAIN executions : /\ executions'[e].pod = executions[e].pod
                                              /\ executions'[e].context = executions[e].context
  <1>1. /\ executions \in Seq(ExecutionRecords)
        /\ Len(executions) \in Nat /\ DOMAIN executions = 1..Len(executions)
        /\ \A e \in DOMAIN executions : executions[e] \in ExecutionRecords
    BY StoreEntries
  <1>2. CASE PutExecution
    <2> DEFINE r == [pod |-> event.pod, context |-> {}, linked |-> 0, listed |-> event.listed]
    <2>1. executions' = Append(executions, r)
      BY <1>2 DEF PutExecution
    <2> HIDE DEF r
    <2>2. \A e \in DOMAIN executions : e \in DOMAIN executions' /\ executions'[e] = executions[e]
      BY <1>1, <2>1
    <2> QED BY <1>2, <2>2
  <1>3. CASE Associate
    BY <1>3, AssociateIs
  <1>4. CASE LinkInput
    <2> DEFINE r == [executions[execution] EXCEPT !.linked = Max(Matching)]
    <2>1. UNCHANGED executions \/ executions' = [executions EXCEPT ![execution] = r]
      BY <1>4 DEF LinkInput
    <2>2. execution \in DOMAIN executions => /\ r.pod = executions[execution].pod
                                             /\ r.context = executions[execution].context
      BY <1>1 DEF ExecutionRecords
    <2> HIDE DEF r
    <2> QED BY <1>4, <2>1, <2>2
  <1>5. ASSUME NEW p \in Pods, PodStep(p) PROVE UNCHANGED executions
    BY <1>5, ClusterSteps
  <1>6. CASE \/ Watch \/ Handle \/ GetOrCreateContext \/ LabelExecution \/ GiveUpLabel
             \/ PutArtifact \/ PutEvent \/ Attribute \/ LabelWritten \/ GiveUpWritten
             \/ Raise \/ Restart \/ UNCHANGED vars
    BY <1>6 DEF Watch, Handle, GetOrCreateContext, LabelExecution, GiveUpLabel, PutArtifact,
                PutEvent, Attribute, LabelWritten, GiveUpWritten, Raise, Restart, Interrupt, mlmd,
                vars
  <1> QED BY <1>2, <1>3, <1>4, <1>5, <1>6 DEF Next, Step, PodStep

LEMMA ExecutionOfStays ==
    ASSUME TypeOK, LabelInv, [Next]_vars, NEW x, NEW p
    PROVE  /\ ExecutionOf(x, p) => ExecutionOf(x, p)'
           /\ x \in ExecutionsOf(p) => x \in ExecutionsOf(p)'
  <1>1. UNCHANGED setup
    BY DEF Next, vars
  <1>2. Associate => execution \in DOMAIN executions /\ executions[execution].pod = event.pod
    BY DEF Associate, LabelInv, HandTrue, ExecutionsOf
  <1> QED BY <1>1, <1>2, ExecutionsChange DEF ExecutionOf, ExecutionsOf

LEMMA PutEventIs ==
    ASSUME TypeOK, PutEvent
    PROVE  /\ DOMAIN artifacts' = DOMAIN artifacts /\ Len(artifacts') = Len(artifacts)
           /\ \A a \in DOMAIN artifacts :
                  /\ artifacts'[a].pod = artifacts[a].pod
                  /\ artifacts'[a].context = artifacts[a].context
                  /\ artifacts'[a].output = IF a = Len(artifacts) THEN execution
                                       ELSE artifacts[a].output
  <1> DEFINE last == artifacts[Len(artifacts)]
             r == [last EXCEPT !.output = execution]
  <1>1. artifacts' = [artifacts EXCEPT ![Len(artifacts)] = r]
    BY DEF PutEvent
  <1>2. Len(artifacts) \in DOMAIN artifacts => /\ r \in ArtifactRecords /\ r.pod = last.pod
                                               /\ r.context = last.context
                                               /\ r.output = execution
    <2>1. execution \in Nat
      BY DEF TypeOK, HandOK
    <2> QED BY <2>1, StoreEntries DEF ArtifactRecords
  <1> HIDE DEF r, last
  <1>3. /\ DOMAIN artifacts' = DOMAIN artifacts /\ Len(artifacts') = Len(artifacts)
        /\ \A a \in DOMAIN artifacts :
               artifacts'[a] = IF a = Len(artifacts) THEN r ELSE artifacts[a]
    BY <1>1, <1>2, StoreEntries, UpdateOK
  <1> QED BY <1>2, <1>3 DEF last

LEMMA AttributeIs ==
    ASSUME TypeOK, Attribute
    PROVE  /\ DOMAIN artifacts' = DOMAIN artifacts /\ Len(artifacts') = Len(artifacts)
           /\ \A a \in DOMAIN artifacts :
                  /\ artifacts'[a].pod = artifacts[a].pod
                  /\ artifacts'[a].output = artifacts[a].output
                  /\ artifacts'[a].context = IF a = Len(artifacts) THEN {setup.workflow[event.pod]}
                                       ELSE artifacts[a].context
  <1> DEFINE last == artifacts[Len(artifacts)]
             r == [last EXCEPT !.context = {setup.workflow[event.pod]}]
  <1>1. artifacts' = [artifacts EXCEPT ![Len(artifacts)] = r]
    BY DEF Attribute
  <1>2. Len(artifacts) \in DOMAIN artifacts => /\ r \in ArtifactRecords /\ r.pod = last.pod
                                               /\ r.output = last.output
                                               /\ r.context = {setup.workflow[event.pod]}
    <2>1. setup.workflow[event.pod] \in Workflows
      BY InHand DEF Attribute, Workflows
    <2> QED BY <2>1, StoreEntries DEF ArtifactRecords
  <1> HIDE DEF r, last
  <1>3. /\ DOMAIN artifacts' = DOMAIN artifacts /\ Len(artifacts') = Len(artifacts)
        /\ \A a \in DOMAIN artifacts :
               artifacts'[a] = IF a = Len(artifacts) THEN r ELSE artifacts[a]
    BY <1>1, <1>2, StoreEntries, UpdateOK
  <1> QED BY <1>2, <1>3 DEF last

LEMMA ArtifactsChange ==
    ASSUME TypeOK, [Next]_vars
    PROVE  \/ UNCHANGED artifacts
           \/ /\ PutArtifact
              /\ \A a \in DOMAIN artifacts : a \in DOMAIN artifacts' /\ artifacts'[a] = artifacts[a]
              /\ artifacts' # <<>> /\ artifacts'[Len(artifacts')].pod = event.pod
           \/ /\ PutEvent
              /\ DOMAIN artifacts' = DOMAIN artifacts /\ Len(artifacts') = Len(artifacts)
              /\ \A a \in DOMAIN artifacts : /\ artifacts'[a].pod = artifacts[a].pod
                                             /\ artifacts'[a].context = artifacts[a].context
                                             /\ artifacts'[a].output =
                                                    IF a = Len(artifacts) THEN execution
                                                    ELSE artifacts[a].output
           \/ /\ Attribute
              /\ DOMAIN artifacts' = DOMAIN artifacts /\ Len(artifacts') = Len(artifacts)
              /\ \A a \in DOMAIN artifacts : /\ artifacts'[a].pod = artifacts[a].pod
                                             /\ artifacts'[a].output = artifacts[a].output
                                             /\ artifacts'[a].context =
                                                    IF a = Len(artifacts)
                                                    THEN {setup.workflow[event.pod]}
                                                    ELSE artifacts[a].context
  <1>1. /\ artifacts \in Seq(ArtifactRecords)
        /\ Len(artifacts) \in Nat /\ DOMAIN artifacts = 1..Len(artifacts)
        /\ \A a \in DOMAIN artifacts : artifacts[a] \in ArtifactRecords
    BY StoreEntries
  <1>2. CASE PutArtifact
    <2> DEFINE r == [pod |-> event.pod, output |-> 0, context |-> {}]
    <2>1. artifacts' = Append(artifacts, r) /\ r.pod = event.pod
      BY <1>2 DEF PutArtifact
    <2> HIDE DEF r
    <2>2. /\ artifacts' # <<>> /\ artifacts'[Len(artifacts')] = r
          /\ \A a \in DOMAIN artifacts : a \in DOMAIN artifacts' /\ artifacts'[a] = artifacts[a]
      BY <1>1, <2>1
    <2> QED BY <1>2, <2>1, <2>2
  <1>3. CASE PutEvent
    BY <1>3, PutEventIs
  <1>4. CASE Attribute
    BY <1>4, AttributeIs
  <1>5. ASSUME NEW p \in Pods, PodStep(p) PROVE UNCHANGED artifacts
    BY <1>5, ClusterSteps
  <1>6. CASE \/ Watch \/ Handle \/ GetOrCreateContext \/ LabelExecution \/ GiveUpLabel
             \/ PutExecution \/ Associate \/ LinkInput \/ LabelWritten \/ GiveUpWritten
             \/ Raise \/ Restart \/ UNCHANGED vars
    BY <1>6 DEF Watch, Handle, GetOrCreateContext, LabelExecution, GiveUpLabel, PutExecution,
                Associate, LinkInput, LabelWritten, GiveUpWritten, Raise, Restart, Interrupt, mlmd,
                vars
  <1> QED BY <1>2, <1>3, <1>4, <1>5, <1>6 DEF Next, Step, PodStep

LEMMA OutputRecordedStays ==
    ASSUME TypeOK, LabelInv, [Next]_vars, NEW p \in Pods, OutputRecorded(p)
    PROVE  OutputRecorded(p)'
  <1>1. PICK a \in DOMAIN artifacts : /\ artifacts[a].pod = p
                                      /\ artifacts[a].output \in ExecutionsOf(p)
                                      /\ artifacts[a].context = {setup.workflow[p]}
    BY DEF OutputRecorded
  <1>2. UNCHANGED setup
    BY DEF Next, vars
  <1>3. PutEvent => /\ execution \in ExecutionsOf(event.pod)
                    /\ artifacts[Len(artifacts)].pod = event.pod
    BY DEF PutEvent, LabelInv, HandTrue, ArtifactInHand, ExecutionOf, ExecutionsOf
  <1>4. Attribute => artifacts[Len(artifacts)].pod = event.pod
    BY DEF Attribute, LabelInv, HandTrue
  <1>5. /\ a \in DOMAIN artifacts' /\ artifacts'[a].pod = p
        /\ artifacts'[a].output \in ExecutionsOf(p)
        /\ artifacts'[a].context = {setup.workflow[p]}
    BY <1>1, <1>3, <1>4, ArtifactsChange
  <1>6. artifacts'[a].output \in ExecutionsOf(p)'
    BY <1>5, ExecutionOfStays
  <1> QED BY <1>2, <1>5, <1>6 DEF OutputRecorded

\* What a pod says of its outputs stays true, and is final when it has completed.
LEMMA PodsGrow ==
    ASSUME TypeOK, [Next]_vars, NEW p \in Pods
    PROVE  /\ pods[p].outputs => pods'[p].outputs
           /\ pods[p].completed => pods'[p].completed /\ pods'[p].outputs = pods[p].outputs
  <1>1. CASE UNCHANGED pods
    BY <1>1
  <1>2. ASSUME NEW q \in Pods, PodStep(q)
        PROVE  /\ pods[p].outputs => pods'[p].outputs
               /\ pods[p].completed => pods'[p].completed /\ pods'[p].outputs = pods[p].outputs
    <2>1. pods \in [Pods -> PodStates]
      BY DEF TypeOK, ClusterOK
    <2>2. PICK new \in PodStates :
             /\ Change(q, new)
             /\ \/ new.outputs = pods[q].outputs /\ (pods[q].completed => new.completed)
                \/ ~pods[q].completed /\ ~new.completed /\ ~pods[q].outputs
      BY <1>2, PodStepIs DEF TypeOK
    <2>3. pods'[q] = new /\ (p # q => pods'[p] = pods[p])
      BY <2>1, <2>2 DEF Change
    <2> QED BY <2>2, <2>3
  <1>3. CASE LabelExecution
    <2>1. pods[event.pod] \in PodStates
      BY <1>3, InHand DEF LabelExecution, TypeOK, ClusterOK
    <2>2. pods' = [pods EXCEPT ![event.pod] = [pods[event.pod] EXCEPT !.exec = execution]]
      BY <1>3 DEF LabelExecution, Change
    <2> QED BY <1>3, <2>1, <2>2 DEF TypeOK, ClusterOK, PodStates
  <1>4. CASE LabelWritten
    <2>1. pods[event.pod] \in PodStates
      BY <1>4, InHand DEF LabelWritten, TypeOK, ClusterOK
    <2>2. pods' = [pods EXCEPT ![event.pod] = [pods[event.pod] EXCEPT !.written = TRUE]]
      BY <1>4 DEF LabelWritten, Change
    <2> QED BY <1>4, <2>1, <2>2 DEF TypeOK, ClusterOK, PodStates
  <1>5. CASE \/ Watch \/ Handle \/ GetOrCreateContext \/ PutExecution \/ Associate \/ LinkInput
             \/ PutArtifact \/ PutEvent \/ Attribute \/ GiveUpLabel \/ GiveUpWritten
             \/ Raise \/ Restart \/ UNCHANGED vars
    BY <1>1, <1>5 DEF Watch, Handle, GetOrCreateContext, PutExecution, Associate, LinkInput,
                      PutArtifact, PutEvent, Attribute, GiveUpLabel, GiveUpWritten, Raise, Restart,
                      Interrupt, cluster, vars
  <1> QED BY <1>2, <1>3, <1>4, <1>5 DEF Next, Step, PodStep

\* An earlier version of a pod stays one.
LEMMA VersionStays ==
    ASSUME TypeOK, LabelInv, [Next]_vars, NEW p \in Pods, NEW s \in PodStates, VersionOf(s, p)
    PROVE  VersionOf(s, p)'
  <1>1. s.exec # 0 => ExecutionOf(s.exec, p)'
    BY ExecutionOfStays DEF VersionOf
  <1>2. /\ s.outputs => pods'[p].outputs
        /\ s.completed => pods'[p].completed /\ pods'[p].outputs = s.outputs
    BY PodsGrow DEF VersionOf
  <1> QED BY <1>1, <1>2 DEF VersionOf

LEMMA NextPodLabels ==
    ASSUME TypeOK, LabelInv, [Next]_vars, NEW p \in Pods
    PROVE  /\ \A x : x = pods'[p].exec /\ x # 0 => ExecutionOf(x, p)'
           /\ pods'[p].written => pods'[p].outputs \/ pods'[p].completed
           /\ pods'[p].written /\ pods'[p].outputs => OutputRecorded(p)'
  <1>1. /\ pods[p].exec # 0 => ExecutionOf(pods[p].exec, p)
        /\ pods[p].written => pods[p].outputs \/ pods[p].completed
        /\ pods[p].written /\ pods[p].outputs => OutputRecorded(p)
    BY DEF LabelInv
  <1>2. ASSUME NEW x, x = pods'[p].exec, x # 0 PROVE ExecutionOf(x, p)'
    <2>1. LabelExecution => ExecutionOf(execution, event.pod)
      BY DEF LabelExecution, LabelInv, HandTrue
    <2> QED BY <1>1, <1>2, <2>1, LabelsChange, ExecutionOfStays
  <1>3. CASE pods'[p].written = pods[p].written
    BY <1>1, <1>2, <1>3, PodsGrow, OutputRecordedStays
  <1>4. CASE LabelWritten /\ p = event.pod
    <2>1. /\ VersionOf(event.state, p) /\ Done(event)
          /\ event.state.outputs => OutputRecorded(p)
      BY <1>4 DEF LabelWritten, LabelInv, HandTrue, ArtifactInHand
    <2>2. CASE event.state.outputs
      BY <1>2, <2>1, <2>2, PodsGrow, OutputRecordedStays DEF VersionOf
    <2>3. CASE ~event.state.outputs
      BY <1>2, <2>1, <2>3, PodsGrow DEF VersionOf, Done
    <2> QED BY <2>2, <2>3
  <1>5. CASE ~(LabelWritten /\ p = event.pod)
    <2>1. pods'[p].written = pods[p].written
      BY <1>5, LabelsChange
    <2> QED BY <1>3, <2>1
  <1> QED BY <1>4, <1>5

\* Where the event in hand comes from.
LEMMA EventFrom ==
    ASSUME TypeOK, [Next]_vars, pc' # "idle"
    PROVE  \/ pc # "idle" /\ event' = event
           \/ Handle /\ 1 \in DOMAIN stream /\ event' = stream[1]
  <1>1. UNCHANGED setup
    BY DEF Next, vars
  <1>2. ASSUME NEW q \in Pods, PodStep(q) \/ Watch \/ UNCHANGED vars
        PROVE  pc # "idle" /\ event' = event
    BY <1>2, ClusterSteps
  <1>3. CASE Handle
    BY <1>1, <1>3, HandleIs
  <1>4. CASE \/ GetOrCreateContext \/ PutExecution \/ Associate \/ LinkInput \/ LabelExecution
             \/ GiveUpLabel \/ PutArtifact \/ PutEvent \/ Attribute \/ LabelWritten
             \/ GiveUpWritten
    BY <1>4 DEF GetOrCreateContext, PutExecution, Associate, LinkInput, LabelExecution,
                GiveUpLabel, PutArtifact, PutEvent, Attribute, LabelWritten, GiveUpWritten, Goto,
                RememberExecution
  <1>5. CASE Raise \/ Restart
    BY <1>5 DEF Raise, Restart, Interrupt, Goto
  <1>6. CASE Watch \/ UNCHANGED vars
    BY <1>6 DEF Watch, vars
  <1> QED BY <1>2, <1>3, <1>4, <1>5, <1>6 DEF Next, Step, PodStep

LEMMA NextVersions ==
    ASSUME TypeOK, LabelInv, [Next]_vars
    PROVE  /\ (\A i \in DOMAIN stream : VersionOf(stream[i].state, stream[i].pod))'
           /\ (pc # "idle" => VersionOf(event.state, event.pod))'
  <1>1. \A i \in DOMAIN stream : stream[i].pod \in Pods /\ stream[i].state \in PodStates
    <2>1. stream \in Seq(Events)
      BY DEF TypeOK, ClusterOK
    <2>2. \A i \in DOMAIN stream : stream[i] \in Events
      BY <2>1, ElementOfSeq, LenProperties
    <2> QED BY <2>2 DEF Events
  <1>2. \A i \in DOMAIN stream' : stream'[i].pod \in Pods
    <2>1. stream' \in Seq(Events)
      BY NextType DEF TypeOK, ClusterOK
    <2>2. \A i \in DOMAIN stream' : stream'[i] \in Events
      BY <2>1, ElementOfSeq, LenProperties
    <2> QED BY <2>2 DEF Events
  <1>3. ASSUME NEW i \in DOMAIN stream, NEW s, s = stream[i].state, NEW p, p = stream[i].pod
        PROVE  VersionOf(s, p)'
    BY <1>1, <1>3, VersionStays DEF LabelInv
  <1>4. ASSUME NEW p \in Pods, NEW s, s = pods'[p] PROVE VersionOf(s, p)'
    BY <1>4, NextPodLabels DEF VersionOf
  <1>5. ASSUME NEW i \in DOMAIN stream', NEW s, s = stream'[i].state, NEW p, p = stream'[i].pod
        PROVE  VersionOf(s, p)'
    <2>1. CASE \E j \in DOMAIN stream : stream'[i] = stream[j]
      BY <1>3, <1>5, <2>1
    <2>2. CASE stream'[i].state = pods'[stream'[i].pod]
      BY <1>2, <1>4, <1>5, <2>2
    <2> QED BY <2>1, <2>2, NextStream DEF StreamKept
  <1>6. ASSUME pc' # "idle", NEW s, s = event'.state, NEW p, p = event'.pod
        PROVE  VersionOf(s, p)'
    <2>1. CASE pc # "idle" /\ event' = event
      <3>1. VersionOf(event.state, event.pod)
        BY <2>1 DEF LabelInv
      <3>2. event.pod \in Pods /\ event.state \in PodStates
        BY <2>1, InHand
      <3> QED BY <1>6, <2>1, <3>1, <3>2, VersionStays
    <2>2. CASE 1 \in DOMAIN stream /\ event' = stream[1]
      BY <1>3, <1>6, <2>2
    <2> QED BY <1>6, <2>1, <2>2, EventFrom
  <1> QED BY <1>5, <1>6 DEF VersionOf, ExecutionOf

\* A cache of true entries is one of true entries when a true one is put into it.
LEMMA PutTrue ==
    ASSUME TypeOK, LabelInv, NEW p \in Pods, NEW x \in Nat, ExecutionOf(x, p),
           NEW new, new = Put(execIds, setup.podSize, p, x)
    PROVE  \A i \in DOMAIN new : ExecutionOf(new[i].val, new[i].key)
  <1>1. CacheOK(execIds, Pods, Nat, setup.podSize) /\ setup.podSize \in Nat \ {0}
    BY SetupsAssumption DEF TypeOK, CachesOK
  <1>2. PutOf(new, execIds, Pods, Nat, setup.podSize, p, x)
    BY <1>1, PutIs
  <1>3. /\ new \in Seq([key : Pods, val : Nat])
        /\ new[1] = [key |-> p, val |-> x]
        /\ \A i \in 2..Len(new) : \E j \in 1..Len(execIds) : new[i] = execIds[j]
    BY <1>2 DEF PutOf
  <1>4. /\ Len(new) \in Nat /\ DOMAIN new = 1..Len(new)
        /\ DOMAIN execIds = 1..Len(execIds)
    BY <1>1, <1>3, LenProperties DEF CacheOK
  <1>5. \A i \in DOMAIN new : i = 1 \/ i \in 2..Len(new)
    BY <1>4
  <1>6. \A j \in 1..Len(execIds) : ExecutionOf(execIds[j].val, execIds[j].key)
    BY <1>4 DEF LabelInv
  <1>7. ExecutionOf(new[1].val, new[1].key)
    BY <1>3
  <1> QED BY <1>3, <1>5, <1>6, <1>7

\* The execution that Handle finds, in the cache or in the label, is one of the pod.
LEMMA HandleTrue ==
    ASSUME TypeOK, LabelInv, Handle
    PROVE  /\ pc' \in {"artifact", "written"} => ExecutionOf(execution', event'.pod)
           /\ \A i \in DOMAIN execIds' : ExecutionOf(execIds'[i].val, execIds'[i].key)
  <1> DEFINE e == Head(stream)
  <1>1. e.pod \in Pods /\ VersionOf(e.state, e.pod)
    BY StreamHead DEF Handle, TypeOK, LabelInv
  <1> HIDE DEF e
  <1>2. ASSUME NEW x, ExecutionOf(x, e.pod), Goto(AfterExecution(e), e, x)
        PROVE  pc' \in {"artifact", "written"} => ExecutionOf(execution', event'.pod)
    BY <1>2 DEF Goto
  <1>3. CASE pc = "idle" /\ UNCHANGED <<pc, event, execution, execIds, contextIds>>
    BY <1>3 DEF LabelInv
  <1>4. CASE /\ Has(execIds, e.pod)
             /\ execIds' = Put(execIds, setup.podSize, e.pod, Get(execIds, e.pod))
             /\ Goto(AfterExecution(e), e, Get(execIds, e.pod))
    <2>1. CacheOK(execIds, Pods, Nat, setup.podSize)
      BY DEF TypeOK, CachesOK
    <2>2. Get(execIds, e.pod) \in Nat
      BY <1>4, <2>1, GetOK
    <2>3. ExecutionOf(Get(execIds, e.pod), e.pod)
      <3>1. PICK i \in DOMAIN execIds :
               execIds[i].key = e.pod /\ Get(execIds, e.pod) = execIds[i].val
        BY <1>4, <2>1, GetIs
      <3>2. ExecutionOf(execIds[i].val, execIds[i].key)
        BY DEF LabelInv
      <3> QED BY <3>1, <3>2
    <2> QED BY <1>1, <1>2, <1>4, <2>2, <2>3, PutTrue
  <1>5. CASE e.state.exec # 0 /\ Goto(AfterExecution(e), e, e.state.exec) /\ UNCHANGED execIds
    BY <1>1, <1>2, <1>5 DEF VersionOf, LabelInv
  <1>6. CASE Goto("context", e, 0) /\ UNCHANGED execIds
    BY <1>6 DEF Goto, LabelInv
  <1> QED BY <1>3, <1>4, <1>5, <1>6 DEF Handle, e

LEMMA NextCacheTrue ==
    ASSUME TypeOK, LabelInv, [Next]_vars
    PROVE  (\A i \in DOMAIN execIds : ExecutionOf(execIds[i].val, execIds[i].key))'
  <1>1. \A i \in DOMAIN execIds' : ExecutionOf(execIds'[i].val, execIds'[i].key)
    <2>1. CASE UNCHANGED execIds
      BY <2>1 DEF LabelInv
    <2>2. CASE Handle
      BY <2>2, HandleTrue
    <2>3. CASE LabelExecution \/ GiveUpLabel
      <3>1. event.pod \in Pods /\ execution \in Nat
        BY <2>3, InHand DEF LabelExecution, GiveUpLabel, TypeOK, HandOK
      <3>2. ExecutionOf(execution, event.pod)
        BY <2>3 DEF LabelExecution, GiveUpLabel, LabelInv, HandTrue
      <3>3. execIds' = Put(execIds, setup.podSize, event.pod, execution)
        BY <2>3 DEF LabelExecution, GiveUpLabel, RememberExecution
      <3> QED BY <3>1, <3>2, <3>3, PutTrue
    <2>4. CASE Restart
      BY <2>4 DEF Restart
    <2>5. ASSUME NEW p \in Pods, PodStep(p) PROVE UNCHANGED execIds
      BY <2>5, ClusterSteps DEF caches
    <2>6. CASE \/ Watch \/ GetOrCreateContext \/ PutExecution \/ Associate \/ LinkInput
               \/ PutArtifact \/ PutEvent \/ Attribute \/ LabelWritten \/ GiveUpWritten \/ Raise
               \/ UNCHANGED vars
      BY <2>1, <2>6 DEF Watch, GetOrCreateContext, PutExecution, Associate, LinkInput,
                        PutArtifact, PutEvent, Attribute, LabelWritten, GiveUpWritten, Raise,
                        caches, vars
    <2> QED BY <2>1, <2>2, <2>3, <2>4, <2>5, <2>6 DEF Next, Step, PodStep
  <1>2. \A x, p : ExecutionOf(x, p) => ExecutionOf(x, p)'
    BY ExecutionOfStays
  <1> QED BY <1>1, <1>2 DEF ExecutionOf

LEMMA NextHandTrue ==
    ASSUME TypeOK, LabelInv, [Next]_vars
    PROVE  HandTrue'
  <1> USE DEF ArtifactInHand
  <1>1. HandTrue
    BY DEF LabelInv
  <1>2. UNCHANGED setup
    BY DEF Next, vars
  <1>3. \A x, p : /\ ExecutionOf(x, p) => ExecutionOf(x, p)'
                  /\ x \in ExecutionsOf(p) => x \in ExecutionsOf(p)'
    BY ExecutionOfStays
  <1>4. CASE pc' = "idle"
    BY <1>4 DEF HandTrue
  <1>5. CASE UNCHANGED <<pc, event, execution, executions, artifacts>>
    BY <1>1, <1>2, <1>5 DEF HandTrue, ExecutionOf, ExecutionsOf, OutputRecorded, Done
  <1>6. ASSUME NEW q \in Pods, PodStep(q) \/ Watch \/ UNCHANGED vars PROVE HandTrue'
    BY <1>5, <1>6, ClusterSteps
  <1>7. CASE Watch \/ UNCHANGED vars
    BY <1>5, <1>7 DEF Watch, mlmd, vars
  <1>8. CASE Handle
    <2>1. /\ pc' \in {"idle", "context", "artifact", "written"}
          /\ pc' \in {"artifact", "written"} => Done(event')
          /\ pc' = "written" => ~event'.state.outputs
      BY <1>2, <1>8, HandleIs
    <2>2. pc' \in {"artifact", "written"} => ExecutionOf(execution, event.pod)'
      BY <1>3, <1>8, HandleTrue DEF ExecutionOf
    <2> QED BY <2>1, <2>2 DEF HandTrue, Done
  <1>9. CASE GetOrCreateContext
    BY <1>9 DEF GetOrCreateContext, Goto, HandTrue
  <1>10. CASE PutExecution
    <2> DEFINE r == [pod |-> event.pod, context |-> {}, linked |-> 0, listed |-> event.listed]
    <2>1. /\ executions' = Append(executions, r) /\ r.pod = event.pod
          /\ pc' = "associate" /\ event' = event /\ execution' = Len(executions) + 1
      BY <1>10 DEF PutExecution, Goto
    <2> HIDE DEF r
    <2>2. execution' \in DOMAIN executions' /\ executions'[execution'] = r
      BY <2>1, StoreEntries
    <2> QED BY <2>1, <2>2 DEF HandTrue, ExecutionsOf
  <1>11. CASE Associate
    <2>1. /\ pc = "associate" /\ pc' = "inputs" /\ event' = event /\ execution' = execution
          /\ execution \in ExecutionsOf(event.pod)
      BY <1>1, <1>11 DEF Associate, Goto, HandTrue
    <2>2. executions'[execution].context = {setup.workflow[event.pod]}
      BY <1>11, <2>1, AssociateIs DEF ExecutionsOf
    <2> QED BY <1>2, <1>3, <2>1, <2>2 DEF HandTrue, ExecutionOf, ExecutionsOf
  <1>12. CASE LinkInput
    <2>1. /\ pc = "inputs" /\ pc' = "label" /\ event' = event /\ execution' = execution
          /\ ExecutionOf(execution, event.pod)
      BY <1>1, <1>12 DEF LinkInput, Goto, HandTrue
    <2> QED BY <1>3, <2>1 DEF HandTrue, ExecutionOf
  <1>13. CASE LabelExecution \/ GiveUpLabel
    <2>1. /\ pc' = AfterExecution(event)
          /\ pc' # "idle" => event' = event /\ execution' = execution
          /\ ExecutionOf(execution, event.pod)
      BY <1>1, <1>13 DEF LabelExecution, GiveUpLabel, RememberExecution, Goto, HandTrue
    <2>2. /\ pc' \in {"idle", "artifact", "written"}
          /\ pc' # "idle" => Done(event)
          /\ pc' = "written" => ~event.state.outputs
      BY <2>1, AfterExecutionIs
    <2>3. pc' # "idle" => ExecutionOf(execution, event.pod)'
      BY <1>3, <2>1 DEF ExecutionOf
    <2> QED BY <2>1, <2>2, <2>3 DEF HandTrue, Done
  <1>14. CASE PutArtifact
    <2>1. /\ pc = "artifact" /\ pc' = "event" /\ event' = event /\ execution' = execution
          /\ ExecutionOf(execution, event.pod) /\ Done(event)
      BY <1>1, <1>14 DEF PutArtifact, Goto, HandTrue
    <2>2. artifacts' # <<>> /\ artifacts'[Len(artifacts')].pod = event.pod
      <3> DEFINE r == [pod |-> event.pod, output |-> 0, context |-> {}]
      <3>1. artifacts' = Append(artifacts, r) /\ r.pod = event.pod
        BY <1>14 DEF PutArtifact
      <3> HIDE DEF r
      <3> QED BY <3>1, StoreEntries
    <2>3. ExecutionOf(execution, event.pod)'
      BY <1>3, <2>1 DEF ExecutionOf
    <2> QED BY <2>1, <2>2, <2>3 DEF HandTrue, Done
  <1>15. CASE PutEvent
    <2>1. /\ pc = "event" /\ pc' = "attribute" /\ event' = event /\ execution' = execution
          /\ ExecutionOf(execution, event.pod) /\ Done(event)
          /\ artifacts # <<>> /\ artifacts[Len(artifacts)].pod = event.pod
      BY <1>1, <1>15 DEF PutEvent, Goto, HandTrue
    <2>2. Len(artifacts) \in DOMAIN artifacts
      BY <2>1, StoreEntries, EmptySeq
    <2>3. /\ artifacts' # <<>> /\ artifacts'[Len(artifacts')].pod = event.pod
          /\ artifacts'[Len(artifacts')].output = execution
      BY <1>15, <2>1, <2>2, PutEventIs
    <2>4. ExecutionOf(execution, event.pod)'
      BY <1>3, <2>1 DEF ExecutionOf
    <2> QED BY <2>1, <2>3, <2>4 DEF HandTrue, Done
  <1>16. CASE Attribute
    <2>1. /\ pc = "attribute" /\ pc' = "written" /\ event' = event /\ execution' = execution
          /\ ExecutionOf(execution, event.pod) /\ Done(event)
          /\ artifacts # <<>> /\ artifacts[Len(artifacts)].pod = event.pod
          /\ artifacts[Len(artifacts)].output = execution
      BY <1>1, <1>16 DEF Attribute, Goto, HandTrue
    <2>2. Len(artifacts) \in DOMAIN artifacts
      BY <2>1, StoreEntries, EmptySeq
    <2>3. LET a == Len(artifacts) IN
              /\ a \in DOMAIN artifacts' /\ artifacts'[a].pod = event.pod
              /\ artifacts'[a].output = execution
              /\ artifacts'[a].context = {setup.workflow[event.pod]}
      BY <1>16, <2>1, <2>2, AttributeIs
    <2>4. ExecutionOf(execution, event.pod)' /\ execution \in ExecutionsOf(event.pod)'
      BY <1>3, <2>1 DEF ExecutionOf, ExecutionsOf
    <2>5. OutputRecorded(event.pod)'
      BY <1>2, <2>1, <2>3, <2>4 DEF OutputRecorded, ExecutionsOf
    <2> QED BY <2>1, <2>4, <2>5 DEF HandTrue, Done
  <1>17. CASE LabelWritten \/ GiveUpWritten \/ Raise \/ Restart
    BY <1>4, <1>17 DEF LabelWritten, GiveUpWritten, Raise, Restart, Interrupt, Goto
  <1> QED
    BY <1>6, <1>7, <1>8, <1>9, <1>10, <1>11, <1>12, <1>13, <1>14, <1>15, <1>16, <1>17
    DEF Next, Step, PodStep

LEMMA InitLabel == Init => LabelInv
  <1> SUFFICES ASSUME Init PROVE LabelInv
    OBVIOUS
  <1>1. \A p \in Pods : pods[p].exec = 0 /\ ~pods[p].written
    BY DEF Init
  <1>2. stream = <<>> /\ execIds = <<>> /\ pc = "idle"
    BY DEF Init
  <1> QED BY <1>1, <1>2 DEF LabelInv, HandTrue, ArtifactInHand

LEMMA NextLabel == TypeOK /\ LabelInv /\ [Next]_vars => LabelInv'
  <1> SUFFICES ASSUME TypeOK, LabelInv, [Next]_vars PROVE LabelInv'
    OBVIOUS
  <1>1. ASSUME NEW p \in Pods
        PROVE  /\ (pods[p].exec # 0 => ExecutionOf(pods[p].exec, p))'
               /\ (pods[p].written => pods[p].outputs \/ pods[p].completed)'
               /\ (pods[p].written /\ pods[p].outputs => OutputRecorded(p))'
    BY NextPodLabels DEF ExecutionOf
  <1>2. /\ (\A i \in DOMAIN stream : VersionOf(stream[i].state, stream[i].pod))'
        /\ (pc # "idle" => VersionOf(event.state, event.pod))'
    BY NextVersions
  <1>3. (\A i \in DOMAIN execIds : ExecutionOf(execIds[i].val, execIds[i].key))'
    BY NextCacheTrue
  <1>4. HandTrue'
    BY NextHandTrue
  <1> QED BY <1>1, <1>2, <1>3, <1>4 DEF LabelInv

(* A label of a pod is never ahead of MLMD: the execution it names is one  *)
(* of the pod, in the context of its workflow, and a pod that is labelled   *)
(* metadata_written and has outputs has its artifact, linked to one of its *)
(* executions and to the context.  A failure or a restart between any two  *)
(* calls, and events that are behind the pods, do not change that.         *)
THEOREM LabelsAreTrueAlways == Spec => []LabelsAreTrue
  <1>1. Init => TypeOK /\ LabelInv
    BY InitType, InitLabel
  <1>2. TypeOK /\ LabelInv /\ [Next]_vars => (TypeOK /\ LabelInv)'
    BY NextType, NextLabel
  <1>3. LabelInv => LabelsAreTrue
    BY DEF LabelInv, LabelsAreTrue, ExecutionOf, OutputRecorded, ArtifactsOf
  <1> QED BY <1>1, <1>2, <1>3, PTL DEF Spec

-----------------------------------------------------------------------------
(***************************************************************************)
(* The writer links an execution to its input when it sees the changes of  *)
(* the pods in the order in which they happened: the output of the         *)
(* upstream pod is recorded before the writer turns to the pod that reads  *)
(* it.                                                                     *)
(***************************************************************************)

-----------------------------------------------------------------------------
(* Between the change of a pod and its artifact there is an event, in the  *)
(* stream or in hand, that will have the writer make the artifact.         *)

Recorded(q) == ArtifactsOf(q) # {}

\* The event in hand has outputs of q that are still to be written.
OutputInHand(q) ==
    /\ pc \in {"context", "execution", "artifact"} \cup ExecutionInHand
    /\ event.pod = q /\ event.state.outputs

OutputAt(q, j) == stream[j].pod = q /\ stream[j].state.outputs

\* The outputs of q are recorded, or will be before the n-th event of the stream.
ComesBefore(q, n) ==
    \/ Recorded(q)
    \/ OutputInHand(q)
    \/ \E j \in DOMAIN stream : j < n /\ OutputAt(q, j)

Excused(q) == q = NoPod \/ q \in setup.own \/ pods[q].status = "gone"

PodsInOrder ==
    \A p \in Pods :
        /\ pods[p].outputs \/ pods[p].completed => pods[p].status # "none"
        /\ pods[p].status # "none" /\ Upstream[p] # NoPod => pods[Upstream[p]].outputs

\* A label or an entry in the cache that keeps the writer from writing the outputs
\* of a pod stands for outputs that are recorded.
SkipsAreSafe ==
    /\ \A i \in DOMAIN stream :
           stream[i].state.written /\ stream[i].state.outputs => Recorded(stream[i].pod)
    /\ \A i \in DOMAIN written :
           /\ pods[written[i].key].outputs \/ pods[written[i].key].completed
           /\ pods[written[i].key].outputs => Recorded(written[i].key)

\* While the watch is open, outputs that a pod has reported are on their way.
OutputsCome ==
    watching => \A q \in Pods : pods[q].outputs => Excused(q) \/ ComesBefore(q, Len(stream) + 1)

\* An event of the watch comes after the outputs of the upstream pod.
EventsInOrder ==
    \A i \in DOMAIN stream :
        stream[i].listed \/ Excused(Upstream[stream[i].pod])
                         \/ ComesBefore(Upstream[stream[i].pod], i)

InputsInHand ==
    /\ pc \in {"context", "execution", "associate", "inputs"} =>
           event.listed \/ Excused(Upstream[event.pod]) \/ Recorded(Upstream[event.pod])
    /\ pc \in {"associate", "inputs"} => executions[execution].listed = event.listed

LinkInv ==
    /\ PodsInOrder /\ SkipsAreSafe /\ OutputsCome /\ EventsInOrder /\ InputsInHand
    /\ InputsAreLinked

-----------------------------------------------------------------------------
(* How the pods and the stream change together.                            *)

\* The listing has every pod that is there, and only that.
LEMMA ListingHasAll ==
    ASSUME ClusterOK, Watch
    PROVE  /\ \A i \in DOMAIN stream' : stream'[i].listed
           /\ \A q \in Pods : pods[q].status = "here" =>
                  \E i \in DOMAIN stream' : stream'[i].pod = q /\ stream'[i].state = pods[q]
  <1> DEFINE S == {p \in Pods : pods[p].status = "here"}
             n == Cardinality(S)
  <1>1. n \in Nat /\ IsFiniteSet(S)
    BY PodsAssumption, FS_Subset, FS_CardinalityType
  <1>2. PICK order \in [1..n -> S] :
           /\ \A i, j \in 1..n : i # j => order[i] # order[j]
           /\ stream' = [i \in DOMAIN order |->
                            [pod |-> order[i], state |-> pods[order[i]], listed |-> TRUE]]
    BY DEF Watch, SetToSeqs
  <1>3. Cardinality(1..n) = n
    BY <1>1, FS_Interval
  <1> HIDE DEF n, S
  <1>4. order \in Injection(1..n, S)
    BY <1>2 DEF Injection, IsInjective
  <1>5. order \in Surjection(1..n, S)
    BY <1>1, <1>3, <1>4, FS_Injection DEF n
  <1>6. \A q \in S : \E i \in 1..n : order[i] = q
    BY <1>5 DEF Surjection
  <1> QED BY <1>2, <1>6 DEF S

\* A pod changes, and the watch sends the new version if it is open.
PodChanges ==
    \E p \in Pods, new \in PodStates :
        /\ Change(p, new)
        /\ new.status # "none"
        /\ pods[p].status = "gone" => new.status = "gone"
        /\ pods[p].status = "none" /\ Upstream[p] # NoPod => pods[Upstream[p]].outputs

LEMMA ClusterChanges ==
    ASSUME TypeOK, [Next]_vars
    PROVE  \/ UNCHANGED cluster /\ ~Interrupt
           \/ Handle
           \/ Watch
           \/ Interrupt
           \/ PodChanges /\ UNCHANGED <<pc, event>>
           \/ PodChanges /\ (LabelExecution \/ LabelWritten)
  <1> USE DEF PodChanges
  <1>0. \A p \in Pods : pods[p] \in PodStates
    BY DEF TypeOK, ClusterOK
  <1>1. ASSUME NEW p \in Pods, PodStep(p) PROVE PodChanges /\ UNCHANGED <<pc, event>>
    <2>1. CASE PodCreated(p)
      <3> DEFINE new == [pods[p] EXCEPT !.status = "here"]
      <3>1. new \in PodStates /\ new.status = "here"
        BY <1>0 DEF PodStates
      <3> QED BY <2>1, <3>1 DEF PodCreated
    <2>2. CASE PodReportsOutputs(p)
      <3> DEFINE new == [pods[p] EXCEPT !.outputs = TRUE]
      <3>1. new \in PodStates /\ new.status = pods[p].status
        BY <1>0 DEF PodStates
      <3> QED BY <2>2, <3>1 DEF PodReportsOutputs
    <2>3. CASE PodCompleted(p)
      <3> DEFINE new == [pods[p] EXCEPT !.completed = TRUE]
      <3>1. new \in PodStates /\ new.status = pods[p].status
        BY <1>0 DEF PodStates
      <3> QED BY <2>3, <3>1 DEF PodCompleted
    <2>4. CASE PodDeleted(p)
      <3> DEFINE new == [pods[p] EXCEPT !.status = "gone"]
      <3>1. new \in PodStates /\ new.status = "gone"
        BY <1>0 DEF PodStates
      <3> QED BY <2>4, <3>1 DEF PodDeleted
    <2> QED BY <1>1, <2>1, <2>2, <2>3, <2>4 DEF PodStep
  <1>2. CASE LabelExecution
    <2> DEFINE new == [pods[event.pod] EXCEPT !.exec = execution]
    <2>1. event.pod \in Pods /\ execution \in Nat
      BY <1>2, InHand DEF LabelExecution, TypeOK, HandOK
    <2>2. new \in PodStates /\ new.status = pods[event.pod].status
      BY <1>0, <2>1 DEF PodStates
    <2> QED BY <1>2, <2>1, <2>2 DEF LabelExecution
  <1>3. CASE LabelWritten
    <2> DEFINE new == [pods[event.pod] EXCEPT !.written = TRUE]
    <2>1. event.pod \in Pods
      BY <1>3, InHand DEF LabelWritten
    <2>2. new \in PodStates /\ new.status = pods[event.pod].status
      BY <1>0, <2>1 DEF PodStates
    <2> QED BY <1>3, <2>1, <2>2 DEF LabelWritten
  <1>4. CASE \/ GetOrCreateContext \/ PutExecution \/ Associate \/ LinkInput
             \/ PutArtifact \/ PutEvent \/ Attribute \/ GiveUpLabel \/ GiveUpWritten
             \/ UNCHANGED vars
    <2>1. UNCHANGED cluster
      BY <1>4 DEF GetOrCreateContext, PutExecution, Associate, LinkInput, PutArtifact, PutEvent,
                  Attribute, GiveUpLabel, GiveUpWritten, vars
    <2> QED BY <2>1
  <1>5. CASE Raise \/ Restart
    BY <1>5 DEF Raise, Restart
  <1> QED BY <1>1, <1>2, <1>3, <1>4, <1>5 DEF Next, Step, PodStep

\* What a change does to the stream of an open watch.
LEMMA ChangeStream ==
    ASSUME TypeOK, NEW p \in Pods, NEW new \in PodStates, Change(p, new), watching
    PROVE  /\ Len(stream) \in Nat /\ DOMAIN stream = 1..Len(stream)
           /\ Len(stream') = Len(stream) + 1 /\ DOMAIN stream' = 1..(Len(stream) + 1)
           /\ \A j \in DOMAIN stream : stream'[j] = stream[j]
           /\ stream'[Len(stream) + 1].pod = p /\ stream'[Len(stream) + 1].state = new
           /\ ~stream'[Len(stream) + 1].listed
           /\ \A q \in Pods : pods'[q] = IF q = p THEN new ELSE pods[q]
  <1> DEFINE e == [pod |-> p, state |-> new, listed |-> FALSE]
  <1>1. stream' = Append(stream, e) /\ e.pod = p /\ e.state = new /\ ~e.listed
    BY DEF Change
  <1>2. stream \in Seq(Events)
    BY DEF TypeOK, ClusterOK
  <1>3. \A q \in Pods : pods'[q] = IF q = p THEN new ELSE pods[q]
    BY DEF Change, TypeOK, ClusterOK
  <1>4. e \in Events
    BY DEF Events
  <1> HIDE DEF e
  <1>5. /\ Len(stream) \in Nat /\ DOMAIN stream = 1..Len(stream)
        /\ Len(stream') = Len(stream) + 1 /\ DOMAIN stream' = 1..(Len(stream) + 1)
        /\ \A j \in DOMAIN stream : stream'[j] = stream[j]
        /\ stream'[Len(stream) + 1] = e
    BY <1>1, <1>2, <1>4, AppendProperties, LenProperties
  <1> QED BY <1>1, <1>3, <1>5

-----------------------------------------------------------------------------
(* What is recorded or excused stays so; what is in hand gets recorded.    *)

LEMMA RecordedStays ==
    ASSUME TypeOK, [Next]_vars, NEW q
    PROVE  /\ \A a \in ArtifactsOf(q) : a \in ArtifactsOf(q)'
           /\ Recorded(q) => Recorded(q)'
  <1>1. \A a \in ArtifactsOf(q) : a \in ArtifactsOf(q)'
    BY ArtifactsChange DEF ArtifactsOf
  <1> QED BY <1>1 DEF Recorded

LEMMA OutputRecordedIs ==
    ASSUME NEW q, OutputRecorded(q)
    PROVE  Recorded(q)
  BY DEF OutputRecorded, Recorded, ArtifactsOf

LEMMA StatusStays ==
    ASSUME TypeOK, [Next]_vars, NEW q \in Pods
    PROVE  /\ pods[q].status = "gone" => pods'[q].status = "gone"
           /\ pods[q].status # "none" => pods'[q].status # "none"
  <1>1. CASE UNCHANGED pods
    BY <1>1
  <1>2. CASE PodChanges
    BY <1>2 DEF PodChanges, Change, TypeOK, ClusterOK
  <1>3. CASE UNCHANGED cluster \/ Handle \/ Watch \/ Interrupt
    BY <1>1, <1>3 DEF cluster, Handle, Watch, Interrupt
  <1> QED BY <1>2, <1>3, ClusterChanges

LEMMA ExcusedStays ==
    ASSUME TypeOK, [Next]_vars, NEW q \in Pods \cup {NoPod}, Excused(q)
    PROVE  Excused(q)'
  <1>1. UNCHANGED setup
    BY DEF Next, vars
  <1> QED BY <1>1, StatusStays DEF Excused

\* A pod in pods_with_written_metadata with outputs has them recorded.
LEMMA WrittenIsRecorded ==
    ASSUME SkipsAreSafe, NEW q, Has(written, q), pods[q].outputs
    PROVE  Recorded(q)
  BY DEF SkipsAreSafe, Has

\* Outputs in hand are recorded, unless the writer is interrupted.
LEMMA OutputInHandStays ==
    ASSUME TypeOK, LabelInv, SkipsAreSafe, [Next]_vars, ~Interrupt, NEW q, OutputInHand(q)
    PROVE  OutputInHand(q)' \/ Recorded(q)'
  <1> USE DEF ExecutionInHand
  <1>0. /\ pc \in {"context", "execution", "artifact"} \cup ExecutionInHand
        /\ event.pod = q /\ event.state.outputs
    BY DEF OutputInHand
  <1>1. CASE UNCHANGED <<pc, event>>
    BY <1>0, <1>1 DEF OutputInHand
  <1>2. ASSUME NEW p \in Pods, PodStep(p) \/ Watch \/ UNCHANGED vars
        PROVE  UNCHANGED <<pc, event>>
    BY <1>2, ClusterSteps
  <1>3. CASE Watch \/ UNCHANGED vars
    BY <1>1, <1>3 DEF Watch, vars
  <1>4. CASE GetOrCreateContext \/ PutExecution \/ Associate \/ LinkInput
    BY <1>0, <1>4 DEF GetOrCreateContext, PutExecution, Associate, LinkInput, Goto, OutputInHand
  <1>5. CASE LabelExecution \/ GiveUpLabel
    <2>1. pc' = AfterExecution(event) /\ (pc' # "idle" => event' = event)
      BY <1>5 DEF LabelExecution, GiveUpLabel, RememberExecution, Goto
    <2>2. CASE Has(written, q)
      <3>1. pods[q].outputs
        BY <1>0 DEF LabelInv, VersionOf
      <3> QED BY <2>2, <3>1, WrittenIsRecorded, RecordedStays
    <2>3. CASE ~Has(written, q)
      <3>1. AfterExecution(event) = "artifact"
        BY <1>0, <2>3 DEF AfterExecution, Done
      <3> QED BY <1>0, <2>1, <3>1 DEF OutputInHand
    <2> QED BY <2>2, <2>3
  <1>6. CASE PutArtifact
    <2> DEFINE r == [pod |-> event.pod, output |-> 0, context |-> {}]
    <2>1. artifacts' = Append(artifacts, r) /\ r.pod = q
      BY <1>0, <1>6 DEF PutArtifact
    <2> HIDE DEF r
    <2>2. Len(artifacts) + 1 \in DOMAIN artifacts' /\ artifacts'[Len(artifacts) + 1] = r
      BY <2>1, StoreEntries
    <2> QED BY <2>1, <2>2 DEF Recorded, ArtifactsOf
  <1>7. CASE Handle \/ PutEvent \/ Attribute \/ LabelWritten \/ GiveUpWritten
    BY <1>0, <1>7 DEF Handle, PutEvent, Attribute, LabelWritten, GiveUpWritten
  <1>8. CASE Raise \/ Restart
    BY <1>8 DEF Raise, Restart
  <1> QED BY <1>1, <1>2, <1>3, <1>4, <1>5, <1>6, <1>7, <1>8 DEF Next, Step, PodStep

\* So are the outputs of the next event of the stream.
LEMMA OutputHandled ==
    ASSUME TypeOK, LabelInv, SkipsAreSafe, [Next]_vars, Handle, NEW q, q \notin setup.own,
           OutputAt(q, 1)
    PROVE  OutputInHand(q)' \/ Recorded(q)'
  <1> DEFINE e == Head(stream)
  <1>1. 1 \in DOMAIN stream /\ e = stream[1]
    BY StreamHead DEF Handle, TypeOK
  <1>2. e.pod = q /\ e.state.outputs /\ Done(e)
    BY <1>1 DEF OutputAt, Done
  <1>3. pods[q].outputs
    BY <1>1, <1>2 DEF LabelInv, VersionOf
  <1>4. CASE Ignored(e)
    <2>1. e.state.written
      BY <1>2, <1>4 DEF Ignored
    <2>2. Recorded(q)
      BY <1>1, <1>2, <2>1 DEF SkipsAreSafe
    <2> QED BY <2>2, RecordedStays
  <1>5. CASE Has(written, q)
    BY <1>3, <1>5, WrittenIsRecorded, RecordedStays
  <1>6. CASE ~Ignored(e) /\ ~Has(written, q)
    <2>1. AfterExecution(e) = "artifact"
      BY <1>2, <1>6 DEF AfterExecution
    <2> HIDE DEF e
    <2>2. \E x : Goto("artifact", e, x) \/ Goto("context", e, x)
      BY <1>6, <2>1 DEF Handle, e
    <2> QED BY <1>2, <2>2 DEF Goto, OutputInHand
  <1> QED BY <1>4, <1>5, <1>6

\* What comes before the n-th event still does, or comes before it is read.
LEMMA ComesBeforeStays ==
    ASSUME TypeOK, LabelInv, SkipsAreSafe, [Next]_vars, ~Interrupt, NEW q, NEW n,
           ComesBefore(q, n),
           \A j \in DOMAIN stream : j \in DOMAIN stream' /\ stream'[j] = stream[j]
    PROVE  ComesBefore(q, n)'
  <1>1. CASE Recorded(q)
    BY <1>1, RecordedStays DEF ComesBefore
  <1>2. CASE OutputInHand(q)
    BY <1>2, OutputInHandStays DEF ComesBefore
  <1>3. CASE \E j \in DOMAIN stream : j < n /\ OutputAt(q, j)
    BY <1>3 DEF ComesBefore, OutputAt
  <1> QED BY <1>1, <1>2, <1>3 DEF ComesBefore

LEMMA ComesBeforeHandled ==
    ASSUME TypeOK, LabelInv, SkipsAreSafe, [Next]_vars, Handle, NEW q, NEW n \in Nat,
           ComesBefore(q, n + 1), q \notin setup.own
    PROVE  ComesBefore(q, n)'
  <1>1. CASE Recorded(q)
    BY <1>1, RecordedStays DEF ComesBefore
  <1>2. CASE OutputInHand(q)
    BY <1>2 DEF Handle, OutputInHand, ExecutionInHand
  <1>3. ASSUME NEW j \in DOMAIN stream, j < n + 1, OutputAt(q, j)
        PROVE  ComesBefore(q, n)'
    <2>1. CASE j = 1
      BY <1>3, <2>1, OutputHandled DEF ComesBefore
    <2>2. CASE j # 1
      <3>1. /\ stream \in Seq(Events) /\ Len(stream) \in Nat /\ DOMAIN stream = 1..Len(stream)
            /\ stream # <<>> /\ stream' = Tail(stream)
        BY LenProperties DEF Handle, TypeOK, ClusterOK
      <3>2. Len(stream') = Len(stream) - 1 /\ stream' \in Seq(Events)
        BY <3>1, HeadTailProperties
      <3>3. j - 1 \in DOMAIN stream' /\ j - 1 < n
        BY <1>3, <2>2, <3>1, <3>2, LenProperties
      <3>4. stream'[j - 1] = stream[j]
        BY <3>1, <3>2, <3>3, HeadTailProperties, LenProperties
      <3> QED BY <1>3, <3>3, <3>4 DEF ComesBefore, OutputAt
    <2> QED BY <2>1, <2>2
  <1> QED BY <1>1, <1>2, <1>3 DEF ComesBefore

-----------------------------------------------------------------------------
(* The parts of the invariant are kept.                                    *)

LEMMA NextPodsInOrder ==
    ASSUME TypeOK, PodsInOrder, [Next]_vars
    PROVE  PodsInOrder'
  <1>1. \A p \in Pods : Upstream[p] # NoPod => Upstream[p] \in Pods
    BY PodsAssumption
  <1>2. CASE UNCHANGED pods
    BY <1>2 DEF PodsInOrder
  <1>3. CASE PodChanges
    <2>1. PICK p \in Pods, new \in PodStates :
             /\ Change(p, new)
             /\ new.status # "none"
             /\ pods[p].status = "none" /\ Upstream[p] # NoPod => pods[Upstream[p]].outputs
      BY <1>3 DEF PodChanges
    <2>2. \A q \in Pods : pods'[q] = IF q = p THEN new ELSE pods[q]
      BY <2>1 DEF Change, TypeOK, ClusterOK
    <2>3. \A q \in Pods : pods'[q].outputs \/ pods'[q].completed => pods'[q].status # "none"
      BY <2>1, <2>2 DEF PodsInOrder
    <2>4. ASSUME NEW q \in Pods, pods'[q].status # "none", Upstream[q] # NoPod
          PROVE  pods'[Upstream[q]].outputs
      <3>1. pods[Upstream[q]].outputs
        BY <2>1, <2>2, <2>4 DEF PodsInOrder
      <3> QED BY <1>1, <2>4, <3>1, PodsGrow
    <2> QED BY <2>3, <2>4 DEF PodsInOrder
  <1>4. CASE UNCHANGED cluster \/ Handle \/ Watch \/ Interrupt
    BY <1>2, <1>4 DEF cluster, Handle, Watch, Interrupt
  <1> QED BY <1>3, <1>4, ClusterChanges

\* A pod enters pods_with_written_metadata when its event says that it is written.
LEMMA WrittenGrows ==
    ASSUME TypeOK, [Next]_vars, NEW i \in DOMAIN written'
    PROVE  /\ written'[i].key \in Pods
           /\ \/ \E j \in DOMAIN written : written'[i].key = written[j].key
              \/ pc = "written" /\ written'[i].key = event.pod
  <1>0. written'[i].key \in Pods
    <2>1. written' \in Seq([key : Pods, val : {0}])
      BY NextType DEF TypeOK, CachesOK, CacheOK
    <2>2. written'[i] \in [key : Pods, val : {0}]
      BY <2>1, ElementOfSeq, LenProperties
    <2> QED BY <2>2
  <1>1. CASE UNCHANGED written
    BY <1>0, <1>1
  <1>2. CASE LabelWritten \/ GiveUpWritten
    <2>1. pc = "written" /\ event.pod \in Pods
          /\ written' = Put(written, setup.writtenSize, event.pod, 0)
      BY <1>2, InHand DEF LabelWritten, GiveUpWritten, RememberWritten
    <2>2. /\ CacheOK(written, Pods, {0}, setup.writtenSize) /\ setup.writtenSize \in Nat \ {0}
          /\ 0 \in {0}
      BY SetupsAssumption DEF TypeOK, CachesOK
    <2>3. PutOf(written', written, Pods, {0}, setup.writtenSize, event.pod, 0)
      BY <2>1, <2>2, PutIs
    <2>4. /\ written' \in Seq([key : Pods, val : {0}])
          /\ written'[1] = [key |-> event.pod, val |-> 0]
          /\ \A k \in 2..Len(written') : \E j \in 1..Len(written) : written'[k] = written[j]
      BY <2>3 DEF PutOf
    <2>5. /\ Len(written') \in Nat /\ DOMAIN written' = 1..Len(written')
          /\ DOMAIN written = 1..Len(written)
      BY <2>2, <2>4, LenProperties DEF CacheOK
    <2>6. i = 1 \/ i \in 2..Len(written')
      BY <2>5
    <2> QED BY <1>0, <2>1, <2>4, <2>5, <2>6
  <1>3. CASE Restart
    BY <1>3 DEF Restart
  <1>4. ASSUME NEW p \in Pods, PodStep(p) PROVE UNCHANGED written
    BY <1>4, ClusterSteps DEF caches
  <1>5. CASE \/ Watch \/ Handle \/ GetOrCreateContext \/ PutExecution \/ Associate \/ LinkInput
             \/ LabelExecution \/ GiveUpLabel \/ PutArtifact \/ PutEvent \/ Attribute \/ Raise
             \/ UNCHANGED vars
    BY <1>1, <1>5 DEF Watch, Handle, GetOrCreateContext, PutExecution, Associate, LinkInput,
                      LabelExecution, GiveUpLabel, PutArtifact, PutEvent, Attribute, Raise, caches,
                      vars
  <1> QED BY <1>1, <1>2, <1>3, <1>4, <1>5 DEF Next, Step, PodStep

LEMMA NextSkips ==
    ASSUME TypeOK, LabelInv, SkipsAreSafe, [Next]_vars
    PROVE  SkipsAreSafe'
  <1>0. \A q : Recorded(q) => Recorded(q)'
    BY RecordedStays
  <1>1. ASSUME NEW i \in DOMAIN stream', NEW q, q = stream'[i].pod,
               stream'[i].state.written, stream'[i].state.outputs
        PROVE  Recorded(q)'
    <2>1. CASE \E j \in DOMAIN stream : stream'[i] = stream[j]
      BY <1>0, <1>1, <2>1 DEF SkipsAreSafe
    <2>2. CASE stream'[i].state = pods'[stream'[i].pod]
      <3>1. q \in Pods
        <4>1. stream' \in Seq(Events)
          BY NextType DEF TypeOK, ClusterOK
        <4>2. stream'[i] \in Events
          BY <4>1, ElementOfSeq, LenProperties
        <4> QED BY <1>1, <4>2 DEF Events
      <3>2. OutputRecorded(q)'
        BY <1>1, <2>2, <3>1, NextPodLabels
      <3> QED BY <3>2 DEF OutputRecorded, Recorded, ArtifactsOf
    <2> QED BY <2>1, <2>2, NextStream DEF StreamKept
  <1>2. ASSUME NEW i \in DOMAIN written', NEW q, q = written'[i].key
        PROVE  /\ pods'[q].outputs \/ pods'[q].completed
               /\ pods'[q].outputs => Recorded(q)'
    <2>1. q \in Pods
      BY <1>2, WrittenGrows
    <2>2. CASE \E j \in DOMAIN written : q = written[j].key
      <3>1. /\ pods[q].outputs \/ pods[q].completed
            /\ pods[q].outputs => Recorded(q)
        BY <2>2 DEF SkipsAreSafe
      <3> QED BY <1>0, <2>1, <3>1, PodsGrow
    <2>3. CASE pc = "written" /\ q = event.pod
      <3>1. /\ VersionOf(event.state, q) /\ Done(event)
            /\ event.state.outputs => OutputRecorded(q)
        BY <2>3 DEF LabelInv, HandTrue, ArtifactInHand
      <3>2. CASE event.state.outputs
        BY <1>0, <2>1, <3>1, <3>2, PodsGrow, OutputRecordedIs DEF VersionOf
      <3>3. CASE ~event.state.outputs
        BY <2>1, <3>1, <3>3, PodsGrow DEF VersionOf, Done
      <3> QED BY <3>2, <3>3
    <2> QED BY <1>2, <2>2, <2>3, WrittenGrows
  <1> QED BY <1>1, <1>2 DEF SkipsAreSafe, Recorded, ArtifactsOf

LEMMA NextOutputsCome ==
    ASSUME TypeOK, LabelInv, PodsInOrder, SkipsAreSafe, OutputsCome, [Next]_vars
    PROVE  OutputsCome'
  <1> SUFFICES ASSUME watching', NEW q \in Pods, pods'[q].outputs, ~Excused(q)', NEW n,
                      n = Len(stream') + 1
               PROVE  ComesBefore(q, n)'
    BY DEF OutputsCome, ComesBefore, OutputAt, Recorded, ArtifactsOf, OutputInHand, Excused
  <1>0. ~Excused(q) /\ UNCHANGED setup
    BY ExcusedStays DEF Next, vars
  <1>1. stream \in Seq(Events) /\ Len(stream) \in Nat /\ DOMAIN stream = 1..Len(stream)
    BY LenProperties DEF TypeOK, ClusterOK
  <1>2. watching /\ pods[q].outputs => ComesBefore(q, Len(stream) + 1)
    BY <1>0 DEF OutputsCome
  <1>3. CASE Interrupt
    BY <1>3 DEF Interrupt
  <1>4. CASE UNCHANGED cluster /\ ~Interrupt
    BY <1>2, <1>4, ComesBeforeStays DEF cluster
  <1>5. CASE Handle
    <2>1. UNCHANGED <<pods, watching>> /\ stream' = Tail(stream) /\ stream # <<>>
      BY <1>5 DEF Handle
    <2>2. Len(stream') = Len(stream) - 1 /\ n = Len(stream)
      BY <1>1, <2>1, HeadTailProperties
    <2> QED BY <1>0, <1>1, <1>2, <1>5, <2>1, <2>2, ComesBeforeHandled DEF Excused
  <1>6. CASE Watch
    <2>1. UNCHANGED pods
      BY <1>6 DEF Watch
    <2>2. pods[q].status = "here"
      <3>1. pods[q].status \in {"none", "here", "gone"}
        BY DEF TypeOK, ClusterOK, PodStates
      <3> QED BY <1>0, <2>1, <3>1 DEF PodsInOrder, Excused
    <2>3. PICK i \in DOMAIN stream' : stream'[i].pod = q /\ stream'[i].state = pods[q]
      BY <1>6, <2>2, ListingHasAll DEF TypeOK
    <2>4. i < n
      <3>1. stream' \in Seq(Events)
        BY <1>6, WatchStream DEF TypeOK
      <3> QED BY <3>1, LenProperties
    <2> QED BY <2>1, <2>3, <2>4 DEF ComesBefore, OutputAt
  <1>7. CASE PodChanges /\ ~Interrupt
    <2>1. PICK p \in Pods, new \in PodStates : Change(p, new)
      BY <1>7 DEF PodChanges
    <2>2. watching
      BY <2>1 DEF Change
    <2>3. /\ Len(stream') = Len(stream) + 1 /\ DOMAIN stream' = 1..(Len(stream) + 1)
          /\ \A j \in DOMAIN stream : stream'[j] = stream[j]
          /\ stream'[Len(stream) + 1].pod = p /\ stream'[Len(stream) + 1].state = new
          /\ pods'[q] = IF q = p THEN new ELSE pods[q]
      BY <2>1, <2>2, ChangeStream
    <2>4. CASE pods[q].outputs
      <3>1. ASSUME NEW m, m = Len(stream) + 1 PROVE ComesBefore(q, m)'
        <4>1. ComesBefore(q, m)
          BY <1>2, <2>2, <2>4, <3>1
        <4>2. \A j \in DOMAIN stream : j \in DOMAIN stream' /\ stream'[j] = stream[j]
          BY <1>1, <2>3
        <4> QED BY <1>7, <4>1, <4>2, ComesBeforeStays
      <3>2. ASSUME NEW m \in Nat, ComesBefore(q, m)', m < n PROVE ComesBefore(q, n)'
        <4>1. n \in Nat /\ DOMAIN stream' \subseteq Nat
          BY <1>1, <2>3
        <4> QED BY <3>2, <4>1 DEF ComesBefore
      <3> QED BY <1>1, <2>3, <3>1, <3>2
    <2>5. CASE ~pods[q].outputs
      <3>1. q = p /\ new.outputs
        BY <2>3, <2>5
      <3>2. Len(stream) + 1 \in DOMAIN stream' /\ Len(stream) + 1 < n
        BY <1>1, <2>3
      <3> QED BY <2>3, <3>1, <3>2 DEF ComesBefore, OutputAt
    <2> QED BY <2>4, <2>5
  <1> QED BY <1>3, <1>4, <1>5, <1>6, <1>7, ClusterChanges

LEMMA NextEventsInOrder ==
    ASSUME TypeOK, LabelInv, PodsInOrder, SkipsAreSafe, OutputsCome, EventsInOrder, [Next]_vars
    PROVE  EventsInOrder'
  <1> SUFFICES ASSUME NEW i \in DOMAIN stream', ~stream'[i].listed, NEW up,
                      up = Upstream[stream'[i].pod], ~Excused(up)'
               PROVE  ComesBefore(up, i)'
    BY DEF EventsInOrder, ComesBefore, OutputAt, Recorded, ArtifactsOf, OutputInHand, Excused
  <1>1. /\ stream \in Seq(Events) /\ Len(stream) \in Nat /\ DOMAIN stream = 1..Len(stream)
        /\ stream' \in Seq(Events) /\ Len(stream') \in Nat /\ DOMAIN stream' = 1..Len(stream')
    <2>1. stream \in Seq(Events) /\ stream' \in Seq(Events)
      BY NextType DEF TypeOK, ClusterOK
    <2> QED BY <2>1, LenProperties
  <1>2. up \in Pods \cup {NoPod}
    <2>1. stream'[i] \in Events
      BY <1>1, ElementOfSeq
    <2>2. stream'[i].pod \in Pods
      BY <2>1 DEF Events
    <2> QED BY <2>2, PodsAssumption
  <1>3. ~Excused(up)
    BY <1>2, ExcusedStays
  <1>4. \A j \in DOMAIN stream : ~stream[j].listed /\ Upstream[stream[j].pod] = up =>
                                     ComesBefore(up, j)
    BY <1>3 DEF EventsInOrder
  <1>5. CASE Interrupt
    BY <1>1, <1>5 DEF Interrupt
  <1>6. CASE UNCHANGED cluster /\ ~Interrupt
    BY <1>4, <1>6, ComesBeforeStays DEF cluster
  <1>7. CASE Handle
    <2>1. stream' = Tail(stream) /\ stream # <<>>
      BY <1>7 DEF Handle
    <2>2. i \in Nat /\ i + 1 \in DOMAIN stream /\ stream'[i] = stream[i + 1]
      BY <1>1, <2>1, StreamHead DEF TypeOK
    <2>3. ComesBefore(up, i + 1)
      BY <1>4, <2>2
    <2> QED BY <1>3, <1>7, <2>2, <2>3, ComesBeforeHandled DEF Excused
  <1>8. CASE Watch
    BY <1>8, ListingHasAll DEF TypeOK
  <1>9. CASE PodChanges /\ ~Interrupt
    <2>1. PICK p \in Pods, new \in PodStates :
             /\ Change(p, new)
             /\ pods[p].status = "none" /\ Upstream[p] # NoPod => pods[Upstream[p]].outputs
      BY <1>9 DEF PodChanges
    <2>2. CASE ~watching
      BY <1>4, <1>9, <2>1, <2>2, ComesBeforeStays DEF Change
    <2>3. CASE watching
      <3>1. /\ DOMAIN stream' = 1..(Len(stream) + 1)
            /\ \A j \in DOMAIN stream : stream'[j] = stream[j]
            /\ stream'[Len(stream) + 1].pod = p
        BY <2>1, <2>3, ChangeStream
      <3>2. \A j \in DOMAIN stream : j \in DOMAIN stream' /\ stream'[j] = stream[j]
        BY <1>1, <3>1
      <3>3. CASE i \in DOMAIN stream
        BY <1>4, <1>9, <3>2, <3>3, ComesBeforeStays
      <3>4. CASE i = Len(stream) + 1
        <4>1. up \in Pods /\ Upstream[p] = up /\ up # NoPod
          BY <1>2, <1>3, <3>1, <3>4 DEF Excused
        <4>2. pods[up].outputs
          BY <2>1, <4>1 DEF PodsInOrder
        <4>3. ComesBefore(up, i)
          BY <1>3, <2>3, <3>4, <4>1, <4>2 DEF OutputsCome
        <4> QED BY <1>9, <3>2, <4>3, ComesBeforeStays
      <3> QED BY <1>1, <3>1, <3>3, <3>4
    <2> QED BY <2>2, <2>3
  <1> QED BY <1>5, <1>6, <1>7, <1>8, <1>9, ClusterChanges

\* The places of the writer in front of the label of a new execution.
Making == {"context", "execution", "associate", "inputs"}

\* The writer makes an execution for the event it has read.
LEMMA MakingFrom ==
    ASSUME TypeOK, [Next]_vars, pc' \in Making
    PROVE  \/ pc \in Making /\ event' = event
           \/ Handle /\ pc = "idle" /\ pc' = "context" /\ 1 \in DOMAIN stream /\ event' = stream[1]
  <1> USE DEF Making
  <1>1. UNCHANGED setup
    BY DEF Next, vars
  <1>2. ASSUME NEW q \in Pods, PodStep(q) \/ Watch \/ UNCHANGED vars
        PROVE  pc \in Making /\ event' = event
    BY <1>2, ClusterSteps
  <1>3. CASE Handle
    BY <1>1, <1>3, HandleIs
  <1>4. CASE \/ GetOrCreateContext \/ PutExecution \/ Associate \/ LinkInput \/ PutArtifact
             \/ PutEvent \/ Attribute \/ LabelWritten \/ GiveUpWritten
    BY <1>4 DEF GetOrCreateContext, PutExecution, Associate, LinkInput, PutArtifact, PutEvent,
                Attribute, LabelWritten, GiveUpWritten, Goto
  <1>5. CASE LabelExecution \/ GiveUpLabel
    <2>1. pc' \in {"idle", "artifact", "written"}
      BY <1>5, AfterExecutionIs DEF LabelExecution, GiveUpLabel, RememberExecution, Goto
    <2> QED BY <2>1
  <1>6. CASE Raise \/ Restart
    BY <1>6 DEF Raise, Restart, Interrupt, Goto
  <1>7. CASE Watch \/ UNCHANGED vars
    BY <1>7 DEF Watch, vars
  <1> QED BY <1>2, <1>3, <1>4, <1>5, <1>6, <1>7 DEF Next, Step, PodStep

\* An execution keeps the event it was made from and its pod, and is linked once.
LEMMA ExecutionKept ==
    ASSUME TypeOK, [Next]_vars, NEW e \in DOMAIN executions
    PROVE  /\ e \in DOMAIN executions'
           /\ executions'[e].pod = executions[e].pod
           /\ executions'[e].listed = executions[e].listed
           /\ executions'[e].linked = executions[e].linked \/ (LinkInput /\ e = execution)
  <1>1. \A d \in DOMAIN executions : executions[d] \in ExecutionRecords
    BY StoreEntries
  <1>2. CASE UNCHANGED executions \/ PutExecution
    BY <1>2, ExecutionsChange DEF PutExecution, Associate, LinkInput
  <1>3. CASE Associate
    <2> DEFINE r == [executions[execution] EXCEPT !.context = {setup.workflow[event.pod]}]
    <2>1. executions' = [executions EXCEPT ![execution] = r]
      BY <1>3 DEF Associate
    <2>2. execution \in DOMAIN executions => /\ r.pod = executions[execution].pod
                                             /\ r.listed = executions[execution].listed
                                             /\ r.linked = executions[execution].linked
      BY <1>1 DEF ExecutionRecords
    <2> HIDE DEF r
    <2> QED BY <2>1, <2>2
  <1>4. CASE LinkInput
    <2> DEFINE r == [executions[execution] EXCEPT !.linked = Max(Matching)]
    <2>1. UNCHANGED executions \/ executions' = [executions EXCEPT ![execution] = r]
      BY <1>4 DEF LinkInput
    <2>2. execution \in DOMAIN executions => /\ r.pod = executions[execution].pod
                                             /\ r.listed = executions[execution].listed
      BY <1>1 DEF ExecutionRecords
    <2> HIDE DEF r
    <2> QED BY <1>4, <2>1, <2>2
  <1> QED BY <1>2, <1>3, <1>4, ExecutionsChange

\* An execution in hand stays there until it is linked or the writer is interrupted.
LEMMA LinkingSteps ==
    ASSUME TypeOK, [Next]_vars
    PROVE  /\ pc' \in {"associate", "inputs"} =>
                  \/ PutExecution
                  \/ /\ pc \in {"associate", "inputs"}
                     /\ execution' = execution /\ event' = event
           /\ pc \in {"associate", "inputs"} =>
                  \/ LinkInput \/ Interrupt
                  \/ pc' \in {"associate", "inputs"} /\ execution' = execution
  <1>1. UNCHANGED setup
    BY DEF Next, vars
  <1>2. CASE UNCHANGED <<pc, event, execution>>
    BY <1>2
  <1>3. ASSUME NEW q \in Pods, PodStep(q) \/ Watch \/ UNCHANGED vars
        PROVE  UNCHANGED <<pc, event, execution>>
    BY <1>3, ClusterSteps
  <1>4. CASE Watch \/ UNCHANGED vars
    BY <1>2, <1>4 DEF Watch, vars
  <1>5. CASE Handle
    BY <1>1, <1>5, HandleIs
  <1>6. CASE \/ GetOrCreateContext \/ PutExecution \/ Associate \/ LinkInput \/ PutArtifact
             \/ PutEvent \/ Attribute \/ LabelWritten \/ GiveUpWritten
    BY <1>6 DEF GetOrCreateContext, PutExecution, Associate, LinkInput, PutArtifact, PutEvent,
                Attribute, LabelWritten, GiveUpWritten, Goto
  <1>7. CASE LabelExecution \/ GiveUpLabel
    <2>1. pc = "label" /\ pc' \in {"idle", "artifact", "written"}
      BY <1>7, AfterExecutionIs DEF LabelExecution, GiveUpLabel, RememberExecution, Goto
    <2> QED BY <2>1
  <1>8. CASE Raise \/ Restart
    BY <1>8 DEF Raise, Restart, Interrupt, Goto
  <1> QED BY <1>2, <1>3, <1>4, <1>5, <1>6, <1>7, <1>8 DEF Next, Step, PodStep

LEMMA NextInputsInHand ==
    ASSUME TypeOK, LabelInv, EventsInOrder, InputsInHand, [Next]_vars
    PROVE  InputsInHand'
  <1>1. ASSUME pc' \in Making, ~event'.listed, NEW up, up = Upstream[event'.pod], ~Excused(up)'
        PROVE  Recorded(up)'
    <2>1. up \in Pods \cup {NoPod}
      <3>1. pc' # "idle"
        BY <1>1 DEF Making
      <3>2. event' \in Events
        BY <3>1, NextType DEF TypeOK, HandOK
      <3>3. event'.pod \in Pods
        BY <3>2 DEF Events
      <3> QED BY <1>1, <3>3, PodsAssumption
    <2>2. ~Excused(up)
      BY <1>1, <2>1, ExcusedStays
    <2>3. Recorded(up)
      <3>1. CASE pc \in Making /\ event' = event
        BY <1>1, <2>2, <3>1 DEF InputsInHand, Making
      <3>2. CASE pc = "idle" /\ 1 \in DOMAIN stream /\ event' = stream[1]
        <4>1. ComesBefore(up, 1)
          BY <1>1, <2>2, <3>2 DEF EventsInOrder
        <4>2. DOMAIN stream \subseteq Nat \ {0}
          BY LenProperties DEF TypeOK, ClusterOK
        <4>3. ~\E j \in DOMAIN stream : j < 1
          BY <4>2
        <4> QED BY <3>2, <4>1, <4>3 DEF ComesBefore, OutputInHand, ExecutionInHand
      <3> QED BY <1>1, <3>1, <3>2, MakingFrom
    <2> QED BY <2>3, RecordedStays
  <1>2. ASSUME pc' \in {"associate", "inputs"}
        PROVE  executions'[execution'].listed = event'.listed
    <2>1. CASE PutExecution
      <3> DEFINE r == [pod |-> event.pod, context |-> {}, linked |-> 0, listed |-> event.listed]
      <3>1. /\ executions' = Append(executions, r) /\ r.listed = event.listed
            /\ event' = event /\ execution' = Len(executions) + 1
        BY <2>1 DEF PutExecution, Goto
      <3> HIDE DEF r
      <3>2. executions'[execution'] = r
        BY <3>1, StoreEntries
      <3> QED BY <3>1, <3>2
    <2>2. CASE pc \in {"associate", "inputs"} /\ execution' = execution /\ event' = event
      <3>1. execution \in DOMAIN executions
        BY <2>2 DEF LabelInv, HandTrue, ExecutionsOf, ExecutionOf
      <3> QED BY <2>2, <3>1, ExecutionKept DEF InputsInHand
    <2> QED BY <1>2, <2>1, <2>2, LinkingSteps
  <1>3. (pc \in Making => event.listed \/ Excused(Upstream[event.pod])
                                      \/ Recorded(Upstream[event.pod]))'
    BY <1>1 DEF Making, Excused, Recorded, ArtifactsOf
  <1> QED BY <1>2, <1>3 DEF InputsInHand, Making

LEMMA NextLinked ==
    ASSUME TypeOK, LabelInv, InputsInHand, InputsAreLinked, [Next]_vars
    PROVE  InputsAreLinked'
  <1> SUFFICES ASSUME NEW e \in DOMAIN executions', NEW p, p = executions'[e].pod,
                      ~executions'[e].listed, ~Excused(Upstream[p])', ~(execFaults'[p] > 0),
                      ~(execution' = e /\ pc' \in {"associate", "inputs"})
               PROVE  executions'[e].linked \in ArtifactsOf(Upstream[p])'
    BY DEF InputsAreLinked, Excused, ArtifactsOf
  <1>1. e \in DOMAIN executions
    <2>1. CASE PutExecution
      <3> DEFINE r == [pod |-> event.pod, context |-> {}, linked |-> 0, listed |-> event.listed]
      <3>1. /\ executions' = Append(executions, r)
            /\ pc' = "associate" /\ execution' = Len(executions) + 1
        BY <2>1 DEF PutExecution, Goto
      <3> HIDE DEF r
      <3>2. DOMAIN executions' = 1..(Len(executions) + 1)
        BY <3>1, StoreEntries
      <3> QED BY <3>1, <3>2, StoreEntries
    <2>2. CASE ~PutExecution
      BY <2>2, StoreKept
    <2> QED BY <2>1, <2>2
  <1>2. /\ executions[e].pod = p /\ ~executions[e].listed
        /\ executions'[e].linked = executions[e].linked \/ (LinkInput /\ e = execution)
    BY <1>1, ExecutionKept
  <1>3. p \in Pods
    BY <1>1, <1>2, StoreEntries DEF ExecutionRecords
  <1>4. Upstream[p] \in Pods \cup {NoPod} /\ ~Excused(Upstream[p])
    BY <1>3, PodsAssumption, ExcusedStays
  <1>5. execFaults[p] \in Nat /\ execFaults'[p] = execFaults[p] /\ execFaults[p] = 0
    BY <1>3, FaultsGrow
  <1>6. \/ executions[e].linked \in ArtifactsOf(Upstream[p])
        \/ execution = e /\ pc \in {"associate", "inputs"}
    BY <1>1, <1>2, <1>4, <1>5 DEF InputsAreLinked, Excused
  <1>7. CASE LinkInput /\ e = execution
    <2>1. pc = "inputs" /\ UNCHANGED artifacts
      BY <1>7 DEF LinkInput
    <2>2. event.pod = p
      BY <1>2, <1>7, <2>1 DEF LabelInv, HandTrue, ExecutionOf
    <2>3. ~event.listed
      BY <1>2, <1>7, <2>1 DEF InputsInHand
    <2>4. Recorded(Upstream[p])
      BY <1>4, <2>1, <2>2, <2>3 DEF InputsInHand
    <2>5. Matching = ArtifactsOf(Upstream[p]) /\ Matching # {}
      BY <2>2, <2>4 DEF Matching, ArtifactsOf, Recorded
    <2>6. Max(Matching) \in Matching
      BY <2>5, MatchingMax, StoreEntries
    <2>7. executions'[e].linked = Max(Matching)
      <3> DEFINE r == [executions[execution] EXCEPT !.linked = Max(Matching)]
      <3>1. executions' = [executions EXCEPT ![execution] = r]
        BY <1>7, <2>5 DEF LinkInput
      <3>2. r.linked = Max(Matching)
        BY <1>1, <1>7, StoreEntries DEF ExecutionRecords
      <3> HIDE DEF r
      <3> QED BY <1>1, <1>7, <3>1, <3>2
    <2> QED BY <2>1, <2>5, <2>6, <2>7 DEF ArtifactsOf
  <1>8. CASE ~(LinkInput /\ e = execution) /\ executions[e].linked \in ArtifactsOf(Upstream[p])
    BY <1>2, <1>8, RecordedStays
  <1>9. CASE /\ ~(LinkInput /\ e = execution)
             /\ execution = e /\ pc \in {"associate", "inputs"}
    <2>1. event.pod = p
      BY <1>2, <1>9 DEF LabelInv, HandTrue, ExecutionOf, ExecutionsOf
    <2>2. Interrupt
      BY <1>9, LinkingSteps
    <2>3. execFaults'[p] = execFaults[p] + 1
      BY <1>3, <1>9, <2>1, <2>2, LoseOK DEF Interrupt, TypeOK, FaultsOK
    <2> QED BY <1>5, <2>3
  <1> QED BY <1>6, <1>7, <1>8, <1>9

-----------------------------------------------------------------------------
LEMMA InitLink == Init => LinkInv
  <1> SUFFICES ASSUME Init PROVE LinkInv
    OBVIOUS
  <1>1. \A p \in Pods : ~pods[p].outputs /\ ~pods[p].completed /\ pods[p].status = "none"
    BY DEF Init
  <1>2. stream = <<>> /\ written = <<>> /\ executions = <<>> /\ pc = "idle" /\ ~watching
    BY DEF Init
  <1> QED BY <1>1, <1>2 DEF LinkInv, PodsInOrder, SkipsAreSafe, OutputsCome, EventsInOrder,
                            InputsInHand, InputsAreLinked

LEMMA NextLink == TypeOK /\ LabelInv /\ LinkInv /\ [Next]_vars => LinkInv'
  BY NextPodsInOrder, NextSkips, NextOutputsCome, NextEventsInOrder, NextInputsInHand, NextLinked
  DEF LinkInv

(* An execution that the writer makes from an event of the watch is linked *)
(* to an artifact of the upstream pod, for any number of pods, however far *)
(* the writer is behind and however often it fails, unless it was          *)
(* interrupted between put_executions and the link or lost track of an     *)
(* execution of the pod: the watch sends the changes in their order, and   *)
(* every event, label or cache entry that has the writer pass over outputs *)
(* stands for outputs that are in MLMD.                                    *)
THEOREM InputsAreLinkedAlways == Spec => []InputsAreLinked
  <1>1. Init => TypeOK /\ LabelInv /\ LinkInv
    BY InitType, InitLabel, InitLink
  <1>2. TypeOK /\ LabelInv /\ LinkInv /\ [Next]_vars => (TypeOK /\ LabelInv /\ LinkInv)'
    BY NextType, NextLabel, NextLink
  <1>3. LinkInv => InputsAreLinked
    BY DEF LinkInv
  <1> QED BY <1>1, <1>2, <1>3, PTL DEF Spec

=============================================================================
