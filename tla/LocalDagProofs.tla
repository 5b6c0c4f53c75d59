--------------------------- MODULE LocalDagProofs ---------------------------
(***************************************************************************)
(* Proofs about LocalDag, for all pipelines, however deep their dags are   *)
(* nested and however many iterations their loops have, and for a pool of  *)
(* any size: no call is left behind, a task is begun only after its        *)
(* upstream, exit tasks run and are told the truth, and a pipeline that    *)
(* succeeds has no failed task in it.                                      *)
(***************************************************************************)
EXTENDS LocalDag, FiniteSetTheorems, SequenceTheorems, TLAPS

-----------------------------------------------------------------------------
(* What holds of a frame f of the pipeline pl by itself.                   *)

SpecsIn(pl, f) == pl[f.dag].tasks

Body(pl, f) == BodyTasks(SpecsIn(pl, f))

Exits(pl, f) == DOMAIN SpecsIn(pl, f) \ Body(pl, f)

TaskAt(f) == Head(IF f.todo # <<>> THEN f.todo ELSE f.exits)

SpecAt(pl, f) == SpecsIn(pl, f)[TaskAt(f)]

LoopAt(pl, f) == CHOOSE l \in SpecAt(pl, f).loop : TRUE

Modes == {"idle", "run", "call", "loop"}

Results == {"none", "success", "failure", "raised"}

Fields == {"dag", "args", "plain", "todo", "exits", "mode", "attempt", "pool", "got", "broke",
           "outs", "state", "told", "failed", "bodyFailed", "exitFailed", "result", "value"}

\* The tasks of the body that are over.
Done(pl, f) == Body(pl, f) \ ToSet(f.todo)

NoRepeat(s) == \A i, j \in DOMAIN s : s[i] = s[j] => i = j

FrameShape(pl, f) ==
    /\ DOMAIN f = Fields
    /\ f.dag \in DOMAIN pl
    /\ f.todo \in Seq(Body(pl, f)) /\ NoRepeat(f.todo)
    /\ f.exits \in Seq(Exits(pl, f)) /\ NoRepeat(f.exits)
    /\ f.mode \in Modes
    /\ f.result \in Results
    /\ f.attempt \in 0..(IF f.todo # <<>> \/ f.exits # <<>> THEN SpecAt(pl, f).retries ELSE 0)
    /\ f.mode # "idle" => f.result = "none" /\ (f.todo # <<>> \/ f.exits # <<>>)

\* The body runs in topological order, and a failure reaches every task downstream that
\* does not ignore it.
FrameOrder(pl, f) ==
    LET specs == SpecsIn(pl, f) IN
    /\ DependenciesFirst(specs, f.todo)
    /\ f.failed \subseteq Done(pl, f)
    /\ \A t \in Done(pl, f) :
           /\ specs[t].deps \cap ToSet(f.todo) = {}
           /\ ~specs[t].ignore /\ specs[t].deps \cap f.failed # {} => t \in f.failed
    /\ f.mode # "idle" /\ f.todo # <<>> =>
           SpecAt(pl, f).ignore \/ SpecAt(pl, f).deps \cap f.failed = {}

\* A task without a condition that is over has its status, unless it is a loop; an exit
\* task is told after the body, and none is passed over.
FrameExits(pl, f) ==
    LET specs == SpecsIn(pl, f) IN
    /\ \A t \in Done(pl, f) :
           specs[t].when = {} /\ specs[t].loop = {} =>
               t \in DOMAIN f.state /\ (f.state[t] = "FAILED" <=> t \in f.failed)
    /\ \A e \in Exits(pl, f) : e \in ToSet(f.exits) \/ e \in DOMAIN f.told
    /\ f.mode # "idle" /\ f.todo = <<>> => TaskAt(f) \in DOMAIN f.told
    /\ \A e \in Exits(pl, f) \cap DOMAIN f.told :
           /\ f.todo = <<>>
           /\ \/ f.told[e] = "FAILED" <=> specs[e].final \in f.failed
              \/ ~HasStatus(specs, specs[e].final)
    /\ f.result \in {"success", "failure"} /\ ~f.plain => f.todo = <<>> /\ f.exits = <<>>

\* Only a loop has a pool; what it has collected are some of its iterations.
FrameLoop(pl, f) ==
    /\ f.mode \in {"run", "call"} => SpecAt(pl, f).loop = {}
    /\ f.mode # "loop" => f.pool = <<>> /\ DOMAIN f.got = {} /\ ~f.broke
    /\ f.mode = "loop" =>
           /\ f.todo # <<>> /\ SpecAt(pl, f).loop # {}
           /\ f.pool \in Seq(1..LoopAt(pl, f).items) /\ NoRepeat(f.pool)
           /\ DOMAIN f.got \subseteq 1..LoopAt(pl, f).items

\* A frame that knows of a failure; it does not succeed.
Marked(f) == f.bodyFailed \/ f.exitFailed \/ f.result \in {"failure", "raised"}

FrameInv(pl, f) ==
    /\ FrameShape(pl, f) /\ FrameOrder(pl, f) /\ FrameExits(pl, f) /\ FrameLoop(pl, f)
    /\ f.result = "success" => ~Marked(f)

-----------------------------------------------------------------------------
(* How the frames hang together.                                           *)

TaskNames == UNION {UNION {DOMAIN pl[d].tasks : d \in DOMAIN pl} : pl \in Pipelines}

CallSteps == TaskNames \X Nat

Paths == Seq(CallSteps)

\* Below, fr is the function of all frames and fails the set of failed tasks.
FramesInv(pl, fr) == \A p \in DOMAIN fr : FrameInv(pl, fr[p])

\* With a frame there are the frames that lead to it.
TreeInv(fr) ==
    /\ <<>> \in DOMAIN fr
    /\ \A q \in DOMAIN fr :
           q \in Paths /\ \A n \in 0..Len(q) : SubSeq(q, 1, n) \in DOMAIN fr

\* The step c leads from the frame f to the task at which it is.
CalledBy(pl, f, c) ==
    /\ f.mode \in {"call", "loop"}
    /\ c[1] = TaskAt(f)
    /\ f.mode = "call" => c[2] = 0
    /\ f.mode = "loop" => c[2] \in 1..LoopAt(pl, f).items /\ c[2] \notin ToSet(f.pool)

\* The path of the i-th call of the task at hand of p.
CallOf(fr, p, i) == Append(p, <<TaskAt(fr[p]), i>>)

CallInv(pl, fr) ==
    \A q \in DOMAIN fr :
        /\ q # <<>> => CalledBy(pl, fr[Front(q)], Last(q))
        /\ fr[q].mode = "call" => CallOf(fr, q, 0) \in DOMAIN fr

LiveIn(pl, fr, p) ==
    {i \in 1..LoopAt(pl, fr[p]).items : CallOf(fr, p, i) \in DOMAIN fr /\ fr[CallOf(fr, p, i)].result = "none"}

WorkersAt(pl, f) == IF LoopAt(pl, f).limit \in 1..MaxWorkers THEN LoopAt(pl, f).limit ELSE MaxWorkers

\* What a loop has collected are the values of iterations that have succeeded, and no
\* more of them run than the pool has threads.
LoopInvAt(pl, fr, p) ==
    /\ \A i \in DOMAIN fr[p].got :
           CallOf(fr, p, i) \in DOMAIN fr /\ fr[CallOf(fr, p, i)].result = "success"
    /\ Cardinality(LiveIn(pl, fr, p)) <= WorkersAt(pl, fr[p])

LoopInv(pl, fr) == \A p \in DOMAIN fr : fr[p].mode = "loop" => LoopInvAt(pl, fr, p)

\* Of the frames that lead to a failed task one knows of it.
MarkInv(fr, fails) ==
    \A x \in fails :
        x \in Paths /\ \E n \in 0..(Len(x) - 1) :
            SubSeq(x, 1, n) \in DOMAIN fr /\ Marked(fr[SubSeq(x, 1, n)])

AllInv(pl, fr, fails) ==
    FramesInv(pl, fr) /\ TreeInv(fr) /\ CallInv(pl, fr) /\ LoopInv(pl, fr) /\ MarkInv(fr, fails)

DagInv == pipeline \in Pipelines /\ AllInv(pipeline, frames, failures)

-----------------------------------------------------------------------------
(* Sequences without repetition.                                           *)

\* The orders of a finite set have each of its elements once (topological_sort).
LEMMA OrderHasAll ==
    ASSUME NEW S, IsFiniteSet(S), NEW s \in SetToSeqs(S)
    PROVE  s \in Seq(S) /\ NoRepeat(s) /\ ToSet(s) = S
  <1> DEFINE D == 1..Cardinality(S)
  <1>1. Cardinality(S) \in Nat
    BY FS_CardinalityType
  <1>2. s \in [D -> S] /\ \A i, j \in D : i # j => s[i] # s[j]
    BY DEF SetToSeqs
  <1>3. s \in Injection(D, S)
    BY <1>2 DEF Injection, IsInjective
  <1>4. IsFiniteSet(D) /\ Cardinality(D) = Cardinality(S)
    BY <1>1, FS_Interval
  <1>5. s \in Surjection(D, S)
    BY <1>3, <1>4, FS_Injection
  <1>6. \A x \in S : \E i \in D : s[i] = x
    BY <1>5 DEF Surjection
  <1>7. s \in Seq(S) /\ DOMAIN s = D
    BY <1>1, <1>2
  <1>8. NoRepeat(s)
    BY <1>2, <1>7 DEF NoRepeat
  <1>9. ToSet(s) = S
    BY <1>2, <1>6, <1>7 DEF ToSet
  <1> QED BY <1>7, <1>8, <1>9

\* The head of such a sequence is not in its tail.
LEMMA QueueTail ==
    ASSUME NEW S, NEW s \in Seq(S), s # <<>>, NoRepeat(s)
    PROVE  /\ Head(s) \in ToSet(s) /\ Head(s) \in S
           /\ Tail(s) \in Seq(S) /\ NoRepeat(Tail(s))
           /\ ToSet(Tail(s)) = ToSet(s) \ {Head(s)}
  <1>1. /\ Head(s) = s[1] /\ Len(s) \in Nat \ {0} /\ DOMAIN s = 1..Len(s)
        /\ Tail(s) \in Seq(S) /\ Len(Tail(s)) = Len(s) - 1
        /\ DOMAIN Tail(s) = 1..(Len(s) - 1)
        /\ \A i \in 1..(Len(s) - 1) : Tail(s)[i] = s[i + 1]
        /\ Head(s) \in S
    BY EmptySeq, HeadTailProperties, LenProperties
  <1>2. NoRepeat(Tail(s))
    BY <1>1 DEF NoRepeat
  <1>3. ASSUME NEW x \in ToSet(Tail(s)) PROVE x \in ToSet(s) \ {Head(s)}
    <2>1. PICK i \in 1..(Len(s) - 1) : x = s[i + 1]
      BY <1>1, <1>3 DEF ToSet
    <2>2. i + 1 \in 1..Len(s) /\ 1 \in 1..Len(s) /\ i + 1 # 1
      BY <1>1, <2>1
    <2> QED BY <1>1, <2>1, <2>2 DEF ToSet, NoRepeat
  <1>4. ASSUME NEW x \in ToSet(s) \ {Head(s)} PROVE x \in ToSet(Tail(s))
    <2>1. PICK i \in 1..Len(s) : x = s[i]
      BY <1>1, <1>4 DEF ToSet
    <2>2. i # 1
      BY <1>1, <1>4, <2>1
    <2>3. i - 1 \in 1..(Len(s) - 1) /\ Tail(s)[i - 1] = s[(i - 1) + 1]
      BY <1>1, <2>1, <2>2
    <2>4. (i - 1) + 1 = i
      BY <2>1
    <2> QED BY <1>1, <2>1, <2>3, <2>4 DEF ToSet
  <1>5. Head(s) \in ToSet(s)
    BY <1>1 DEF ToSet
  <1> QED BY <1>1, <1>2, <1>3, <1>4, <1>5

\* What is left of a topological order is one, and what its head depends on is not left.
LEMMA OrderTail ==
    ASSUME NEW S, NEW specs, NEW s \in Seq(S), s # <<>>, DependenciesFirst(specs, s)
    PROVE  /\ DependenciesFirst(specs, Tail(s))
           /\ specs[Head(s)].deps \cap ToSet(s) = {}
  <1>1. /\ Head(s) = s[1] /\ Len(s) \in Nat \ {0} /\ DOMAIN s = 1..Len(s)
        /\ DOMAIN Tail(s) = 1..(Len(s) - 1)
        /\ \A i \in 1..(Len(s) - 1) : Tail(s)[i] = s[i + 1]
    BY EmptySeq, HeadTailProperties, LenProperties
  <1>2. DependenciesFirst(specs, Tail(s))
    <2> SUFFICES ASSUME NEW i \in 1..(Len(s) - 1), NEW j \in 1..(Len(s) - 1),
                        s[j + 1] \in specs[s[i + 1]].deps
                 PROVE  j < i
      BY <1>1 DEF DependenciesFirst
    <2>1. i + 1 \in DOMAIN s /\ j + 1 \in DOMAIN s
      BY <1>1
    <2>2. j + 1 < i + 1
      BY <2>1 DEF DependenciesFirst
    <2> QED BY <2>2
  <1>3. ASSUME NEW x \in specs[Head(s)].deps \cap ToSet(s) PROVE FALSE
    <2>1. PICK j \in 1..Len(s) : x = s[j]
      BY <1>1, <1>3 DEF ToSet
    <2>2. 1 \in DOMAIN s /\ s[j] \in specs[s[1]].deps
      BY <1>1, <1>3, <2>1
    <2>3. j < 1
      BY <1>1, <2>2 DEF DependenciesFirst
    <2> QED BY <2>3
  <1> QED BY <1>2, <1>3

-----------------------------------------------------------------------------
(* The frame of a new call.                                                *)

LEMMA SpecType ==
    ASSUME NEW pl \in Pipelines, NEW d \in DOMAIN pl
    PROVE  /\ IsFiniteSet(DOMAIN pl[d].tasks)
           /\ \A t \in DOMAIN pl[d].tasks : IsTaskSpec(pl, pl[d].tasks, pl[d].tasks[t])
  BY PipelinesAssumption

IsNew(f, dag, todo, exits) ==
    /\ DOMAIN f = Fields
    /\ f.dag = dag /\ f.todo = todo /\ f.exits = exits
    /\ f.mode = "idle" /\ f.attempt = 0 /\ f.pool = <<>> /\ f.got = <<>>
    /\ ~f.broke /\ f.state = <<>> /\ f.told = <<>> /\ f.failed = {}
    /\ ~f.bodyFailed /\ ~f.exitFailed /\ f.result = "none"

LEMMA NewFrameFields ==
    ASSUME NEW dag, NEW args, NEW todo, NEW exits, NEW f,
           f = NewFrame(dag, args, todo, exits)
           \/ f = [NewFrame(dag, args, todo, exits) EXCEPT !.plain = TRUE]
    PROVE  IsNew(f, dag, todo, exits)
  BY DEF NewFrame, Fields, IsNew

\* A call begins with its invariant (run_enhanced_dag, run_dag).
LEMMA NewFrameInv ==
    ASSUME NEW pl \in Pipelines, NEW d \in DOMAIN pl,
           NEW todo \in TopologicalSort(pl[d].tasks, BodyTasks(pl[d].tasks)),
           NEW exits \in SetToSeqs(DOMAIN pl[d].tasks \ BodyTasks(pl[d].tasks)),
           NEW f, IsNew(f, d, todo, exits)
    PROVE  FrameInv(pl, f)
  <1> DEFINE specs == pl[d].tasks
             B == BodyTasks(specs)
             E == DOMAIN specs \ B
  <1>1. IsFiniteSet(B) /\ IsFiniteSet(E)
    BY SpecType, FS_Subset DEF BodyTasks
  <1>2. /\ todo \in Seq(B) /\ NoRepeat(todo) /\ ToSet(todo) = B
        /\ DependenciesFirst(specs, todo)
    BY <1>1, OrderHasAll DEF TopologicalSort
  <1>3. exits \in Seq(E) /\ NoRepeat(exits) /\ ToSet(exits) = E
    BY <1>1, OrderHasAll
  <1>4. /\ DOMAIN f = Fields
        /\ f.dag = d /\ f.todo = todo /\ f.exits = exits
        /\ f.mode = "idle" /\ f.attempt = 0 /\ f.pool = <<>> /\ f.got = <<>>
        /\ ~f.broke /\ f.state = <<>> /\ f.told = <<>> /\ f.failed = {}
        /\ ~f.bodyFailed /\ ~f.exitFailed /\ f.result = "none"
    BY DEF IsNew
  <1>5. SpecsIn(pl, f) = specs /\ Body(pl, f) = B /\ Exits(pl, f) = E /\ Done(pl, f) = {}
    BY <1>2, <1>4 DEF SpecsIn, Body, Exits, Done
  <1>6. todo # <<>> \/ exits # <<>> => TaskAt(f) \in DOMAIN specs
    <2>1. todo # <<>> => Head(todo) \in B
      BY <1>2, HeadTailProperties
    <2>2. exits # <<>> => Head(exits) \in E
      BY <1>3, HeadTailProperties
    <2> QED BY <1>4, <2>1, <2>2 DEF TaskAt, BodyTasks
  <1>7. 0 \in 0..(IF todo # <<>> \/ exits # <<>> THEN SpecAt(pl, f).retries ELSE 0)
    <2>1. todo # <<>> \/ exits # <<>> => SpecAt(pl, f).retries \in Nat
      BY <1>5, <1>6, SpecType DEF SpecAt, IsTaskSpec
    <2> QED BY <2>1
  <1>8. FrameShape(pl, f)
    BY <1>2, <1>3, <1>4, <1>5, <1>7 DEF FrameShape, Modes, Results
  <1>9. FrameOrder(pl, f)
    BY <1>2, <1>4, <1>5 DEF FrameOrder
  <1>10. FrameExits(pl, f)
    BY <1>3, <1>4, <1>5 DEF FrameExits
  <1>11. FrameLoop(pl, f)
    BY <1>4 DEF FrameLoop
  <1> QED BY <1>4, <1>8, <1>9, <1>10, <1>11 DEF FrameInv

LEMMA StartsInv ==
    ASSUME NEW pl \in Pipelines, NEW d \in DOMAIN pl, NEW args, NEW f \in Starts(pl, d, args)
    PROVE  FrameInv(pl, f) /\ f.mode = "idle" /\ f.result = "none"
  <1>1. PICK todo \in TopologicalSort(pl[d].tasks, BodyTasks(pl[d].tasks)),
             exits \in SetToSeqs(DOMAIN pl[d].tasks \ BodyTasks(pl[d].tasks)) :
                 f = NewFrame(d, args, todo, exits)
    BY DEF Starts
  <1>2. IsNew(f, d, todo, exits)
    BY <1>1, NewFrameFields
  <1>3. FrameInv(pl, f)
    BY <1>2, NewFrameInv
  <1> QED BY <1>2, <1>3 DEF IsNew

\* A pipeline without control flow has no exit tasks (run_local_pipeline).
LEMMA PlainStartsInv ==
    ASSUME NEW pl \in Pipelines, ~Enhanced(pl), NEW f \in PlainStarts(pl)
    PROVE  FrameInv(pl, f) /\ f.mode = "idle" /\ f.result = "none"
  <1> DEFINE specs == pl["root"].tasks
  <1>1. "root" \in DOMAIN pl
    BY PipelinesAssumption
  <1>2. BodyTasks(specs) = DOMAIN specs
    BY DEF Enhanced, BodyTasks, IsExit
  <1>3. PICK todo \in TopologicalSort(specs, DOMAIN specs) :
            f = [NewFrame("root", <<>>, todo, <<>>) EXCEPT !.plain = TRUE]
    BY DEF PlainStarts
  <1>4. <<>> \in SetToSeqs(DOMAIN specs \ BodyTasks(specs))
    <2>1. DOMAIN specs \ BodyTasks(specs) = {}
      BY <1>2
    <2>2. <<>> \in [1..0 -> {}]
      OBVIOUS
    <2> QED BY <2>1, <2>2, FS_EmptySet DEF SetToSeqs
  <1>5. IsNew(f, "root", todo, <<>>)
    BY <1>3, NewFrameFields
  <1>6. FrameInv(pl, f)
    BY <1>1, <1>2, <1>4, <1>5, NewFrameInv
  <1> QED BY <1>5, <1>6 DEF IsNew

-----------------------------------------------------------------------------
(* The end of a task.                                                      *)

\* The task at hand is one of the dag's, and no task is at hand twice.
LEMMA TaskType ==
    ASSUME NEW pl \in Pipelines, NEW f, FrameShape(pl, f), f.todo # <<>> \/ f.exits # <<>>
    PROVE  /\ TaskAt(f) \in DOMAIN SpecsIn(pl, f)
           /\ IsTaskSpec(pl, SpecsIn(pl, f), SpecAt(pl, f))
           /\ f.todo # <<>> => TaskAt(f) = Head(f.todo) /\ TaskAt(f) \in Body(pl, f)
           /\ f.todo = <<>> => TaskAt(f) = Head(f.exits) /\ TaskAt(f) \in Exits(pl, f)
  <1>1. f.todo # <<>> => TaskAt(f) = Head(f.todo) /\ TaskAt(f) \in Body(pl, f)
    BY HeadTailProperties DEF TaskAt, FrameShape
  <1>2. f.todo = <<>> => TaskAt(f) = Head(f.exits) /\ TaskAt(f) \in Exits(pl, f)
    BY HeadTailProperties DEF TaskAt, FrameShape
  <1>3. TaskAt(f) \in DOMAIN SpecsIn(pl, f)
    BY <1>1, <1>2 DEF Body, Exits, BodyTasks
  <1> QED BY <1>1, <1>2, <1>3, SpecType DEF FrameShape, SpecAt, SpecsIn

\* A frame whose task is over keeps none of it.
IsPopped(pl, f, g) ==
    /\ DOMAIN g = Fields /\ g.dag = f.dag
    /\ g.mode = "idle" /\ g.attempt = 0 /\ g.pool = <<>> /\ DOMAIN g.got = {} /\ ~g.broke
    /\ g.result = "none"

LEMMA PoppedShape ==
    ASSUME NEW pl \in Pipelines, NEW f, NEW g, FrameShape(pl, f), IsPopped(pl, f, g),
           g.todo \in Seq(Body(pl, f)), NoRepeat(g.todo),
           g.exits \in Seq(Exits(pl, f)), NoRepeat(g.exits)
    PROVE  /\ FrameShape(pl, g)
           /\ SpecsIn(pl, g) = SpecsIn(pl, f)
           /\ Body(pl, g) = Body(pl, f) /\ Exits(pl, g) = Exits(pl, f)
  <1>1. SpecsIn(pl, g) = SpecsIn(pl, f)
    BY DEF SpecsIn, IsPopped
  <1>2. Body(pl, g) = Body(pl, f) /\ Exits(pl, g) = Exits(pl, f)
    BY <1>1 DEF Body, Exits
  <1>3. ASSUME g.todo # <<>> \/ g.exits # <<>> PROVE SpecAt(pl, g).retries \in Nat
    <2>1. TaskAt(g) \in DOMAIN SpecsIn(pl, f)
      BY <1>3, HeadTailProperties DEF TaskAt, Body, Exits, BodyTasks
    <2> QED BY <2>1, <1>1, SpecType DEF SpecAt, SpecsIn, FrameShape, IsTaskSpec
  <1>4. 0 \in 0..(IF g.todo # <<>> \/ g.exits # <<>> THEN SpecAt(pl, g).retries ELSE 0)
    BY <1>3
  <1> QED BY <1>1, <1>2, <1>4 DEF FrameShape, IsPopped, Modes, Results

\* A task t of the body is over.  It has failed, or none of those it waits for has.
LEMMA BodyTaskOver ==
    ASSUME NEW pl \in Pipelines, NEW f, NEW g, FrameInv(pl, f), IsPopped(pl, f, g),
           f.todo # <<>>, g.todo = Tail(f.todo), g.exits = f.exits,
           g.failed = f.failed \/ g.failed = f.failed \cup {TaskAt(f)},
           TaskAt(f) \notin g.failed =>
               SpecAt(pl, f).ignore \/ SpecAt(pl, f).deps \cap f.failed = {},
           SpecAt(pl, f).when = {} /\ SpecAt(pl, f).loop = {} =>
               /\ TaskAt(f) \in DOMAIN g.state
               /\ g.state[TaskAt(f)] = "FAILED" <=> TaskAt(f) \in g.failed,
           \A u \in DOMAIN f.state : u # TaskAt(f) => u \in DOMAIN g.state /\ g.state[u] = f.state[u],
           \A e \in Exits(pl, f) : e \in DOMAIN g.told <=> e \in DOMAIN f.told
    PROVE  FrameInv(pl, g)
  <1> DEFINE t == TaskAt(f)
             specs == SpecsIn(pl, f)
  <1>1. FrameShape(pl, f) /\ FrameOrder(pl, f) /\ FrameExits(pl, f) /\ FrameLoop(pl, f)
    BY DEF FrameInv
  <1>2. t = Head(f.todo) /\ t \in Body(pl, f)
    BY <1>1, TaskType
  <1>3. /\ g.todo \in Seq(Body(pl, f)) /\ NoRepeat(g.todo)
        /\ ToSet(g.todo) = ToSet(f.todo) \ {t} /\ t \in ToSet(f.todo)
    BY <1>1, <1>2, QueueTail DEF FrameShape
  <1>4. DependenciesFirst(specs, g.todo) /\ specs[t].deps \cap ToSet(f.todo) = {}
    BY <1>1, <1>2, OrderTail DEF FrameShape, FrameOrder
  <1>5. /\ FrameShape(pl, g)
        /\ SpecsIn(pl, g) = specs
        /\ Body(pl, g) = Body(pl, f) /\ Exits(pl, g) = Exits(pl, f)
    BY <1>1, <1>3, PoppedShape DEF FrameShape
  <1>6. Done(pl, g) = Done(pl, f) \cup {t} /\ t \notin Done(pl, f)
    BY <1>2, <1>3, <1>5 DEF Done
  <1>7. SpecAt(pl, f) = specs[t]
    BY DEF SpecAt
  <1>8. f.failed \subseteq Done(pl, f) /\ t \notin f.failed
    BY <1>1, <1>6 DEF FrameOrder
  <1>9. FrameOrder(pl, g)
    <2>1. ASSUME NEW u \in Done(pl, g) PROVE specs[u].deps \cap ToSet(g.todo) = {}
      BY <1>1, <1>3, <1>4, <1>6 DEF FrameOrder
    <2>2. ASSUME NEW u \in Done(pl, g), ~specs[u].ignore, specs[u].deps \cap g.failed # {}
          PROVE  u \in g.failed
      <3>1. CASE u = t
        <4>1. t \notin specs[t].deps
          BY <1>3, <1>4
        <4> QED BY <3>1, <4>1, <2>2, <1>7
      <3>2. CASE u # t
        <4>1. u \in Done(pl, f)
          BY <1>6, <3>2
        <4>2. t \notin specs[u].deps
          BY <1>1, <1>3, <4>1 DEF FrameOrder
        <4>3. specs[u].deps \cap f.failed # {}
          BY <2>2, <4>2
        <4> QED BY <1>1, <4>1, <4>3, <2>2 DEF FrameOrder
      <3> QED BY <3>1, <3>2
    <2>3. g.failed \subseteq Done(pl, g)
      BY <1>6, <1>8
    <2> QED BY <1>4, <1>5, <2>1, <2>2, <2>3 DEF FrameOrder, IsPopped
  <1>10. FrameExits(pl, g)
    <2>1. ASSUME NEW u \in Done(pl, g), specs[u].when = {}, specs[u].loop = {}
          PROVE  u \in DOMAIN g.state /\ (g.state[u] = "FAILED" <=> u \in g.failed)
      <3>1. CASE u = t
        BY <1>7, <2>1, <3>1
      <3>2. CASE u # t
        <4>1. u \in Done(pl, f)
          BY <1>6, <3>2
        <4>2. u \in DOMAIN f.state /\ (f.state[u] = "FAILED" <=> u \in f.failed)
          BY <1>1, <4>1, <2>1 DEF FrameExits
        <4>3. u \in g.failed <=> u \in f.failed
          BY <3>2
        <4> QED BY <3>2, <4>2, <4>3
      <3> QED BY <3>1, <3>2
    <2>2. \A e \in Exits(pl, f) : e \in ToSet(g.exits) \/ e \in DOMAIN g.told
      BY <1>1 DEF FrameExits
    <2>3. \A e \in Exits(pl, f) : e \notin DOMAIN g.told
      BY <1>1 DEF FrameExits
    <2> QED BY <1>5, <2>1, <2>2, <2>3 DEF FrameExits, IsPopped
  <1>11. FrameLoop(pl, g)
    BY DEF FrameLoop, IsPopped
  <1> QED BY <1>5, <1>9, <1>10, <1>11 DEF FrameInv, IsPopped

\* An exit task is over, and has been told.
LEMMA ExitTaskOver ==
    ASSUME NEW pl \in Pipelines, NEW f, NEW g, FrameInv(pl, f), IsPopped(pl, f, g),
           f.todo = <<>>, f.exits # <<>>, g.todo = f.todo, g.exits = Tail(f.exits),
           g.failed = f.failed,
           \A u \in DOMAIN f.state : u # TaskAt(f) => u \in DOMAIN g.state /\ g.state[u] = f.state[u],
           TaskAt(f) \in DOMAIN g.told,
           \A e \in DOMAIN f.told : e \in DOMAIN g.told,
           \A e \in Exits(pl, f) \cap DOMAIN g.told :
               \/ g.told[e] = "FAILED" <=> SpecsIn(pl, f)[e].final \in f.failed
               \/ ~HasStatus(SpecsIn(pl, f), SpecsIn(pl, f)[e].final)
    PROVE  FrameInv(pl, g)
  <1> DEFINE t == TaskAt(f)
             specs == SpecsIn(pl, f)
  <1>1. FrameShape(pl, f) /\ FrameOrder(pl, f) /\ FrameExits(pl, f) /\ FrameLoop(pl, f)
    BY DEF FrameInv
  <1>2. t = Head(f.exits) /\ t \in Exits(pl, f)
    BY <1>1, TaskType
  <1>3. /\ g.exits \in Seq(Exits(pl, f)) /\ NoRepeat(g.exits)
        /\ ToSet(g.exits) = ToSet(f.exits) \ {t}
    BY <1>1, <1>2, QueueTail DEF FrameShape
  <1>4. /\ FrameShape(pl, g)
        /\ SpecsIn(pl, g) = specs
        /\ Body(pl, g) = Body(pl, f) /\ Exits(pl, g) = Exits(pl, f)
    BY <1>1, <1>3, PoppedShape DEF FrameShape
  <1>5. Done(pl, g) = Done(pl, f)
    BY <1>4 DEF Done
  <1>6. FrameOrder(pl, g)
    BY <1>1, <1>4, <1>5 DEF FrameOrder, IsPopped
  <1>7. FrameExits(pl, g)
    <2>1. ASSUME NEW u \in Done(pl, g), specs[u].when = {}, specs[u].loop = {}
          PROVE  u \in DOMAIN g.state /\ (g.state[u] = "FAILED" <=> u \in g.failed)
      <3>1. u \in DOMAIN f.state /\ (f.state[u] = "FAILED" <=> u \in f.failed)
        BY <1>1, <1>5, <2>1 DEF FrameExits
      <3>2. u # t
        BY <1>2, <1>5 DEF Done, Exits
      <3> QED BY <3>1, <3>2
    <2>2. \A e \in Exits(pl, f) : e \in ToSet(g.exits) \/ e \in DOMAIN g.told
      BY <1>1, <1>3 DEF FrameExits
    <2> QED BY <1>4, <2>1, <2>2 DEF FrameExits, IsPopped
  <1>8. FrameLoop(pl, g)
    BY DEF FrameLoop, IsPopped
  <1> QED BY <1>4, <1>6, <1>7, <1>8 DEF FrameInv, IsPopped

-----------------------------------------------------------------------------
(* The operations on frames keep the invariant.                            *)

\* What is common to the frames that Pop, SucceedTask and FailTask make.
IsOver(f, g) ==
    /\ DOMAIN g = Fields /\ g.dag = f.dag
    /\ g.mode = "idle" /\ g.attempt = 0 /\ g.pool = <<>> /\ g.got = <<>> /\ ~g.broke
    /\ g.result = f.result /\ g.told = f.told
    /\ g.todo = IF f.todo # <<>> THEN Tail(f.todo) ELSE f.todo
    /\ g.exits = IF f.todo # <<>> THEN f.exits ELSE Tail(f.exits)

LEMMA PopFields ==
    ASSUME NEW f, DOMAIN f = Fields, NEW g, g = Pop(f)
    PROVE  /\ IsOver(f, g)
           /\ g.state = f.state /\ g.failed = f.failed
           /\ g.bodyFailed <=> f.bodyFailed
           /\ g.exitFailed <=> f.exitFailed
  BY DEF Fields, Pop, IsOver

LEMMA SucceedFields ==
    ASSUME NEW f, DOMAIN f = Fields, NEW t, NEW v, NEW g, g = SucceedTask(f, t, v)
    PROVE  /\ IsOver(f, g)
           /\ g.state = Put(f.state, t, "SUCCEEDED") /\ g.failed = f.failed
           /\ g.bodyFailed <=> f.bodyFailed
           /\ g.exitFailed <=> f.exitFailed
  <1>1. PICK h : h = Pop(f)
    OBVIOUS
  <1>2. /\ IsOver(f, h)
        /\ h.state = f.state /\ h.failed = f.failed
        /\ h.bodyFailed <=> f.bodyFailed
        /\ h.exitFailed <=> f.exitFailed
    BY <1>1, PopFields
  <1>3. PICK o, s : g = [h EXCEPT !.outs = o, !.state = s] /\ s = Put(h.state, t, "SUCCEEDED")
    BY <1>1, <1>2 DEF SucceedTask, IsOver, Fields
  <1> QED BY <1>2, <1>3 DEF IsOver, Fields

LEMMA FailFields ==
    ASSUME NEW f, DOMAIN f = Fields, NEW t, NEW g, g = FailTask(f, t), ~f.plain
    PROVE  /\ IsOver(f, g)
           /\ g.state = Put(f.state, t, "FAILED")
           /\ g.failed = IF f.todo # <<>> THEN f.failed \cup {t} ELSE f.failed
           /\ g.bodyFailed \/ g.exitFailed
  <1>1. PICK h : h = Pop(f)
    OBVIOUS
  <1>2. /\ IsOver(f, h)
        /\ h.state = f.state /\ h.failed = f.failed
    BY <1>1, PopFields
  <1>3. g = [h EXCEPT !.state = Put(@, t, "FAILED"),
                      !.failed = IF f.todo # <<>> THEN @ \cup {t} ELSE @,
                      !.bodyFailed = @ \/ f.todo # <<>>, !.exitFailed = @ \/ f.todo = <<>>]
    BY <1>1 DEF FailTask
  <1>4. /\ IsOver(f, g)
        /\ g.state = Put(f.state, t, "FAILED")
        /\ g.failed = IF f.todo # <<>> THEN f.failed \cup {t} ELSE f.failed
    BY <1>2, <1>3 DEF IsOver, Fields
  <1>5. g.bodyFailed \/ g.exitFailed
    <2>1. CASE f.todo = <<>>
      BY <1>2, <1>3, <2>1 DEF IsOver, Fields
    <2>2. CASE f.todo # <<>>
      BY <1>2, <1>3, <2>2 DEF IsOver, Fields
    <2> QED BY <2>1, <2>2
  <1> QED BY <1>4, <1>5

\* The task at hand may be begun: what it waits for has not failed, and if it is an exit
\* task it has been told.
MayEnd(pl, f) ==
    /\ f.result = "none"
    /\ f.todo # <<>> \/ f.exits # <<>>
    /\ f.todo # <<>> => SpecAt(pl, f).ignore \/ SpecAt(pl, f).deps \cap f.failed = {}
    /\ f.todo = <<>> => TaskAt(f) \in DOMAIN f.told

LEMMA AtWorkMayEnd ==
    ASSUME NEW pl \in Pipelines, NEW f, FrameInv(pl, f), f.mode # "idle"
    PROVE  MayEnd(pl, f)
  BY DEF FrameInv, FrameShape, FrameOrder, FrameExits, MayEnd

LEMMA SucceedInv ==
    ASSUME NEW pl \in Pipelines, NEW f, FrameInv(pl, f), MayEnd(pl, f),
           NEW v, NEW g, g = SucceedTask(f, TaskAt(f), v)
    PROVE  FrameInv(pl, g) /\ g.mode = "idle" /\ g.result = "none" /\ (Marked(f) => Marked(g))
  <1> DEFINE t == TaskAt(f)
  <1>1. FrameShape(pl, f) /\ FrameOrder(pl, f) /\ FrameExits(pl, f)
    BY DEF FrameInv
  <1>2. /\ IsOver(f, g)
        /\ g.state = Put(f.state, t, "SUCCEEDED") /\ g.failed = f.failed
        /\ g.bodyFailed <=> f.bodyFailed
        /\ g.exitFailed <=> f.exitFailed
    BY <1>1, SucceedFields DEF FrameShape
  <1>3. /\ DOMAIN g.state = DOMAIN f.state \cup {t} /\ g.state[t] = "SUCCEEDED"
        /\ \A u \in DOMAIN f.state : u # t => g.state[u] = f.state[u]
    BY <1>2 DEF Put
  <1>4. IsPopped(pl, f, g)
    BY <1>2 DEF IsOver, IsPopped, MayEnd
  <1>5. CASE f.todo # <<>>
    <2>1. t \notin g.failed
      BY <1>1, <1>2, <1>5, TaskType, QueueTail DEF FrameOrder, Done, FrameShape
    <2>2. FrameInv(pl, g)
      BY <1>2, <1>3, <1>4, <1>5, <2>1, BodyTaskOver DEF IsOver, MayEnd
    <2> QED BY <1>2, <1>4, <2>2 DEF IsPopped, Marked, MayEnd
  <1>6. CASE f.todo = <<>>
    <2>1. FrameInv(pl, g)
      BY <1>1, <1>2, <1>3, <1>4, <1>6, ExitTaskOver DEF IsOver, MayEnd, FrameExits
    <2> QED BY <1>2, <1>4, <2>1 DEF IsPopped, Marked, MayEnd
  <1> QED BY <1>5, <1>6

\* A failed task, also one that is skipped for a failure upstream, marks the frame.
LEMMA FailInv ==
    ASSUME NEW pl \in Pipelines, NEW f, FrameInv(pl, f),
           f.result = "none", f.todo # <<>> \/ f.exits # <<>>,
           f.todo = <<>> => TaskAt(f) \in DOMAIN f.told,
           f.mode # "loop",
           NEW g, g = FailTask(f, TaskAt(f))
    PROVE  FrameInv(pl, g) /\ g.mode = "idle" /\ Marked(g)
  <1> DEFINE t == TaskAt(f)
  <1>1. FrameShape(pl, f) /\ FrameOrder(pl, f) /\ FrameExits(pl, f) /\ FrameLoop(pl, f)
    BY DEF FrameInv
  <1>2. CASE f.plain
    <2>1. g = [f EXCEPT !.result = "failure", !.mode = "idle"]
      BY <1>2 DEF FailTask
    <2>2. /\ DOMAIN g = Fields /\ g.mode = "idle" /\ g.result = "failure" /\ g.plain
          /\ g.dag = f.dag /\ g.todo = f.todo /\ g.exits = f.exits /\ g.attempt = f.attempt
          /\ g.pool = f.pool /\ g.got = f.got /\ g.state = f.state /\ g.told = f.told
          /\ g.failed = f.failed
          /\ g.broke <=> f.broke
      BY <1>1, <1>2, <2>1 DEF FrameShape, Fields
    <2>3. /\ SpecsIn(pl, g) = SpecsIn(pl, f) /\ TaskAt(g) = TaskAt(f)
      BY <2>2 DEF SpecsIn, TaskAt
    <2>4. /\ Body(pl, g) = Body(pl, f) /\ Exits(pl, g) = Exits(pl, f) /\ Done(pl, g) = Done(pl, f)
          /\ SpecAt(pl, g) = SpecAt(pl, f)
      BY <2>2, <2>3 DEF Body, Exits, Done, SpecAt
    <2>5. FrameShape(pl, g)
      <3>1. /\ f.attempt \in 0..(IF f.todo # <<>> \/ f.exits # <<>> THEN SpecAt(pl, f).retries ELSE 0)
            /\ f.dag \in DOMAIN pl
        BY <1>1 DEF FrameShape
      <3>2. /\ f.todo \in Seq(Body(pl, f)) /\ NoRepeat(f.todo)
            /\ f.exits \in Seq(Exits(pl, f)) /\ NoRepeat(f.exits)
        BY <1>1 DEF FrameShape
      <3> QED BY <2>2, <2>3, <2>4, <3>1, <3>2 DEF FrameShape, Results, Modes
    <2>6. FrameOrder(pl, g)
      BY <1>1, <2>2, <2>3, <2>4 DEF FrameOrder
    <2>7. FrameExits(pl, g)
      BY <1>1, <2>2, <2>3, <2>4 DEF FrameExits
    <2>8. FrameLoop(pl, g)
      BY <1>1, <2>2 DEF FrameLoop
    <2> QED BY <2>2, <2>5, <2>6, <2>7, <2>8 DEF FrameInv, Marked
  <1>3. CASE ~f.plain
    <2>1. /\ IsOver(f, g)
          /\ g.state = Put(f.state, t, "FAILED")
          /\ g.failed = IF f.todo # <<>> THEN f.failed \cup {t} ELSE f.failed
          /\ g.bodyFailed \/ g.exitFailed
      BY <1>1, <1>3, FailFields DEF FrameShape
    <2>2. /\ DOMAIN g.state = DOMAIN f.state \cup {t} /\ g.state[t] = "FAILED"
          /\ \A u \in DOMAIN f.state : u # t => g.state[u] = f.state[u]
      BY <2>1 DEF Put
    <2>3. IsPopped(pl, f, g)
      BY <2>1 DEF IsOver, IsPopped
    <2>4. CASE f.todo # <<>>
      <3>1. FrameInv(pl, g)
        BY <2>1, <2>2, <2>3, <2>4, BodyTaskOver DEF IsOver
      <3> QED BY <2>1, <2>3, <3>1 DEF IsPopped, Marked
    <2>5. CASE f.todo = <<>>
      <3>1. FrameInv(pl, g)
        BY <1>1, <2>1, <2>2, <2>3, <2>5, ExitTaskOver DEF IsOver, FrameExits
      <3> QED BY <2>1, <2>3, <3>1 DEF IsPopped, Marked
    <2> QED BY <2>4, <2>5
  <1> QED BY <1>2, <1>3

\* A step that leaves the tasks and what is known of them alone.
SameTasks(f, g) ==
    /\ DOMAIN g = Fields
    /\ g.dag = f.dag /\ g.todo = f.todo /\ g.exits = f.exits
    /\ g.state = f.state /\ g.failed = f.failed
    /\ g.bodyFailed <=> f.bodyFailed
    /\ g.exitFailed <=> f.exitFailed

LEMMA SameTasksSame ==
    ASSUME NEW pl, NEW f, NEW g, SameTasks(f, g)
    PROVE  /\ SpecsIn(pl, g) = SpecsIn(pl, f) /\ TaskAt(g) = TaskAt(f)
           /\ Body(pl, g) = Body(pl, f) /\ Exits(pl, g) = Exits(pl, f) /\ Done(pl, g) = Done(pl, f)
           /\ SpecAt(pl, g) = SpecAt(pl, f) /\ LoopAt(pl, g) = LoopAt(pl, f)
  <1>1. SpecsIn(pl, g) = SpecsIn(pl, f) /\ TaskAt(g) = TaskAt(f)
    BY DEF SameTasks, SpecsIn, TaskAt
  <1>2. /\ Body(pl, g) = Body(pl, f) /\ Exits(pl, g) = Exits(pl, f) /\ Done(pl, g) = Done(pl, f)
        /\ SpecAt(pl, g) = SpecAt(pl, f)
    BY <1>1 DEF SameTasks, Body, Exits, Done, SpecAt
  <1> QED BY <1>1, <1>2 DEF LoopAt

\* Such a step keeps the invariant if it keeps to the modes, the attempts, the results and
\* the pool that the task at hand allows, and tells exit tasks the truth.
LEMMA SameTasksInv ==
    ASSUME NEW pl \in Pipelines, NEW f, NEW g, FrameInv(pl, f), SameTasks(f, g),
           g.mode \in Modes, g.result \in Results,
           \/ g.attempt = f.attempt
           \/ (f.todo # <<>> \/ f.exits # <<>>) /\ g.attempt \in 0..SpecAt(pl, f).retries,
           g.mode # "idle" =>
               /\ g.result = "none" /\ (f.todo # <<>> \/ f.exits # <<>>)
               /\ f.todo # <<>> => SpecAt(pl, f).ignore \/ SpecAt(pl, f).deps \cap f.failed = {}
               /\ f.todo = <<>> => TaskAt(f) \in DOMAIN g.told,
           \A e \in DOMAIN f.told : e \in DOMAIN g.told,
           \A e \in Exits(pl, f) \cap DOMAIN g.told :
               /\ f.todo = <<>>
               /\ \/ g.told[e] = "FAILED" <=> SpecsIn(pl, f)[e].final \in f.failed
                  \/ ~HasStatus(SpecsIn(pl, f), SpecsIn(pl, f)[e].final),
           g.result \in {"success", "failure"} /\ ~g.plain => f.todo = <<>> /\ f.exits = <<>>,
           g.result = "success" => ~f.bodyFailed /\ ~f.exitFailed,
           FrameLoop(pl, g)
    PROVE  FrameInv(pl, g)
  <1>1. FrameShape(pl, f) /\ FrameOrder(pl, f) /\ FrameExits(pl, f)
    BY DEF FrameInv
  <1>2. /\ SpecsIn(pl, g) = SpecsIn(pl, f) /\ TaskAt(g) = TaskAt(f)
        /\ Body(pl, g) = Body(pl, f) /\ Exits(pl, g) = Exits(pl, f) /\ Done(pl, g) = Done(pl, f)
        /\ SpecAt(pl, g) = SpecAt(pl, f)
    BY SameTasksSame
  <1>3. /\ DOMAIN g = Fields
        /\ g.dag = f.dag /\ g.todo = f.todo /\ g.exits = f.exits
        /\ g.state = f.state /\ g.failed = f.failed
        /\ g.bodyFailed <=> f.bodyFailed
        /\ g.exitFailed <=> f.exitFailed
    BY DEF SameTasks
  <1>4. FrameShape(pl, g)
    <2>1. /\ f.dag \in DOMAIN pl
          /\ f.todo \in Seq(Body(pl, f)) /\ NoRepeat(f.todo)
          /\ f.exits \in Seq(Exits(pl, f)) /\ NoRepeat(f.exits)
          /\ f.attempt \in 0..(IF f.todo # <<>> \/ f.exits # <<>> THEN SpecAt(pl, f).retries ELSE 0)
      BY <1>1 DEF FrameShape
    <2>2. g.attempt \in 0..(IF f.todo # <<>> \/ f.exits # <<>> THEN SpecAt(pl, f).retries ELSE 0)
      BY <2>1
    <2> QED BY <1>2, <1>3, <2>1, <2>2 DEF FrameShape
  <1>5. FrameOrder(pl, g)
    BY <1>1, <1>2, <1>3 DEF FrameOrder
  <1>6. FrameExits(pl, g)
    <2>1. \A t \in Done(pl, f) :
             SpecsIn(pl, f)[t].when = {} /\ SpecsIn(pl, f)[t].loop = {} =>
                t \in DOMAIN f.state /\ (f.state[t] = "FAILED" <=> t \in f.failed)
      BY <1>1 DEF FrameExits
    <2>2. \A e \in Exits(pl, f) : e \in ToSet(f.exits) \/ e \in DOMAIN g.told
      BY <1>1 DEF FrameExits
    <2> QED BY <1>2, <1>3, <2>1, <2>2 DEF FrameExits
  <1> QED BY <1>3, <1>4, <1>5, <1>6 DEF FrameInv, Marked

\* The same when nothing is told.
LEMMA SameToldInv ==
    ASSUME NEW pl \in Pipelines, NEW f, NEW g, FrameInv(pl, f), SameTasks(f, g), g.told = f.told,
           g.mode \in Modes, g.result \in Results,
           \/ g.attempt = f.attempt
           \/ (f.todo # <<>> \/ f.exits # <<>>) /\ g.attempt \in 0..SpecAt(pl, f).retries,
           g.mode # "idle" => g.result = "none" /\ MayEnd(pl, f),
           g.result \in {"success", "failure"} /\ ~g.plain => f.todo = <<>> /\ f.exits = <<>>,
           g.result = "success" => ~f.bodyFailed /\ ~f.exitFailed,
           FrameLoop(pl, g)
    PROVE  FrameInv(pl, g)
  <1>1. \A e \in DOMAIN f.told : e \in DOMAIN g.told
    OBVIOUS
  <1>2. \A e \in Exits(pl, f) \cap DOMAIN g.told :
            /\ f.todo = <<>>
            /\ \/ g.told[e] = "FAILED" <=> SpecsIn(pl, f)[e].final \in f.failed
               \/ ~HasStatus(SpecsIn(pl, f), SpecsIn(pl, f)[e].final)
    BY DEF FrameInv, FrameExits
  <1>3. g.mode # "idle" =>
            /\ g.result = "none" /\ (f.todo # <<>> \/ f.exits # <<>>)
            /\ f.todo # <<>> => SpecAt(pl, f).ignore \/ SpecAt(pl, f).deps \cap f.failed = {}
            /\ f.todo = <<>> => TaskAt(f) \in DOMAIN g.told
    BY DEF MayEnd
  <1> QED BY <1>1, <1>2, <1>3, SameTasksInv

\* A condition that is false, or a loop without iterations (no status is put).
LEMMA PopInv ==
    ASSUME NEW pl \in Pipelines, NEW f, FrameInv(pl, f), f.result = "none", f.todo # <<>>,
           SpecAt(pl, f).ignore \/ SpecAt(pl, f).deps \cap f.failed = {},
           SpecAt(pl, f).when # {} \/ SpecAt(pl, f).loop # {},
           NEW g, g = Pop(f)
    PROVE  FrameInv(pl, g) /\ g.mode = "idle" /\ g.result = "none" /\ (Marked(f) => Marked(g))
  <1>1. FrameShape(pl, f) /\ FrameOrder(pl, f)
    BY DEF FrameInv
  <1>2. /\ IsOver(f, g)
        /\ g.state = f.state /\ g.failed = f.failed
        /\ g.bodyFailed <=> f.bodyFailed
        /\ g.exitFailed <=> f.exitFailed
    BY <1>1, PopFields DEF FrameShape
  <1>3. IsPopped(pl, f, g)
    BY <1>2 DEF IsOver, IsPopped
  <1>4. FrameInv(pl, g)
    BY <1>2, <1>3, BodyTaskOver DEF IsOver
  <1> QED BY <1>2, <1>3, <1>4 DEF IsPopped, Marked

\* A loop that fails marks the frame and puts no status (_run_parallel_for_task).
LEMMA LoopFailInv ==
    ASSUME NEW pl \in Pipelines, NEW f, FrameInv(pl, f),
           f.todo # <<>>, f.result = "none", SpecAt(pl, f).loop # {},
           NEW g, g = FailLoop(f, TaskAt(f))
    PROVE  FrameInv(pl, g) /\ g.mode = "idle" /\ Marked(g)
  <1>1. FrameShape(pl, f) /\ FrameOrder(pl, f) /\ FrameLoop(pl, f)
    BY DEF FrameInv
  <1>2. f.todo # <<>> /\ f.result = "none" /\ SpecAt(pl, f).loop # {}
    OBVIOUS
  <1>3. PICK h : h = Pop(f)
    OBVIOUS
  <1>4. IsOver(f, h) /\ h.state = f.state /\ h.failed = f.failed
    BY <1>1, <1>3, PopFields DEF FrameShape
  <1>5. g = [h EXCEPT !.failed = @ \cup {TaskAt(f)}, !.bodyFailed = TRUE]
    BY <1>3 DEF FailLoop
  <1>6. /\ IsOver(f, g)
        /\ g.state = f.state /\ g.failed = f.failed \cup {TaskAt(f)} /\ g.bodyFailed
    BY <1>4, <1>5 DEF IsOver, Fields
  <1>7. IsPopped(pl, f, g)
    BY <1>2, <1>6 DEF IsOver, IsPopped
  <1>8. FrameInv(pl, g)
    BY <1>2, <1>6, <1>7, BodyTaskOver DEF IsOver
  <1> QED BY <1>6, <1>7, <1>8 DEF IsPopped, Marked

\* An exception marks the frame.
LEMMA RaisedInv ==
    ASSUME NEW pl \in Pipelines, NEW f, FrameInv(pl, f), f.mode # "loop",
           NEW g, g = Raised(f)
    PROVE  FrameInv(pl, g) /\ g.mode = "idle" /\ Marked(g)
  <1>1. FrameShape(pl, f) /\ FrameLoop(pl, f)
    BY DEF FrameInv
  <1>2. /\ SameTasks(f, g) /\ g.told = f.told /\ g.attempt = f.attempt
        /\ g.mode = "idle" /\ g.result = "raised" /\ g.pool = f.pool /\ g.got = f.got
        /\ g.broke <=> f.broke
    BY <1>1 DEF Raised, SameTasks, FrameShape, Fields
  <1>3. FrameLoop(pl, g)
    BY <1>1, <1>2 DEF FrameLoop
  <1>4. FrameInv(pl, g)
    BY <1>2, <1>3, SameToldInv DEF Modes, Results
  <1> QED BY <1>2, <1>4 DEF Marked

\* A retry (max_retry_count).
LEMMA RetryInv ==
    ASSUME NEW pl \in Pipelines, NEW f, FrameInv(pl, f), f.mode = "run",
           f.attempt < SpecAt(pl, f).retries,
           NEW g, g = [f EXCEPT !.attempt = @ + 1]
    PROVE  /\ FrameInv(pl, g) /\ g.mode = "run" /\ g.result = f.result
           /\ Marked(f) => Marked(g)
  <1>1. FrameShape(pl, f) /\ FrameLoop(pl, f)
    BY DEF FrameInv
  <1>2. /\ SameTasks(f, g) /\ g.told = f.told /\ g.attempt = f.attempt + 1
        /\ g.mode = f.mode /\ g.result = f.result /\ g.pool = f.pool /\ g.got = f.got
        /\ g.broke <=> f.broke
    BY <1>1 DEF SameTasks, FrameShape, Fields
  <1>3. MayEnd(pl, f)
    BY AtWorkMayEnd
  <1>4. FrameLoop(pl, g)
    BY <1>1, <1>2, SameTasksSame DEF FrameLoop
  <1>5. /\ f.todo # <<>> \/ f.exits # <<>>
        /\ f.attempt \in 0..SpecAt(pl, f).retries /\ SpecAt(pl, f).retries \in Nat
    BY <1>1, <1>3, TaskType DEF MayEnd, FrameShape, IsTaskSpec
  <1>6. g.attempt \in 0..SpecAt(pl, f).retries
    BY <1>2, <1>5
  <1>7. f.result = "none"
    BY <1>3 DEF MayEnd
  <1>8. FrameInv(pl, g)
    BY <1>2, <1>3, <1>4, <1>5, <1>6, <1>7, SameToldInv DEF Modes, Results
  <1> QED BY <1>2, <1>8 DEF Marked, SameTasks

\* The task at hand of f may be begun.
MayBegin(pl, f) ==
    /\ f.mode = "idle" /\ f.result = "none"
    /\ f.todo # <<>> \/ f.exits # <<>>
    /\ f.todo # <<>> => SpecAt(pl, f).ignore \/ SpecAt(pl, f).deps \cap f.failed = {}
    /\ SpecAt(pl, f).loop = {}

\* It is: the frame is now g, and s the final status that an exit task is told.
Begins(pl, f, g, m, s) ==
    /\ SameTasks(f, g) /\ g.attempt = f.attempt
    /\ g.mode = m /\ g.result = f.result /\ g.pool = f.pool /\ g.got = f.got
    /\ g.broke <=> f.broke
    /\ g.told = IF SpecAt(pl, f).final = NoTask THEN f.told ELSE Put(f.told, TaskAt(f), s)

\* A task is begun; an exit task is told how its producer ended (execute_task).
LEMMA BegunInv ==
    ASSUME NEW pl \in Pipelines, NEW f, FrameInv(pl, f), MayBegin(pl, f),
           NEW m \in {"idle", "run", "call"},
           NEW s, SpecAt(pl, f).final \in DOMAIN f.state => s = f.state[SpecAt(pl, f).final],
           NEW g, Begins(pl, f, g, m, s)
    PROVE  /\ FrameInv(pl, g) /\ g.mode = m /\ g.result = "none"
           /\ TaskAt(g) = TaskAt(f) /\ MayEnd(pl, g)
           /\ Marked(f) => Marked(g)
  <1> DEFINE t == TaskAt(f)
             specs == SpecsIn(pl, f)
  <1>1. FrameShape(pl, f) /\ FrameExits(pl, f) /\ FrameLoop(pl, f)
    BY DEF FrameInv
  <1>2. /\ SameTasks(f, g) /\ g.attempt = f.attempt
        /\ g.mode = m /\ g.result = f.result /\ g.pool = f.pool /\ g.got = f.got
        /\ g.broke <=> f.broke
        /\ g.told = IF SpecAt(pl, f).final = NoTask THEN f.told ELSE Put(f.told, t, s)
    BY DEF Begins
  <1> /\ f.mode = "idle" /\ f.result = "none"
      /\ f.todo # <<>> \/ f.exits # <<>>
      /\ f.todo # <<>> => SpecAt(pl, f).ignore \/ SpecAt(pl, f).deps \cap f.failed = {}
      /\ SpecAt(pl, f).loop = {}
    BY DEF MayBegin
  <1>3. /\ TaskAt(g) = t /\ SpecAt(pl, g) = SpecAt(pl, f) /\ SpecAt(pl, f) = specs[t]
    BY <1>2, SameTasksSame DEF SpecAt
  <1>4. FrameLoop(pl, g)
    BY <1>1, <1>2, <1>3 DEF FrameLoop
  <1>5. /\ \A e \in DOMAIN f.told : e \in DOMAIN g.told
        /\ \A e \in DOMAIN g.told : e = t \/ (e \in DOMAIN f.told /\ g.told[e] = f.told[e])
        /\ specs[t].final # NoTask => t \in DOMAIN g.told /\ g.told[t] = s
    BY <1>2, <1>3 DEF Put
  <1>6. ASSUME f.todo = <<>>
        PROVE  /\ t \in DOMAIN g.told
               /\ \/ g.told[t] = "FAILED" <=> specs[t].final \in f.failed
                  \/ ~HasStatus(specs, specs[t].final)
    <2>1. t \in Exits(pl, f) /\ IsTaskSpec(pl, specs, specs[t])
      BY <1>1, <1>3, <1>6, TaskType
    <2>2. IsExit(specs[t])
      BY <2>1 DEF Exits, Body, BodyTasks
    <2>3. specs[t].final # NoTask
      BY <2>2 DEF IsExit
    <2>4. HasStatus(specs, specs[t].final) =>
              /\ specs[t].final \in Done(pl, f)
              /\ specs[specs[t].final].when = {} /\ specs[specs[t].final].loop = {}
      BY <1>6 DEF HasStatus, Done, Body, ToSet
    <2>5. HasStatus(specs, specs[t].final) =>
              /\ specs[t].final \in DOMAIN f.state
              /\ f.state[specs[t].final] = "FAILED" <=> specs[t].final \in f.failed
      BY <1>1, <2>4 DEF FrameExits
    <2> QED BY <1>3, <1>5, <2>3, <2>5
  <1>7. ASSUME NEW e \in Exits(pl, f) \cap DOMAIN g.told
        PROVE  /\ f.todo = <<>>
               /\ \/ g.told[e] = "FAILED" <=> specs[e].final \in f.failed
                  \/ ~HasStatus(specs, specs[e].final)
    <2>1. CASE e = t
      <3>1. f.todo = <<>>
        BY <1>1, <2>1, TaskType DEF Exits
      <3> QED BY <1>6, <2>1, <3>1
    <2>2. CASE e # t
      BY <1>1, <1>5, <2>2 DEF FrameExits
    <2> QED BY <2>1, <2>2
  <1>8. FrameInv(pl, g)
    <2>1. g.mode \in Modes /\ g.result = "none" /\ g.result \in Results
      BY <1>2 DEF Modes, Results
    <2>2. g.mode # "idle" =>
              /\ g.result = "none" /\ (f.todo # <<>> \/ f.exits # <<>>)
              /\ f.todo # <<>> => SpecAt(pl, f).ignore \/ SpecAt(pl, f).deps \cap f.failed = {}
              /\ f.todo = <<>> => TaskAt(f) \in DOMAIN g.told
      BY <1>6, <2>1
    <2>3. \A e \in Exits(pl, f) \cap DOMAIN g.told :
              /\ f.todo = <<>>
              /\ \/ g.told[e] = "FAILED" <=> SpecsIn(pl, f)[e].final \in f.failed
                 \/ ~HasStatus(SpecsIn(pl, f), SpecsIn(pl, f)[e].final)
      BY <1>7
    <2>4. \A e \in DOMAIN f.told : e \in DOMAIN g.told
      BY <1>5
    <2>5. /\ g.result \in {"success", "failure"} /\ ~g.plain => f.todo = <<>> /\ f.exits = <<>>
          /\ g.result = "success" => ~f.bodyFailed /\ ~f.exitFailed
      BY <2>1
    <2>6. SameTasks(f, g) /\ g.attempt = f.attempt
      BY <1>2
    <2> QED BY <1>4, <2>1, <2>2, <2>3, <2>4, <2>5, <2>6, SameTasksInv
  <1>9. MayEnd(pl, g)
    BY <1>2, <1>3, <1>6 DEF MayEnd, SameTasks
  <1> QED BY <1>2, <1>3, <1>8, <1>9 DEF Marked, SameTasks

LoopBegins(pl, f, g) ==
    /\ SameTasks(f, g) /\ g.told = f.told /\ g.attempt = f.attempt
    /\ g.mode = "loop" /\ g.result = f.result /\ g.got = f.got
    /\ g.broke <=> f.broke
    /\ g.pool = [i \in 1..LoopAt(pl, f).items |-> i]

\* A loop is begun: every iteration is submitted (ParallelExecutor).
LEMMA LoopBegunInv ==
    ASSUME NEW pl \in Pipelines, NEW f, FrameInv(pl, f), f.mode = "idle", f.result = "none",
           f.todo # <<>>,
           SpecAt(pl, f).ignore \/ SpecAt(pl, f).deps \cap f.failed = {},
           SpecAt(pl, f).loop # {},
           NEW g, LoopBegins(pl, f, g)
    PROVE  /\ FrameInv(pl, g) /\ SameTasks(f, g) /\ g.mode = "loop" /\ g.result = "none"
           /\ DOMAIN g.got = {}
           /\ Marked(f) => Marked(g)
  <1> DEFINE n == LoopAt(pl, f).items
  <1>1. FrameShape(pl, f) /\ FrameLoop(pl, f)
    BY DEF FrameInv
  <1>2. n \in Nat
    <2>1. IsTaskSpec(pl, SpecsIn(pl, f), SpecAt(pl, f))
      BY <1>1, TaskType
    <2>2. LoopAt(pl, f) \in SpecAt(pl, f).loop
      BY DEF LoopAt
    <2> QED BY <2>1, <2>2 DEF IsTaskSpec
  <1>3. /\ SameTasks(f, g) /\ g.told = f.told /\ g.attempt = f.attempt
        /\ g.mode = "loop" /\ g.result = f.result /\ g.got = f.got
        /\ g.broke <=> f.broke
        /\ g.pool = [i \in 1..n |-> i]
    BY DEF LoopBegins
  <1>4. g.pool \in Seq(1..n) /\ NoRepeat(g.pool)
    <2>1. PICK r : r = g.pool
      OBVIOUS
    <2>2. PICK k \in Nat : k = n
      BY <1>2
    <2>3. r = [i \in 1..k |-> i]
      BY <1>3, <2>1, <2>2
    <2>4. r \in Seq(1..k) /\ NoRepeat(r)
      BY <2>3 DEF NoRepeat
    <2> QED BY <2>1, <2>2, <2>4
  <1>5. /\ TaskAt(g) = TaskAt(f) /\ SpecAt(pl, g) = SpecAt(pl, f) /\ LoopAt(pl, g) = LoopAt(pl, f)
    BY <1>3, SameTasksSame
  <1>6. DOMAIN g.got = {}
    BY <1>1, <1>3 DEF FrameLoop
  <1>7. FrameLoop(pl, g)
    BY <1>3, <1>4, <1>5, <1>6 DEF FrameLoop, SameTasks
  <1>8. MayEnd(pl, f)
    BY DEF MayEnd
  <1>9. FrameInv(pl, g)
    BY <1>3, <1>7, <1>8, SameToldInv DEF Modes, Results
  <1> QED BY <1>3, <1>6, <1>9 DEF Marked, SameTasks

\* A loop goes on: an iteration leaves the queue, or has ended and is collected.
LEMMA LoopGoesOnInv ==
    ASSUME NEW pl \in Pipelines, NEW f, FrameInv(pl, f), f.mode = "loop",
           NEW g, SameTasks(f, g), g.told = f.told, g.attempt = f.attempt,
           g.mode = "loop", g.result = f.result,
           \/ g.pool = f.pool
           \/ f.pool # <<>> /\ g.pool = Tail(f.pool),
           DOMAIN g.got \subseteq 1..LoopAt(pl, f).items
    PROVE  /\ FrameInv(pl, g)
           /\ LoopAt(pl, g) = LoopAt(pl, f) /\ TaskAt(g) = TaskAt(f)
           /\ Marked(f) => Marked(g)
  <1>1. FrameLoop(pl, f)
    BY DEF FrameInv
  <1>2. /\ f.todo # <<>> /\ SpecAt(pl, f).loop # {}
        /\ f.pool \in Seq(1..LoopAt(pl, f).items) /\ NoRepeat(f.pool)
    BY <1>1 DEF FrameLoop
  <1>3. /\ TaskAt(g) = TaskAt(f) /\ SpecAt(pl, g) = SpecAt(pl, f) /\ LoopAt(pl, g) = LoopAt(pl, f)
    BY SameTasksSame
  <1>4. g.pool \in Seq(1..LoopAt(pl, f).items) /\ NoRepeat(g.pool)
    <2>1. PICK D, s : D = 1..LoopAt(pl, f).items /\ s = f.pool
      OBVIOUS
    <2>2. s \in Seq(D) /\ NoRepeat(s)
      BY <1>2, <2>1
    <2>3. s # <<>> => Tail(s) \in Seq(D) /\ NoRepeat(Tail(s))
      BY <2>2, QueueTail
    <2> QED BY <2>1, <2>2, <2>3
  <1>5. FrameLoop(pl, g)
    BY <1>2, <1>3, <1>4 DEF FrameLoop, SameTasks
  <1>6. MayEnd(pl, f)
    BY AtWorkMayEnd
  <1>7. f.result = "none"
    BY <1>6 DEF MayEnd
  <1>8. FrameInv(pl, g)
    <2>1. g.mode \in Modes /\ g.result = "none" /\ g.result \in Results
      BY <1>7 DEF Modes, Results
    <2>2. /\ g.result \in {"success", "failure"} /\ ~g.plain => f.todo = <<>> /\ f.exits = <<>>
          /\ g.result = "success" => ~f.bodyFailed /\ ~f.exitFailed
      BY <2>1
    <2> QED BY <1>5, <1>6, <2>1, <2>2, SameToldInv
  <1> QED BY <1>3, <1>8 DEF Marked, SameTasks

\* A call returns (the status that run_enhanced_dag and run_dag return).
LEMMA ReturnInv ==
    ASSUME NEW pl \in Pipelines, NEW f, FrameInv(pl, f), f.mode = "idle", f.result = "none",
           f.todo = <<>>, f.exits = <<>>,
           NEW r \in {"success", "failure"}, NEW v,
           r = "success" => ~f.bodyFailed /\ ~f.exitFailed,
           NEW g, g = [f EXCEPT !.result = r] \/ g = [f EXCEPT !.result = r, !.value = v]
    PROVE  FrameInv(pl, g) /\ g.mode = "idle" /\ (Marked(f) => Marked(g))
  <1>1. FrameShape(pl, f) /\ FrameLoop(pl, f)
    BY DEF FrameInv
  <1>2. /\ SameTasks(f, g) /\ g.told = f.told /\ g.attempt = f.attempt
        /\ g.mode = "idle" /\ g.result = r /\ g.pool = f.pool /\ g.got = f.got
        /\ g.broke <=> f.broke
    BY <1>1 DEF SameTasks, FrameShape, Fields
  <1>3. FrameLoop(pl, g)
    BY <1>1, <1>2 DEF FrameLoop
  <1>4. FrameInv(pl, g)
    BY <1>2, <1>3, SameToldInv DEF Modes, Results
  <1> QED BY <1>2, <1>4 DEF Marked, SameTasks

-----------------------------------------------------------------------------
(* Paths.                                                                  *)

LEMMA PathAppend ==
    ASSUME NEW p \in Paths, NEW c \in CallSteps
    PROVE  /\ Append(p, c) \in Paths /\ Append(p, c) # <<>> /\ Append(p, c) # p
           /\ Len(Append(p, c)) = Len(p) + 1 /\ Len(p) \in Nat
           /\ Front(Append(p, c)) = p /\ Last(Append(p, c)) = c
           /\ \A n \in 0..Len(p) : SubSeq(Append(p, c), 1, n) = SubSeq(p, 1, n)
           /\ SubSeq(Append(p, c), 1, Len(p)) = p
           /\ SubSeq(Append(p, c), 1, Len(p) + 1) = Append(p, c)
  <1> DEFINE q == Append(p, c)
  <1>1. /\ q \in Paths /\ q # <<>> /\ Len(q) = Len(p) + 1 /\ Len(p) \in Nat
        /\ \A i \in 1..Len(p) : q[i] = p[i]
        /\ q[Len(p) + 1] = c
    BY AppendProperties, LenProperties DEF Paths
  <1> HIDE DEF q
  <1>2. ASSUME NEW n \in 0..Len(p) PROVE SubSeq(q, 1, n) = SubSeq(p, 1, n)
    <2>1. /\ SubSeq(q, 1, n) \in Paths /\ Len(SubSeq(q, 1, n)) = n
          /\ \A i \in 1..n : SubSeq(q, 1, n)[i] = q[i]
      BY <1>1 DEF Paths
    <2>2. /\ SubSeq(p, 1, n) \in Paths /\ Len(SubSeq(p, 1, n)) = n
          /\ \A i \in 1..n : SubSeq(p, 1, n)[i] = p[i]
      BY <1>1 DEF Paths
    <2>3. \A i \in 1..n : q[i] = p[i]
      BY <1>1
    <2> QED BY <2>1, <2>2, <2>3, SeqEqual DEF Paths
  <1>3. SubSeq(p, 1, Len(p)) = p /\ SubSeq(q, 1, Len(q)) = q
    BY <1>1, SubSeqFull DEF Paths
  <1>4. SubSeq(q, 1, Len(p)) = p
    BY <1>1, <1>2, <1>3
  <1>5. Front(q) = p
    BY <1>1, <1>4 DEF Front
  <1>6. Last(q) = c
    BY <1>1 DEF Last
  <1>7. q # p
    BY <1>1
  <1> QED BY <1>1, <1>2, <1>3, <1>4, <1>5, <1>6, <1>7 DEF q

LEMMA PathCaller ==
    ASSUME NEW p \in Paths, NEW c \in CallSteps, NEW x, x = Append(p, c)
    PROVE  x \in Paths /\ \E n \in 0..(Len(x) - 1) : SubSeq(x, 1, n) = p
  <1>1. x \in Paths /\ Len(x) = Len(p) + 1 /\ Len(p) \in Nat /\ SubSeq(x, 1, Len(p)) = p
    BY PathAppend
  <1>2. Len(p) \in 0..(Len(x) - 1)
    BY <1>1
  <1> QED BY <1>1, <1>2

LEMMA PathFront ==
    ASSUME NEW q \in Paths, q # <<>>
    PROVE  /\ Front(q) \in Paths /\ Last(q) \in CallSteps
           /\ q = Append(Front(q), Last(q))
           /\ Front(q) = SubSeq(q, 1, Len(q) - 1) /\ Len(q) \in Nat \ {0}
           /\ Len(Front(q)) = Len(q) - 1
  <1>1. PICK p \in Paths, c \in CallSteps : q = Append(p, c)
    BY SequenceEmptyOrAppend DEF Paths
  <1>2. Front(q) = p /\ Last(q) = c /\ Len(q) = Len(p) + 1 /\ Len(p) \in Nat
    BY <1>1, PathAppend
  <1>3. Front(q) = SubSeq(q, 1, Len(q) - 1)
    BY DEF Front
  <1>4. Len(q) \in Nat \ {0} /\ Len(Front(q)) = Len(q) - 1
    BY <1>2
  <1> QED BY <1>1, <1>2, <1>3, <1>4

LEMMA PathPrefix ==
    ASSUME NEW q \in Paths, NEW n \in 0..Len(q)
    PROVE  /\ SubSeq(q, 1, n) \in Paths /\ Len(SubSeq(q, 1, n)) = n
           /\ \A m \in 0..n : SubSeq(SubSeq(q, 1, n), 1, m) = SubSeq(q, 1, m)
           /\ n > 0 => Front(SubSeq(q, 1, n)) = SubSeq(q, 1, n - 1)
           /\ n = 0 => SubSeq(q, 1, n) = <<>>
           /\ n = Len(q) => SubSeq(q, 1, n) = q
  <1> DEFINE r == SubSeq(q, 1, n)
  <1>1. Len(q) \in Nat /\ n \in Nat
    BY LenProperties DEF Paths
  <1>2. r \in Paths /\ Len(r) = n /\ \A i \in 1..n : r[i] = q[i]
    BY <1>1 DEF Paths
  <1> HIDE DEF r
  <1>3. ASSUME NEW m \in 0..n PROVE SubSeq(r, 1, m) = SubSeq(q, 1, m)
    <2>1. /\ SubSeq(q, 1, m) \in Paths /\ Len(SubSeq(q, 1, m)) = m
          /\ \A i \in 1..m : SubSeq(q, 1, m)[i] = q[i]
      BY <1>1 DEF Paths
    <2>2. /\ SubSeq(r, 1, m) \in Paths /\ Len(SubSeq(r, 1, m)) = m
          /\ \A i \in 1..m : SubSeq(r, 1, m)[i] = r[i]
      BY <1>1, <1>2 DEF Paths
    <2>3. \A i \in 1..m : q[i] = r[i]
      BY <1>1, <1>2
    <2> QED BY <2>1, <2>2, <2>3, SeqEqual DEF Paths
  <1>4. n > 0 => Front(r) = SubSeq(q, 1, n - 1)
    BY <1>1, <1>2, <1>3 DEF Front
  <1>5. n = Len(q) => r = q
    BY SubSeqFull DEF Paths, r
  <1>6. n = 0 => r = <<>>
    BY <1>2, EmptySeq DEF Paths
  <1> QED BY <1>2, <1>3, <1>4, <1>5, <1>6 DEF r

LEMMA StrictPrefix ==
    ASSUME NEW p \in Paths, NEW q \in Paths
    PROVE  /\ Len(p) \in Nat /\ Len(q) \in Nat
           /\ IsStrictPrefix(p, q) <=> Len(p) < Len(q) /\ SubSeq(q, 1, Len(p)) = p
  <1>1. Len(p) \in Nat /\ Len(q) \in Nat
    BY LenProperties DEF Paths
  <1>2. SubSeq(p, 1, Len(p)) = p /\ SubSeq(q, 1, Len(q)) = q
    BY SubSeqFull DEF Paths
  <1> QED BY <1>1, <1>2 DEF IsStrictPrefix, IsPrefix

-----------------------------------------------------------------------------
(* Calls and their frames.                                                 *)

LEMMA CallStepType ==
    ASSUME NEW pl \in Pipelines, NEW f, FrameShape(pl, f), f.todo # <<>> \/ f.exits # <<>>,
           NEW i \in Nat
    PROVE  <<TaskAt(f), i>> \in CallSteps
  <1>1. TaskAt(f) \in DOMAIN pl[f.dag].tasks /\ f.dag \in DOMAIN pl
    BY TaskType DEF SpecsIn, FrameShape
  <1>2. TaskAt(f) \in TaskNames
    BY <1>1 DEF TaskNames
  <1> QED BY <1>2 DEF CallSteps

\* Only a frame that waits has calls.
LEMMA OnlyWaitingCalls ==
    ASSUME NEW pl, NEW fr, TreeInv(fr), CallInv(pl, fr), NEW q \in DOMAIN fr, q # <<>>
    PROVE  Front(q) \in DOMAIN fr /\ fr[Front(q)].mode \in {"call", "loop"}
  <1>1. q \in Paths /\ \A n \in 0..Len(q) : SubSeq(q, 1, n) \in DOMAIN fr
    BY DEF TreeInv
  <1>2. Front(q) = SubSeq(q, 1, Len(q) - 1) /\ Len(q) - 1 \in 0..Len(q)
    BY <1>1, PathFront
  <1>3. Front(q) \in DOMAIN fr
    BY <1>1, <1>2
  <1> QED BY <1>3 DEF CallInv, CalledBy

LEMMA NoneBelow ==
    ASSUME NEW pl, NEW fr, TreeInv(fr), CallInv(pl, fr), NEW p \in DOMAIN fr,
           fr[p].mode \notin {"call", "loop"}, NEW q \in DOMAIN fr
    PROVE  ~IsStrictPrefix(p, q)
  <1> SUFFICES ASSUME IsStrictPrefix(p, q) PROVE FALSE
    OBVIOUS
  <1>1. p \in Paths /\ q \in Paths /\ \A n \in 0..Len(q) : SubSeq(q, 1, n) \in DOMAIN fr
    BY DEF TreeInv
  <1>2. Len(p) \in Nat /\ Len(q) \in Nat /\ Len(p) < Len(q) /\ SubSeq(q, 1, Len(p)) = p
    BY <1>1, StrictPrefix
  <1>3. PICK n \in 0..Len(q) : n = Len(p) + 1
    BY <1>2
  <1>4. PICK r : r = SubSeq(q, 1, n)
    OBVIOUS
  <1>5. r \in DOMAIN fr /\ Front(r) = SubSeq(q, 1, n - 1) /\ Len(r) = n
    BY <1>1, <1>2, <1>3, <1>4, PathPrefix
  <1>6. Front(r) = p
    BY <1>2, <1>3, <1>5
  <1>7. r # <<>>
    BY <1>2, <1>3, <1>5
  <1> QED BY <1>5, <1>6, <1>7, OnlyWaitingCalls

\* The bounds of the loop at hand.
LEMMA LoopTypes ==
    ASSUME NEW pl \in Pipelines, NEW f, FrameInv(pl, f), f.mode = "loop"
    PROVE  /\ LoopAt(pl, f).items \in Nat
           /\ WorkersAt(pl, f) \in Nat \ {0} /\ WorkersAt(pl, f) <= MaxWorkers
           /\ LoopAt(pl, f).limit > 0 => WorkersAt(pl, f) <= LoopAt(pl, f).limit
  <1>1. f.todo # <<>> /\ SpecAt(pl, f).loop # {} /\ FrameShape(pl, f)
    BY DEF FrameInv, FrameLoop
  <1>2. IsTaskSpec(pl, SpecsIn(pl, f), SpecAt(pl, f))
    BY <1>1, TaskType
  <1>3. LoopAt(pl, f) \in SpecAt(pl, f).loop
    BY <1>1 DEF LoopAt
  <1>4. LoopAt(pl, f).items \in Nat /\ LoopAt(pl, f).limit \in Nat
    BY <1>2, <1>3 DEF IsTaskSpec
  <1> QED BY <1>4, MaxWorkersAssumption DEF WorkersAt

LEMMA LiveFinite ==
    ASSUME NEW pl \in Pipelines, NEW fr, NEW p, FrameInv(pl, fr[p]), fr[p].mode = "loop"
    PROVE  IsFiniteSet(LiveIn(pl, fr, p)) /\ Cardinality(LiveIn(pl, fr, p)) \in Nat
  <1>1. LoopAt(pl, fr[p]).items \in Nat
    BY LoopTypes
  <1>2. IsFiniteSet(1..LoopAt(pl, fr[p]).items)
    BY <1>1, FS_Interval
  <1>3. LiveIn(pl, fr, p) \in SUBSET (1..LoopAt(pl, fr[p]).items)
    BY DEF LiveIn
  <1>4. IsFiniteSet(LiveIn(pl, fr, p))
    BY <1>2, <1>3, FS_Subset
  <1> QED BY <1>4, FS_CardinalityType

\* A step elsewhere starts none of the iterations of p and loses none that has ended.
LEMMA LoopElsewhere ==
    ASSUME NEW pl \in Pipelines, NEW fr, NEW fr2, NEW p, FrameInv(pl, fr[p]), fr[p].mode = "loop",
           LoopInvAt(pl, fr, p), fr2[p] = fr[p],
           \A i \in Nat : CallOf(fr, p, i) \in DOMAIN fr /\ fr[CallOf(fr, p, i)].result # "none" =>
                            CallOf(fr, p, i) \in DOMAIN fr2 /\ fr2[CallOf(fr, p, i)] = fr[CallOf(fr, p, i)],
           \A i \in Nat : CallOf(fr, p, i) \in DOMAIN fr2 /\ fr2[CallOf(fr, p, i)].result = "none" =>
                            CallOf(fr, p, i) \in DOMAIN fr /\ fr[CallOf(fr, p, i)].result = "none"
    PROVE  LoopInvAt(pl, fr2, p)
  <1>1. \A i : CallOf(fr2, p, i) = CallOf(fr, p, i)
    BY DEF CallOf
  <1>2. \A i \in DOMAIN fr2[p].got :
            CallOf(fr2, p, i) \in DOMAIN fr2 /\ fr2[CallOf(fr2, p, i)].result = "success"
    <2>1. LoopAt(pl, fr[p]).items \in Nat /\ DOMAIN fr[p].got \subseteq 1..LoopAt(pl, fr[p]).items
      BY LoopTypes DEF FrameInv, FrameLoop
    <2>2. DOMAIN fr[p].got \subseteq Nat
      BY <2>1
    <2> QED BY <1>1, <2>2 DEF LoopInvAt
  <1>3. LiveIn(pl, fr2, p) \in SUBSET LiveIn(pl, fr, p)
    BY <1>1, LoopTypes DEF LiveIn
  <1>4. /\ IsFiniteSet(LiveIn(pl, fr, p)) /\ Cardinality(LiveIn(pl, fr, p)) \in Nat
        /\ IsFiniteSet(LiveIn(pl, fr2, p)) /\ Cardinality(LiveIn(pl, fr2, p)) \in Nat
    BY LiveFinite
  <1>5. Cardinality(LiveIn(pl, fr2, p)) <= Cardinality(LiveIn(pl, fr, p))
    BY <1>3, <1>4, FS_Subset
  <1>6. WorkersAt(pl, fr[p]) \in Nat /\ Cardinality(LiveIn(pl, fr, p)) <= WorkersAt(pl, fr[p])
    BY LoopTypes DEF LoopInvAt
  <1>7. Cardinality(LiveIn(pl, fr2, p)) <= WorkersAt(pl, fr2[p])
    BY <1>4, <1>5, <1>6
  <1> QED BY <1>2, <1>7 DEF LoopInvAt

-----------------------------------------------------------------------------
(* Steps that change the frame p only.                                     *)

OnlyAt(fr, fr2, p, g) ==
    /\ DOMAIN fr2 = DOMAIN fr
    /\ fr2[p] = g
    /\ \A q \in DOMAIN fr : q # p => fr2[q] = fr[q]

\* The failures that a step adds are those of a task of p, which is marked.
OwnFailures(p, g, fails, fails2) ==
    \A x \in fails2 : x \in fails \/ (Marked(g) /\ \E c \in CallSteps : x = Append(p, c))

\* Marks stay where they are.
LEMMA MarksStay ==
    ASSUME NEW fr, NEW fr2, NEW fails, NEW fails2, MarkInv(fr, fails),
           NEW p \in Paths, p \in DOMAIN fr2, OwnFailures(p, fr2[p], fails, fails2),
           \A q \in DOMAIN fr : Marked(fr[q]) => q \in DOMAIN fr2 /\ Marked(fr2[q])
    PROVE  MarkInv(fr2, fails2)
  <1> SUFFICES ASSUME NEW x \in fails2
               PROVE  x \in Paths /\ \E n \in 0..(Len(x) - 1) :
                          SubSeq(x, 1, n) \in DOMAIN fr2 /\ Marked(fr2[SubSeq(x, 1, n)])
    BY DEF MarkInv
  <1>1. CASE x \in fails
    <2>1. x \in Paths
      BY <1>1 DEF MarkInv
    <2>2. PICK n \in 0..(Len(x) - 1) : SubSeq(x, 1, n) \in DOMAIN fr /\ Marked(fr[SubSeq(x, 1, n)])
      BY <1>1 DEF MarkInv
    <2> QED BY <2>1, <2>2
  <1>2. CASE x \notin fails
    <2>1. Marked(fr2[p]) /\ \E c \in CallSteps : x = Append(p, c)
      BY <1>2 DEF OwnFailures
    <2>2. PICK c \in CallSteps : x = Append(p, c)
      BY <2>1
    <2>3. x \in Paths /\ \E n \in 0..(Len(x) - 1) : SubSeq(x, 1, n) = p
      BY <2>2, PathCaller
    <2> QED BY <2>1, <2>3
  <1> QED BY <1>1, <1>2

\* A step at an executor task, or between tasks: p has no calls.
LEMMA UpdateInv ==
    ASSUME NEW pl \in Pipelines, NEW fr, NEW fr2, NEW fails, NEW fails2, AllInv(pl, fr, fails),
           NEW p \in DOMAIN fr, fr[p].mode \in {"idle", "run"}, fr[p].result = "none",
           NEW g, FrameInv(pl, g), g.mode # "call", g.mode = "loop" => DOMAIN g.got = {},
           OnlyAt(fr, fr2, p, g),
           Marked(fr[p]) => Marked(g), OwnFailures(p, g, fails, fails2)
    PROVE  AllInv(pl, fr2, fails2)
  <1>1. /\ FramesInv(pl, fr) /\ TreeInv(fr) /\ CallInv(pl, fr) /\ LoopInv(pl, fr)
        /\ MarkInv(fr, fails)
    BY DEF AllInv
  <1>2. DOMAIN fr2 = DOMAIN fr /\ fr2[p] = g /\ \A q \in DOMAIN fr : q # p => fr2[q] = fr[q]
    BY DEF OnlyAt
  <1>3. FramesInv(pl, fr2)
    BY <1>1, <1>2 DEF FramesInv
  <1>4. TreeInv(fr2)
    BY <1>1, <1>2 DEF TreeInv
  <1>5. \A q \in DOMAIN fr : q # <<>> => Front(q) \in DOMAIN fr /\ Front(q) # p
    BY <1>1, OnlyWaitingCalls
  <1>6. CallInv(pl, fr2)
    <2>1. ASSUME NEW q \in DOMAIN fr, q # <<>> PROVE CalledBy(pl, fr2[Front(q)], Last(q))
      BY <1>1, <1>2, <1>5, <2>1 DEF CallInv
    <2>2. ASSUME NEW q \in DOMAIN fr, fr2[q].mode = "call" PROVE CallOf(fr2, q, 0) \in DOMAIN fr
      <3>1. q # p /\ fr2[q] = fr[q]
        BY <1>2, <2>2
      <3>2. CallOf(fr, q, 0) \in DOMAIN fr
        BY <1>1, <2>2, <3>1 DEF CallInv
      <3> QED BY <3>1, <3>2 DEF CallOf
    <2> QED BY <1>2, <2>1, <2>2 DEF CallInv
  <1>7. LoopInv(pl, fr2)
    <2> SUFFICES ASSUME NEW q \in DOMAIN fr, fr2[q].mode = "loop" PROVE LoopInvAt(pl, fr2, q)
      BY <1>2 DEF LoopInv
    <2>1. CASE q = p
      <3>1. \A i \in DOMAIN fr2[p].got : FALSE
        BY <1>2, <2>1
      <3>2. ASSUME NEW i \in Nat PROVE CallOf(fr2, p, i) \notin DOMAIN fr
        <4>1. p \in Paths /\ FrameShape(pl, g) /\ g.mode = "loop"
          BY <1>1, <1>2, <2>1 DEF TreeInv, FrameInv
        <4>2. <<TaskAt(g), i>> \in CallSteps
          BY <4>1, CallStepType DEF FrameShape
        <4>3. CallOf(fr2, p, i) # <<>> /\ Front(CallOf(fr2, p, i)) = p
          BY <1>2, <4>1, <4>2, PathAppend DEF CallOf
        <4> QED BY <1>5, <4>3
      <3>3. LiveIn(pl, fr2, p) = {}
        BY <1>2, <3>2 DEF LiveIn
      <3>4. WorkersAt(pl, fr2[p]) \in Nat \ {0}
        BY <1>2, <2>1, LoopTypes
      <3> QED BY <2>1, <3>1, <3>3, <3>4, FS_EmptySet DEF LoopInvAt
    <2>2. CASE q # p
      <3>1. fr2[q] = fr[q] /\ FrameInv(pl, fr[q]) /\ LoopInvAt(pl, fr, q)
        BY <1>1, <1>2, <2>2 DEF FramesInv, LoopInv
      <3> QED BY <1>2, <3>1, LoopElsewhere
    <2> QED BY <2>1, <2>2
  <1>8. MarkInv(fr2, fails2)
    BY <1>1, <1>2, MarksStay DEF TreeInv
  <1> QED BY <1>3, <1>4, <1>6, <1>7, <1>8 DEF AllInv

\* A loop collects an iteration that has succeeded, or breaks off (as_completed).
LEMMA CollectInv ==
    ASSUME NEW pl \in Pipelines, NEW fr, NEW fr2, NEW fails, AllInv(pl, fr, fails),
           NEW p \in DOMAIN fr, fr[p].mode = "loop", fr[p].result = "none",
           NEW g, FrameInv(pl, g), g.mode = "loop", g.result = "none", g.pool = fr[p].pool,
           TaskAt(g) = TaskAt(fr[p]), LoopAt(pl, g) = LoopAt(pl, fr[p]),
           \A i \in DOMAIN g.got :
               \/ i \in DOMAIN fr[p].got
               \/ CallOf(fr, p, i) \in DOMAIN fr /\ fr[CallOf(fr, p, i)].result = "success",
           OnlyAt(fr, fr2, p, g),
           Marked(fr[p]) => Marked(g)
    PROVE  AllInv(pl, fr2, fails)
  <1>1. /\ FramesInv(pl, fr) /\ TreeInv(fr) /\ CallInv(pl, fr) /\ LoopInv(pl, fr)
        /\ MarkInv(fr, fails)
    BY DEF AllInv
  <1>2. DOMAIN fr2 = DOMAIN fr /\ fr2[p] = g /\ \A q \in DOMAIN fr : q # p => fr2[q] = fr[q]
    BY DEF OnlyAt
  <1>3. FramesInv(pl, fr2)
    BY <1>1, <1>2 DEF FramesInv
  <1>4. TreeInv(fr2)
    BY <1>1, <1>2 DEF TreeInv
  <1>5. CallInv(pl, fr2)
    <2>1. ASSUME NEW q \in DOMAIN fr, q # <<>> PROVE CalledBy(pl, fr2[Front(q)], Last(q))
      <3>1. Front(q) \in DOMAIN fr /\ CalledBy(pl, fr[Front(q)], Last(q))
        BY <1>1, <2>1, OnlyWaitingCalls DEF CallInv
      <3>2. CASE Front(q) = p
        BY <1>2, <3>1, <3>2 DEF CalledBy
      <3>3. CASE Front(q) # p
        BY <1>2, <3>1, <3>3
      <3> QED BY <3>2, <3>3
    <2>2. ASSUME NEW q \in DOMAIN fr, fr2[q].mode = "call" PROVE CallOf(fr2, q, 0) \in DOMAIN fr
      <3>1. q # p /\ fr2[q] = fr[q]
        BY <1>2, <2>2
      <3>2. CallOf(fr, q, 0) \in DOMAIN fr
        BY <1>1, <2>2, <3>1 DEF CallInv
      <3> QED BY <3>1, <3>2 DEF CallOf
    <2> QED BY <1>2, <2>1, <2>2 DEF CallInv
  <1>6. LoopInv(pl, fr2)
    <2> SUFFICES ASSUME NEW q \in DOMAIN fr, fr2[q].mode = "loop" PROVE LoopInvAt(pl, fr2, q)
      BY <1>2 DEF LoopInv
    <2>1. CASE q = p
      <3>1. \A i : CallOf(fr2, p, i) = CallOf(fr, p, i)
        BY <1>2 DEF CallOf
      <3>2. \A r \in DOMAIN fr : fr2[r].result = fr[r].result
        BY <1>2
      <3>3. LoopInvAt(pl, fr, p)
        BY <1>1 DEF LoopInv
      <3>4. \A i \in DOMAIN fr2[p].got :
                CallOf(fr2, p, i) \in DOMAIN fr2 /\ fr2[CallOf(fr2, p, i)].result = "success"
        BY <1>2, <3>1, <3>2, <3>3 DEF LoopInvAt
      <3>5. LiveIn(pl, fr2, p) = LiveIn(pl, fr, p)
        BY <1>2, <3>1, <3>2 DEF LiveIn
      <3>6. WorkersAt(pl, fr2[p]) = WorkersAt(pl, fr[p])
        BY <1>2 DEF WorkersAt
      <3> QED BY <2>1, <3>3, <3>4, <3>5, <3>6 DEF LoopInvAt
    <2>2. CASE q # p
      <3>1. fr2[q] = fr[q] /\ FrameInv(pl, fr[q]) /\ LoopInvAt(pl, fr, q)
        BY <1>1, <1>2, <2>2 DEF FramesInv, LoopInv
      <3> QED BY <1>2, <3>1, LoopElsewhere
    <2> QED BY <2>1, <2>2
  <1>7. MarkInv(fr2, fails)
    BY <1>1, <1>2, MarksStay DEF TreeInv, OwnFailures
  <1> QED BY <1>3, <1>4, <1>5, <1>6, <1>7 DEF AllInv

-----------------------------------------------------------------------------
(* A new call.                                                             *)

LEMMA NewCallInv ==
    ASSUME NEW pl \in Pipelines, NEW fr, NEW fr2, NEW fails, AllInv(pl, fr, fails),
           NEW p \in DOMAIN fr, fr[p].result = "none",
           NEW i \in Nat, NEW c, c = CallOf(fr, p, i), c \notin DOMAIN fr,
           NEW g, FrameInv(pl, g), TaskAt(g) = TaskAt(fr[p]), g.mode \in {"call", "loop"},
           CalledBy(pl, g, <<TaskAt(g), i>>),
           \A q \in DOMAIN fr : q # <<>> /\ Front(q) = p => CalledBy(pl, g, Last(q)),
           g.mode = "call" => i = 0,
           g.mode = "loop" =>
               /\ fr[p].mode = "loop" /\ g.got = fr[p].got /\ LoopAt(pl, g) = LoopAt(pl, fr[p])
               /\ Cardinality(LiveIn(pl, fr, p)) < WorkersAt(pl, fr[p]),
           Marked(fr[p]) => Marked(g),
           NEW h, FrameInv(pl, h), h.mode = "idle",
           DOMAIN fr2 = DOMAIN fr \cup {c}, fr2[c] = h, fr2[p] = g,
           \A q \in DOMAIN fr : q # p => fr2[q] = fr[q]
    PROVE  AllInv(pl, fr2, fails)
  <1> DEFINE s == <<TaskAt(fr[p]), i>>
  <1>1. /\ FramesInv(pl, fr) /\ TreeInv(fr) /\ CallInv(pl, fr) /\ LoopInv(pl, fr)
        /\ MarkInv(fr, fails)
    BY DEF AllInv
  <1>2. p \in Paths
    BY <1>1 DEF TreeInv
  <1>3. \A j \in Nat : <<TaskAt(fr[p]), j>> \in CallSteps
    <2>1. FrameShape(pl, g) /\ (g.todo # <<>> \/ g.exits # <<>>)
      BY DEF FrameInv, FrameShape
    <2> QED BY <2>1, CallStepType
  <1>4. c = Append(p, s) /\ s \in CallSteps
    BY <1>3 DEF CallOf
  <1> HIDE DEF s
  <1>5. /\ c \in Paths /\ c # <<>> /\ c # p /\ Front(c) = p /\ Last(c) = s
        /\ Len(c) = Len(p) + 1 /\ Len(p) \in Nat
        /\ \A n \in 0..Len(p) : SubSeq(c, 1, n) = SubSeq(p, 1, n)
        /\ SubSeq(c, 1, Len(p) + 1) = c
    BY <1>2, <1>4, PathAppend
  <1>6. FramesInv(pl, fr2)
    BY <1>1 DEF FramesInv
  <1>7. TreeInv(fr2)
    <2>1. ASSUME NEW n \in 0..Len(c) PROVE SubSeq(c, 1, n) \in DOMAIN fr2
      <3>1. CASE n \in 0..Len(p)
        <4>1. SubSeq(p, 1, n) \in DOMAIN fr
          BY <1>1, <3>1 DEF TreeInv
        <4> QED BY <1>5, <3>1, <4>1
      <3>2. CASE n = Len(p) + 1
        BY <1>5, <3>2
      <3> QED BY <1>5, <3>1, <3>2
    <2> QED BY <1>1, <1>5, <2>1 DEF TreeInv
  <1>8. \A q \in DOMAIN fr : q # <<>> => Front(q) \in DOMAIN fr
    BY <1>1, OnlyWaitingCalls
  <1>9. CallInv(pl, fr2)
    <2>1. CalledBy(pl, fr2[Front(c)], Last(c))
      BY <1>5 DEF s
    <2>2. ASSUME NEW q \in DOMAIN fr, q # <<>> PROVE CalledBy(pl, fr2[Front(q)], Last(q))
      <3>1. CASE Front(q) = p
        BY <2>2, <3>1
      <3>2. CASE Front(q) # p
        BY <1>1, <1>8, <2>2, <3>2 DEF CallInv
      <3> QED BY <3>1, <3>2
    <2>3. ASSUME NEW q \in DOMAIN fr2, fr2[q].mode = "call" PROVE CallOf(fr2, q, 0) \in DOMAIN fr2
      <3>1. CASE q = c
        BY <2>3, <3>1
      <3>2. CASE q = p
        BY <2>3, <3>2 DEF CallOf
      <3>3. CASE q # c /\ q # p
        <4>1. q \in DOMAIN fr /\ fr2[q] = fr[q]
          BY <3>3
        <4>2. CallOf(fr, q, 0) \in DOMAIN fr
          BY <1>1, <2>3, <4>1 DEF CallInv
        <4> QED BY <4>1, <4>2 DEF CallOf
      <3> QED BY <3>1, <3>2, <3>3
    <2> QED BY <2>1, <2>2, <2>3 DEF CallInv
  <1>10. LoopInv(pl, fr2)
    <2> SUFFICES ASSUME NEW q \in DOMAIN fr2, fr2[q].mode = "loop" PROVE LoopInvAt(pl, fr2, q)
      BY DEF LoopInv
    <2>1. q # c /\ q \in DOMAIN fr
      OBVIOUS
    <2>2. CASE q = p
      <3>1. /\ fr[p].mode = "loop" /\ fr2[p].got = fr[p].got
            /\ LoopAt(pl, fr2[p]) = LoopAt(pl, fr[p])
            /\ Cardinality(LiveIn(pl, fr, p)) < WorkersAt(pl, fr[p])
        BY <2>2
      <3>2. \A j : CallOf(fr2, p, j) = CallOf(fr, p, j)
        BY DEF CallOf
      <3>3. LoopInvAt(pl, fr, p) /\ FrameInv(pl, fr[p])
        BY <1>1, <3>1 DEF LoopInv, FramesInv
      <3>4. \A j \in DOMAIN fr2[p].got :
                CallOf(fr2, p, j) \in DOMAIN fr2 /\ fr2[CallOf(fr2, p, j)].result = "success"
        BY <3>1, <3>2, <3>3 DEF LoopInvAt
      <3>5. LiveIn(pl, fr2, p) \subseteq LiveIn(pl, fr, p) \cup {i}
        <4> SUFFICES ASSUME NEW j \in LiveIn(pl, fr2, p), j # i PROVE j \in LiveIn(pl, fr, p)
          OBVIOUS
        <4>1. /\ j \in 1..LoopAt(pl, fr[p]).items /\ j \in Nat
              /\ CallOf(fr, p, j) \in DOMAIN fr2 /\ fr2[CallOf(fr, p, j)].result = "none"
          BY <3>1, <3>2, <3>3, LoopTypes DEF LiveIn
        <4>2. CallOf(fr, p, j) # c
          <5>1. Last(CallOf(fr, p, j)) = <<TaskAt(fr[p]), j>>
            BY <1>2, <1>3, <4>1, PathAppend DEF CallOf
          <5>2. <<TaskAt(fr[p]), j>> # s
            BY DEF s
          <5> QED BY <1>5, <5>1, <5>2
        <4> QED BY <4>1, <4>2 DEF LiveIn
      <3>6. PICK A, B : A = LiveIn(pl, fr, p) /\ B = LiveIn(pl, fr2, p)
        OBVIOUS
      <3>7. IsFiniteSet(A) /\ Cardinality(A) \in Nat
        BY <3>1, <3>3, <3>6, LiveFinite
      <3>8. /\ IsFiniteSet(A \cup {i}) /\ Cardinality(A \cup {i}) \in Nat
            /\ Cardinality(A \cup {i}) <= Cardinality(A) + 1
        <4>1. PICK D : D = A \cup {i}
          OBVIOUS
        <4>2. /\ IsFiniteSet(D)
              /\ Cardinality(D) = IF i \in A THEN Cardinality(A) ELSE Cardinality(A) + 1
          BY <3>7, <4>1, FS_AddElement
        <4>3. Cardinality(D) \in Nat /\ Cardinality(D) <= Cardinality(A) + 1
          BY <3>7, <4>2
        <4> QED BY <4>1, <4>2, <4>3
      <3>9. Cardinality(B) <= Cardinality(A \cup {i}) /\ IsFiniteSet(B)
        BY <3>5, <3>6, <3>8, FS_Subset
      <3>10. Cardinality(B) \in Nat
        BY <3>9, FS_CardinalityType
      <3>11. WorkersAt(pl, fr[p]) \in Nat /\ WorkersAt(pl, fr2[p]) = WorkersAt(pl, fr[p])
        BY <3>1, <3>3, LoopTypes DEF WorkersAt
      <3>12. Cardinality(B) <= WorkersAt(pl, fr2[p])
        BY <3>1, <3>6, <3>7, <3>8, <3>9, <3>10, <3>11
      <3> QED BY <2>2, <3>4, <3>6, <3>12 DEF LoopInvAt
    <2>3. CASE q # p
      <3>1. /\ fr2[q] = fr[q] /\ FrameInv(pl, fr[q]) /\ LoopInvAt(pl, fr, q)
            /\ fr[q].mode = "loop" /\ q \in Paths
        BY <1>1, <2>1, <2>3 DEF FramesInv, LoopInv, TreeInv
      <3>2. ASSUME NEW j \in Nat PROVE CallOf(fr, q, j) # c
        <4>1. FrameShape(pl, fr[q]) /\ (fr[q].todo # <<>> \/ fr[q].exits # <<>>)
          BY <3>1 DEF FrameInv, FrameShape
        <4>2. <<TaskAt(fr[q]), j>> \in CallSteps
          BY <4>1, CallStepType
        <4>3. Front(CallOf(fr, q, j)) = q
          BY <3>1, <4>2, PathAppend DEF CallOf
        <4> QED BY <1>5, <2>3, <4>3
      <3> QED BY <3>1, <3>2, LoopElsewhere
    <2> QED BY <2>2, <2>3
  <1>11. MarkInv(fr2, fails)
    BY <1>1, <1>2, MarksStay DEF OwnFailures
  <1> QED BY <1>6, <1>7, <1>9, <1>10, <1>11 DEF AllInv

-----------------------------------------------------------------------------
(* The calls of p have ended, and their frames go.                         *)

LEMMA AllCallsEnded ==
    ASSUME NEW pl \in Pipelines, NEW fr, FramesInv(pl, fr), TreeInv(fr), CallInv(pl, fr),
           NEW p \in DOMAIN fr,
           \A q \in DOMAIN fr : q # <<>> /\ Front(q) = p => fr[q].result # "none",
           NEW q \in DOMAIN fr, IsStrictPrefix(p, q)
    PROVE  q # <<>> /\ Front(q) = p
  <1>1. p \in Paths /\ q \in Paths /\ \A n \in 0..Len(q) : SubSeq(q, 1, n) \in DOMAIN fr
    BY DEF TreeInv
  <1>2. Len(p) \in Nat /\ Len(q) \in Nat /\ Len(p) < Len(q) /\ SubSeq(q, 1, Len(p)) = p
    BY <1>1, StrictPrefix
  <1>3. PICK n \in 0..Len(q) : n = Len(p) + 1
    BY <1>2
  <1>4. PICK r : r = SubSeq(q, 1, n)
    OBVIOUS
  <1>5. /\ r \in DOMAIN fr /\ r \in Paths /\ Len(r) = n /\ Front(r) = SubSeq(q, 1, n - 1)
        /\ n = Len(q) => r = q
    BY <1>1, <1>2, <1>3, <1>4, PathPrefix
  <1>6. Front(r) = p /\ r # <<>>
    BY <1>2, <1>3, <1>5
  <1>7. fr[r].mode = "idle"
    BY <1>5, <1>6 DEF FramesInv, FrameInv, FrameShape
  <1>8. ~IsStrictPrefix(r, q)
    BY <1>5, <1>7, NoneBelow
  <1>9. n = Len(q)
    <2>1. SubSeq(q, 1, Len(r)) = r
      BY <1>4, <1>5
    <2>2. ~(Len(r) < Len(q))
      BY <1>1, <1>5, <1>8, <2>1, StrictPrefix
    <2> QED BY <1>2, <1>5, <2>2
  <1> QED BY <1>5, <1>6, <1>9

LEMMA DropInv ==
    ASSUME NEW pl \in Pipelines, NEW fr, NEW fr2, NEW fails, AllInv(pl, fr, fails),
           NEW p \in DOMAIN fr, fr[p].result = "none",
           \A q \in DOMAIN fr : q # <<>> /\ Front(q) = p => fr[q].result # "none",
           NEW g, FrameInv(pl, g), g.mode = "idle",
           Marked(fr[p]) => Marked(g),
           \A q \in DOMAIN fr : q # <<>> /\ Front(q) = p /\ Marked(fr[q]) => Marked(g),
           DOMAIN fr2 = {q \in DOMAIN fr : ~IsStrictPrefix(p, q) \/ fr[q].result = "none"},
           fr2[p] = g,
           \A q \in DOMAIN fr2 : q # p => fr2[q] = fr[q]
    PROVE  AllInv(pl, fr2, fails)
  <1>1. /\ FramesInv(pl, fr) /\ TreeInv(fr) /\ CallInv(pl, fr) /\ LoopInv(pl, fr)
        /\ MarkInv(fr, fails)
    BY DEF AllInv
  <1>2. ASSUME NEW q \in DOMAIN fr, IsStrictPrefix(p, q)
        PROVE  q # <<>> /\ Front(q) = p
    BY <1>1, <1>2, AllCallsEnded
  <1>3. \A q : q \in DOMAIN fr2 <=> q \in DOMAIN fr /\ ~IsStrictPrefix(p, q)
    BY <1>2
  <1>4. \A q \in DOMAIN fr : q \in Paths /\ \A n \in 0..Len(q) : SubSeq(q, 1, n) \in DOMAIN fr
    BY <1>1 DEF TreeInv
  <1>5. p \in Paths /\ p \in DOMAIN fr2 /\ Len(p) \in Nat
    <2>1. p \in Paths
      BY <1>4
    <2>2. ~IsStrictPrefix(p, p)
      BY DEF IsStrictPrefix
    <2> QED BY <1>3, <2>1, <2>2, StrictPrefix
  <1>6. FramesInv(pl, fr2)
    BY <1>1, <1>3 DEF FramesInv
  <1>7. TreeInv(fr2)
    <2>1. ASSUME NEW q \in DOMAIN fr2, NEW n \in 0..Len(q) PROVE SubSeq(q, 1, n) \in DOMAIN fr2
      <3>1. PICK r : r = SubSeq(q, 1, n)
        OBVIOUS
      <3>2. q \in DOMAIN fr /\ q \in Paths /\ r \in DOMAIN fr
        BY <1>3, <1>4, <3>1
      <3>3. /\ r \in Paths /\ Len(r) = n
            /\ \A m \in 0..n : SubSeq(r, 1, m) = SubSeq(q, 1, m)
        BY <3>1, <3>2, PathPrefix
      <3>4. ASSUME IsStrictPrefix(p, r) PROVE FALSE
        <4>1. Len(p) < n /\ SubSeq(r, 1, Len(p)) = p
          BY <1>5, <3>3, <3>4, StrictPrefix
        <4>2. Len(q) \in Nat
          BY <1>5, <3>2, StrictPrefix
        <4>3. Len(p) \in 0..n /\ Len(p) < Len(q)
          BY <1>5, <4>1, <4>2
        <4>4. SubSeq(q, 1, Len(p)) = p
          BY <3>3, <4>1, <4>3
        <4>5. IsStrictPrefix(p, q)
          BY <1>5, <3>2, <4>3, <4>4, StrictPrefix
        <4> QED BY <1>3, <4>5
      <3> QED BY <1>3, <3>1, <3>2, <3>4
    <2>2. <<>> \in DOMAIN fr2
      <3>1. <<>> \in DOMAIN fr
        BY <1>1 DEF TreeInv
      <3>2. <<>> \in Paths /\ Len(<<>>) = 0
        BY EmptySeq DEF Paths
      <3>3. ~IsStrictPrefix(p, <<>>)
        BY <1>5, <3>2, StrictPrefix
      <3> QED BY <1>3, <3>1, <3>3
    <2> QED BY <1>3, <1>4, <2>1, <2>2 DEF TreeInv
  <1>8. ASSUME NEW q \in DOMAIN fr2, q # <<>> PROVE Front(q) # p /\ Front(q) \in DOMAIN fr2
    <2>1. q \in DOMAIN fr /\ q \in Paths
      BY <1>3, <1>4
    <2>2. /\ q = Append(Front(q), Last(q)) /\ Last(q) \in CallSteps
          /\ Front(q) = SubSeq(q, 1, Len(q) - 1) /\ Len(q) - 1 \in 0..Len(q)
      BY <1>8, <2>1, PathFront
    <2>3. Front(q) \in DOMAIN fr2
      BY <1>7, <2>2 DEF TreeInv
    <2>4. ASSUME Front(q) = p PROVE FALSE
      <3>1. PICK c \in CallSteps : q = Append(p, c)
        BY <2>2, <2>4
      <3>2. Len(q) = Len(p) + 1 /\ SubSeq(q, 1, Len(p)) = p
        BY <1>5, <3>1, PathAppend
      <3>3. Len(p) < Len(q)
        BY <1>5, <3>2
      <3> QED BY <1>3, <1>5, <2>1, <3>2, <3>3, StrictPrefix
    <2> QED BY <2>3, <2>4
  <1>9. ASSUME NEW q \in DOMAIN fr2, q # p, fr[q].mode \in {"call", "loop"}, NEW i \in Nat,
               CallOf(fr, q, i) \in DOMAIN fr
        PROVE  CallOf(fr, q, i) \in DOMAIN fr2
    <2>1. q \in DOMAIN fr /\ q \in Paths /\ FrameShape(pl, fr[q])
      BY <1>1, <1>3, <1>4 DEF FramesInv, FrameInv
    <2>2. <<TaskAt(fr[q]), i>> \in CallSteps
      BY <1>9, <2>1, CallStepType DEF FrameShape
    <2>3. Front(CallOf(fr, q, i)) = q
      BY <2>1, <2>2, PathAppend DEF CallOf
    <2> QED BY <1>2, <1>3, <1>9, <2>3
  <1>10. CallInv(pl, fr2)
    <2>1. ASSUME NEW q \in DOMAIN fr2, q # <<>> PROVE CalledBy(pl, fr2[Front(q)], Last(q))
      BY <1>1, <1>3, <1>8, <2>1 DEF CallInv
    <2>2. ASSUME NEW q \in DOMAIN fr2, fr2[q].mode = "call" PROVE CallOf(fr2, q, 0) \in DOMAIN fr2
      <3>1. q # p /\ fr2[q] = fr[q] /\ q \in DOMAIN fr
        BY <1>3, <2>2
      <3>2. CallOf(fr, q, 0) \in DOMAIN fr
        BY <1>1, <2>2, <3>1 DEF CallInv
      <3>3. CallOf(fr, q, 0) \in DOMAIN fr2
        BY <1>9, <2>2, <3>1, <3>2
      <3> QED BY <3>1, <3>3 DEF CallOf
    <2> QED BY <2>1, <2>2 DEF CallInv
  <1>11. LoopInv(pl, fr2)
    <2> SUFFICES ASSUME NEW q \in DOMAIN fr2, fr2[q].mode = "loop" PROVE LoopInvAt(pl, fr2, q)
      BY DEF LoopInv
    <2>1. q # p /\ fr2[q] = fr[q] /\ q \in DOMAIN fr /\ fr[q].mode = "loop"
      BY <1>3
    <2>2. FrameInv(pl, fr[q]) /\ LoopInvAt(pl, fr, q)
      BY <1>1, <2>1 DEF FramesInv, LoopInv
    <2>3. ASSUME NEW i \in Nat, CallOf(fr, q, i) \in DOMAIN fr, fr[CallOf(fr, q, i)].result # "none"
          PROVE  CallOf(fr, q, i) \in DOMAIN fr2 /\ fr2[CallOf(fr, q, i)] = fr[CallOf(fr, q, i)]
      <3>1. CallOf(fr, q, i) \in DOMAIN fr2
        BY <1>9, <2>1, <2>3
      <3>2. CallOf(fr, q, i) # p
        BY <2>3
      <3> QED BY <3>1, <3>2
    <2>4. ASSUME NEW i \in Nat, CallOf(fr, q, i) \in DOMAIN fr2, fr2[CallOf(fr, q, i)].result = "none"
          PROVE  CallOf(fr, q, i) \in DOMAIN fr /\ fr[CallOf(fr, q, i)].result = "none"
      BY <1>3, <2>4
    <2> QED BY <2>1, <2>2, <2>3, <2>4, LoopElsewhere
  <1>12. MarkInv(fr2, fails)
    <2> SUFFICES ASSUME NEW x \in fails
                 PROVE  x \in Paths /\ \E n \in 0..(Len(x) - 1) :
                            SubSeq(x, 1, n) \in DOMAIN fr2 /\ Marked(fr2[SubSeq(x, 1, n)])
      BY DEF MarkInv
    <2>1. x \in Paths
      BY <1>1 DEF MarkInv
    <2>2. PICK n \in 0..(Len(x) - 1) : SubSeq(x, 1, n) \in DOMAIN fr /\ Marked(fr[SubSeq(x, 1, n)])
      BY <1>1 DEF MarkInv
    <2>3. PICK r : r = SubSeq(x, 1, n)
      OBVIOUS
    <2>4. CASE r \in DOMAIN fr2
      BY <2>1, <2>2, <2>3, <2>4
    <2>5. CASE r \notin DOMAIN fr2
      <3>1. r # <<>> /\ Front(r) = p
        BY <1>2, <1>3, <2>2, <2>3, <2>5
      <3>2. Len(x) \in Nat
        BY <1>5, <2>1, StrictPrefix
      <3>3. n \in 0..Len(x) /\ n \in Nat
        BY <3>2
      <3>4. /\ n = 0 => r = <<>>
            /\ n > 0 => Front(r) = SubSeq(x, 1, n - 1)
        BY <2>1, <2>3, <3>3, PathPrefix
      <3>5. n - 1 \in 0..(Len(x) - 1) /\ SubSeq(x, 1, n - 1) = p
        BY <3>1, <3>2, <3>3, <3>4
      <3>6. Marked(g)
        BY <2>2, <2>3, <3>1
      <3> QED BY <1>5, <2>1, <3>5, <3>6
    <2> QED BY <2>4, <2>5
  <1> QED BY <1>6, <1>7, <1>10, <1>11, <1>12 DEF AllInv

-----------------------------------------------------------------------------
(* The actions.                                                            *)

LEMMA SameNames ==
    ASSUME NEW p
    PROVE  /\ Task(p) = TaskAt(frames[p]) /\ Specs(p) = SpecsIn(pipeline, frames[p])
           /\ SpecOf(p) = SpecAt(pipeline, frames[p]) /\ TheLoop(p) = LoopAt(pipeline, frames[p])
           /\ Workers(p) = WorkersAt(pipeline, frames[p])
           /\ InBody(p) <=> frames[p].todo # <<>>
           /\ Pending(p) <=> (frames[p].todo # <<>> \/ frames[p].exits # <<>>)
           /\ \A i : Append(p, <<Task(p), i>>) = CallOf(frames, p, i)
           /\ Live(p) = LiveIn(pipeline, frames, p)
  <1>1. Task(p) = TaskAt(frames[p]) /\ Specs(p) = SpecsIn(pipeline, frames[p])
    BY DEF Task, InBody, TaskAt, Specs, SpecsIn
  <1>2. SpecOf(p) = SpecAt(pipeline, frames[p]) /\ TheLoop(p) = LoopAt(pipeline, frames[p])
    BY <1>1 DEF SpecOf, SpecAt, TheLoop, LoopAt
  <1>3. \A i : Append(p, <<Task(p), i>>) = CallOf(frames, p, i)
    BY <1>1 DEF CallOf
  <1>4. Live(p) = LiveIn(pipeline, frames, p)
    <2>1. ASSUME NEW i PROVE i \in Live(p) <=> i \in LiveIn(pipeline, frames, p)
      <3>1. Append(p, <<Task(p), i>>) = CallOf(frames, p, i)
        BY <1>3
      <3> QED BY <1>2, <3>1 DEF Live, LiveIn, Iterations, Iteration
    <2>2. PICK A, B : A = Live(p) /\ B = LiveIn(pipeline, frames, p)
      OBVIOUS
    <2>3. A = B
      BY <2>1, <2>2
    <2> QED BY <2>2, <2>3
  <1> QED BY <1>1, <1>2, <1>3, <1>4 DEF Workers, WorkersAt, InBody, Pending

LEMMA SetOnlyAt ==
    ASSUME NEW fr, NEW p \in DOMAIN fr, NEW g, NEW fr2, fr2 = [fr EXCEPT ![p] = g]
    PROVE  OnlyAt(fr, fr2, p, g)
  BY DEF OnlyAt

\* A step that only sets the frame p, which has no calls.
LEMMA SetInv ==
    ASSUME DagInv, NEW p \in DOMAIN frames, Running(p), frames[p].mode \in {"idle", "run"},
           NEW g, Set(p, g), FrameInv(pipeline, g),
           g.mode # "call", g.mode = "loop" => DOMAIN g.got = {},
           Marked(frames[p]) => Marked(g), OwnFailures(p, g, failures, failures'),
           pipeline' = pipeline
    PROVE  DagInv'
  <1>1. OnlyAt(frames, frames', p, g)
    BY SetOnlyAt DEF Set
  <1>2. AllInv(pipeline, frames', failures')
    BY <1>1, UpdateInv DEF DagInv, Running
  <1> QED BY <1>2 DEF DagInv

LEMMA NoNewFailures ==
    ASSUME NEW p, NEW g, UNCHANGED failures
    PROVE  OwnFailures(p, g, failures, failures')
  BY DEF OwnFailures

\* What is known of a frame whose next task may be started.
LEMMA ReadyFacts ==
    ASSUME DagInv, NEW p \in DOMAIN frames, Ready(p)
    PROVE  /\ FrameInv(pipeline, frames[p]) /\ p \in Paths /\ Running(p)
           /\ frames[p].mode = "idle" /\ frames[p].result = "none"
           /\ frames[p].todo # <<>> \/ frames[p].exits # <<>>
           /\ frames[p].todo # <<>> =>
                  \/ SpecAt(pipeline, frames[p]).ignore
                  \/ SpecAt(pipeline, frames[p]).deps \cap frames[p].failed = {}
           /\ IsTaskSpec(pipeline, SpecsIn(pipeline, frames[p]), SpecAt(pipeline, frames[p]))
  <1>1. FrameInv(pipeline, frames[p]) /\ p \in Paths /\ pipeline \in Pipelines
    BY DEF DagInv, AllInv, FramesInv, TreeInv
  <1>2. Running(p) /\ frames[p].mode = "idle" /\ frames[p].result = "none" /\ Pending(p) /\ ~Gated(p)
    BY DEF Ready, Idle, Running
  <1>3. FrameShape(pipeline, frames[p])
    BY <1>1 DEF FrameInv
  <1>4. frames[p].todo # <<>> \/ frames[p].exits # <<>>
    BY <1>2 DEF Pending
  <1>5. frames[p].todo # <<>> => SpecOf(p).ignore \/ SpecOf(p).deps \cap frames[p].failed = {}
    BY <1>2 DEF Gated, InBody
  <1> QED BY <1>1, <1>2, <1>3, <1>4, <1>5, SameNames, TaskType

LEMMA SkipGatedInv ==
    ASSUME DagInv, NEW p \in DOMAIN frames, SkipGated(p)
    PROVE  DagInv'
  <1>1. FrameInv(pipeline, frames[p]) /\ pipeline \in Pipelines
    BY DEF DagInv, AllInv, FramesInv
  <1>2. Running(p) /\ frames[p].result = "none" /\ frames[p].mode = "idle" /\ frames[p].todo # <<>>
    BY DEF SkipGated, Idle, Gated, InBody, Running
  <1>3. PICK g : g = FailTask(frames[p], TaskAt(frames[p]))
    OBVIOUS
  <1>4. Set(p, g) /\ pipeline' = pipeline /\ UNCHANGED failures
    BY <1>3, SameNames DEF SkipGated
  <1>5. FrameInv(pipeline, g) /\ g.mode = "idle" /\ Marked(g)
    BY <1>1, <1>2, <1>3, FailInv
  <1> QED BY <1>2, <1>4, <1>5, SetInv, NoNewFailures

LEMMA SkipConditionInv ==
    ASSUME DagInv, NEW p \in DOMAIN frames, SkipCondition(p)
    PROVE  DagInv'
  <1>1. FrameInv(pipeline, frames[p]) /\ pipeline \in Pipelines
    BY DEF DagInv, AllInv, FramesInv
  <1>2. /\ Running(p) /\ frames[p].result = "none" /\ frames[p].mode = "idle"
        /\ frames[p].todo # <<>>
        /\ SpecOf(p).ignore \/ SpecOf(p).deps \cap frames[p].failed = {}
        /\ SpecOf(p).when # {}
    BY DEF SkipCondition, Idle, Gated, InBody, Running
  <1>3. PICK g : g = Pop(frames[p])
    OBVIOUS
  <1>4. Set(p, g) /\ pipeline' = pipeline /\ UNCHANGED failures
    BY <1>3 DEF SkipCondition
  <1>5. FrameInv(pipeline, g) /\ g.mode = "idle" /\ (Marked(frames[p]) => Marked(g))
    BY <1>1, <1>2, <1>3, PopInv, SameNames
  <1> QED BY <1>2, <1>4, <1>5, SetInv, NoNewFailures

LEMMA MissingInputInv ==
    ASSUME DagInv, NEW p \in DOMAIN frames, MissingInput(p)
    PROVE  DagInv'
  <1>1. /\ FrameInv(pipeline, frames[p]) /\ pipeline \in Pipelines
        /\ Running(p) /\ frames[p].mode = "idle"
    BY ReadyFacts DEF MissingInput, DagInv
  <1>2. PICK g : g = Raised(frames[p])
    OBVIOUS
  <1>3. Set(p, g) /\ pipeline' = pipeline /\ UNCHANGED failures
    BY <1>2 DEF MissingInput
  <1>4. FrameInv(pipeline, g) /\ g.mode = "idle" /\ Marked(g)
    BY <1>1, <1>2, RaisedInv
  <1> QED BY <1>1, <1>3, <1>4, SetInv, NoNewFailures

\* The status of a task of the dag itself is found before that of another dag (IOStore).
LEMMA OwnStateIsFound ==
    ASSUME NEW p \in Paths, NEW t \in DOMAIN frames[p].state
    PROVE  FinalState(p, t) = frames[p].state[t]
  <1>1. SubSeq(p, 1, Len(p)) = p /\ Len(p) \in Nat
    BY SubSeqFull, LenProperties DEF Paths
  <1>2. PICK K : K = KnownState(p, t)
    OBVIOUS
  <1>3. Len(p) \in K /\ K \subseteq 0..Len(p)
    <2>1. Len(p) \in 0..Len(p)
      BY <1>1
    <2>2. t \in DOMAIN frames[SubSeq(p, 1, Len(p))].state
      BY <1>1, Zenon
    <2> QED BY <1>2, <2>1, <2>2 DEF KnownState
  <1>4. Max(K) = Len(p)
    <2>1. \E x \in K : \A y \in K : x >= y
      <3>1. \A y \in K : Len(p) >= y
        BY <1>1, <1>3
      <3> QED BY <1>3, <3>1
    <2>2. Max(K) \in K /\ \A y \in K : Max(K) >= y
      BY <2>1 DEF Max
    <2>3. PICK k \in 0..Len(p) : k = Max(K)
      BY <1>3, <2>2
    <2>4. k >= Len(p)
      BY <1>3, <2>2, <2>3
    <2> QED BY <1>1, <2>3, <2>4
  <1> QED BY <1>1, <1>2, <1>3, <1>4 DEF FinalState

\* A task that is not a loop is begun.
LEMMA BegunFacts ==
    ASSUME DagInv, NEW p \in DOMAIN frames, Callable(p), NEW m \in {"idle", "run", "call"},
           NEW g, g = Begun(p, m)
    PROVE  /\ FrameInv(pipeline, g) /\ g.mode = m /\ g.result = "none"
           /\ TaskAt(g) = TaskAt(frames[p]) /\ MayEnd(pipeline, g)
           /\ Marked(frames[p]) => Marked(g)
  <1>1. Ready(p) /\ SpecAt(pipeline, frames[p]).loop = {} /\ pipeline \in Pipelines
    BY SameNames DEF Callable, DagInv
  <1>2. /\ FrameInv(pipeline, frames[p]) /\ p \in Paths
        /\ frames[p].mode = "idle" /\ frames[p].result = "none"
        /\ frames[p].todo # <<>> \/ frames[p].exits # <<>>
        /\ frames[p].todo # <<>> =>
               \/ SpecAt(pipeline, frames[p]).ignore
               \/ SpecAt(pipeline, frames[p]).deps \cap frames[p].failed = {}
    BY <1>1, ReadyFacts
  <1>3. PICK f : f = frames[p]
    OBVIOUS
  <1>4. PICK s : s = FinalState(p, SpecAt(pipeline, f).final)
    OBVIOUS
  <1>5. SpecAt(pipeline, f).final \in DOMAIN f.state => s = f.state[SpecAt(pipeline, f).final]
    BY <1>2, <1>3, <1>4, OwnStateIsFound
  <1>6. PICK u : u = IF SpecAt(pipeline, f).final = NoTask THEN f.told ELSE Put(f.told, TaskAt(f), s)
    OBVIOUS
  <1>7. g = [f EXCEPT !.mode = m, !.told = u]
    <2>1. SpecOf(p) = SpecAt(pipeline, f) /\ Task(p) = TaskAt(f)
      BY <1>3, SameNames
    <2>2. FinalState(p, SpecOf(p).final) = s
      BY <1>4, <2>1
    <2> QED BY <1>3, <1>6, <2>1, <2>2 DEF Begun
  <1>8. FrameInv(pipeline, f) /\ MayBegin(pipeline, f)
    BY <1>1, <1>2, <1>3 DEF MayBegin
  <1>9. DOMAIN f = Fields
    BY <1>8 DEF FrameInv, FrameShape
  <1>10. Begins(pipeline, f, g, m, s)
    BY <1>6, <1>7, <1>9 DEF Begins, SameTasks, Fields
  <1>11. /\ FrameInv(pipeline, g) /\ g.mode = m /\ g.result = "none"
         /\ TaskAt(g) = TaskAt(f) /\ MayEnd(pipeline, g)
         /\ Marked(f) => Marked(g)
    BY <1>1, <1>5, <1>8, <1>10, BegunInv
  <1> QED BY <1>3, <1>11

LEMMA CacheHitInv ==
    ASSUME DagInv, NEW p \in DOMAIN frames, CacheHit(p)
    PROVE  DagInv'
  <1>1. Callable(p) /\ Running(p) /\ frames[p].mode = "idle" /\ pipeline \in Pipelines
    BY DEF CacheHit, Callable, Ready, Idle, DagInv
  <1>2. PICK f : f = Begun(p, "idle")
    OBVIOUS
  <1>3. /\ FrameInv(pipeline, f) /\ TaskAt(f) = TaskAt(frames[p]) /\ MayEnd(pipeline, f)
        /\ Marked(frames[p]) => Marked(f)
    BY <1>1, <1>2, BegunFacts
  <1>4. PICK v : v = cache[CacheKey(p)]
    OBVIOUS
  <1>5. PICK g : g = SucceedTask(f, TaskAt(f), v)
    OBVIOUS
  <1>6. Set(p, g) /\ pipeline' = pipeline /\ UNCHANGED failures
    BY <1>2, <1>3, <1>4, <1>5, SameNames DEF CacheHit
  <1>7. FrameInv(pipeline, g) /\ g.mode = "idle" /\ (Marked(f) => Marked(g))
    BY <1>1, <1>3, <1>5, SucceedInv
  <1> QED BY <1>1, <1>3, <1>6, <1>7, SetInv, NoNewFailures

LEMMA BeginRunInv ==
    ASSUME DagInv, NEW p \in DOMAIN frames, BeginRun(p)
    PROVE  DagInv'
  <1>1. Callable(p) /\ Running(p) /\ frames[p].mode = "idle"
    BY DEF BeginRun, Callable, Ready, Idle
  <1>2. PICK g : g = Begun(p, "run")
    OBVIOUS
  <1>3. Set(p, g) /\ pipeline' = pipeline /\ UNCHANGED failures
    BY <1>2 DEF BeginRun
  <1>4. FrameInv(pipeline, g) /\ g.mode = "run" /\ (Marked(frames[p]) => Marked(g))
    BY <1>1, <1>2, BegunFacts
  <1> QED BY <1>1, <1>3, <1>4, SetInv, NoNewFailures

\* What is known of a frame that is at a task.
LEMMA BusyFacts ==
    ASSUME DagInv, NEW p \in DOMAIN frames, frames[p].mode # "idle"
    PROVE  /\ FrameInv(pipeline, frames[p]) /\ MayEnd(pipeline, frames[p])
           /\ p \in Paths /\ pipeline \in Pipelines /\ AllInv(pipeline, frames, failures)
           /\ frames[p].result = "none" /\ (frames[p].todo # <<>> \/ frames[p].exits # <<>>)
           /\ frames[p].todo = <<>> => TaskAt(frames[p]) \in DOMAIN frames[p].told
           /\ \A i \in Nat : <<TaskAt(frames[p]), i>> \in CallSteps
  <1>1. /\ FrameInv(pipeline, frames[p]) /\ p \in Paths /\ pipeline \in Pipelines
        /\ AllInv(pipeline, frames, failures)
    BY DEF DagInv, AllInv, FramesInv, TreeInv
  <1>2. MayEnd(pipeline, frames[p]) /\ FrameShape(pipeline, frames[p])
    BY <1>1, AtWorkMayEnd DEF FrameInv
  <1>3. /\ frames[p].result = "none" /\ (frames[p].todo # <<>> \/ frames[p].exits # <<>>)
        /\ frames[p].todo = <<>> => TaskAt(frames[p]) \in DOMAIN frames[p].told
    BY <1>2 DEF MayEnd
  <1>4. ASSUME NEW i \in Nat PROVE <<TaskAt(frames[p]), i>> \in CallSteps
    BY <1>1, <1>2, <1>3, CallStepType
  <1> QED BY <1>1, <1>2, <1>3, <1>4

LEMMA RunSucceedsInv ==
    ASSUME DagInv, NEW p \in DOMAIN frames, RunSucceeds(p)
    PROVE  DagInv'
  <1>1. Running(p) /\ frames[p].mode = "run"
    BY DEF RunSucceeds, AtWork
  <1>2. PICK v : Set(p, SucceedTask(frames[p], Task(p), v))
    BY DEF RunSucceeds
  <1>3. PICK g : g = SucceedTask(frames[p], TaskAt(frames[p]), v)
    OBVIOUS
  <1>4. Set(p, g) /\ pipeline' = pipeline /\ UNCHANGED failures
    BY <1>2, <1>3, SameNames DEF RunSucceeds
  <1>5. FrameInv(pipeline, frames[p]) /\ MayEnd(pipeline, frames[p]) /\ pipeline \in Pipelines
    BY <1>1, BusyFacts
  <1>6. FrameInv(pipeline, g) /\ g.mode = "idle" /\ (Marked(frames[p]) => Marked(g))
    BY <1>3, <1>5, SucceedInv
  <1> QED BY <1>1, <1>4, <1>6, SetInv, NoNewFailures

\* The failure of the task at hand of p, which is marked.
LEMMA NewFailure ==
    ASSUME DagInv, NEW p \in DOMAIN frames, frames[p].mode # "idle", NEW g, Marked(g),
           failures' = failures \cup {Append(p, <<Task(p), 0>>)}
    PROVE  OwnFailures(p, g, failures, failures')
  <1>1. <<Task(p), 0>> \in CallSteps
    BY BusyFacts, SameNames
  <1> QED BY <1>1 DEF OwnFailures

LEMMA RunFailsInv ==
    ASSUME DagInv, NEW p \in DOMAIN frames, RunFails(p)
    PROVE  DagInv'
  <1>1. Running(p) /\ frames[p].mode = "run" /\ pipeline' = pipeline
    BY DEF RunFails, AtWork
  <1>2. /\ FrameInv(pipeline, frames[p]) /\ pipeline \in Pipelines
        /\ frames[p].result = "none" /\ (frames[p].todo # <<>> \/ frames[p].exits # <<>>)
        /\ frames[p].todo = <<>> => TaskAt(frames[p]) \in DOMAIN frames[p].told
    BY <1>1, BusyFacts
  <1>3. CASE frames[p].attempt < SpecAt(pipeline, frames[p]).retries
    <2>1. PICK g : g = [frames[p] EXCEPT !.attempt = @ + 1]
      OBVIOUS
    <2>2. Set(p, g) /\ UNCHANGED failures
      BY <1>3, <2>1, SameNames DEF RunFails
    <2>3. FrameInv(pipeline, g) /\ g.mode = "run" /\ (Marked(frames[p]) => Marked(g))
      BY <1>1, <1>2, <1>3, <2>1, RetryInv
    <2> QED BY <1>1, <2>2, <2>3, SetInv, NoNewFailures
  <1>4. CASE ~(frames[p].attempt < SpecAt(pipeline, frames[p]).retries)
    <2>1. PICK g : g = FailTask(frames[p], TaskAt(frames[p]))
      OBVIOUS
    <2>2. Set(p, g) /\ failures' = failures \cup {Append(p, <<Task(p), 0>>)}
      BY <1>4, <2>1, SameNames DEF RunFails
    <2>3. FrameInv(pipeline, g) /\ g.mode = "idle" /\ Marked(g)
      BY <1>1, <1>2, <2>1, FailInv
    <2> QED BY <1>1, <2>2, <2>3, SetInv, NewFailure
  <1> QED BY <1>3, <1>4

LEMMA RunRaisesInv ==
    ASSUME DagInv, NEW p \in DOMAIN frames, RunRaises(p)
    PROVE  DagInv'
  <1>1. Running(p) /\ frames[p].mode = "run" /\ pipeline' = pipeline
    BY DEF RunRaises, AtWork
  <1>2. PICK g : g = Raised(frames[p])
    OBVIOUS
  <1>3. Set(p, g) /\ failures' = failures \cup {Append(p, <<Task(p), 0>>)}
    BY <1>2 DEF RunRaises
  <1>4. FrameInv(pipeline, g) /\ g.mode = "idle" /\ Marked(g)
    BY <1>1, <1>2, BusyFacts, RaisedInv
  <1> QED BY <1>1, <1>3, <1>4, SetInv, NewFailure

LEMMA BeginDagInv ==
    ASSUME DagInv, NEW p \in DOMAIN frames, BeginDag(p)
    PROVE  DagInv'
  <1>1. /\ Callable(p) /\ Ready(p) /\ SpecAt(pipeline, frames[p]).dag # ""
        /\ pipeline' = pipeline /\ failures' = failures
    BY SameNames DEF BeginDag, Callable
  <1>2. /\ frames[p].mode = "idle" /\ frames[p].result = "none" /\ p \in Paths
        /\ IsTaskSpec(pipeline, SpecsIn(pipeline, frames[p]), SpecAt(pipeline, frames[p]))
        /\ FrameInv(pipeline, frames[p]) /\ (frames[p].todo # <<>> \/ frames[p].exits # <<>>)
    BY <1>1, ReadyFacts
  <1>3. PICK d : d = SpecAt(pipeline, frames[p]).dag
    OBVIOUS
  <1>4. d \in DOMAIN pipeline /\ pipeline \in Pipelines /\ AllInv(pipeline, frames, failures)
    BY <1>1, <1>2, <1>3 DEF IsTaskSpec, DagInv
  <1>5. PICK g, c : g = Begun(p, "call") /\ c = CallOf(frames, p, 0)
    OBVIOUS
  <1>6. PICK h \in Starts(pipeline, d, Arguments(p)) : frames' = Put(Put(frames, p, g), c, h)
    BY <1>3, <1>5, SameNames DEF BeginDag, Child
  <1>7. FrameInv(pipeline, h) /\ h.mode = "idle"
    BY <1>4, StartsInv
  <1>8. /\ FrameInv(pipeline, g) /\ g.mode = "call" /\ TaskAt(g) = TaskAt(frames[p])
        /\ Marked(frames[p]) => Marked(g)
    BY <1>1, <1>5, BegunFacts
  <1>9. \A q \in DOMAIN frames : ~(q # <<>> /\ Front(q) = p)
    BY <1>2, <1>4, OnlyWaitingCalls DEF AllInv
  <1>10. c \notin DOMAIN frames
    <2>1. <<TaskAt(frames[p]), 0>> \in CallSteps
      BY <1>2, <1>4, CallStepType DEF FrameInv
    <2>2. c # <<>> /\ Front(c) = p
      BY <1>2, <1>5, <2>1, PathAppend DEF CallOf
    <2> QED BY <1>9, <2>2
  <1>11. /\ DOMAIN frames' = DOMAIN frames \cup {c} /\ frames'[c] = h /\ frames'[p] = g
         /\ \A q \in DOMAIN frames : q # p => frames'[q] = frames[q]
    <2>1. PICK a : a = Put(frames, p, g)
      OBVIOUS
    <2>2. DOMAIN a = DOMAIN frames /\ a[p] = g /\ \A q \in DOMAIN frames : q # p => a[q] = frames[q]
      BY <2>1 DEF Put
    <2>3. frames' = Put(a, c, h)
      BY <1>6, <2>1
    <2> QED BY <1>10, <2>2, <2>3 DEF Put
  <1>12. CalledBy(pipeline, g, <<TaskAt(g), 0>>)
    BY <1>8 DEF CalledBy
  <1>13. AllInv(pipeline, frames', failures)
    <2>1. \A q \in DOMAIN frames : q # <<>> /\ Front(q) = p => CalledBy(pipeline, g, Last(q))
      BY <1>9
    <2>2. g.mode \in {"call", "loop"} /\ g.mode # "loop"
      BY <1>8
    <2>3. PICK i \in Nat : i = 0
      OBVIOUS
    <2>4. CalledBy(pipeline, g, <<TaskAt(g), i>>) /\ c = CallOf(frames, p, i)
      BY <1>5, <1>12, <2>3
    <2>5. PICK fr2 : fr2 = frames'
      OBVIOUS
    <2>6. /\ DOMAIN fr2 = DOMAIN frames \cup {c} /\ fr2[c] = h /\ fr2[p] = g
          /\ \A q \in DOMAIN frames : q # p => fr2[q] = frames[q]
      BY <1>11, <2>5
    <2>7. /\ g.mode = "call" => i = 0
          /\ g.mode = "loop" =>
                 /\ frames[p].mode = "loop" /\ g.got = frames[p].got
                 /\ LoopAt(pipeline, g) = LoopAt(pipeline, frames[p])
                 /\ Cardinality(LiveIn(pipeline, frames, p)) < WorkersAt(pipeline, frames[p])
      BY <2>2, <2>3
    <2>8. /\ frames[p].result = "none" /\ FrameInv(pipeline, g)
          /\ TaskAt(g) = TaskAt(frames[p]) /\ (Marked(frames[p]) => Marked(g))
      BY <1>2, <1>8
    <2>9. AllInv(pipeline, fr2, failures)
      BY <1>4, <1>7, <1>10, <2>1, <2>2, <2>4, <2>6, <2>7, <2>8, NewCallInv
    <2> QED BY <2>5, <2>9
  <1> QED BY <1>1, <1>4, <1>13 DEF DagInv

\* A call or a loop is over, and the frames of its calls are gone.
LEMMA DropFields ==
    ASSUME NEW p \in DOMAIN frames, frames[p].result = "none", NEW g,
           frames' = [Drop(p) EXCEPT ![p] = g]
    PROVE  /\ DOMAIN frames' = {q \in DOMAIN frames : ~IsStrictPrefix(p, q) \/ frames[q].result = "none"}
           /\ frames'[p] = g
           /\ \A q \in DOMAIN frames' : q # p => frames'[q] = frames[q]
  <1>1. PICK a : a = Drop(p)
    OBVIOUS
  <1>2. /\ DOMAIN a = {q \in DOMAIN frames : ~IsStrictPrefix(p, q) \/ frames[q].result = "none"}
        /\ \A q \in DOMAIN a : a[q] = frames[q]
    BY <1>1 DEF Drop
  <1>3. frames' = [a EXCEPT ![p] = g]
    BY <1>1
  <1> QED BY <1>2, <1>3

LEMMA DropStep ==
    ASSUME DagInv, NEW p \in DOMAIN frames, frames[p].result = "none",
           \A q \in DOMAIN frames : q # <<>> /\ Front(q) = p => frames[q].result # "none",
           NEW g, FrameInv(pipeline, g), g.mode = "idle",
           Marked(frames[p]) => Marked(g),
           \A q \in DOMAIN frames : q # <<>> /\ Front(q) = p /\ Marked(frames[q]) => Marked(g),
           frames' = [Drop(p) EXCEPT ![p] = g], UNCHANGED <<pipeline, failures>>
    PROVE  DagInv'
  <1>1. PICK fr2 : fr2 = frames'
    OBVIOUS
  <1>2. /\ DOMAIN fr2 = {q \in DOMAIN frames : ~IsStrictPrefix(p, q) \/ frames[q].result = "none"}
        /\ fr2[p] = g
        /\ \A q \in DOMAIN fr2 : q # p => fr2[q] = frames[q]
    BY <1>1, DropFields
  <1>3. pipeline \in Pipelines /\ AllInv(pipeline, frames, failures)
    BY DEF DagInv
  <1>4. AllInv(pipeline, fr2, failures)
    BY <1>2, <1>3, DropInv
  <1> QED BY <1>1, <1>3, <1>4 DEF DagInv

\* The calls of p are those of its task at hand, by the number of their iteration.
LEMMA CallsOf ==
    ASSUME DagInv, NEW p \in DOMAIN frames, NEW q \in DOMAIN frames, q # <<>>, Front(q) = p
    PROVE  /\ q = CallOf(frames, p, Last(q)[2])
           /\ CalledBy(pipeline, frames[p], Last(q))
  <1>1. q \in Paths /\ CalledBy(pipeline, frames[p], Last(q))
    BY DEF DagInv, AllInv, TreeInv, CallInv
  <1>2. q = Append(p, Last(q)) /\ Last(q) \in CallSteps
    BY <1>1, PathFront
  <1>3. PICK c : c = Last(q)
    OBVIOUS
  <1>4. c = <<c[1], c[2]>> /\ c[1] = TaskAt(frames[p])
    BY <1>1, <1>2, <1>3 DEF CallSteps, CalledBy
  <1> QED BY <1>1, <1>2, <1>3, <1>4 DEF CallOf

LEMMA CallReturnsInv ==
    ASSUME DagInv, NEW p \in DOMAIN frames, CallReturns(p)
    PROVE  DagInv'
  <1>1. frames[p].mode = "call" /\ UNCHANGED <<pipeline, failures>>
    BY DEF CallReturns
  <1>2. /\ FrameInv(pipeline, frames[p]) /\ MayEnd(pipeline, frames[p]) /\ pipeline \in Pipelines
        /\ frames[p].result = "none" /\ (frames[p].todo # <<>> \/ frames[p].exits # <<>>)
        /\ frames[p].todo = <<>> => TaskAt(frames[p]) \in DOMAIN frames[p].told
        /\ frames[p].mode # "loop"
    BY <1>1, BusyFacts
  <1>3. PICK c : c = CallOf(frames, p, 0)
    OBVIOUS
  <1>4. c \in DOMAIN frames /\ Child(p) = c
    BY <1>1, <1>3, SameNames DEF DagInv, AllInv, CallInv, Child
  <1>5. \A q \in DOMAIN frames : q # <<>> /\ Front(q) = p => q = c
    BY <1>1, <1>3, CallsOf DEF CalledBy
  <1>6. frames[c].result \in {"success", "failure", "raised"} /\ FrameInv(pipeline, frames[c])
    <2>1. FrameInv(pipeline, frames[c])
      BY <1>4 DEF DagInv, AllInv, FramesInv
    <2>2. frames[c].result # "none"
      BY <1>4 DEF CallReturns
    <2> QED BY <2>1, <2>2 DEF FrameInv, FrameShape, Results
  <1>7. \A q \in DOMAIN frames : q # <<>> /\ Front(q) = p => frames[q].result # "none"
    BY <1>5, <1>6
  <1>8. CASE frames[c].result = "success"
    <2>1. PICK g : g = SucceedTask(frames[p], TaskAt(frames[p]), frames[c].value)
      OBVIOUS
    <2>2. frames' = [Drop(p) EXCEPT ![p] = g]
      BY <1>4, <1>8, <2>1, SameNames DEF CallReturns
    <2>3. FrameInv(pipeline, g) /\ g.mode = "idle" /\ (Marked(frames[p]) => Marked(g))
      BY <1>2, <2>1, SucceedInv
    <2>4. ~Marked(frames[c])
      BY <1>6, <1>8 DEF FrameInv
    <2>5. \A q \in DOMAIN frames : q # <<>> /\ Front(q) = p /\ Marked(frames[q]) => Marked(g)
      BY <1>5, <2>4
    <2> QED BY <1>1, <1>2, <1>7, <2>2, <2>3, <2>5, DropStep
  <1>9. CASE frames[c].result = "failure"
    <2>1. PICK g : g = FailTask(frames[p], TaskAt(frames[p]))
      OBVIOUS
    <2>2. frames' = [Drop(p) EXCEPT ![p] = g]
      BY <1>4, <1>9, <2>1, SameNames DEF CallReturns
    <2>3. FrameInv(pipeline, g) /\ g.mode = "idle" /\ Marked(g)
      BY <1>2, <2>1, FailInv
    <2> QED BY <1>1, <1>2, <1>7, <2>2, <2>3, DropStep
  <1>10. CASE frames[c].result = "raised"
    <2>1. PICK g : g = Raised(frames[p])
      OBVIOUS
    <2>2. frames' = [Drop(p) EXCEPT ![p] = g]
      BY <1>4, <1>10, <2>1, SameNames DEF CallReturns
    <2>3. FrameInv(pipeline, g) /\ g.mode = "idle" /\ Marked(g)
      BY <1>2, <2>1, RaisedInv
    <2> QED BY <1>1, <1>2, <1>7, <2>2, <2>3, DropStep
  <1> QED BY <1>6, <1>8, <1>9, <1>10

\* What is known of a loop that may be started: an exit task is none.
LEMMA LoopReadyFacts ==
    ASSUME DagInv, NEW p \in DOMAIN frames, LoopReady(p)
    PROVE  /\ FrameInv(pipeline, frames[p]) /\ pipeline \in Pipelines /\ Running(p)
           /\ frames[p].mode = "idle" /\ frames[p].result = "none" /\ frames[p].todo # <<>>
           /\ \/ SpecAt(pipeline, frames[p]).ignore
              \/ SpecAt(pipeline, frames[p]).deps \cap frames[p].failed = {}
           /\ SpecAt(pipeline, frames[p]).loop # {}
  <1>1. Ready(p) /\ SpecAt(pipeline, frames[p]).loop # {} /\ pipeline \in Pipelines
    BY SameNames DEF LoopReady, DagInv
  <1>2. /\ FrameInv(pipeline, frames[p]) /\ Running(p)
        /\ frames[p].mode = "idle" /\ frames[p].result = "none"
        /\ frames[p].todo # <<>> \/ frames[p].exits # <<>>
        /\ frames[p].todo # <<>> =>
               \/ SpecAt(pipeline, frames[p]).ignore
               \/ SpecAt(pipeline, frames[p]).deps \cap frames[p].failed = {}
        /\ IsTaskSpec(pipeline, SpecsIn(pipeline, frames[p]), SpecAt(pipeline, frames[p]))
    BY <1>1, ReadyFacts
  <1>3. frames[p].todo # <<>>
    <2>1. ~IsExit(SpecAt(pipeline, frames[p]))
      BY <1>1, <1>2 DEF IsTaskSpec
    <2>2. frames[p].todo = <<>> =>
              TaskAt(frames[p]) \in Exits(pipeline, frames[p])
              /\ TaskAt(frames[p]) \in DOMAIN SpecsIn(pipeline, frames[p])
      BY <1>1, <1>2, TaskType DEF FrameInv
    <2> QED BY <2>1, <2>2 DEF Exits, Body, BodyTasks, SpecAt
  <1> QED BY <1>1, <1>2, <1>3

LEMMA LoopWithoutItemsInv ==
    ASSUME DagInv, NEW p \in DOMAIN frames, LoopWithoutItems(p)
    PROVE  DagInv'
  <1>1. /\ FrameInv(pipeline, frames[p]) /\ pipeline \in Pipelines /\ Running(p)
        /\ frames[p].mode = "idle" /\ frames[p].result = "none" /\ frames[p].todo # <<>>
        /\ \/ SpecAt(pipeline, frames[p]).ignore
           \/ SpecAt(pipeline, frames[p]).deps \cap frames[p].failed = {}
        /\ SpecAt(pipeline, frames[p]).loop # {}
    BY LoopReadyFacts DEF LoopWithoutItems
  <1>2. PICK g : g = IF TheLoop(p).artifact THEN Pop(frames[p]) ELSE Raised(frames[p])
    OBVIOUS
  <1>3. Set(p, g) /\ pipeline' = pipeline /\ UNCHANGED failures
    BY <1>2 DEF LoopWithoutItems
  <1>4. FrameInv(pipeline, g) /\ g.mode = "idle" /\ (Marked(frames[p]) => Marked(g))
    <2>1. CASE g = Pop(frames[p])
      BY <1>1, <2>1, PopInv
    <2>2. CASE g = Raised(frames[p])
      BY <1>1, <2>2, RaisedInv
    <2> QED BY <1>2, <2>1, <2>2
  <1> QED BY <1>1, <1>3, <1>4, SetInv, NoNewFailures

LEMMA LoopRaisesInv ==
    ASSUME DagInv, NEW p \in DOMAIN frames, LoopRaises(p)
    PROVE  DagInv'
  <1>1. /\ FrameInv(pipeline, frames[p]) /\ pipeline \in Pipelines /\ Running(p)
        /\ frames[p].mode = "idle" /\ frames[p].result = "none" /\ frames[p].todo # <<>>
        /\ SpecAt(pipeline, frames[p]).loop # {}
    BY LoopReadyFacts DEF LoopRaises
  <1>2. PICK g : g = FailLoop(frames[p], TaskAt(frames[p]))
    OBVIOUS
  <1>3. Set(p, g) /\ pipeline' = pipeline /\ UNCHANGED failures
    <2>1. Task(p) = TaskAt(frames[p])
      BY SameNames
    <2> QED BY <1>2, <2>1 DEF LoopRaises
  <1>4. FrameInv(pipeline, g) /\ g.mode = "idle" /\ Marked(g)
    BY <1>1, <1>2, LoopFailInv
  <1> QED BY <1>1, <1>3, <1>4, SetInv, NoNewFailures

LEMMA BeginLoopInv ==
    ASSUME DagInv, NEW p \in DOMAIN frames, BeginLoop(p)
    PROVE  DagInv'
  <1>1. /\ FrameInv(pipeline, frames[p]) /\ pipeline \in Pipelines /\ Running(p)
        /\ frames[p].mode = "idle" /\ frames[p].result = "none" /\ frames[p].todo # <<>>
        /\ \/ SpecAt(pipeline, frames[p]).ignore
           \/ SpecAt(pipeline, frames[p]).deps \cap frames[p].failed = {}
        /\ SpecAt(pipeline, frames[p]).loop # {}
    BY LoopReadyFacts DEF BeginLoop
  <1>2. pipeline' = pipeline /\ UNCHANGED failures
    BY DEF BeginLoop
  <1>3. CASE LoopAt(pipeline, frames[p]).items = 0
    <2>1. PICK g : g = Pop(frames[p])
      OBVIOUS
    <2>2. Set(p, g)
      BY <1>3, <2>1, SameNames DEF BeginLoop
    <2>3. FrameInv(pipeline, g) /\ g.mode = "idle" /\ (Marked(frames[p]) => Marked(g))
      BY <1>1, <2>1, PopInv
    <2> QED BY <1>1, <1>2, <2>2, <2>3, SetInv, NoNewFailures
  <1>4. CASE LoopAt(pipeline, frames[p]).items # 0
    <2>1. PICK f, l : f = frames[p] /\ l = LoopAt(pipeline, f)
      OBVIOUS
    <2>2. PICK g : g = [f EXCEPT !.mode = "loop", !.pool = [i \in 1..l.items |-> i]]
      OBVIOUS
    <2>3. Set(p, g)
      <3>1. TheLoop(p) = l
        BY <2>1, SameNames
      <3> QED BY <1>4, <2>1, <2>2, <3>1 DEF BeginLoop
    <2>4. DOMAIN f = Fields
      BY <1>1, <2>1 DEF FrameInv, FrameShape
    <2>5. LoopBegins(pipeline, f, g)
      BY <2>1, <2>2, <2>4 DEF LoopBegins, SameTasks, Fields
    <2>6. /\ FrameInv(pipeline, g) /\ g.mode = "loop" /\ DOMAIN g.got = {}
          /\ Marked(frames[p]) => Marked(g)
      BY <1>1, <2>1, <2>5, LoopBegunInv
    <2> QED BY <1>1, <1>2, <2>3, <2>6, SetInv, NoNewFailures
  <1> QED BY <1>3, <1>4

\* What is known of a loop at work.
LEMMA LoopingFacts ==
    ASSUME DagInv, NEW p \in DOMAIN frames, frames[p].mode = "loop"
    PROVE  /\ FrameInv(pipeline, frames[p]) /\ DOMAIN frames[p] = Fields
           /\ pipeline \in Pipelines /\ AllInv(pipeline, frames, failures)
           /\ p \in Paths /\ frames[p].result = "none"
           /\ SpecAt(pipeline, frames[p]).dag \in DOMAIN pipeline
           /\ LoopAt(pipeline, frames[p]).items \in Nat
           /\ frames[p].pool \in Seq(1..LoopAt(pipeline, frames[p]).items)
           /\ NoRepeat(frames[p].pool)
           /\ DOMAIN frames[p].got \subseteq 1..LoopAt(pipeline, frames[p]).items
           /\ \A i \in DOMAIN frames[p].got :
                  /\ CallOf(frames, p, i) \in DOMAIN frames
                  /\ frames[CallOf(frames, p, i)].result = "success"
           /\ \A i \in Nat : <<TaskAt(frames[p]), i>> \in CallSteps
  <1>1. /\ FrameInv(pipeline, frames[p]) /\ pipeline \in Pipelines
        /\ AllInv(pipeline, frames, failures)
        /\ p \in Paths /\ frames[p].result = "none"
        /\ \A i \in Nat : <<TaskAt(frames[p]), i>> \in CallSteps
    BY BusyFacts
  <1>2. FrameShape(pipeline, frames[p]) /\ FrameLoop(pipeline, frames[p])
    BY <1>1 DEF FrameInv
  <1>3. /\ frames[p].todo # <<>> /\ SpecAt(pipeline, frames[p]).loop # {}
        /\ frames[p].pool \in Seq(1..LoopAt(pipeline, frames[p]).items)
        /\ NoRepeat(frames[p].pool)
        /\ DOMAIN frames[p].got \subseteq 1..LoopAt(pipeline, frames[p]).items
    BY <1>2 DEF FrameLoop
  <1>4. IsTaskSpec(pipeline, SpecsIn(pipeline, frames[p]), SpecAt(pipeline, frames[p]))
    BY <1>1, <1>2, <1>3, TaskType
  <1>5. SpecAt(pipeline, frames[p]).dag \in DOMAIN pipeline
    BY <1>3, <1>4 DEF IsTaskSpec
  <1>6. LoopAt(pipeline, frames[p]).items \in Nat
    BY <1>1, LoopTypes
  <1>7. \A i \in DOMAIN frames[p].got :
            /\ CallOf(frames, p, i) \in DOMAIN frames
            /\ frames[CallOf(frames, p, i)].result = "success"
    BY <1>1 DEF AllInv, LoopInv, LoopInvAt
  <1>8. DOMAIN frames[p] = Fields
    BY <1>2 DEF FrameShape
  <1> QED BY <1>1, <1>3, <1>5, <1>6, <1>7, <1>8

LEMMA StartIterationInv ==
    ASSUME DagInv, NEW p \in DOMAIN frames, StartIteration(p)
    PROVE  DagInv'
  <1>1. /\ frames[p].mode = "loop" /\ frames[p].pool # <<>>
        /\ pipeline' = pipeline /\ failures' = failures
    BY DEF StartIteration, Looping
  <1>2. /\ FrameInv(pipeline, frames[p]) /\ DOMAIN frames[p] = Fields
        /\ pipeline \in Pipelines /\ AllInv(pipeline, frames, failures)
        /\ p \in Paths /\ frames[p].result = "none"
        /\ SpecAt(pipeline, frames[p]).dag \in DOMAIN pipeline
        /\ frames[p].pool \in Seq(1..LoopAt(pipeline, frames[p]).items)
        /\ NoRepeat(frames[p].pool)
        /\ DOMAIN frames[p].got \subseteq 1..LoopAt(pipeline, frames[p]).items
        /\ \A j \in Nat : <<TaskAt(frames[p]), j>> \in CallSteps
    BY <1>1, LoopingFacts
  <1>3. PICK f, pool, N, d :
            /\ f = frames[p] /\ pool = f.pool
            /\ N = 1..LoopAt(pipeline, f).items /\ d = SpecAt(pipeline, f).dag
    OBVIOUS
  <1>4. PICK i : i = Head(pool)
    OBVIOUS
  <1>5. PICK rest : rest = Tail(pool)
    OBVIOUS
  <1>6. i \in N /\ i \in ToSet(pool) /\ ToSet(rest) = ToSet(pool) \ {i}
    <2>1. pool \in Seq(N) /\ NoRepeat(pool) /\ pool # <<>>
      BY <1>1, <1>2, <1>3
    <2> QED BY <1>4, <1>5, <2>1, QueueTail
  <1>7. i \in Nat
    BY <1>1, <1>3, <1>6, LoopingFacts
  <1>8. PICK g, c : g = [f EXCEPT !.pool = rest] /\ c = CallOf(frames, p, i)
    OBVIOUS
  <1>9. PICK h \in Starts(pipeline, d, IterationArguments(p, i)) :
            frames' = Put(Put(frames, p, g), c, h)
    <2>1. SpecOf(p).dag = d /\ Append(p, <<Task(p), i>>) = c
      BY <1>3, <1>8, SameNames
    <2>2. Head(frames[p].pool) = i /\ g = [frames[p] EXCEPT !.pool = Tail(@)]
      BY <1>3, <1>4, <1>5, <1>8
    <2> QED BY <2>1, <2>2 DEF StartIteration
  <1>10. FrameInv(pipeline, h) /\ h.mode = "idle"
    BY <1>2, <1>3, StartsInv
  <1>11. /\ SameTasks(f, g) /\ g.told = f.told /\ g.attempt = f.attempt
         /\ g.mode = "loop" /\ g.result = f.result /\ g.pool = rest /\ g.got = f.got
    BY <1>1, <1>2, <1>3, <1>8 DEF SameTasks, Fields
  <1>12. /\ FrameInv(pipeline, g) /\ LoopAt(pipeline, g) = LoopAt(pipeline, f)
         /\ TaskAt(g) = TaskAt(f) /\ (Marked(f) => Marked(g))
    <2>1. f.pool # <<>> /\ g.pool = Tail(f.pool) /\ DOMAIN g.got \subseteq 1..LoopAt(pipeline, f).items
      BY <1>1, <1>2, <1>3, <1>5, <1>11
    <2>2. FrameInv(pipeline, f) /\ f.mode = "loop"
      BY <1>1, <1>2, <1>3
    <2> QED BY <1>2, <1>11, <2>1, <2>2, LoopGoesOnInv
  <1>13. \A q \in DOMAIN frames : q # <<>> /\ Front(q) = p => CalledBy(pipeline, f, Last(q))
    BY <1>3, CallsOf
  <1>14. c \notin DOMAIN frames
    <2>1. c # <<>> /\ Front(c) = p /\ Last(c) = <<TaskAt(f), i>>
      BY <1>2, <1>3, <1>7, <1>8, PathAppend DEF CallOf
    <2>2. ASSUME c \in DOMAIN frames PROVE FALSE
      <3>1. CalledBy(pipeline, f, <<TaskAt(f), i>>)
        BY <1>13, <2>1, <2>2
      <3> QED BY <1>1, <1>3, <1>6, <3>1 DEF CalledBy
    <2> QED BY <2>2
  <1>15. \A q \in DOMAIN frames : q # <<>> /\ Front(q) = p => CalledBy(pipeline, g, Last(q))
    <2>1. ASSUME NEW x, CalledBy(pipeline, f, x) PROVE CalledBy(pipeline, g, x)
      BY <1>1, <1>3, <1>6, <1>11, <1>12, <2>1 DEF CalledBy
    <2> QED BY <1>13, <2>1
  <1>16. CalledBy(pipeline, g, <<TaskAt(g), i>>)
    BY <1>3, <1>6, <1>11, <1>12 DEF CalledBy
  <1>17. PICK fr2 : fr2 = frames'
    OBVIOUS
  <1>18. /\ DOMAIN fr2 = DOMAIN frames \cup {c} /\ fr2[c] = h /\ fr2[p] = g
         /\ \A q \in DOMAIN frames : q # p => fr2[q] = frames[q]
    <2>1. PICK a : a = Put(frames, p, g)
      OBVIOUS
    <2>2. DOMAIN a = DOMAIN frames /\ a[p] = g /\ \A q \in DOMAIN frames : q # p => a[q] = frames[q]
      BY <2>1 DEF Put
    <2>3. fr2 = Put(a, c, h)
      BY <1>9, <1>17, <2>1
    <2> QED BY <1>14, <2>2, <2>3 DEF Put
  <1>19. AllInv(pipeline, fr2, failures)
    <2>1. g.mode \in {"call", "loop"} /\ g.mode # "call"
      BY <1>11
    <2>2. /\ g.mode = "call" => i = 0
          /\ g.mode = "loop" =>
                 /\ frames[p].mode = "loop" /\ g.got = frames[p].got
                 /\ LoopAt(pipeline, g) = LoopAt(pipeline, frames[p])
                 /\ Cardinality(LiveIn(pipeline, frames, p)) < WorkersAt(pipeline, frames[p])
      BY <1>1, <1>3, <1>11, <1>12, <2>1, SameNames DEF StartIteration
    <2>3. /\ frames[p].result = "none" /\ FrameInv(pipeline, g)
          /\ TaskAt(g) = TaskAt(frames[p]) /\ (Marked(frames[p]) => Marked(g))
      BY <1>2, <1>3, <1>12
    <2>4. pipeline \in Pipelines /\ AllInv(pipeline, frames, failures) /\ c = CallOf(frames, p, i)
      BY <1>2, <1>8
    <2> QED BY <1>7, <1>10, <1>14, <1>15, <1>16, <1>18, <2>1, <2>2, <2>3, <2>4, NewCallInv
  <1> QED BY <1>1, <1>2, <1>17, <1>19 DEF DagInv

LEMMA CollectStepInv ==
    ASSUME DagInv, NEW p \in DOMAIN frames, NEW i, Collect(p, i)
    PROVE  DagInv'
  <1>1. frames[p].mode = "loop" /\ pipeline' = pipeline /\ failures' = failures
    BY DEF Collect, Looping
  <1>2. /\ FrameInv(pipeline, frames[p]) /\ DOMAIN frames[p] = Fields
        /\ pipeline \in Pipelines /\ AllInv(pipeline, frames, failures)
        /\ frames[p].result = "none"
        /\ DOMAIN frames[p].got \subseteq 1..LoopAt(pipeline, frames[p]).items
    BY <1>1, LoopingFacts
  <1>3. PICK f, c, N : f = frames[p] /\ c = CallOf(frames, p, i) /\ N = 1..LoopAt(pipeline, f).items
    OBVIOUS
  <1>4. i \in N /\ c \in DOMAIN frames /\ Iteration(p, i) = frames[c]
    <2>1. Append(p, <<Task(p), i>>) = c /\ TheLoop(p) = LoopAt(pipeline, f)
      BY <1>3, SameNames
    <2>2. i \in Iterations(p)
      BY DEF Collect
    <2> QED BY <1>3, <2>1, <2>2 DEF Iterations, Iteration
  <1>5. PICK v : v = frames[c].value
    OBVIOUS
  <1>6. PICK g : g = IF frames[c].result = "success" THEN [f EXCEPT !.got = Put(@, i, v)]
                     ELSE [f EXCEPT !.broke = TRUE]
    OBVIOUS
  <1>7. Set(p, g)
    BY <1>3, <1>4, <1>5, <1>6 DEF Collect
  <1>8. /\ SameTasks(f, g) /\ g.told = f.told /\ g.attempt = f.attempt
        /\ g.mode = "loop" /\ g.result = f.result /\ g.pool = f.pool
        /\ g.got = f.got \/ (frames[c].result = "success" /\ g.got = Put(f.got, i, v))
    <2>1. f.mode = "loop" /\ DOMAIN f = Fields
      BY <1>1, <1>2, <1>3
    <2>2. CASE frames[c].result = "success"
      <3>1. g = [f EXCEPT !.got = Put(@, i, v)]
        BY <1>6, <2>2
      <3> QED BY <2>1, <2>2, <3>1 DEF SameTasks, Fields
    <2>3. CASE frames[c].result # "success"
      <3>1. g = [f EXCEPT !.broke = TRUE]
        BY <1>6, <2>3
      <3> QED BY <2>1, <3>1 DEF SameTasks, Fields
    <2> QED BY <2>2, <2>3
  <1>9. /\ DOMAIN g.got \subseteq N
        /\ \A j \in DOMAIN g.got :
               \/ j \in DOMAIN frames[p].got
               \/ CallOf(frames, p, j) \in DOMAIN frames /\ frames[CallOf(frames, p, j)].result = "success"
    BY <1>2, <1>3, <1>4, <1>8 DEF Put
  <1>10. /\ FrameInv(pipeline, g) /\ LoopAt(pipeline, g) = LoopAt(pipeline, f)
         /\ TaskAt(g) = TaskAt(f) /\ (Marked(f) => Marked(g))
    <2>1. FrameInv(pipeline, f) /\ f.mode = "loop" /\ DOMAIN g.got \subseteq 1..LoopAt(pipeline, f).items
      BY <1>1, <1>2, <1>3, <1>9
    <2> QED BY <1>2, <1>8, <2>1, LoopGoesOnInv
  <1>11. PICK fr2 : fr2 = frames'
    OBVIOUS
  <1>12. OnlyAt(frames, fr2, p, g)
    BY <1>7, <1>11, SetOnlyAt DEF Set
  <1>13. AllInv(pipeline, fr2, failures)
    <2>1. /\ g.mode = "loop" /\ g.result = "none" /\ g.pool = frames[p].pool
          /\ TaskAt(g) = TaskAt(frames[p]) /\ LoopAt(pipeline, g) = LoopAt(pipeline, frames[p])
          /\ Marked(frames[p]) => Marked(g)
      BY <1>2, <1>3, <1>8, <1>10
    <2> QED BY <1>1, <1>2, <1>9, <1>10, <1>12, <2>1, CollectInv
  <1> QED BY <1>1, <1>2, <1>11, <1>13 DEF DagInv

LEMMA LoopEndsInv ==
    ASSUME DagInv, NEW p \in DOMAIN frames, LoopEnds(p)
    PROVE  DagInv'
  <1>1. frames[p].mode = "loop" /\ UNCHANGED <<pipeline, failures>> /\ PoolIsDone(p)
    BY DEF LoopEnds, Looping
  <1>2. /\ FrameInv(pipeline, frames[p]) /\ pipeline \in Pipelines /\ frames[p].result = "none"
        /\ MayEnd(pipeline, frames[p])
    BY <1>1, BusyFacts
  <1>3. ASSUME NEW q \in DOMAIN frames, q # <<>>, Front(q) = p
        PROVE  /\ Last(q)[2] \in 1..LoopAt(pipeline, frames[p]).items
               /\ q = CallOf(frames, p, Last(q)[2]) /\ frames[q].result # "none"
    <2>1. PICK j : j = Last(q)[2]
      OBVIOUS
    <2>2. j \in 1..LoopAt(pipeline, frames[p]).items /\ q = CallOf(frames, p, j)
      BY <1>1, <1>3, <2>1, CallsOf DEF CalledBy
    <2>3. j \notin LiveIn(pipeline, frames, p)
      BY <1>1, SameNames DEF PoolIsDone
    <2>4. frames[q].result # "none"
      BY <2>2, <2>3 DEF LiveIn
    <2> QED BY <2>1, <2>2, <2>4
  <1>4. \A q \in DOMAIN frames : q # <<>> /\ Front(q) = p => frames[q].result # "none"
    BY <1>3
  <1>5. CASE frames[p].broke
    <2>1. PICK g : g = FailLoop(frames[p], TaskAt(frames[p]))
      OBVIOUS
    <2>2. frames' = [Drop(p) EXCEPT ![p] = g]
      BY <1>5, <2>1, SameNames DEF LoopEnds
    <2>3. frames[p].todo # <<>> /\ SpecAt(pipeline, frames[p]).loop # {}
      BY <1>1, <1>2 DEF FrameInv, FrameLoop
    <2>4. FrameInv(pipeline, g) /\ g.mode = "idle" /\ Marked(g)
      BY <1>2, <2>1, <2>3, LoopFailInv
    <2> QED BY <1>1, <1>2, <1>4, <2>2, <2>4, DropStep
  <1>6. CASE ~frames[p].broke
    <2>1. PICK v : v = IF pipeline[SpecOf(p).dag].output = {} THEN NoOutput
                       ELSE [by |-> Aggregated(p), flag |-> TRUE]
      OBVIOUS
    <2>2. PICK g : g = SucceedTask(frames[p], TaskAt(frames[p]), v)
      OBVIOUS
    <2>3. frames' = [Drop(p) EXCEPT ![p] = g]
      <3>1. Task(p) = TaskAt(frames[p])
        BY SameNames
      <3> QED BY <1>6, <2>1, <2>2, <3>1 DEF LoopEnds
    <2>4. FrameInv(pipeline, g) /\ g.mode = "idle" /\ (Marked(frames[p]) => Marked(g))
      BY <1>2, <2>2, SucceedInv
    <2>5. DOMAIN frames[p].got = 1..LoopAt(pipeline, frames[p]).items
      BY <1>1, <1>6, SameNames DEF PoolIsDone
    <2>6. ASSUME NEW q \in DOMAIN frames, q # <<>>, Front(q) = p PROVE ~Marked(frames[q])
      <3>1. PICK j \in DOMAIN frames[p].got : q = CallOf(frames, p, j)
        BY <1>3, <2>5, <2>6
      <3>2. frames[q].result = "success"
        BY <1>1, <3>1, LoopingFacts
      <3>3. FrameInv(pipeline, frames[q])
        BY DEF DagInv, AllInv, FramesInv
      <3> QED BY <3>2, <3>3 DEF FrameInv
    <2> QED BY <1>1, <1>2, <1>4, <2>3, <2>4, <2>6, DropStep
  <1> QED BY <1>5, <1>6

LEMMA ReturnStepInv ==
    ASSUME DagInv, NEW p \in DOMAIN frames, Return(p)
    PROVE  DagInv'
  <1>1. /\ Running(p) /\ frames[p].mode = "idle" /\ frames[p].result = "none"
        /\ frames[p].todo = <<>> /\ frames[p].exits = <<>>
        /\ pipeline' = pipeline /\ UNCHANGED failures
    BY DEF Return, Ended, Idle, Running, Pending
  <1>2. FrameInv(pipeline, frames[p]) /\ pipeline \in Pipelines
    BY DEF DagInv, AllInv, FramesInv
  <1>3. PICK f, v : f = frames[p] /\ v = Output(p, CHOOSE t \in Found(p) : TRUE)
    OBVIOUS
  <1>4. PICK g :
            /\ Set(p, g)
            /\ \/ (f.bodyFailed \/ f.exitFailed) /\ g = [f EXCEPT !.result = "failure"]
               \/ ~f.bodyFailed /\ ~f.exitFailed
                  /\ (g = [f EXCEPT !.result = "success"] \/ g = [f EXCEPT !.result = "success", !.value = v])
               \/ g = Raised(f)
    BY <1>3 DEF Return
  <1>5. FrameInv(pipeline, g) /\ g.mode = "idle" /\ (Marked(f) => Marked(g))
    <2>1. /\ FrameInv(pipeline, f) /\ f.mode = "idle" /\ f.result = "none"
          /\ f.todo = <<>> /\ f.exits = <<>>
      BY <1>1, <1>2, <1>3
    <2>2. CASE g = [f EXCEPT !.result = "failure"]
      <3>1. PICK r \in {"success", "failure"} : r = "failure"
        OBVIOUS
      <3>2. g = [f EXCEPT !.result = r] \/ g = [f EXCEPT !.result = r, !.value = v]
        BY <2>2, <3>1
      <3> QED BY <1>2, <2>1, <3>1, <3>2, ReturnInv
    <2>3. CASE ~f.bodyFailed /\ ~f.exitFailed
               /\ (g = [f EXCEPT !.result = "success"] \/ g = [f EXCEPT !.result = "success", !.value = v])
      <3>1. PICK r \in {"success", "failure"} : r = "success"
        OBVIOUS
      <3>2. g = [f EXCEPT !.result = r] \/ g = [f EXCEPT !.result = r, !.value = v]
        BY <2>3, <3>1
      <3> QED BY <1>2, <2>1, <2>3, <3>1, <3>2, ReturnInv
    <2>4. CASE g = Raised(f)
      BY <1>2, <2>1, <2>4, RaisedInv
    <2> QED BY <1>4, <2>2, <2>3, <2>4
  <1> QED BY <1>1, <1>3, <1>4, <1>5, SetInv, NoNewFailures

-----------------------------------------------------------------------------
(* The invariant is inductive.                                             *)

LEMMA InitInv ==
    ASSUME Init
    PROVE  DagInv
  <1>1. pipeline \in Pipelines /\ failures = {}
    BY DEF Init
  <1>2. PICK f \in IF Enhanced(pipeline) THEN Starts(pipeline, "root", <<>>) ELSE PlainStarts(pipeline) :
            frames = [p \in {<<>>} |-> f]
    BY DEF Init
  <1>3. FrameInv(pipeline, f) /\ f.mode = "idle" /\ f.result = "none"
    <2>1. CASE Enhanced(pipeline)
      <3>1. "root" \in DOMAIN pipeline /\ f \in Starts(pipeline, "root", <<>>)
        BY <1>1, <1>2, <2>1, PipelinesAssumption
      <3> QED BY <1>1, <3>1, StartsInv
    <2>2. CASE ~Enhanced(pipeline)
      BY <1>1, <1>2, <2>2, PlainStartsInv
    <2> QED BY <2>1, <2>2
  <1>4. DOMAIN frames = {<<>>} /\ frames[<<>>] = f
    BY <1>2
  <1>5. FramesInv(pipeline, frames)
    BY <1>3, <1>4 DEF FramesInv
  <1>6. TreeInv(frames)
    <2>1. <<>> \in Paths /\ Len(<<>>) = 0
      BY EmptySeq DEF Paths
    <2>2. \A n \in 0..Len(<<>>) : SubSeq(<<>>, 1, n) = <<>>
      BY <2>1, PathPrefix
    <2> QED BY <1>4, <2>1, <2>2 DEF TreeInv
  <1>7. CallInv(pipeline, frames) /\ LoopInv(pipeline, frames)
    BY <1>3, <1>4 DEF CallInv, LoopInv
  <1>8. MarkInv(frames, failures)
    BY <1>1 DEF MarkInv
  <1> QED BY <1>1, <1>5, <1>6, <1>7, <1>8 DEF DagInv, AllInv

LEMMA NextInv ==
    ASSUME DagInv, [Next]_vars
    PROVE  DagInv'
  <1>1. CASE UNCHANGED vars
    BY <1>1 DEF vars, DagInv
  <1>2. CASE Next
    <2>1. PICK p \in DOMAIN frames : Step(p)
      BY <1>2 DEF Next
    <2>2. CASE SkipGated(p)
      BY <2>2, SkipGatedInv
    <2>3. CASE SkipCondition(p)
      BY <2>3, SkipConditionInv
    <2>4. CASE MissingInput(p)
      BY <2>4, MissingInputInv
    <2>5. CASE BeginDag(p)
      BY <2>5, BeginDagInv
    <2>6. CASE CacheHit(p)
      BY <2>6, CacheHitInv
    <2>7. CASE BeginRun(p)
      BY <2>7, BeginRunInv
    <2>8. CASE RunSucceeds(p)
      BY <2>8, RunSucceedsInv
    <2>9. CASE RunFails(p)
      BY <2>9, RunFailsInv
    <2>10. CASE RunRaises(p)
      BY <2>10, RunRaisesInv
    <2>11. CASE CallReturns(p)
      BY <2>11, CallReturnsInv
    <2>12. CASE LoopWithoutItems(p)
      BY <2>12, LoopWithoutItemsInv
    <2>13. CASE BeginLoop(p)
      BY <2>13, BeginLoopInv
    <2>14. CASE StartIteration(p)
      BY <2>14, StartIterationInv
    <2>15. CASE LoopEnds(p)
      BY <2>15, LoopEndsInv
    <2>16. CASE Looping(p) /\ \E i \in Iterations(p) : Collect(p, i)
      BY <2>16, CollectStepInv
    <2>17. CASE Return(p)
      BY <2>17, ReturnStepInv
    <2>18. CASE LoopRaises(p)
      BY <2>18, LoopRaisesInv
    <2> QED BY <2>1, <2>2, <2>3, <2>4, <2>5, <2>6, <2>7, <2>8, <2>9, <2>10, <2>11, <2>12, <2>13,
               <2>14, <2>15, <2>16, <2>17, <2>18 DEF Step
  <1> QED BY <1>1, <1>2

\* The invariant of local execution.
THEOREM InductiveInv == Spec => []DagInv
  <1>1. Init => DagInv
    BY InitInv
  <1>2. DagInv /\ [Next]_vars => DagInv'
    BY NextInv
  <1> QED BY <1>1, <1>2, PTL DEF Spec

-----------------------------------------------------------------------------
(* What it says of local execution.                                        *)

\* Every frame keeps its type, for any pipeline: a task is not tried more often than
\* max_retry_count allows (execute_single_task), and a loop has no more iterations at
\* work than parallelism_limit and the pool allow (ParallelExecutor).
THEOREM TypeCorrect == Spec => []TypeOK
  <1>1. ASSUME DagInv PROVE TypeOK
    <2>1. /\ pipeline \in Pipelines /\ FramesInv(pipeline, frames) /\ TreeInv(frames)
          /\ LoopInv(pipeline, frames)
      BY <1>1 DEF DagInv, AllInv
    <2>2. <<>> \in DOMAIN frames
      BY <2>1 DEF TreeInv
    <2>3. ASSUME NEW p \in DOMAIN frames
          PROVE  /\ frames[p].mode \in {"idle", "run", "call", "loop"}
                 /\ frames[p].mode # "idle" => Running(p) /\ Pending(p)
                 /\ frames[p].result \in {"none", "success", "failure", "raised"}
                 /\ frames[p].attempt \in 0..(IF Pending(p) THEN SpecOf(p).retries ELSE 0)
                 /\ frames[p].failed \subseteq DOMAIN Specs(p)
      <3>1. FrameShape(pipeline, frames[p]) /\ FrameOrder(pipeline, frames[p])
        BY <2>1 DEF FramesInv, FrameInv
      <3>2. frames[p].attempt \in 0..(IF Pending(p) THEN SpecOf(p).retries ELSE 0)
        BY <3>1, SameNames DEF FrameShape
      <3>3. frames[p].failed \subseteq DOMAIN Specs(p)
        BY <3>1, SameNames DEF FrameOrder, Done, Body, BodyTasks
      <3> QED BY <2>3, <3>1, <3>2, <3>3 DEF FrameShape, Modes, Results, Running, Pending
    <2>4. ASSUME NEW p \in DOMAIN frames, Looping(p)
          PROVE  /\ Cardinality(Live(p)) \in 0..MaxWorkers
                 /\ TheLoop(p).limit > 0 => Cardinality(Live(p)) <= TheLoop(p).limit
      <3>1. frames[p].mode = "loop" /\ FrameInv(pipeline, frames[p])
        BY <2>1, <2>4 DEF Looping, FramesInv
      <3>2. PICK n, w : n = Cardinality(LiveIn(pipeline, frames, p)) /\ w = WorkersAt(pipeline, frames[p])
        OBVIOUS
      <3>3. n <= w
        BY <2>1, <3>1, <3>2 DEF LoopInv, LoopInvAt
      <3>4. n \in Nat
        BY <2>1, <3>1, <3>2, LiveFinite
      <3>5. PICK k : k = LoopAt(pipeline, frames[p]).limit
        OBVIOUS
      <3>6. w \in Nat /\ w <= MaxWorkers /\ (k > 0 => w <= k) /\ k \in Nat
        <4>1. w \in Nat /\ w <= MaxWorkers /\ (k > 0 => w <= k)
          BY <2>1, <3>1, <3>2, <3>5, LoopTypes
        <4>2. /\ frames[p].todo # <<>> /\ SpecAt(pipeline, frames[p]).loop # {}
              /\ FrameShape(pipeline, frames[p])
          BY <3>1 DEF FrameInv, FrameLoop
        <4>3. IsTaskSpec(pipeline, SpecsIn(pipeline, frames[p]), SpecAt(pipeline, frames[p]))
          BY <2>1, <4>2, TaskType
        <4>4. LoopAt(pipeline, frames[p]) \in SpecAt(pipeline, frames[p]).loop
          BY <4>2 DEF LoopAt
        <4> QED BY <3>5, <4>1, <4>3, <4>4 DEF IsTaskSpec
      <3>7. n \in 0..MaxWorkers /\ (k > 0 => n <= k)
        BY <3>3, <3>4, <3>6, MaxWorkersAssumption
      <3> QED BY <3>2, <3>5, <3>7, SameNames
    <2> QED BY <2>2, <2>3, <2>4 DEF TypeOK
  <1> QED BY <1>1, InductiveInv, PTL

\* In no pipeline is a task begun before the tasks it depends on are over, or after one
\* of those it waits for has failed, however far upstream (topological_sort, and the
\* gate of run_enhanced_dag).
THEOREM UpstreamIsOverAlways == Spec => []UpstreamIsOver
  <1>1. ASSUME DagInv PROVE UpstreamIsOver
    <2> SUFFICES ASSUME NEW p \in DOMAIN frames, frames[p].mode # "idle", InBody(p)
                 PROVE  /\ SpecOf(p).deps \cap ToSet(frames[p].todo) = {}
                        /\ Upstream(Specs(p), Task(p)) \cap frames[p].failed = {}
      BY DEF UpstreamIsOver
    <2>1. PICK f : f = frames[p]
      OBVIOUS
    <2>2. PICK specs, t : specs = SpecsIn(pipeline, f) /\ t = TaskAt(f)
      OBVIOUS
    <2>3. Specs(p) = specs /\ Task(p) = t /\ SpecOf(p) = specs[t] /\ SpecAt(pipeline, f) = specs[t]
      BY <2>1, <2>2, SameNames DEF SpecAt
    <2>4. /\ pipeline \in Pipelines /\ FrameShape(pipeline, f) /\ FrameOrder(pipeline, f)
          /\ f.todo # <<>> /\ f.mode # "idle"
      BY <1>1, <2>1 DEF DagInv, AllInv, FramesInv, FrameInv, InBody
    <2>5. t = Head(f.todo) /\ t \in Body(pipeline, f) /\ t \in DOMAIN specs
      BY <2>2, <2>4, TaskType
    <2>6. specs[t].deps \cap ToSet(f.todo) = {}
      <3>1. f.todo \in Seq(Body(pipeline, f)) /\ DependenciesFirst(specs, f.todo)
        BY <2>2, <2>4 DEF FrameShape, FrameOrder
      <3> QED BY <2>4, <2>5, <3>1, OrderTail
    <2> DEFINE U == {d \in DOMAIN specs : d \notin f.failed /\ d \notin ToSet(f.todo)}
    <2>7. ASSUME NEW d \in DOMAIN specs PROVE specs[d].deps \subseteq DOMAIN specs
      BY <2>2, <2>4, <2>7, SpecType DEF FrameShape, SpecsIn, IsTaskSpec
    <2>8. WaitsWithin(specs, t, U)
      <3> SUFFICES ASSUME NEW d \in U \cup {t}, ~specs[d].ignore
                   PROVE  specs[d].deps \subseteq U
        BY DEF WaitsWithin
      <3>1. d \in DOMAIN specs /\ specs[d].deps \subseteq DOMAIN specs
        BY <2>5, <2>7
      <3>2. CASE d = t
        BY <2>3, <2>4, <2>6, <3>1, <3>2 DEF FrameOrder
      <3>3. CASE d # t
        <4>1. d \notin f.failed /\ d \notin ToSet(f.todo)
          BY <3>3
        <4>2. CASE d \in Body(pipeline, f)
          <5>1. d \in Done(pipeline, f)
            BY <4>1, <4>2 DEF Done
          <5>2. specs[d].deps \cap ToSet(f.todo) = {} /\ specs[d].deps \cap f.failed = {}
            BY <2>2, <2>4, <4>1, <5>1 DEF FrameOrder
          <5> QED BY <3>1, <5>2
        <4>3. CASE d \notin Body(pipeline, f)
          BY <2>2, <3>1, <4>3 DEF Body, BodyTasks, IsExit
        <4> QED BY <4>2, <4>3
      <3> QED BY <3>2, <3>3
    <2>9. Upstream(specs, t) \subseteq U
      BY <2>8 DEF Upstream
    <2>10. Upstream(specs, t) \cap f.failed = {}
      BY <2>9
    <2> QED BY <2>1, <2>3, <2>6, <2>10
  <1> QED BY <1>1, InductiveInv, PTL

\* In every pipeline a call that returns has run its exit tasks, and each was told FAILED
\* just when its producer failed (run_enhanced_dag, _has_task_final_status_input).
THEOREM ExitTasksAreToldAlways == Spec => []ExitTasksAreTold
  <1>1. ASSUME DagInv PROVE ExitTasksAreTold
    <2> SUFFICES ASSUME NEW p \in DOMAIN frames,
                        frames[p].result \in {"success", "failure"}, ~frames[p].plain,
                        NEW e \in DOMAIN Specs(p) \ BodyTasks(Specs(p))
                 PROVE  /\ e \in DOMAIN frames[p].told
                        /\ (frames[p].told[e] = "FAILED" <=> Specs(p)[e].final \in frames[p].failed)
                           \/ ~HasStatus(Specs(p), Specs(p)[e].final)
      BY DEF ExitTasksAreTold
    <2>1. FrameExits(pipeline, frames[p])
      BY <1>1 DEF DagInv, AllInv, FramesInv, FrameInv
    <2>2. e \in Exits(pipeline, frames[p]) /\ Specs(p) = SpecsIn(pipeline, frames[p])
      BY SameNames DEF Exits, Body
    <2>3. frames[p].exits = <<>>
      BY <2>1 DEF FrameExits
    <2>4. e \notin ToSet(frames[p].exits)
      BY <2>3 DEF ToSet
    <2>5. e \in DOMAIN frames[p].told
      BY <2>1, <2>2, <2>4 DEF FrameExits
    <2> QED BY <2>1, <2>2, <2>5 DEF FrameExits
  <1> QED BY <1>1, InductiveInv, PTL

\* A failure or an exception, however deep in nested dags and loops, reaches the root:
\* no pipeline that succeeds has a task that failed (run_enhanced_dag's statuses).
THEOREM SuccessMeansNoFailureAlways == Spec => []SuccessMeansNoFailure
  <1>1. ASSUME DagInv PROVE SuccessMeansNoFailure
    <2> SUFFICES ASSUME frames[<<>>].result = "success", NEW x \in failures
                 PROVE  FALSE
      BY DEF SuccessMeansNoFailure
    <2>1. /\ FramesInv(pipeline, frames) /\ TreeInv(frames) /\ CallInv(pipeline, frames)
          /\ MarkInv(frames, failures)
      BY <1>1 DEF DagInv, AllInv
    <2>2. PICK n \in 0..(Len(x) - 1) : SubSeq(x, 1, n) \in DOMAIN frames /\ Marked(frames[SubSeq(x, 1, n)])
      BY <2>1 DEF MarkInv
    <2>3. PICK q : q = SubSeq(x, 1, n)
      OBVIOUS
    <2>4. <<>> \in DOMAIN frames /\ FrameInv(pipeline, frames[<<>>])
      BY <2>1 DEF TreeInv, FramesInv
    <2>5. frames[<<>>].mode = "idle" /\ ~Marked(frames[<<>>])
      BY <2>4 DEF FrameInv, FrameShape
    <2>6. q \in DOMAIN frames /\ q # <<>> /\ q \in Paths
      BY <2>1, <2>2, <2>3, <2>5 DEF TreeInv
    <2>7. ~IsStrictPrefix(<<>>, q)
      BY <2>1, <2>4, <2>5, <2>6, NoneBelow
    <2>8. IsStrictPrefix(<<>>, q)
      <3>1. <<>> \in Paths /\ Len(<<>>) = 0
        BY EmptySeq DEF Paths
      <3>2. Len(q) \in Nat \ {0} /\ SubSeq(q, 1, 0) = <<>>
        BY <2>6, PathFront, PathPrefix
      <3>3. PICK e \in Paths : e = <<>>
        BY <3>1
      <3>4. PICK k : k = Len(e)
        OBVIOUS
      <3>5. k = 0
        BY <3>1, <3>3, <3>4
      <3>6. k < Len(q) /\ SubSeq(q, 1, k) = e
        BY <3>2, <3>3, <3>5
      <3>7. IsStrictPrefix(e, q)
        BY <2>6, <3>4, <3>6, StrictPrefix
      <3> QED BY <3>3, <3>7
    <2> QED BY <2>7, <2>8
  <1> QED BY <1>1, InductiveInv, PTL

\* In no pipeline does a nested call or an iteration run on after its caller has left the
\* task (_run_parallel_for_task: shutdown(wait=True)).
THEOREM NoStrayCallsAlways == Spec => []NoStrayCalls
  <1>1. ASSUME DagInv PROVE NoStrayCalls
    <2> SUFFICES ASSUME NEW q \in DOMAIN frames \ {<<>>}
                 PROVE  /\ Front(q) \in DOMAIN frames
                        /\ frames[Front(q)].mode \in {"call", "loop"}
                        /\ Task(Front(q)) = Last(q)[1]
      BY DEF NoStrayCalls
    <2>1. TreeInv(frames) /\ CallInv(pipeline, frames)
      BY <1>1 DEF DagInv, AllInv
    <2>2. Front(q) \in DOMAIN frames /\ frames[Front(q)].mode \in {"call", "loop"}
      BY <2>1, OnlyWaitingCalls
    <2>3. TaskAt(frames[Front(q)]) = Last(q)[1]
      BY <2>1 DEF CallInv, CalledBy
    <2> QED BY <2>2, <2>3, SameNames
  <1> QED BY <1>1, InductiveInv, PTL

=============================================================================
