------------------------------ MODULE LocalDag ------------------------------
(***************************************************************************)
(* Local execution of a pipeline (kfp.local): run_enhanced_dag runs the    *)
(* tasks of a dag one after the other, nested dags by calling itself and   *)
(* the iterations of a dsl.ParallelFor in a pool of two threads.  A call   *)
(* is a frame; frames are named by their path, the tasks and iterations    *)
(* that lead to them.  A pipeline without control flow is run by run_dag.  *)
(* Containers, processes and the cache files are external.                 *)
(***************************************************************************)
EXTENDS Naturals, Sequences, FiniteSets, SequencesExt

CONSTANTS
    Pipelines,    \* pipeline specs, see below
    NoTask,       \* no task
    MaxWorkers    \* ParallelExecutor.conservative_max

ASSUME MaxWorkersAssumption == MaxWorkers \in Nat \ {0}

(***************************************************************************)
(* A pipeline is a function from dag names, "root" among them, to records  *)
(* with the specs of the tasks and the output: the tasks whose output the  *)
(* dag returns, {t} for value_from_parameter, more for dsl.OneOf.          *)
(* A task spec has:                                                        *)
(*   dag      the dag that implements it, "" for an executor;              *)
(*   deps     dependent_tasks;                                             *)
(*   component  the name of its component;                                 *)
(*   reads    tasks of its dag whose outputs are among its inputs;         *)
(*   takes    inputs of its dag that are among its inputs, named by the    *)
(*            task whose output they are, or "item";                       *)
(*   artifacts  none of its inputs is a parameter;                         *)
(*   ignore   trigger_policy.strategy is ALL_UPSTREAM_TASKS_COMPLETED;     *)
(*   final    the producer of its PipelineTaskFinalStatus, or NoTask;      *)
(*   when     {} or {[of, key, want]}: trigger_policy.condition;           *)
(*   loop     {} or {[over, key, artifact, items, limit]}: the iterator;   *)
(*   flags    what its output, read by a condition, may say;               *)
(*   retries  retry_policy.max_retry_count;                                *)
(*   cached   caching_options.enable_cache.                                *)
(***************************************************************************)

VARIABLES
    pipeline,   \* the pipeline that runs
    frames,     \* the frame of every path that is running or has just ended
    cache,      \* LocalCache: key -> output
    caching,    \* LocalExecutionConfig.enable_caching
    failures    \* the tasks that have failed, with their paths

vars == <<pipeline, frames, cache, caching, failures>>

NoOutput == [by |-> <<>>, flag |-> TRUE]

\* The function f with value v for k.
Put(f, k, v) == [x \in DOMAIN f \cup {k} |-> IF x = k THEN v ELSE f[x]]

Specs(p) == pipeline[frames[p].dag].tasks

-----------------------------------------------------------------------------
(* Classification and order of the tasks.                                  *)

\* A task that waits for its upstream tasks and takes their final status.
IsExit(spec) == spec.ignore /\ spec.final # NoTask

BodyTasks(specs) == {t \in DOMAIN specs : ~IsExit(specs[t])}

(***************************************************************************)
(* The specs that the compiler writes.  Only groups have a condition or an *)
(* iterator, never both; an exit task is not a group and has neither.      *)
(***************************************************************************)
IsTaskSpec(pl, specs, s) ==
    /\ s.deps \subseteq DOMAIN specs
    /\ s.dag = "" \/ s.dag \in DOMAIN pl
    /\ s.retries \in Nat
    /\ s.loop # {} => s.dag # "" /\ s.when = {}
    /\ \A l \in s.loop : l.items \in Nat /\ l.limit \in Nat /\ (s.artifacts => l.artifact)
    /\ IsExit(s) => s.when = {} /\ s.loop = {}

ASSUME PipelinesAssumption ==
    \A pl \in Pipelines :
        /\ "root" \in DOMAIN pl
        /\ \A d \in DOMAIN pl :
               /\ IsFiniteSet(DOMAIN pl[d].tasks)
               /\ \A t \in DOMAIN pl[d].tasks :
                      IsTaskSpec(pl, pl[d].tasks, pl[d].tasks[t])

\* What a task depends on comes before it.
DependenciesFirst(specs, order) ==
    \A i, j \in DOMAIN order : order[j] \in specs[order[i]].deps => j < i

\* Mutant: tasks run in the order of the map.
TopologicalSort_MapOrder(specs, among) == SetToSeqs(among)

\* topological_sort skips dependencies outside the body.  It begins with the order of a
\* map of the spec, so any order with the dependencies first can be the result; module
\* MCLocalDag has the search itself.
TopologicalSort(specs, among) ==
    {order \in SetToSeqs(among) : DependenciesFirst(specs, order)}

\* run_local_pipeline: what needs the enhanced orchestrator.
Enhanced(pl) ==
    \/ Cardinality(pl["root"].output) > 1
    \/ \E t \in DOMAIN pl["root"].tasks :
           LET s == pl["root"].tasks[t]
           IN  s.when # {} \/ s.loop # {} \/ s.dag # "" \/ s.ignore

NewFrame(dag, args, todo, exits) ==
    [dag |-> dag, args |-> args, plain |-> FALSE, todo |-> todo, exits |-> exits, mode |-> "idle",
     attempt |-> 0, pool |-> <<>>, got |-> <<>>, broke |-> FALSE,
     outs |-> <<>>, state |-> <<>>, told |-> <<>>, failed |-> {},
     bodyFailed |-> FALSE, exitFailed |-> FALSE, result |-> "none", value |-> NoOutput]

\* The frames with which a call of run_enhanced_dag on dag may start.
Starts(pl, dag, args) ==
    LET specs == pl[dag].tasks
        exits == DOMAIN specs \ BodyTasks(specs)
    IN  {NewFrame(dag, args, todo, order) :
            todo \in TopologicalSort(specs, BodyTasks(specs)), order \in SetToSeqs(exits)}

PlainStarts(pl) ==
    LET specs == pl["root"].tasks
    IN  {[NewFrame("root", <<>>, todo, <<>>) EXCEPT !.plain = TRUE] :
            todo \in TopologicalSort(specs, DOMAIN specs)}

Init ==
    /\ pipeline \in Pipelines
    /\ \E f \in IF Enhanced(pipeline) THEN Starts(pipeline, "root", <<>>) ELSE PlainStarts(pipeline) :
           frames = [p \in {<<>>} |-> f]
    /\ cache = <<>>
    /\ caching \in BOOLEAN
    /\ failures = {}

-----------------------------------------------------------------------------
(* IOStore: a frame sees its own data, then that of the frames below it.   *)

Holders(p, t) == {n \in 0..Len(p) : t \in DOMAIN frames[SubSeq(p, 1, n)].outs}

HasOutput(p, t) == Holders(p, t) # {}

Output(p, t) == frames[SubSeq(p, 1, Max(Holders(p, t)))].outs[t]

\* get_parent_input.
Bound(p, k) == {n \in 0..Len(p) : k \in DOMAIN frames[SubSeq(p, 1, n)].args}

HasInput(p, k) == Bound(p, k) # {}

Input(p, k) == frames[SubSeq(p, 1, Max(Bound(p, k)))].args[k]

KnownState(p, t) == {n \in 0..Len(p) : t \in DOMAIN frames[SubSeq(p, 1, n)].state}

\* The PipelineTaskFinalStatus of task t; a task without a status has succeeded.
FinalState(p, t) ==
    IF KnownState(p, t) = {} THEN "SUCCEEDED"
    ELSE frames[SubSeq(p, 1, Max(KnownState(p, t)))].state[t]

-----------------------------------------------------------------------------
(* The task at hand, and how it ends.                                      *)

Running(p) == p \in DOMAIN frames /\ frames[p].result = "none"

Pending(p) == frames[p].todo # <<>> \/ frames[p].exits # <<>>

InBody(p) == frames[p].todo # <<>>

Task(p) == Head(IF InBody(p) THEN frames[p].todo ELSE frames[p].exits)

SpecOf(p) == Specs(p)[Task(p)]

Idle(p) == Running(p) /\ frames[p].mode = "idle"

\* The task at hand is over.
Pop(f) == [f EXCEPT !.mode = "idle", !.attempt = 0, !.pool = <<>>, !.got = <<>>, !.broke = FALSE,
                    !.todo = IF f.todo # <<>> THEN Tail(@) ELSE @,
                    !.exits = IF f.todo # <<>> THEN @ ELSE Tail(@)]

SucceedTask(f, t, v) ==
    [Pop(f) EXCEPT !.outs = IF v = NoOutput THEN @ ELSE Put(@, t, v), !.state = Put(@, t, "SUCCEEDED")]

\* Mutant: a failed task of the body is forgotten when the exit tasks succeed.
FailTask_Forgotten(f, t) ==
    [Pop(f) EXCEPT !.state = Put(@, t, "FAILED"), !.failed = @ \cup {t},
                   !.bodyFailed = @ \/ (f.todo # <<>> /\ f.exits = <<>>), !.exitFailed = @ \/ f.todo = <<>>]

\* Mutant: the status of a failed task is not put.
FailTask_NoStatus(f, t) ==
    IF f.plain THEN [f EXCEPT !.result = "failure", !.mode = "idle"]
    ELSE [Pop(f) EXCEPT !.failed = IF f.todo # <<>> THEN @ \cup {t} ELSE @,
                        !.bodyFailed = @ \/ f.todo # <<>>, !.exitFailed = @ \/ f.todo = <<>>]

\* run_dag gives up; run_enhanced_dag goes on with the next task.
FailTask(f, t) ==
    IF f.plain THEN [f EXCEPT !.result = "failure", !.mode = "idle"]
    ELSE [Pop(f) EXCEPT !.state = Put(@, t, "FAILED"), !.failed = IF f.todo # <<>> THEN @ \cup {t} ELSE @,
                        !.bodyFailed = @ \/ f.todo # <<>>, !.exitFailed = @ \/ f.todo = <<>>]

\* An exception leaves the frame.
Raised(f) == [f EXCEPT !.result = "raised", !.mode = "idle"]

Set(p, f) == frames' = [frames EXCEPT ![p] = f]


-----------------------------------------------------------------------------
(* run_enhanced_dag: the next task of the body, or the next exit task.     *)

\* An upstream task failed and the task does not ignore it.
Gated(p) == InBody(p) /\ ~SpecOf(p).ignore /\ SpecOf(p).deps \cap frames[p].failed # {}

SkipGated(p) ==
    /\ Idle(p) /\ Pending(p) /\ Gated(p)
    /\ Set(p, FailTask(frames[p], Task(p)))
    /\ UNCHANGED <<pipeline, cache, caching, failures>>

\* ConditionEvaluator: the output named "Output" of a task is looked up among the
\* tasks, any other among the inputs of the dags only; what is not found is False.
Holds(p, c) ==
    IF c.key = "Output" THEN HasOutput(p, c.of) /\ Output(p, c.of).flag = c.want
    ELSE HasInput(p, c.of) /\ Input(p, c.of).flag = c.want

SkipCondition(p) ==
    /\ Idle(p) /\ InBody(p) /\ ~Gated(p)
    /\ \E c \in SpecOf(p).when : ~Holds(p, c)
    /\ Set(p, Pop(frames[p]))
    /\ UNCHANGED <<pipeline, cache, caching, failures>>

\* The task at hand may be started.
Ready(p) ==
    /\ Idle(p) /\ Pending(p) /\ ~Gated(p)
    /\ \A c \in SpecOf(p).when : Holds(p, c)

\* build_nested_dag_arguments does not look at the inputs of a group without parameters.
OnlyInherits(p) == SpecOf(p).dag # "" /\ SpecOf(p).artifacts

\* make_task_arguments; a group without parameters gets what the dags around it have
\* under the names of its inputs.
Arguments(p) ==
    LET s    == SpecOf(p)
        read == IF OnlyInherits(p) THEN {} ELSE s.reads
        took == IF OnlyInherits(p) THEN {k \in s.reads \cup s.takes : HasInput(p, k)} ELSE s.takes
    IN  [k \in read \cup took |-> IF k \in read THEN Output(p, k) ELSE Input(p, k)]

\* make_task_arguments raises ValueError: one of these inputs is not there.
Lacks(p, reads, takes) ==
    /\ ~OnlyInherits(p)
    /\ (\E r \in reads : ~HasOutput(p, r)) \/ (\E k \in takes : ~HasInput(p, k))

MissingInput(p) ==
    /\ Ready(p) /\ SpecOf(p).loop = {}
    /\ Lacks(p, SpecOf(p).reads, SpecOf(p).takes)
    /\ Set(p, Raised(frames[p]))
    /\ UNCHANGED <<pipeline, cache, caching, failures>>

\* The frame in which the task at hand is begun; an exit task is told how its
\* producer ended.
Begun(p, mode) ==
    [frames[p] EXCEPT !.mode = mode,
        !.told = IF SpecOf(p).final = NoTask THEN @
                 ELSE Put(@, Task(p), FinalState(p, SpecOf(p).final))]

Callable(p) ==
    Ready(p) /\ SpecOf(p).loop = {} /\ ~Lacks(p, SpecOf(p).reads, SpecOf(p).takes)

Child(p) == Append(p, <<Task(p), 0>>)

\* execute_task, a dag: the nested call.
BeginDag(p) ==
    /\ Callable(p) /\ SpecOf(p).dag # ""
    /\ \E f \in Starts(pipeline, SpecOf(p).dag, Arguments(p)) :
           frames' = Put(Put(frames, p, Begun(p, "call")), Child(p), f)
    /\ UNCHANGED <<pipeline, cache, caching, failures>>

\* execute_single_task: the component and the arguments, the final status among them.
CacheKey(p) ==
    <<SpecOf(p).component, Arguments(p),
      IF SpecOf(p).final = NoTask THEN "" ELSE FinalState(p, SpecOf(p).final)>>

UsesCache(p) == caching /\ SpecOf(p).cached

CacheHit(p) ==
    /\ Callable(p) /\ SpecOf(p).dag = "" /\ UsesCache(p)
    /\ CacheKey(p) \in DOMAIN cache
    /\ Set(p, SucceedTask(Begun(p, "idle"), Task(p), cache[CacheKey(p)]))
    /\ UNCHANGED <<pipeline, cache, caching, failures>>

\* A miss, or an entry that cannot be read or names an artifact that is gone.
BeginRun(p) ==
    /\ Callable(p) /\ SpecOf(p).dag = ""
    /\ Set(p, Begun(p, "run"))
    /\ UNCHANGED <<pipeline, cache, caching, failures>>

-----------------------------------------------------------------------------
(* The executor: run_single_task_implementation or run_importer.           *)

AtWork(p) == Running(p) /\ frames[p].mode = "run"

RunSucceeds(p) ==
    /\ AtWork(p)
    /\ \E flag \in SpecOf(p).flags :
           LET v == [by |-> Append(p, <<Task(p), 0>>), flag |-> flag]
           IN  /\ Set(p, SucceedTask(frames[p], Task(p), v))
               /\ cache' = IF UsesCache(p) THEN Put(cache, CacheKey(p), v) ELSE cache
    /\ UNCHANGED <<pipeline, caching, failures>>

RunFails(p) ==
    /\ AtWork(p)
    /\ IF frames[p].attempt < SpecOf(p).retries
         THEN /\ Set(p, [frames[p] EXCEPT !.attempt = @ + 1])
              /\ UNCHANGED failures
         ELSE /\ Set(p, FailTask(frames[p], Task(p)))
              /\ failures' = failures \cup {Append(p, <<Task(p), 0>>)}
    /\ UNCHANGED <<pipeline, cache, caching>>

\* The handler or the importer raises: no image, no file, no such component.
RunRaises(p) ==
    /\ AtWork(p)
    /\ Set(p, Raised(frames[p]))
    /\ failures' = failures \cup {Append(p, <<Task(p), 0>>)}
    /\ UNCHANGED <<pipeline, cache, caching>>

-----------------------------------------------------------------------------
(* The return of a nested call.                                            *)

\* The frames without those of the calls of p that have ended.
Drop(p) ==
    [q \in {q \in DOMAIN frames : ~IsStrictPrefix(p, q) \/ frames[q].result = "none"} |-> frames[q]]

CallReturns(p) ==
    /\ Running(p) /\ frames[p].mode = "call"
    /\ LET c == frames[Child(p)]
           f == frames[p]
       IN  /\ c.result # "none"
           /\ frames' = [Drop(p) EXCEPT ![p] =
                  CASE c.result = "success" -> SucceedTask(f, Task(p), c.value)
                    [] c.result = "failure" -> FailTask(f, Task(p))
                    [] c.result = "raised"  -> Raised(f)]
    /\ UNCHANGED <<pipeline, cache, caching, failures>>

-----------------------------------------------------------------------------
(* _run_parallel_for_task and ParallelExecutor.                            *)

LoopReady(p) == Ready(p) /\ SpecOf(p).loop # {} /\ SpecOf(p).when = {}

TheLoop(p) == CHOOSE l \in SpecOf(p).loop : TRUE

\* A parameter iterator looks for the output named "Output" of a task among the tasks,
\* for any other among the inputs of the dags; an artifact iterator looks for both.
HasItems(p) ==
    LET l == TheLoop(p)
    IN  \/ l.over = NoTask
        \/ (l.artifact \/ l.key = "Output") /\ HasOutput(p, l.over)
        \/ (l.artifact \/ l.key # "Output") /\ HasInput(p, l.over)

\* Items that are not there: the artifact iterator's ValueError is caught and the loop
\* is passed over, the parameter iterator's is not.
LoopWithoutItems(p) ==
    /\ LoopReady(p) /\ ~HasItems(p)
    /\ Set(p, IF TheLoop(p).artifact THEN Pop(frames[p]) ELSE Raised(frames[p]))
    /\ UNCHANGED <<pipeline, cache, caching, failures>>

\* The inputs of an iteration that are looked up: the item takes the place of the outputs
\* of tasks among its parameters (create_parameter_loop_iteration_task_spec).
IterationLacks(p) ==
    Lacks(p, IF TheLoop(p).artifact THEN SpecOf(p).reads ELSE {}, SpecOf(p).takes \ {"item"})

\* A failed loop is a failed task without a status.
FailLoop(f, t) == [Pop(f) EXCEPT !.failed = @ \cup {t}, !.bodyFailed = TRUE]

\* Every iteration raises before it calls run_enhanced_dag.
LoopRaises(p) ==
    /\ LoopReady(p) /\ HasItems(p) /\ TheLoop(p).items > 0 /\ IterationLacks(p)
    /\ Set(p, FailLoop(frames[p], Task(p)))
    /\ UNCHANGED <<pipeline, cache, caching, failures>>

\* Every iteration is submitted; without one the loop is passed over.
BeginLoop(p) ==
    /\ LoopReady(p) /\ HasItems(p) /\ (TheLoop(p).items > 0 => ~IterationLacks(p))
    /\ Set(p, IF TheLoop(p).items = 0 THEN Pop(frames[p])
              ELSE [frames[p] EXCEPT !.mode = "loop",
                                     !.pool = [i \in 1..TheLoop(p).items |-> i]])
    /\ UNCHANGED <<pipeline, cache, caching, failures>>

Looping(p) == Running(p) /\ frames[p].mode = "loop"

Iterations(p) == {i \in 1..TheLoop(p).items : Append(p, <<Task(p), i>>) \in DOMAIN frames}

Iteration(p, i) == frames[Append(p, <<Task(p), i>>)]

Live(p) == {i \in Iterations(p) : Iteration(p, i).result = "none"}

\* Mutant: a limit of 0 is not unlimited.
Workers_Zero(p) == IF TheLoop(p).limit > MaxWorkers THEN MaxWorkers ELSE TheLoop(p).limit

\* Mutant: parallelism_limit is taken as it is.
Workers_AsRequested(p) == IF TheLoop(p).limit > 0 THEN TheLoop(p).limit ELSE MaxWorkers

Workers(p) ==
    IF TheLoop(p).limit \in 1..MaxWorkers THEN TheLoop(p).limit ELSE MaxWorkers

\* The item takes the place of every output of a task among the parameters; artifacts
\* are left alone.
IterationArguments(p, i) ==
    LET item == [by |-> <<<<Task(p), i>>>>, flag |-> TRUE]
        given == Arguments(p)
    IN  [k \in DOMAIN given \cup {"item"} |->
            IF k = "item" \/ (k \in SpecOf(p).reads /\ ~TheLoop(p).artifact) THEN item
            ELSE given[k]]

StartIteration(p) ==
    /\ Looping(p) /\ frames[p].pool # <<>>
    /\ Cardinality(Live(p)) < Workers(p)
    /\ LET i == Head(frames[p].pool)
       IN  \E f \in Starts(pipeline, SpecOf(p).dag, IterationArguments(p, i)) :
               frames' = Put(Put(frames, p, [frames[p] EXCEPT !.pool = Tail(@)]),
                             Append(p, <<Task(p), i>>), f)
    /\ UNCHANGED <<pipeline, cache, caching, failures>>

\* as_completed: the first iteration that fails or raises ends the collection.
Collect(p, i) ==
    /\ Looping(p) /\ ~frames[p].broke
    /\ i \in Iterations(p) \ Live(p)
    /\ i \notin DOMAIN frames[p].got
    /\ Set(p, IF Iteration(p, i).result = "success"
                THEN [frames[p] EXCEPT !.got = Put(@, i, Iteration(p, i).value)]
                ELSE [frames[p] EXCEPT !.broke = TRUE])
    /\ UNCHANGED <<pipeline, cache, caching, failures>>

\* Mutant: the pool is left to itself.
PoolIsDone_Abandoned(p) == frames[p].broke \/ DOMAIN frames[p].got = 1..TheLoop(p).items

\* shutdown(wait=True), and none of the submitted iterations is cancelled.
PoolIsDone(p) ==
    /\ frames[p].broke \/ DOMAIN frames[p].got = 1..TheLoop(p).items
    /\ frames[p].pool = <<>>
    /\ Live(p) = {}

\* The outputs of the iterations, in the order of the items.
Aggregated(p) == [i \in 1..TheLoop(p).items |-> frames[p].got[i]]

LoopEnds(p) ==
    /\ Looping(p) /\ PoolIsDone(p)
    /\ IF frames[p].broke
         THEN frames' = [Drop(p) EXCEPT ![p] = FailLoop(frames[p], Task(p))]
         ELSE frames' = [Drop(p) EXCEPT ![p] = SucceedTask(frames[p], Task(p),
                  IF pipeline[SpecOf(p).dag].output = {} THEN NoOutput
                  ELSE [by |-> Aggregated(p), flag |-> TRUE])]
    /\ UNCHANGED <<pipeline, cache, caching, failures>>

-----------------------------------------------------------------------------
(* The end of a call.                                                      *)

Ended(p) == Idle(p) /\ ~Pending(p)

\* get_dag_outputs: exactly one of the tasks named has an output.
Found(p) == {t \in pipeline[frames[p].dag].output : HasOutput(p, t)}

Return(p) ==
    /\ Ended(p)
    /\ LET f == frames[p]
           named == pipeline[f.dag].output
       IN  Set(p, IF f.bodyFailed \/ f.exitFailed THEN [f EXCEPT !.result = "failure"]
                  ELSE IF named = {} THEN [f EXCEPT !.result = "success"]
                  ELSE IF Cardinality(Found(p)) # 1 THEN Raised(f)
                  ELSE [f EXCEPT !.result = "success",
                                 !.value = Output(p, CHOOSE t \in Found(p) : TRUE)])
    /\ UNCHANGED <<pipeline, cache, caching, failures>>

Step(p) ==
    \/ SkipGated(p) \/ SkipCondition(p) \/ MissingInput(p)
    \/ BeginDag(p) \/ CacheHit(p) \/ BeginRun(p)
    \/ RunSucceeds(p) \/ RunFails(p) \/ RunRaises(p)
    \/ CallReturns(p)
    \/ LoopWithoutItems(p) \/ LoopRaises(p) \/ BeginLoop(p) \/ StartIteration(p) \/ LoopEnds(p)
    \/ Looping(p) /\ \E i \in Iterations(p) : Collect(p, i)
    \/ Return(p)

Next == \E p \in DOMAIN frames : Step(p)

Spec == Init /\ [][Next]_vars

\* The process and its threads run.
FairSpec == Spec /\ WF_vars(Next)

-----------------------------------------------------------------------------
\* Every frame has its type; a task is not tried more often than it may be, and a
\* loop does not run more iterations at a time than parallelism_limit and the pool
\* allow (execute_single_task, ParallelExecutor).
TypeOK ==
    /\ <<>> \in DOMAIN frames
    /\ \A p \in DOMAIN frames :
           /\ frames[p].mode \in {"idle", "run", "call", "loop"}
           /\ frames[p].mode # "idle" => Running(p) /\ Pending(p)
           /\ frames[p].result \in {"none", "success", "failure", "raised"}
           /\ frames[p].attempt \in 0..(IF Pending(p) THEN SpecOf(p).retries ELSE 0)
           /\ frames[p].failed \subseteq DOMAIN Specs(p)
           /\ Looping(p) => Cardinality(Live(p)) \in 0..MaxWorkers
           /\ Looping(p) /\ TheLoop(p).limit > 0 => Cardinality(Live(p)) <= TheLoop(p).limit

\* With t or a task of U, U has what that task waits for.
WaitsWithin(specs, t, U) ==
    \A d \in U \cup {t} : ~specs[d].ignore => specs[d].deps \subseteq U

\* The tasks that t waits for, up to the tasks that ignore a failure: the least such U.
Upstream(specs, t) ==
    {d \in DOMAIN specs : \A U \in SUBSET DOMAIN specs : WaitsWithin(specs, t, U) => d \in U}

\* When a task is at work, none of the tasks of the body it depends on is still to
\* come, and none of those it waits for, however far upstream, has failed
\* (topological_sort; "A task whose upstream failed is skipped unless it explicitly
\* opts in").
UpstreamIsOver ==
    \A p \in DOMAIN frames :
        (frames[p].mode # "idle" /\ InBody(p)) =>
            /\ SpecOf(p).deps \cap ToSet(frames[p].todo) = {}
            /\ Upstream(Specs(p), Task(p)) \cap frames[p].failed = {}

\* A task that has a status when it is over: a task of the body, such as the group of a
\* dsl.ExitHandler, that no condition can pass over.  A loop that fails gets none.
HasStatus(specs, t) == t \in BodyTasks(specs) /\ specs[t].when = {} /\ specs[t].loop = {}

\* A call of run_enhanced_dag that returns has run every exit task, after the body and
\* whatever became of it, and has told it FAILED if and only if its producer failed or
\* was skipped for a failure upstream.  (A producer without a status takes that of a
\* task of its name in a dag around it, or counts as SUCCEEDED.)
ExitTasksAreTold ==
    \A p \in DOMAIN frames :
        (frames[p].result \in {"success", "failure"} /\ ~frames[p].plain) =>
            \A e \in DOMAIN Specs(p) \ BodyTasks(Specs(p)) :
                /\ e \in DOMAIN frames[p].told
                /\ (frames[p].told[e] = "FAILED" <=> Specs(p)[e].final \in frames[p].failed)
                   \/ ~HasStatus(Specs(p), Specs(p)[e].final)

\* A pipeline that succeeds has no task that failed or raised, in any nested dag and any
\* iteration.
SuccessMeansNoFailure == frames[<<>>].result = "success" => failures = {}

\* No frame outlives its call: whatever runs was called by a frame that waits for it,
\* also when a loop has failed with iterations still queued (shutdown(wait=True)).
NoStrayCalls ==
    \A q \in DOMAIN frames \ {<<>>} :
        LET p == Front(q) IN
            /\ p \in DOMAIN frames
            /\ frames[p].mode \in {"call", "loop"}
            /\ Task(p) = Last(q)[1]

\* Every local run ends.
PipelineEnds == <>(frames[<<>>].result # "none")

=============================================================================
