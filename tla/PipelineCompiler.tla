-------------------------- MODULE PipelineCompiler --------------------------
(***************************************************************************)
(* How a recorded pipeline becomes the DAGs of a PipelineSpec:             *)
(* sdk/python/kfp/compiler/compiler_utils.py and pipeline_spec_builder.py. *)
(* Every group becomes a component with a DAG of its own, so a value that  *)
(* crosses groups has to be passed down as a component input of every      *)
(* group in between, and a list that dsl.Collected fans in has to be       *)
(* passed up as an output.  The compiler is a function of the recorded     *)
(* pipeline: its tables are operators of the state, and Compile writes the *)
(* spec or raises.                                                         *)
(***************************************************************************)
EXTENDS PipelineDsl

VARIABLE spec   \* the PipelineSpec: the inputs of the components of the
                \* groups, and the dependent_tasks of the nodes

allVars == <<vars, spec>>

NoSpec == [inputs |-> <<>>, dependencies |-> {}]

Up(n) == IF n < 0 THEN tasks[-n].up ELSE groups[n].up
Placed(n) == n = Root \/ Up(n) # 0

\* get_parent_groups: the groups from the root down to n, and n; exit tasks
\* are in no group.
Path[n \in Int] == IF n = Root THEN <<Root>>
                   ELSE IF ~Placed(n) THEN <<>>
                   ELSE Append(Path[Up(n)], n)

Children(g) == {n \in Nodes : Up(n) = g}

\* _get_uncommon_ancestors: what n's path has beyond the one of m.
Beyond(n, m) ==
    LET of == Path[n]
        other == Path[m]
        common == {i \in DOMAIN of \cap DOMAIN other : of[i] = other[i]}
    IN  SubSeq(of, Cardinality(common) + 1, Len(of))

\* get_condition_channels_for_tasks: what the conditions around t test.
ConditionsOf(t) == UNION {groups[g].conds : g \in Range(Path[-t]) \ {-t}}

\* What the compiler looks at for a task: its input and those operands.
Reads(t) == ({tasks[t].input} \ {None}) \cup ConditionsOf(t)

-----------------------------------------------------------------------------
(***************************************************************************)
(* dsl.Collected: the groups between the producer and the consumer pass    *)
(* the list up; what the consumer reads is the output of the outermost.    *)
(***************************************************************************)
Collects(t) == tasks[t].input.k = "coll"
Surfacers(t) == Front(Beyond(-tasks[t].input.of, -t))

\* validate_parallel_for_fan_in_consumption_legal; then build_spec_by_group
\* knows no way to surface a list from a ConditionBranches.
FanInLegal(t) ==
    /\ \E g \in Range(Surfacers(t)) : groups[g].kind = "loop"
    /\ groups[Head(Surfacers(t))].kind = "loop"
    /\ \A g \in Range(Surfacers(t)) : groups[g].kind # "branches"

\* get_outputs_for_all_groups: the group g has an output with the list of t.
Surfaces(g, t) ==
    \E n \in TaskIds : /\ Collects(n)
                       /\ tasks[n].input.of = t
                       /\ g \in Range(Surfacers(n))

\* The channel the task t reads through u.
Channel(u, t) ==
    IF u.k = "coll"
    THEN [Plain([k |-> "out", of |-> u.of]) EXCEPT !.list = Head(Surfacers(t))]
    ELSE ChannelOf(u)

\* PipelineChannel.task: the task or group that produces a channel, or 0.
Producer(c) == IF c.list # 0 THEN c.list
               ELSE IF c.base.k = "out" THEN -c.base.of ELSE 0

-----------------------------------------------------------------------------
(***************************************************************************)
(* get_inputs_for_all_groups: which channel each group on the way needs.   *)
(***************************************************************************)

\* `channel.full_name in loop_group.loop_argument.full_name`
NamedIn(c, n) == /\ n \in Loops
                 /\ groups[n].arg.base = c.base
                 /\ c.depth <= groups[n].arg.depth

\* is_with_items_loop_argument: the item of a loop over constants
IsWithItems(c) == c.base.k = "raw" /\ c.depth = 1

\* Bottom-up, to the first loop that is named after the channel.
CarriedUp(c, path) ==
    {[at |-> path[i], channel |-> c] :
        i \in {j \in DOMAIN path :
                  \A l \in j + 1..Len(path) : ~NamedIn(c, path[l])}}

\* Top-down, from what the channel stems from; a loop named after the
\* current channel takes it off, and below it the next one is needed.
CarriedDown_NotLoops(c, path) ==  \* Mutant: loops get only their own items
    {[at |-> path[i], channel |-> c] :
        i \in {j \in DOMAIN path : path[j] \notin Loops}}
CarriedDown(c, path) ==
    LET depth[i \in 1..Len(path)] ==
            IF i = 1 THEN IF c.base.k = "raw" THEN 1 ELSE 0
            ELSE LET before == depth[i - 1]
                 IN  IF NamedIn([c EXCEPT !.depth = before], path[i - 1])
                     THEN before + 1 ELSE before
    IN  {[at |-> path[i], channel |-> [c EXCEPT !.depth = depth[i]]] :
            i \in {j \in DOMAIN path : depth[j] <= c.depth}}

\* A produced channel is carried from where the paths part, any other one
\* from the root.
Carried(c, t) ==
    IF IsWithItems(c) THEN CarriedUp(c, Path[-t])
    ELSE CarriedDown(c, IF c.base.k = "out" THEN Beyond(-t, -c.base.of)
                                            ELSE Path[-t])

Inputs ==
    LET all == UNION {UNION {Carried(Channel(u, t), t) : u \in Reads(t)} :
                         t \in TaskIds}
    IN  [g \in GroupIds |-> {e.channel : e \in {f \in all : f.at = g}}]

-----------------------------------------------------------------------------
(***************************************************************************)
(* build_spec_by_group: the inputs of the group's component, and where the *)
(* task specs in a DAG take theirs from.                                   *)
(***************************************************************************)
ItemsOf(g) == IF groups[g].items = None THEN {} ELSE {ChannelOf(groups[g].items)}

\* A loop over constants further in is no business of an outer loop.
KnownTo(g, c) == IsWithItems(c) => \E h \in Range(Path[g]) : NamedIn(c, h)

ComponentInputs_Inputs == Inputs    \* Mutant: no operands and items
ComponentInputs ==
    LET inputs == Inputs
    IN  [g \in GroupIds |->
           CASE g = Root -> {}
             [] groups[g].kind = "loop" ->
                   {c \in inputs[g] : KnownTo(g, c)} \cup ItemsOf(g)
                                                     \cup {groups[g].arg}
             [] groups[g].kind \in Conditions ->
                   inputs[g] \cup {ChannelOf(u) : u \in groups[g].conds}
             [] OTHER -> inputs[g]]

\* The component whose DAG runs the task; an exit task runs at the top.
HomeOf(t) == IF tasks[t].exit THEN Root ELSE Up(-t)
Siblings(t) == IF tasks[t].exit THEN {} ELSE Children(Up(-t))

\* The assertions of build_task_spec_for_task: a value of another DAG is an
\* input of this one.  A pipeline parameter is not checked.
InputDefined(t, inputs) ==
    tasks[t].input = None \/
    LET c == Channel(tasks[t].input, t)
    IN  \/ c.depth = 0 /\ Producer(c) \in Siblings(t) \cup {0}
        \/ c \in inputs[HomeOf(t)]

-----------------------------------------------------------------------------
(***************************************************************************)
(* get_dependencies: what must be over before a node of a DAG starts.      *)
(***************************************************************************)
Upstream(t) == ({Producer(Channel(u, t)) : u \in Reads(t)} \ {0})
                  \cup tasks[t].after

DependencyLegal(t, n) ==
    LET up == Beyond(n, -t)
    IN  /\ Placed(n) /\ Placed(-t)
        /\ up # <<>>
        /\ Len(up) > 1 =>
             /\ groups[up[1]].kind \notin Conditions \cup {"exit"}
             /\ ~ /\ groups[up[1]].kind = "loop"
                  /\ tasks[t].input # None
                  /\ Producer(Channel(tasks[t].input, t)) = n

Dependencies_Paths ==      \* Mutant: on the node itself, in whatever DAG
    UNION {{<<n, Head(Beyond(-t, n))>> : n \in Upstream(t)} : t \in TaskIds}
Dependencies ==
    UNION {{<<Head(Beyond(n, -t)), Head(Beyond(-t, n))>> : n \in Upstream(t)} :
              t \in TaskIds}

-----------------------------------------------------------------------------
\* What create_pipeline_spec raises for before it builds the components.
Legal ==
    /\ tasks # <<>>
    /\ \A t \in TaskIds : \A u \in Reads(t) :
          u.k = "coll" \/ ChannelOf(u).base.k = "out" =>
             Placed(-t) /\ Placed(-(IF u.k = "coll" THEN u.of
                                     ELSE ChannelOf(u).base.of))
    /\ \A t \in TaskIds : Collects(t) => FanInLegal(t)
    /\ \A t \in TaskIds : \A n \in Upstream(t) : DependencyLegal(t, n)

\* The pipeline function returns and the pipeline is compiled.
Compile ==
    /\ stage = "building"
    /\ Len(blocks) = 1
    /\ LET inputs == ComponentInputs
           accepted == /\ \A g \in ExitGroups : Up(g) = Root
                       /\ Legal
                       /\ \A t \in TaskIds : InputDefined(t, inputs)
       IN  IF accepted
           THEN /\ stage' = "compiled"
                /\ spec' = [inputs |-> inputs, dependencies |-> Dependencies]
                /\ UNCHANGED <<groups, tasks, open, blocks>>
           ELSE Raise /\ UNCHANGED spec

Init == DslInit /\ spec = NoSpec

Next == \/ Build /\ UNCHANGED spec
        \/ Compile

Spec == Init /\ [][Next]_allVars

-----------------------------------------------------------------------------
(***************************************************************************)
(* What the compiled spec gives to whom: the reference a component input   *)
(* stands for when the backend resolves it.                                *)
(***************************************************************************)
Missing == [k |-> "missing", of |-> 0]

\* The output of a producer in the same DAG.  A list comes up through every
\* group around its task.
OutputOf(c) ==
    IF c.depth # 0 THEN Missing
    ELSE IF c.list = 0 THEN c.base
    ELSE IF \A g \in Range(Path[-c.base.of]) \ {-c.base.of} :
               c.list \in Range(Path[g]) => Surfaces(g, c.base.of)
         THEN [k |-> "coll", of |-> c.base.of] ELSE Missing

\* The component input c of the group g, followed up to where it starts.
ValueIn(g, c) ==
    LET path == Path[g]
        value[i \in 1..Len(path)] ==
            LET h == path[i]
            IN  IF h = Root THEN IF c.base.k = "param" /\ c.depth = 0 THEN c.base
                                                                      ELSE Missing
                ELSE IF h \in Loops /\ groups[h].arg = c THEN [k |-> "item", of |-> h]
                ELSE IF c \notin spec.inputs[h] THEN Missing
                ELSE IF Producer(c) \in Children(Up(h)) THEN OutputOf(c)
                ELSE value[i - 1]
    IN  value[Len(path)]

Received(t) ==
    LET c == Channel(tasks[t].input, t)
    IN  IF Producer(c) \in Siblings(t) THEN OutputOf(c)
        ELSE ValueIn(HomeOf(t), c)

\* The tasks of a DAG that are named as the producer of an input; the backend
\* waits for them as for dependent_tasks.
ProducersFor(n) ==
    {Producer(c) : c \in IF n > 0 THEN spec.inputs[n]
                         ELSE IF tasks[-n].input = None THEN {}
                         ELSE {Channel(tasks[-n].input, -n)}}
       \cap Children(Up(n))

\* <<m, n>>: n waits for m.
Waits == spec.dependencies
            \cup UNION {{<<m, n>> : m \in ProducersFor(n)} :
                           n \in {i \in Nodes : Up(i) # 0}}

-----------------------------------------------------------------------------
\* The reference is in the scope of the node: the item of a loop around it,
\* the output of a task of a group around it, a fanned-in list, a parameter.
InScope(u, n) ==
    CASE u.k = "item" -> u.of \in Range(Path[n]) \ {n}
      [] u.k = "out" -> Placed(-u.of) /\ Up(-u.of) \in Range(Path[n]) \ {n}
      [] OTHER -> TRUE

\* The compiler is known to lose the reference on its way to n: a loop on it
\* is named after it and hides it under its own item, or ends the way down
\* one group above n, or, for the item of a loop over constants, is cut off
\* from that loop by a group in between.
Lost(u, n) ==
    u.k # "coll" /\
    \E g \in Loops \cap Range(Path[n]) :
        LET c == ChannelOf(u)
        IN  /\ NamedIn(c, g)
            /\ u.k = "item" => u.of \in Range(Path[Up(g)])
            /\ IF IsWithItems(c) THEN Up(g) # u.of
               ELSE g # n /\ (c = groups[g].arg \/ g # Up(n))

\* What the group tests or iterates over, if a task in it has the compiler
\* look: one that is under the conditions, or that reads the loop's item.
Consults(g) ==
    LET inside == {t \in TaskIds : g \in Range(Path[-t])}
        iterated == \E t \in inside : \E u \in Reads(t) :
                       /\ u.k = "item"
                       /\ groups[u.of].arg.base = groups[g].arg.base
                       /\ groups[u.of].arg.depth >= groups[g].arg.depth
    IN  {u \in groups[g].conds : inside # {}}
          \cup {u \in {groups[g].items} \ {None} : iterated}

\* A compiled task receives what the pipeline function passed to it: the
\* input, followed through the component inputs and outputs of every group
\* on the way, ends at that parameter, output, loop item or list and not at
\* another one or at nothing.  References out of scope and the ones of Lost
\* are excepted.
TaskInputsArrive ==
    stage = "compiled" =>
        \A t \in TaskIds :
            LET u == tasks[t].input
            IN  u # None /\ InScope(u, IF tasks[t].exit THEN Root ELSE -t)
                    /\ (tasks[t].exit \/ ~Lost(u, -t))
                  => Received(t) = u

\* A condition is decided on the values it was written with, and a loop
\* iterates over the list it was given: the operands and the items that
\* build_spec_by_group defines for the group's component are fed by the DAGs
\* around it.
GroupInputsArrive ==
    stage = "compiled" =>
        \A g \in GroupIds :
            \A u \in Consults(g) :
                InScope(u, g) /\ ~Lost(u, g) => ValueIn(g, ChannelOf(u)) = u

\* What the function itself puts before the node: the producer of a task's
\* input and what the task was put after; for a group the producers of what
\* it tests or iterates over.
Sources(n) ==
    IF n < 0
    THEN tasks[-n].after
           \cup (IF tasks[-n].input = None THEN {}
                 ELSE {Producer(Channel(tasks[-n].input, -n))} \ {0})
    ELSE {Producer(ChannelOf(u)) : u \in (groups[n].conds \cup {groups[n].items})
                                            \ {None}} \ {0}

\* A run that keeps the waits has m over when n starts: n or a group around
\* it waits, in the DAG they share, for m or a group around m.
Precedes(m, n, waits) ==
    \E w \in Range(Path[m]), a \in Range(Path[n]) :
        Up(w) = Up(a) /\ <<w, a>> \in waits

\* Although get_dependencies replaces both ends of a dependency by the groups
\* that stand for them where their paths part, no task starts before what it
\* reads or was put after is over, and no group before what it tests or
\* iterates over.  And no DAG waits where the function has no such order, so
\* that two groups wait for each other only if what is in them does.
OrderIsKept ==
    stage = "compiled" =>
        LET waits == Waits
        IN  /\ \A t \in TaskIds : \A n \in Sources(-t) : Precedes(n, -t, waits)
            /\ \A g \in GroupIds : \A u \in Consults(g) :
                  u.k = "out" /\ InScope(u, g) /\ ~Lost(u, g) =>
                      Precedes(-u.of, g, waits)
            /\ \A <<m, n>> \in waits :
                  \E b \in {i \in Nodes : n \in Range(Path[i])} :
                      \E a \in Sources(b) : m \in Range(Path[a])

\* A task belongs to the block it is written in: pipeline_context.py says of
\* pop_tasks_group "Removes the current TasksGroup from the stack."
PlacedWhereWritten ==
    \A t \in TaskIds : ~tasks[t].exit => tasks[t].up = tasks[t].block
=============================================================================
