----------------------------- MODULE PipelineDsl -----------------------------
(***************************************************************************)
(* How the SDK's DSL records a pipeline while the user's pipeline function *)
(* runs: sdk/python/kfp/dsl/pipeline_context.py, tasks_group.py,           *)
(* for_loop.py and pipeline_task.py.  One action is one thing the function *)
(* can do: call a component, put a task after another, enter a `with`      *)
(* block, leave one, or return.                                            *)
(*                                                                         *)
(* A reference [k, of] is what the function passes around: a pipeline      *)
(* parameter, the output of a task, the item of a dsl.ParallelFor, or a    *)
(* dsl.Collected of a task's output.  Names, types, constants, artifacts   *)
(* and the text of conditions are left out; an artifact channel takes the  *)
(* same way through the code as a parameter channel.                       *)
(***************************************************************************)
EXTENDS Integers, Sequences, FiniteSets, SequencesExt

CONSTANTS Params,       \* the parameters of the pipeline function
          MaxTasks,     \* bound on the component calls
          MaxGroups,    \* bound on the task groups, the pipeline's included
          MaxNodes,     \* bound on both together
          MaxUses       \* bound on what a task uses: its argument and the nodes
                        \* it is put after

ASSUME DslAssumption == /\ MaxTasks \in Nat \ {0}
                        /\ MaxGroups \in Nat \ {0}
                        /\ MaxNodes \in Nat \ {0}
                        /\ MaxUses \in Nat

VARIABLES groups,   \* every TasksGroup, in the order of creation
          tasks,    \* Pipeline.tasks, in the order of creation
          open,     \* Pipeline.groups, the stack of open groups
          blocks,   \* the `with` blocks the function is in, by their group
          stage     \* "building", "compiled" or "raised"

vars == <<groups, tasks, open, blocks, stage>>

Root == 1

None == [k |-> "none", of |-> 0]

Conditions == {"if", "elif", "else"}
Kinds == Conditions \cup {"pipeline", "branches", "loop", "exit"}

(***************************************************************************)
(* Nodes: the group g is the node g, the task t the node -t.               *)
(***************************************************************************)
GroupIds == 1..Len(groups)
TaskIds == 1..Len(tasks)
Nodes == GroupIds \cup {-t : t \in TaskIds}
Loops == {g \in GroupIds : groups[g].kind = "loop"}

(***************************************************************************)
(* A channel is told apart by its name: what it stems from, how many       *)
(* "-loop-item" follow, and for a dsl.Collected the group it is read from  *)
(* (see PipelineCompiler).                                                 *)
(***************************************************************************)
Plain(u) == [base |-> u, depth |-> 0, list |-> 0]

\* The channel of a reference that is no dsl.Collected.
ChannelOf(u) == IF u.k = "item" THEN groups[u.of].arg ELSE Plain(u)

\* LoopParameterArgument: a new "loop-item-param-N" for constant items, the
\* name of the iterated channel plus "-loop-item" otherwise.
LoopArgument(items, g) ==
    IF items = None
    THEN [Plain([k |-> "raw", of |-> g]) EXCEPT !.depth = 1]
    ELSE [ChannelOf(items) EXCEPT !.depth = @ + 1]

Scalars == UNION {groups[g].conds : g \in GroupIds}
Lists == {groups[g].items : g \in Loops}

\* References that can be tested or iterated over.  A value is either a
\* list, which dsl.ParallelFor demands, or something a condition compares.
Values == [k : {"param"}, of : Params]
            \cup [k : {"out"}, of : TaskIds]
            \cup [k : {"item"}, of : Loops]

Arguments == Values \cup [k : {"coll"}, of : TaskIds] \cup {None}

ExitGroups == {g \in GroupIds : groups[g].kind = "exit"}

\* task.after(...) accepts tasks and dsl.ExitHandler groups.
AfterNodes == {-t : t \in TaskIds} \cup ExitGroups

Group(kind, up, conds) ==
    [kind |-> kind, up |-> up, conds |-> conds, items |-> None,
     arg |-> Plain(None)]

DslInit == /\ groups = <<Group("pipeline", 0, {})>>
           /\ tasks = <<>>
           /\ open = <<Root>>
           /\ blocks = <<Root>>
           /\ stage = "building"

\* An exception leaves the pipeline function, and what it built is dropped.
Raise == /\ groups' = <<Group("pipeline", 0, {})>>
         /\ tasks' = <<>>
         /\ open' = <<Root>>
         /\ blocks' = <<Root>>
         /\ stage' = "raised"

-----------------------------------------------------------------------------
\* The function calls a component: Pipeline.add_task files the task under the
\* innermost open group.
AddTask(u) ==
    /\ Len(tasks) < MaxTasks
    /\ tasks' = Append(tasks, [up |-> Last(open), block |-> Last(blocks),
                               input |-> u, after |-> {}, exit |-> FALSE])
    /\ UNCHANGED <<groups, open, blocks, stage>>

Uses(t) == Cardinality(tasks[t].after) + IF tasks[t].input = None THEN 0 ELSE 1

\* t.after(n), at any time and with any node the function knows, a later one
\* too.
After(t, n) ==
    /\ Uses(t) < MaxUses
    /\ tasks' = [tasks EXCEPT ![t].after = @ \cup {n}]
    /\ UNCHANGED <<groups, open, blocks, stage>>

\* push_tasks_group after the groups gs and the stack os: the new group's
\* index is its name.
Enter(gs, os, group) ==
    /\ Len(gs) < MaxGroups /\ Len(tasks) + Len(gs) < MaxNodes
    /\ groups' = Append(gs, group)
    /\ open' = Append(os, Len(gs) + 1)
    /\ blocks' = Append(blocks, Len(gs) + 1)
    /\ UNCHANGED stage

OpenIf(u) ==
    /\ Enter(groups, open, Group("if", Last(open), {u}))
    /\ u \notin Lists
    /\ UNCHANGED tasks

ParallelFor(items) ==
    /\ Enter(groups, open,
             [Group("loop", Last(open), {}) EXCEPT
                 !.items = items,
                 !.arg = LoopArgument(items, Len(groups) + 1)])
    /\ items \notin Scalars
    /\ UNCHANGED tasks

\* get_last_tasks_group: the last group added to the innermost open one.
LastTasksGroup ==
    LET children == {g \in GroupIds : groups[g].up = Last(open)}
    IN  IF children = {} THEN 0 ELSE Max(children)

\* Elif and Else are refused unless it is an If or an Elif.
FollowsCondition ==
    LastTasksGroup # 0 /\ groups[LastTasksGroup].kind \in {"if", "elif"}

\* maybe_make_and_insert_conditional_branches_group: unless an Elif already
\* did so, the If moves into a new ConditionBranches group, which stays open.
BranchesNeeded == groups[LastTasksGroup].kind # "elif"
WithBranches ==
    IF BranchesNeeded
    THEN Append([groups EXCEPT ![LastTasksGroup].up = Len(groups) + 1],
                Group("branches", Last(open), {}))
    ELSE groups
OpenWithBranches ==
    IF BranchesNeeded THEN Append(open, Len(groups) + 1) ELSE open

OpenElif(u) ==
    /\ Enter(WithBranches, OpenWithBranches,
             Group("elif", Last(OpenWithBranches),
                   groups[LastTasksGroup].conds \cup {u}))
    /\ u \notin Lists
    /\ UNCHANGED tasks

OpenElse ==
    /\ Enter(WithBranches, OpenWithBranches,
             Group("else", Last(OpenWithBranches),
                   groups[LastTasksGroup].conds))
    /\ UNCHANGED tasks

\* ExitHandler.__has_dependent_tasks; a dsl.Collected is not looked at.
HasDependentTasks(t) ==
    \/ tasks[t].after # {}
    \/ /\ tasks[t].input.k \notin {"none", "coll"}
       /\ ChannelOf(tasks[t].input).base.k = "out"

\* dsl.ExitHandler(t): the exit task leaves every group.
ExitHandler(t) ==
    /\ ~HasDependentTasks(t)
    /\ ~tasks[t].exit
    /\ Enter(groups, open, Group("exit", Last(open), {}))
    /\ tasks' = [tasks EXCEPT ![t].up = 0, ![t].exit = TRUE]

\* The function leaves its innermost block: __exit__ pops one group, and
\* Else.__exit__ one more, the ConditionBranches.
Close ==
    /\ Len(blocks) > 1
    /\ LET pops == IF groups[Last(blocks)].kind = "else" THEN 2 ELSE 1
       IN  open' = SubSeq(open, 1, Len(open) - pops)
    /\ blocks' = Front(blocks)
    /\ UNCHANGED <<groups, tasks, stage>>

\* A block the DSL refuses: dsl.Elif or dsl.Else without a dsl.If before it,
\* dsl.ExitHandler with a task that depends on others.
Refuse ==
    /\ ~FollowsCondition \/ \E t \in TaskIds : HasDependentTasks(t)
    /\ Raise

\* One step of the pipeline function.  A task is not put after itself, which
\* get_dependencies never accepts.
Build ==
    /\ stage = "building"
    /\ \/ /\ Len(tasks) + Len(groups) < MaxNodes
          /\ \/ \E u \in Arguments : AddTask(u)
             \/ \E u \in Values : OpenIf(u)
             \/ FollowsCondition /\ \E u \in Values : OpenElif(u)
             \/ FollowsCondition /\ OpenElse
             \/ \E u \in Values \cup {None} : ParallelFor(u)
             \/ \E t \in TaskIds : ExitHandler(t)
       \/ \E t \in TaskIds : \E n \in AfterNodes \ {-t} : After(t, n)
       \/ Close
       \/ Refuse
=============================================================================
