----------------------------- MODULE MCLocalDag -----------------------------
(* Small pipelines, one for each construct of the DSL.                     *)
EXTENDS LocalDag

\* A component without settings.
T == [dag |-> "", component |-> "comp", deps |-> {}, reads |-> {}, takes |-> {}, artifacts |-> FALSE,
      ignore |-> FALSE, final |-> NoTask, when |-> {}, loop |-> {}, flags |-> {TRUE}, retries |-> 0,
      cached |-> FALSE]

Group(dag) == [T EXCEPT !.dag = dag]

Reads(spec, ts) == [spec EXCEPT !.deps = @ \cup ts, !.reads = @ \cup ts]

Takes(spec, ks) == [spec EXCEPT !.takes = ks]

Over(spec, of, key, artifact, items, limit) ==
    [spec EXCEPT !.loop = {[over |-> of, key |-> key, artifact |-> artifact,
                            items |-> items, limit |-> limit]}]

After(spec, ts) == [spec EXCEPT !.deps = @ \cup ts]

Dag(tasks, output) == [tasks |-> tasks, output |-> output]

Cached == [T EXCEPT !.component = "cached", !.cached = TRUE]

One == Dag("in1" :> Cached, {"in1"})

Each == Dag("in1" :> Takes(Cached, {"item"}), {"in1"})

\* run_dag: two tasks, the first with a retry.
Chain ==
    "root" :> Dag("a" :> [T EXCEPT !.retries = 1] @@ "b" :> Reads(T, {"a"}), {"b"})

\* dsl.If and dsl.Else, and dsl.OneOf of their outputs.
Branches(key) ==
    LET If(want) == [Reads(Group("one"), {"a"}) EXCEPT !.when = {[of |-> "a", key |-> key, want |-> want]}]
    IN  "root" :> Dag("a" :> [T EXCEPT !.flags = BOOLEAN] @@ "c1" :> If(TRUE) @@ "c2" :> If(FALSE),
                      {"c1", "c2"})
        @@ "one" :> One

\* A dsl.If inside a dsl.If, and a dsl.If that finds its operand two dags out.
NestedBranches ==
    LET Named(spec) == [spec EXCEPT !.when = {[of |-> "a", key |-> "named", want |-> TRUE]}]
    IN  "root" :> Dag("a" :> [T EXCEPT !.flags = BOOLEAN]
                      @@ "c1" :> [Reads(Group("inner"), {"a"}) EXCEPT
                                     !.when = {[of |-> "a", key |-> "Output", want |-> TRUE]}], {})
        @@ "inner" :> Dag("c3" :> Named(Group("deep")), {})
        @@ "deep" :> Dag("c4" :> Named(Takes(Group("one"), {"a"})), {})
        @@ "one" :> One

\* A pipeline used as a component, with an artifact for its only input.
OnlyArtifacts ==
    "root" :> Dag("a" :> T @@ "g" :> [Reads(Group("uses"), {"a"}) EXCEPT !.artifacts = TRUE], {})
    @@ "uses" :> Dag("lp" :> Over(Takes(Group("each"), {"a"}), NoTask, "", FALSE, 1, 0)
                     @@ "u" :> Takes(T, {"a"}), {})
    @@ "each" :> Each

\* dsl.ExitHandler.
Exit ==
    "root" :> Dag("eh" :> Group("body")
                  @@ "ex" :> [After(T, {"eh"}) EXCEPT !.ignore = TRUE, !.final = "eh"], {})
    @@ "body" :> Dag("u" :> T @@ "v" :> Reads(T, {"u"}) @@ "w" :> After(T, {"v"}), {})

\* dsl.ParallelFor and dsl.Collected, and a task that runs in any case.
Loop(items, limit, over, artifact) ==
    "root" :> Dag("l0" :> T
                  @@ "lp" :> [Over(Reads(Group("each"), {"l0"}), over, "Output", artifact, items, limit)
                                 EXCEPT !.artifacts = artifact]
                  @@ "col" :> Reads(T, {"lp"})
                  @@ "any" :> [After(T, {"lp"}) EXCEPT !.ignore = TRUE], {})
    @@ "each" :> Each

\* A loop over the output of a task that failed and is ignored.
LoopAnyway(artifact) ==
    "root" :> Dag("l0" :> T
                  @@ "lp" :> [Over(Reads(Group("each"), {"l0"}), "l0", "Output", artifact, 1, 0)
                                 EXCEPT !.ignore = TRUE], {})
    @@ "each" :> Each

\* A loop over an output that is not named "Output", of a task of its dag and of a task
\* of the dag around.
NamedLoop ==
    "root" :> Dag("l0" :> T @@ "lp" :> Over(Reads(Group("each"), {"l0"}), "l0", "named", FALSE, 1, 0), {})
    @@ "each" :> Each

NamedLoopInside ==
    "root" :> Dag("l0" :> T @@ "g" :> Reads(Group("inner"), {"l0"}), {})
    @@ "inner" :> Dag("lp" :> Over(Takes(Group("each"), {"l0"}), "l0", "named", FALSE, 2, 1), {})
    @@ "each" :> Each

\* ignore_upstream_failure, with an input that has a default and with a final status.
Ignoring ==
    "root" :> Dag("a" :> T
                  @@ "r" :> [Reads(T, {"a"}) EXCEPT !.ignore = TRUE]
                  @@ "s" :> [After(T, {"a"}) EXCEPT !.ignore = TRUE, !.final = "a"]
                  @@ "n" :> After(T, {"s"}), {})

\* The final status of a task that may be passed over, and of a task that itself takes one.
LateStatus ==
    "root" :> Dag("a" :> [T EXCEPT !.flags = BOOLEAN]
                  @@ "c1" :> [Reads(Group("one"), {"a"}) EXCEPT
                                 !.when = {[of |-> "a", key |-> "Output", want |-> TRUE]}]
                  @@ "s1" :> [After(T, {"c1"}) EXCEPT !.ignore = TRUE, !.final = "c1"]
                  @@ "s2" :> [After(T, {"s1"}) EXCEPT !.ignore = TRUE, !.final = "s1"], {})
    @@ "one" :> One

\* A component used twice, in two pipelines used as components.
Twice ==
    "root" :> Dag("g1" :> Group("one") @@ "g2" :> After(Group("two"), {"g1"}), {})
    @@ "one" :> One
    @@ "two" :> Dag("in2" :> Cached, {"in2"})

\* A loop in a loop, under an exit handler.
LoopInLoop ==
    LET Each2(dag) == Over(Group(dag), NoTask, "", FALSE, 2, 0)
    IN  "root" :> Dag("eh" :> Group("body")
                      @@ "ex" :> [After(T, {"eh"}) EXCEPT !.ignore = TRUE, !.final = "eh"], {})
        @@ "body" :> Dag("lp" :> Each2("outer") @@ "col" :> Reads(T, {"lp"}), {})
        @@ "outer" :> Dag("lq" :> Each2("inner"), {"lq"})
        @@ "inner" :> Dag("z" :> T, {"z"})

MCPipelines ==
    {Chain, Branches("Output"), Branches("named"), NestedBranches, Exit, Ignoring, LateStatus,
     Twice, LoopInLoop, OnlyArtifacts, NamedLoop, NamedLoopInside}
    \cup {Loop(3, 3, "l0", FALSE), Loop(3, 1, "l0", TRUE), Loop(0, 0, NoTask, FALSE)}
    \cup {LoopAnyway(artifact) : artifact \in BOOLEAN}

\* topological_sort: the depth-first search visits the dependencies first, in sorted
\* order, and skips those outside the body.
RECURSIVE Visit(_, _, _, _)
Visit(specs, among, visited, order) ==
    IF order = <<>> THEN visited
    ELSE LET t == Head(order)
             deps == SetToSeq(specs[t].deps \cap among)
         IN  Visit(specs, among,
                   IF Contains(visited, t) THEN visited
                   ELSE Append(Visit(specs, among, visited, deps), t),
                   Tail(order))

\* Begun with every order of the map, it finds the orders that TopologicalSort has.
ASSUME SearchAssumption ==
    \A pl \in MCPipelines : \A d \in DOMAIN pl :
        LET specs == pl[d].tasks IN
        \A among \in {DOMAIN specs, BodyTasks(specs)} :
            {Visit(specs, among, <<>>, order) : order \in SetToSeqs(among)}
              = {order \in SetToSeqs(among) : DependenciesFirst(specs, order)}

=============================================================================
