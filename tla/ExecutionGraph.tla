--------------------------- MODULE ExecutionGraph ---------------------------
(***************************************************************************)
(* From a validated lifecycle and a reconstructed dataset to the execution *)
(* graph the scheduler runs: the rows of the dataset (reconstruct.py,      *)
(* reconstruct_npu.py), the in-memory and the streamed adapters            *)
(* (execution_adapter.py, execution_stream.py), the stripe pipeline        *)
(* (execution_pipeline.py) and the application (execution_application.py). *)
(* A node is a tuple whose first element names its kind; a dependency is a *)
(* node and the milestone to wait for.  Once stored, the graph is run: a   *)
(* structural node completes as soon as its dependencies allow, a service  *)
(* takes any time.                                                         *)
(***************************************************************************)
EXTENDS Lifecycle, FiniteSetsExt, Functions

CONSTANT Data   \* mode -> datasets and producer declarations that may come with it

\* A dataset is joined from a trace that Calls.stage and Calls.work accepted:
\* the stages of a call come in order and once, PUBLISH right after INVOKE, and
\* a work belongs to a call.  Stages and stripes are numbered from one.
WellFormed(d) ==
    /\ d /= << >>
    /\ \A w \in DOMAIN d.works : d.works[w].call \in DOMAIN d.calls
    /\ \A c \in DOMAIN d.calls :
         LET stages == d.calls[c].stages IN
         /\ \A m, n \in DOMAIN stages : stages[m] = stages[n] => m = n
         /\ "PUBLISH" \in Range(stages) =>
              /\ {1, 2, 3} \subseteq DOMAIN stages
              /\ stages[1] = "PREPARE" /\ stages[2] = "INVOKE" /\ stages[3] = "PUBLISH"
    /\ \A p \in DOMAIN d.parents : \A s \in DOMAIN d.parents[p].stripes :
         s \in Nat \ {0} /\ 1 .. s \subseteq DOMAIN d.parents[p].stripes

ASSUME DataAssumption == \A m \in Modes : \A d \in Data[m] : WellFormed(d)

VARIABLES
    data,       \* the dataset being adapted
    store,      \* "NONE", "STORED" or "REFUSED"
    graph,      \* node -> dependencies: the edges table
    started,    \* works the NPU accepted
    done        \* nodes whose result is ready

graphVars == <<lifecycle, data, store, graph, started, done>>

Result(nodes) == nodes \X {"RESULT_READY"}
Enter(op) == <<"enter", op>>
Exit(op) == <<"exit", op>>
Npu(work) == <<"npu", work>>
CallNode(call, stage) == <<"call", call, stage>>
Owner(parent, stripe, resource, transition, call) == <<"owner", parent, stripe, resource, transition, call>>

Operations == DOMAIN data.ops
CallStages == UNION {{<<c, n>> : n \in DOMAIN data.calls[c].stages} : c \in DOMAIN data.calls}
OwnWork(c) == {w \in DOMAIN data.works : data.works[w].call = c}
Published(c) == "PUBLISH" \in Range(data.calls[c].stages)

(***************************************************************************)
(* The dataset: one row per service and per call boundary, with the        *)
(* dependencies the join writes                                            *)
(***************************************************************************)
Predecessors(op) == {Exit(p) : p \in data.ops[op].preds}

CallRow(c, n) ==
    LET call == data.calls[c] stage == call.stages[n] IN
    (IF n = 1 THEN Predecessors(call.op) ELSE {CallNode(c, call.stages[n - 1])})
    \cup (IF stage = "COMPLETE_REQUIRED" THEN {Npu(w) : w \in call.required} ELSE {})
    \cup (IF stage = "PUBLISH" THEN {Npu(w) : w \in OwnWork(c)} ELSE {})

WorkRow(w) == {CallNode(data.works[w].call, "INVOKE")} \cup {<<"host", h>> : h \in data.works[w].hosts}

HostRow(h) ==
    Predecessors(data.hosts[h].op) \cup {Npu(w) : w \in data.hosts[h].works} \cup {<<"host", s>> : s \in data.hosts[h].hosts}

Rows == {CallNode(p[1], data.calls[p[1]].stages[p[2]]) : p \in CallStages}
        \cup {Npu(w) : w \in DOMAIN data.works} \cup {<<"host", h>> : h \in DOMAIN data.hosts}
        \cup {<<data.ops[op].class, op>> : op \in {o \in Operations : data.ops[o].class \in {"cpu", "excluded"}}}

OperationOf(row) ==
    CASE row[1] = "call" -> data.calls[row[2]].op
      [] row[1] = "npu" -> data.works[row[2]].op
      [] row[1] = "host" -> data.hosts[row[2]].op
      [] OTHER -> row[2]

RowDependencies(row) ==
    CASE row[1] = "call" -> CallRow(row[2], CHOOSE n \in DOMAIN data.calls[row[2]].stages : data.calls[row[2]].stages[n] = row[3])
      [] row[1] = "npu" -> WorkRow(row[2])
      [] row[1] = "host" -> HostRow(row[2])
      [] OTHER -> Predecessors(row[2])

(***************************************************************************)
(* parse_pipeline: the producer's parents, stripes and residual works      *)
(***************************************************************************)
Stripes(p) == DOMAIN data.parents[p].stripes
StripeWork(p, s) == data.parents[p].stripes[s].work
DenseWorks(p) == {StripeWork(p, s) : s \in Stripes(p)}
ReleaseWorks(p, s) == {StripeWork(p, s)} \cup data.parents[p].stripes[s].residual
HasCallback(p, s) == data.parents[p].stripes[s].callback
MergeCalls(p, s) == data.parents[p].stripes[s].merges

ResidualsBound(p) ==
    /\ \A s, t \in Stripes(p) : s /= t => data.parents[p].stripes[s].residual \cap data.parents[p].stripes[t].residual = {}
    /\ UNION {data.parents[p].stripes[s].residual : s \in Stripes(p)} = data.parents[p].works \ DenseWorks(p)

ParsePipeline ==
    /\ DOMAIN data.parents /= {}
    /\ \A p \in DOMAIN data.parents :
         /\ data.parents[p].works /= {} /\ DenseWorks(p) \subseteq data.parents[p].works
         /\ \A w \in data.parents[p].works : data.works[w].op = data.parents[p].op
         /\ ResidualsBound(p)
         /\ \A s \in Stripes(p) : MergeCalls(p, s) /= {} => HasCallback(p, s)
    /\ {data.works[w].call : w \in UNION {DenseWorks(p) : p \in DOMAIN data.parents}} =
          {c \in DOMAIN data.calls : Published(c)}

\* What project_pipeline finds in the dataset: the publication of each stripe,
\* the residual merges it waits for, and a fence over the works of the parent.
Boundary(c, stage, kind, op) ==
    /\ c \in DOMAIN data.calls /\ stage \in Range(data.calls[c].stages)
    /\ data.calls[c].kind = kind /\ data.calls[c].op = op

BoundariesExact ==
    \A p \in DOMAIN data.parents :
        LET op == data.parents[p].op fence == data.parents[p].fence IN
        /\ Boundary(fence, "COMPLETE_REQUIRED", "FENCE", op) /\ data.calls[fence].required = data.parents[p].works
        /\ \A s \in Stripes(p) :
             /\ \A stage \in {"PREPARE", "PUBLISH"} : Boundary(data.works[StripeWork(p, s)].call, stage, "STRIPE", op)
             /\ \A c \in MergeCalls(p, s) : Boundary(c, "CONTINUATION", "RESIDUAL_MERGE", op)

(***************************************************************************)
(* build: every work has one call, every work belongs to one parent        *)
(***************************************************************************)
BuildLifecycle ==
    /\ \A v, w \in DOMAIN data.works : v /= w => data.works[v].call /= data.works[w].call
    /\ mode = "PIPELINE" =>
         /\ parents = {data.parents[p].op : p \in DOMAIN data.parents} /\ owners > 0
         /\ \A p, q \in DOMAIN data.parents : p /= q => data.parents[p].works \cap data.parents[q].works = {}
         /\ UNION {data.parents[p].works : p \in DOMAIN data.parents} = DOMAIN data.works
    /\ mode /= "PIPELINE" => \A c \in DOMAIN data.calls : ~Published(c)

(***************************************************************************)
(* project_pipeline: how a stripe moves from workspace to release          *)
(***************************************************************************)
Event10 == {<<"EXSIA_WORKSPACE", "ACQUIRE">>, <<"EXSIA_WORKSPACE", "RELEASE">>, <<"ACTIVATION_ROWS", "COMMIT">>,
    <<"RESIDUAL_PAYLOAD", "SEAL">>, <<"FRONTEND_OUTSTANDING", "ACQUIRE">>, <<"FRONTEND_OUTSTANDING", "RELEASE">>,
    <<"FRONTEND_QUEUE", "ENQUEUE">>, <<"FRONTEND_QUEUE", "DEQUEUE">>,
    <<"CPU_FUNCTIONAL_STREAM", "ACCEPTED">>, <<"CPU_FUNCTIONAL_STREAM", "COMPLETED">>}

OwnerNodes(p, s) ==
    {Owner(p, s, e[1], e[2], 0) : e \in Event10}
    \cup (IF HasCallback(p, s) THEN {Owner(p, s, "RESIDUAL_CALLBACK", "COMPLETE", 0)} ELSE {})
    \cup {Owner(p, s, "RESIDUAL_MERGE_CALL", "COMPLETE", c) : c \in MergeCalls(p, s)}

PipelineNodes == UNION {UNION {OwnerNodes(p, s) : s \in Stripes(p)} : p \in DOMAIN data.parents}

\* Fault: the window of outstanding stripes is never waited for.
CapacityUnlimited(p, s) == {}

\* Capacity is two stripes: a stripe waits for the release of the last but one.
CapacityEdges(p, s) ==
    IF s > 2 THEN {<<Owner(p, s, "FRONTEND_OUTSTANDING", "ACQUIRE", 0), Owner(p, s - 2, "FRONTEND_OUTSTANDING", "RELEASE", 0)>>} ELSE {}

\* The workspace slot is free once the last stripe that used it released it.
SlotEdges(p, s) ==
    LET earlier == {t \in Stripes(p) : t < s /\ data.parents[p].stripes[t].slot = data.parents[p].stripes[s].slot} IN
    IF earlier = {} THEN {} ELSE {<<Owner(p, s, "EXSIA_WORKSPACE", "ACQUIRE", 0), Owner(p, Max(earlier), "EXSIA_WORKSPACE", "RELEASE", 0)>>}

StripeEdges(p, s) ==
    LET o(resource, transition) == Owner(p, s, resource, transition, 0)
        c == data.works[StripeWork(p, s)].call
        npu == Npu(StripeWork(p, s))
    IN {<<o("ACTIVATION_ROWS", "COMMIT"), o("EXSIA_WORKSPACE", "ACQUIRE")>>,
        <<o("RESIDUAL_PAYLOAD", "SEAL"), o("ACTIVATION_ROWS", "COMMIT")>>,
        <<o("FRONTEND_OUTSTANDING", "ACQUIRE"), o("RESIDUAL_PAYLOAD", "SEAL")>>,
        <<o("FRONTEND_QUEUE", "ENQUEUE"), o("FRONTEND_OUTSTANDING", "ACQUIRE")>>,
        <<o("EXSIA_WORKSPACE", "RELEASE"), o("FRONTEND_QUEUE", "ENQUEUE")>>,
        <<o("FRONTEND_QUEUE", "DEQUEUE"), o("FRONTEND_QUEUE", "ENQUEUE")>>,
        <<CallNode(c, "PREPARE"), o("FRONTEND_QUEUE", "DEQUEUE")>>,
        <<npu, CallNode(c, "PUBLISH")>>,
        <<o("CPU_FUNCTIONAL_STREAM", "ACCEPTED"), CallNode(c, "PUBLISH")>>,
        <<npu, o("CPU_FUNCTIONAL_STREAM", "ACCEPTED")>>,
        <<o("CPU_FUNCTIONAL_STREAM", "COMPLETED"), o("CPU_FUNCTIONAL_STREAM", "ACCEPTED")>>}
       \cup CapacityEdges(p, s) \cup SlotEdges(p, s)
       \cup (IF s > 1 THEN {<<o("FRONTEND_QUEUE", "DEQUEUE"), Owner(p, s - 1, "FRONTEND_QUEUE", "DEQUEUE", 0)>>} ELSE {})

\* What the completion, callback and release of a stripe wait for.
CompletionEdges(p, s) ==
    LET o(resource, transition) == Owner(p, s, resource, transition, 0)
        merge(c) == Owner(p, s, "RESIDUAL_MERGE_CALL", "COMPLETE", c)
        completed == o("CPU_FUNCTIONAL_STREAM", "COMPLETED")
        callback == o("RESIDUAL_CALLBACK", "COMPLETE")
        release == o("FRONTEND_OUTSTANDING", "RELEASE")
        endings == IF HasCallback(p, s) THEN {callback, release} ELSE {release}
    IN {<<completed, Npu(StripeWork(p, s))>>}
       \cup endings \X {Npu(w) : w \in ReleaseWorks(p, s)}
       \cup endings \X {CallNode(c, "CONTINUATION") : c \in MergeCalls(p, s)}
       \cup (UNION {{<<merge(c), CallNode(c, "CONTINUATION")>>, <<merge(c), completed>>, <<callback, merge(c)>>} : c \in MergeCalls(p, s)})
       \cup (IF HasCallback(p, s) THEN {<<callback, completed>>, <<release, callback>>} ELSE {<<release, completed>>})

FenceEdges(p) ==
    {CallNode(data.parents[p].fence, "COMPLETE_REQUIRED")} \X
        ({Npu(w) : w \in data.parents[p].works} \cup {Owner(p, s, "FRONTEND_OUTSTANDING", "RELEASE", 0) : s \in Stripes(p)})

\* PipelineProjection.additions and .removals
Additions ==
    UNION {FenceEdges(p) \cup (UNION {StripeEdges(p, s) \cup CompletionEdges(p, s) : s \in Stripes(p)}) : p \in DOMAIN data.parents}

\* Fault: the publication keeps waiting for the work it publishes.
RemovesNothing == {}

Removals ==
    UNION {UNION {LET w == StripeWork(p, s) c == data.works[w].call IN
                  {<<CallNode(c, "PUBLISH"), Npu(w)>>, <<Npu(w), CallNode(c, "INVOKE")>>} : s \in Stripes(p)} : p \in DOMAIN data.parents}

PipelineEdges(node, deps) ==
    IF mode /= "PIPELINE" THEN deps
    ELSE {d \in deps : <<node, d[1]>> \notin Removals} \cup Result({e[2] : e \in {a \in Additions : a[1] = node}})

(***************************************************************************)
(* The barriers of the lifecycle and the nodes of the application          *)
(***************************************************************************)
DispatchNode(d, side) == <<"dispatch", d, side>>
GraphNode(g, side) == <<"graph", g, side>>

Barriers ==
    (UNION {{DispatchNode(d, "begin"), DispatchNode(d, "end")} : d \in DOMAIN dispatches})
    \cup (UNION {{GraphNode(g, "begin"), GraphNode(g, "end")} : g \in Graphs})
    \cup (IF requested THEN {<<"request">>} ELSE {})

OperationsIn(g) == {op \in Operations : data.ops[op].graph = g}

\* Fault: a dispatch begins without waiting for the one before it.
BarrierUnordered(node) ==
    CASE node[1] = "request" -> {}
      [] node[1] = "graph" -> IF node[3] = "end" THEN {Exit(op) : op \in OperationsIn(node[2])}
            ELSE LET d == CHOOSE d \in DOMAIN dispatches : dispatches[d].begin <= node[2] /\ node[2] <= dispatches[d].end IN
                 IF dispatches[d].begin = node[2] THEN {DispatchNode(d, "begin")} ELSE {GraphNode(node[2] - 1, "end")}
      [] OTHER -> IF node[3] = "end" THEN {GraphNode(dispatches[node[2]].end, "end")} ELSE {}

BarrierDependencies(node) ==
    CASE node[1] = "request" -> {}
      [] node[1] = "graph" -> IF node[3] = "end" THEN {Exit(op) : op \in OperationsIn(node[2])}
            ELSE LET d == CHOOSE d \in DOMAIN dispatches : dispatches[d].begin <= node[2] /\ node[2] <= dispatches[d].end IN
                 IF dispatches[d].begin = node[2] THEN {DispatchNode(d, "begin")} ELSE {GraphNode(node[2] - 1, "end")}
      [] OTHER -> IF node[3] = "end" THEN {GraphNode(dispatches[node[2]].end, "end")}
                  ELSE IF node[2] = 1 THEN {} ELSE {DispatchNode(node[2] - 1, "end")}

Preparations == IF mode = "PIPELINE" THEN {<<"prep", preps[n]>> : n \in DOMAIN preps} ELSE {}
ApplicationNodes == Preparations \cup UNION {{<<"sample", i>>, <<"token", i>>} : i \in DOMAIN samples}

\* project_application: prepared dispatches exist and are prepared once, and
\* every token but the last is waited for.
ApplicationOK ==
    /\ mode = "PIPELINE" =>
         /\ \A m, n \in DOMAIN preps : m /= n => preps[m] /= preps[n]
         /\ Range(preps) \subseteq DOMAIN dispatches
    /\ \A i \in 1 .. Len(samples) - 1 : OperationsIn(NextDecode(i)) /= {}

ApplicationDependencies(node) ==
    CASE node[1] = "prep" -> LET n == CHOOSE n \in DOMAIN preps : preps[n] = node[2] IN
                             IF n = 1 THEN {<<"request">>} ELSE {DispatchNode(preps[n - 1], "end")}
      [] node[1] = "sample" -> {DispatchNode(LogitsReady(node[2]), "end")}
      [] OTHER -> {<<"sample", node[2]>>}

\* entry_edges: what the application adds to nodes that already exist
EntryEdges(node) ==
    CASE node[1] = "dispatch" -> IF node[3] = "begin" /\ <<"prep", node[2]>> \in Preparations THEN {<<"prep", node[2]>>} ELSE {}
      [] node[1] = "enter" -> {<<"token", i>> : i \in {j \in 1 .. Len(samples) - 1 : data.ops[node[2]].graph = NextDecode(j)}}
      [] OTHER -> {}

(***************************************************************************)
(* The two adapters                                                        *)
(***************************************************************************)
Nodes ==
    (UNION {{Enter(op), Exit(op)} : op \in Operations}) \cup Rows \cup Barriers \cup ApplicationNodes
    \cup (IF mode = "PIPELINE" THEN PipelineNodes ELSE {})

Members(op) ==
    {r \in Rows : OperationOf(r) = op}
    \cup (IF mode = "PIPELINE" THEN {n \in PipelineNodes : data.parents[n[2]].op = op} ELSE {})

Before(w) == LET n == CHOOSE n \in DOMAIN data.order : data.order[n] = w IN
             IF n = 1 THEN {} ELSE {<<Npu(data.order[n - 1]), "ACCEPTED">>}

\* adapt_records: a publication drops its own work, a published work follows it
RecordEdges(row) ==
    LET base == Result(RowDependencies(row) \cup {Enter(OperationOf(row))}) IN
    CASE row[1] = "call" -> IF row[3] = "PUBLISH" THEN {d \in base : d[1] \notin {Npu(w) : w \in OwnWork(row[2])}} ELSE base
      [] row[1] = "npu" -> LET c == data.works[row[2]].call IN
            (IF Published(c) THEN {d \in base : d[1] /= CallNode(c, "INVOKE")} \cup Result({CallNode(c, "PUBLISH")}) ELSE base)
            \cup Before(row[2])
      [] OTHER -> base

\* adapt_stream: only the pipeline projection changes the dataset's edges
StreamEdges(row) ==
    Result(RowDependencies(row) \cup {Enter(OperationOf(row))}) \cup (IF row[1] = "npu" THEN Before(row[2]) ELSE {})

Dependencies(node, rowEdges) ==
    Result(EntryEdges(node)) \cup
    CASE node \in Rows -> PipelineEdges(node, rowEdges[node])
      [] node[1] = "enter" -> Result(Predecessors(node[2]) \cup {GraphNode(data.ops[node[2]].graph, "begin")})
      [] node[1] = "exit" -> Result(Members(node[2]))
      [] node[1] = "owner" -> PipelineEdges(node, Result({Enter(data.parents[node[2]].op)}))
      [] node \in Barriers -> Result(BarrierDependencies(node))
      [] OTHER -> Result(ApplicationDependencies(node))

(***************************************************************************)
(* Storing the graph and running it                                        *)
(***************************************************************************)
Timed(node) == node[1] \in {"cpu", "host", "npu", "prep", "sample"}

Ready(edges, node, acc, fin) ==
    \A d \in edges[node] : d[1] \in fin \/ (d[2] = "ACCEPTED" /\ d[1] \in acc)

\* ExecutionStore.validate: repeatedly take the nodes without open parents
Visited(edges) ==
    LET visit[fin \in SUBSET DOMAIN edges] ==
            LET ready == {n \in DOMAIN edges \ fin : \A d \in edges[n] : d[1] \in fin} IN
            IF ready = {} THEN fin ELSE visit[fin \cup ready]
    IN  visit[{}]

Validate(edges) ==
    /\ \A n \in DOMAIN edges : \A d \in edges[n] : d[1] \in DOMAIN edges
    /\ Visited(edges) = DOMAIN edges

GraphInit == LifecycleInit /\ data = << >> /\ store = "NONE" /\ graph = << >> /\ started = {} /\ done = {}

Observe(event) == event /\ UNCHANGED <<data, store, graph, started, done>>

Choose ==
    /\ Accepted /\ data = << >>
    /\ \E d \in Data[mode] : data' = d
    /\ UNCHANGED <<lifecycle, store, graph, started, done>>

\* Every operation enters with a graph of the manifest and exits with a row of
\* the dataset, and every row is of an operation.
OperationsCovered ==
    /\ \A op \in Operations : data.ops[op].graph \in Graphs
    /\ {OperationOf(row) : row \in Rows} = Operations

Adaptable ==
    /\ BuildLifecycle /\ OperationsCovered /\ ApplicationOK
    /\ mode = "PIPELINE" => ParsePipeline /\ BoundariesExact

StreamGraph == [n \in Nodes |-> Dependencies(n, [row \in Rows |-> StreamEdges(row)])]

AdaptStream ==
    /\ data /= << >> /\ store = "NONE"
    /\ IF Adaptable /\ Validate(StreamGraph)
       THEN store' = "STORED" /\ graph' = StreamGraph
       ELSE store' = "REFUSED" /\ graph' = graph
    /\ UNCHANGED <<lifecycle, data, started, done>>

\* Structural nodes take no time: those that are ready complete together,
\* before anything else moves.
Due == {n \in DOMAIN graph \ done : ~Timed(n) /\ Ready(graph, n, started, done)}

Settle ==
    /\ store = "STORED" /\ Due /= {}
    /\ done' = done \cup Due
    /\ UNCHANGED <<lifecycle, data, store, graph, started>>

Accept(node) ==
    /\ store = "STORED" /\ node \in DOMAIN graph /\ node[1] = "npu" /\ node \notin started
    /\ Due = {}
    /\ Ready(graph, node, started, done)
    /\ started' = started \cup {node}
    /\ UNCHANGED <<lifecycle, data, store, graph, done>>

Complete(node) ==
    /\ store = "STORED" /\ node \in DOMAIN graph /\ Timed(node) /\ node \notin done
    /\ Due = {}
    /\ IF node[1] = "npu" THEN node \in started ELSE Ready(graph, node, started, done)
    /\ done' = done \cup {node}
    /\ UNCHANGED <<lifecycle, data, store, graph, started>>

GraphNext ==
    \/ Observe(Event)
    \/ Choose
    \/ AdaptStream
    \/ Settle
    \/ \E node \in DOMAIN graph : Accept(node) \/ Complete(node)

GraphSpec == GraphInit /\ [][GraphNext]_graphVars

(***************************************************************************)
(* Properties                                                              *)
(***************************************************************************)
\* The streamed adapter builds the graph the in-memory adapter builds: the
\* edges that adapt_records rewrites for publications are exactly those the
\* pipeline projection rewrites for both.  No other node takes row edges.
AdaptersAgree ==
    store /= "NONE" /\ Adaptable =>
        \A n \in Rows : Dependencies(n, [row \in Rows |-> StreamEdges(row)]) = Dependencies(n, [row \in Rows |-> RecordEdges(row)])

Held(p, s, resource) ==
    Owner(p, s, resource, "ACQUIRE", 0) \in done /\ Owner(p, s, resource, "RELEASE", 0) \notin done

\* Whatever the services take: at most two stripes of a parent are
\* outstanding, a workspace slot has one stripe, a stripe is invoked only
\* after every earlier one was dequeued, a work is submitted only once
\* published, and the fence is passed only when all works are complete.
StripesBounded ==
    store = "STORED" /\ mode = "PIPELINE" => \A p \in DOMAIN data.parents :
        /\ Cardinality({s \in Stripes(p) : Held(p, s, "FRONTEND_OUTSTANDING")}) <= 2
        /\ \A s, t \in Stripes(p) :
             /\ s < t /\ Held(p, s, "EXSIA_WORKSPACE") /\ Held(p, t, "EXSIA_WORKSPACE")
                  => data.parents[p].stripes[s].slot /= data.parents[p].stripes[t].slot
             /\ s < t /\ CallNode(data.works[StripeWork(p, t)].call, "INVOKE") \in done
                  => Owner(p, s, "FRONTEND_QUEUE", "DEQUEUE", 0) \in done
        /\ \A s \in Stripes(p) : Npu(StripeWork(p, s)) \in started
              => CallNode(data.works[StripeWork(p, s)].call, "PUBLISH") \in done
        /\ CallNode(data.parents[p].fence, "COMPLETE_REQUIRED") \in done
              => \A s \in Stripes(p) : ReleaseWorks(p, s) \subseteq {w \in DOMAIN data.works : Npu(w) \in done}

\* No graph from the first to the last is without operations.
Occupied(first, last) == \A g \in first .. last : OperationsIn(g) /= {}

\* Graphs run one after the other in the order of the manifest, and a decode
\* graph starts only when the token of the phase before it exists, as long as
\* no graph in between is empty: the end of an empty graph waits for nothing.
GraphsSerial ==
    store = "STORED" => \A op \in Operations : Enter(op) \in done =>
        /\ \A other \in Operations :
             data.ops[other].graph < data.ops[op].graph /\ Occupied(data.ops[other].graph, data.ops[op].graph)
               => Exit(other) \in done
        /\ \A i \in 1 .. Len(samples) - 1 :
             NextDecode(i) <= data.ops[op].graph /\ Occupied(NextDecode(i), data.ops[op].graph) => <<"token", i>> \in done

\* The causal graph bounds what may run together: the stripes of a parent
\* and their slots, the graphs of the manifest and the tokens between them.
GraphSafe == StripesBounded /\ GraphsSerial
=============================================================================
