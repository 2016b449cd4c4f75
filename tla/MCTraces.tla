------------------------------ MODULE MCTraces ------------------------------
(***************************************************************************)
(* The readers of collected traces, each explored on its own: an instance  *)
(* chooses the reader that moves, and the others keep their initial state. *)
(*                                                                         *)
(* NpuTrace: two operations, a parent of at most two rows, two works.      *)
(* Reconstruct: a node on the CPU with one or two workers and a node on    *)
(* the NPU with two works and two host stages, over well-formed inputs and *)
(* inputs where one or two files differ from what the others say.          *)
(* ExecutionGraph: a prefill of two graphs, the first with an NPU          *)
(* operation, and a decode.  In PIPELINE mode the operation has three      *)
(* stripes on two workspace slots and the first stripe has a residual work *)
(* and a merge call; a FORCED run ends with its lifecycle.                 *)
(* SemanticGraph: two phases, one of them possibly empty, two graphs of    *)
(* one or two nodes, one of them cyclic.                                   *)
(***************************************************************************)
EXTENDS NpuTrace, Reconstruct, ExecutionGraph, SemanticGraph

VARIABLE reader

MCClass == [a |-> "ORDINARY_CPU", b |-> "TARGET_NPU"]
Interval == [kind |-> "INTERVAL", node |-> "a", duty |-> "ORDINARY_CPU_REFERENCE", canonical |-> TRUE, worker |-> 0,
             workers |-> 1, host |-> Absent, thread |-> 0, start |-> 0, end |-> 1, valid |-> TRUE]
Worker(w, n) == [Interval EXCEPT !.worker = w, !.workers = n]
Telemetry == [Interval EXCEPT !.kind = "TELEMETRY"]
Replaced == [Interval EXCEPT !.node = "b", !.canonical = FALSE]
Host(h, t, s, e) == [Interval EXCEPT !.node = "b", !.duty = "POTAL_HOST", !.host = h, !.thread = t, !.start = s, !.end = e]
FullLogs == {<<Worker(0, 1)>>, <<Worker(1, 2), Telemetry, Worker(0, 2)>>, <<Worker(0, 2)>>, <<Worker(0, 1), Worker(0, 1)>>,
             <<Worker(0, 2), Worker(1, 2), Replaced>>, <<Worker(0, 2), Worker(1, 1)>>, << >>, <<[Worker(0, 1) EXCEPT !.valid = FALSE]>>}
PotalLogs == {<<Host(0, 0, 0, 2), Host(1, 0, 2, 3)>>, <<Host(1, 0, 1, 1), Host(0, 0, 0, 2)>>, <<Host(0, 0, 0, 2), Host(1, 1, 1, 3)>>,
              <<Host(0, 0, 0, 2), Host(1, 0, 1, 3)>>, <<Host(0, 0, 0, 2)>>, <<Host(0, 0, 0, 2), Host(0, 0, 3, 4)>>,
              <<[Host(0, 0, 0, 2) EXCEPT !.duty = "OBSERVATION_ONLY"], Host(1, 0, 1, 3)>>,
              <<[Host(0, 0, 0, 2) EXCEPT !.node = "a"], Host(1, 0, 3, 3)>>}
HostEvent(h, class) == [kind |-> "HOST", id |-> h, node |-> "b", class |-> class, binding |-> 0]
NpuEvent(w, b) == [kind |-> "WORK", id |-> w, node |-> "b", class |-> "TARGET_NPU", binding |-> b]
MCTraces == {<<HostEvent(0, "POTAL_HOST"), NpuEvent(1, 7), NpuEvent(2, 8), HostEvent(1, "POTAL_HOST")>>,
             <<HostEvent(0, "FUNCTIONAL_EMULATION"), NpuEvent(1, 7), HostEvent(1, "POTAL_HOST")>>,
             <<NpuEvent(1, 7), HostEvent(0, "POTAL_HOST")>>, <<HostEvent(0, "POTAL_HOST"), HostEvent(1, "POTAL_HOST")>>}
Modelled(w, b, lib) == [work |-> w, binding |-> b, authority |-> lib]
MCResults == {<<Modelled(1, 7, "new"), Modelled(2, 8, "new")>>, <<Modelled(2, 8, "new"), Modelled(1, 7, "new")>>,
              <<Modelled(1, 7, "new")>>, <<Modelled(1, 7, "old")>>, << >>}
Proof(role, file, trace, kind, sampled, paired) ==
    [role |-> role, success |-> TRUE, log |-> file, trace |-> trace, model |-> "m", kernel |-> "k", tokens |-> <<1, 2>>,
     kind |-> kind, samplerCalls |-> sampled, paired |-> paired]
Input(full, signed, potal, trace, results, proof) ==
    [FULL_CPU |-> [log |-> full, proof |-> proof],
     POTAL_COLLECTION |-> [log |-> potal, proof |-> Proof("POTAL_COLLECTION", signed, trace, "FREE", 2, << >>)],
     trace |-> trace, results |-> results, authority |-> "new"]
MCCandidates ==
    {Input(full, potal, potal, trace, results, Proof("FULL_CPU", full, Absent, "FREE", 2, << >>)) :
        full \in FullLogs, potal \in PotalLogs, trace \in MCTraces, results \in MCResults}
    \cup {Input(full, signed, potal, trace, results, Proof("FULL_CPU", full, Absent, "FORCED", sampled, <<1, 2>>)) :
        full \in {<<Worker(0, 1)>>}, signed, potal \in PotalLogs, trace \in MCTraces, results \in MCResults, sampled \in {0, 2}}

SomeInput == CHOOSE c \in MCCandidates : TRUE

MCGraphPhase == <<1, 1, 2>>
MCInputs == <<0, 1>>
MCForced == <<1, 0>>

Ops == [a |-> [graph |-> 1, class |-> "npu", preds |-> {}],
        b |-> [graph |-> 1, class |-> "excluded", preds |-> {"a"}],
        c |-> [graph |-> 2, class |-> "cpu", preds |-> {}],
        d |-> [graph |-> 3, class |-> "cpu", preds |-> {}]]
Stripe(w) == [op |-> "a", kind |-> "STRIPE", required |-> {w},
    stages |-> <<"PREPARE", "INVOKE", "PUBLISH", "COMPLETE_REQUIRED", "CONTINUATION">>]
Calls == <<Stripe(1), Stripe(2), Stripe(3),
    [op |-> "a", kind |-> "RESIDUAL_COMPACT", stages |-> <<"PREPARE", "INVOKE", "COMPLETE_REQUIRED", "CONTINUATION">>, required |-> {4}],
    [op |-> "a", kind |-> "RESIDUAL_MERGE", stages |-> <<"PREPARE", "INVOKE", "CONTINUATION">>, required |-> {}],
    [op |-> "a", kind |-> "FENCE", stages |-> <<"PREPARE", "INVOKE", "COMPLETE_REQUIRED", "FENCE", "CONTINUATION">>, required |-> {1, 2, 3, 4}]>>
Jobs == [w \in 1 .. 4 |-> [op |-> "a", call |-> w, hosts |-> IF w = 4 THEN {1} ELSE {}]]
Hosts == <<[op |-> "a", works |-> {1}, hosts |-> {}]>>
Plain(w, slot) == [work |-> w, slot |-> slot, residual |-> {}, callback |-> FALSE, merges |-> {}]
First == [work |-> 1, slot |-> 0, residual |-> {4}, callback |-> TRUE, merges |-> {5}]
Parent(stripes) == <<[op |-> "a", works |-> 1 .. 4, fence |-> 6, stripes |-> stripes]>>
Piped(order, stripes) == [ops |-> Ops, calls |-> Calls, works |-> Jobs, hosts |-> Hosts, order |-> order, parents |-> Parent(stripes)]

\* The residual of the first stripe submitted before or after the third
\* stripe, and one whose residual no stripe claims.
Pipelines == {Piped(<<1, 2, 4, 3>>, <<First, Plain(2, 1), Plain(3, 0)>>),
              Piped(<<1, 2, 3, 4>>, <<First, Plain(2, 1), Plain(3, 0)>>),
              Piped(<<1, 4, 2, 3>>, <<First, Plain(2, 0), Plain(3, 1)>>),
              Piped(<<1, 2, 4, 3>>, <<Plain(1, 0), Plain(2, 1), Plain(3, 0)>>)}
Full == [ops |-> Ops, hosts |-> Hosts, order |-> <<1>>, parents |-> << >>,
    calls |-> <<[op |-> "a", kind |-> "FULL", stages |-> <<"PREPARE", "INVOKE", "COMPLETE_REQUIRED", "CONTINUATION">>, required |-> {1}]>>,
    works |-> <<[op |-> "a", call |-> 1, hosts |-> {}]>>]
MCData == [m \in {"FULL", "PIPELINE", "FORCED"} |->
    CASE m = "FULL" -> {Full, [Full EXCEPT !.ops = [op \in {"a", "b", "d"} |-> Ops[op]]]} [] m = "PIPELINE" -> Pipelines [] m = "FORCED" -> {}]

Node(payload, from, excluded) == [payload |-> payload, inputs |-> from, excluded |-> excluded]
MCShapes == {<<Node("mul", {}, FALSE)>>, <<Node("mul", {2}, FALSE), Node("view", {}, TRUE)>>,
             <<Node("mul", {2}, FALSE), Node("add", {1}, FALSE)>>}

MCInit ==
    /\ reader \in {"npu_trace", "reconstruct", "execution_graph", "semantic_graph"}
    /\ TraceInit /\ ReconstructInit /\ GraphInit /\ SemanticInit
    /\ reader /= "reconstruct" => in = SomeInput

MCNext ==
    /\ \/ reader = "npu_trace" /\ TraceNext /\ UNCHANGED <<reconstructVars, graphVars, semanticVars>>
       \/ reader = "reconstruct" /\ ReconstructNext /\ UNCHANGED <<traceVars, graphVars, semanticVars>>
       \/ reader = "execution_graph" /\ GraphNext /\ UNCHANGED <<traceVars, reconstructVars, semanticVars>>
       \/ reader = "semantic_graph" /\ SemanticNext /\ UNCHANGED <<traceVars, reconstructVars, graphVars>>
    /\ UNCHANGED reader

MCSpec == MCInit /\ [][MCNext]_<<traceVars, reconstructVars, graphVars, semanticVars, reader>>
=============================================================================
