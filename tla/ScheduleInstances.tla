------------------------- MODULE ScheduleInstances -------------------------
(* The graphs and providers on which both schedulers are model-checked:    *)
(* three nodes, the NPU and two CPU resources.                             *)
EXTENDS ServiceExecutor

CONSTANT Kinds   \* the kinds of provider of this instance

MCNode == 1..3
MCResource == {"npu:0", "cpu:0", "cpu:1"}

(* Two NPU works with a CPU node between them, a gang over both CPUs, a    *)
(* structural node before a CPU node that holds the NPU, and an NPU work   *)
(* that holds a CPU.                                                       *)
Shapes == {
  <<<<"NPU", {"npu:0"}>>, <<"CPU", {"cpu:0"}>>, <<"NPU", {"npu:0"}>>>>,
  <<<<"CPU", {"cpu:0", "cpu:1"}>>, <<"CPU", {"cpu:0"}>>, <<"NPU", {"npu:0", "cpu:1"}>>>>,
  <<<<"NPU", {"npu:0"}>>, <<"STRUCTURAL", {}>>, <<"CPU", {"npu:0", "cpu:0"}>>>>,
  <<<<"CPU", {"cpu:0"}>>, <<"NPU", {"npu:0", "cpu:0"}>>, <<"NPU", {"npu:0"}>>>> }

(* Submission order equal for all, or against the identities. *)
Orders == {<<0, 0, 0>>, <<2, 1, 0>>}

(* The milestones node 2 awaits of 1, node 3 of 1, and node 3 of 2. *)
Labels == {"NONE", "RESULT_READY"} \X {"NONE", "ACCEPTED"}
            \X {"NONE", "RESULT_READY", "RESOURCE_READY"}

On(p, label) == IF label = "NONE" THEN {} ELSE {[node |-> p, milestone |-> label]}

GraphOf(shape, order, deps) ==
  [kind      |-> [n \in MCNode |-> shape[n][1]],
   order     |-> order,
   resources |-> [n \in MCNode |-> shape[n][2]],
   deps      |-> deps]

MCGraphs ==
  {GraphOf(shape, order, <<{}, On(1, l[1]), On(1, l[2]) \cup On(2, l[3])>>) :
     shape \in Shapes, order \in Orders, l \in Labels}

(* A stateful provider is bound to any order of the NPU works; certified   *)
(* offers are back-to-back or spaced.                                      *)
MCProviders(g) ==
  LET npu == NpuNodes(g)
      traces == {s \in [1..Cardinality(npu) -> npu] :
                   \A i, j \in DOMAIN s : s[i] = s[j] => i = j}
      spaced(step) == [i \in 1..Cardinality(npu) |-> step * (i - 1)]
      anyTrace == CHOOSE s \in traces : TRUE
  IN  {[kind |-> k, trace |-> anyTrace, offers |-> spaced(1)] :
         k \in Kinds \cap {"phase_table", "cycle"}}
      \cup {[kind |-> k, trace |-> s, offers |-> spaced(1)] :
         k \in Kinds \cap {"stateful", "back_to_back"}, s \in traces}
      \cup {[kind |-> k, trace |-> s, offers |-> spaced(step)] :
         k \in Kinds \cap {"certified"}, s \in traces, step \in {1, 2}}
============================================================================
