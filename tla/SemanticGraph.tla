--------------------------- MODULE SemanticGraph ---------------------------
(***************************************************************************)
(* The semantic graph manifest (reconstruct_graph.py): read_manifest       *)
(* accepts one record after the other, compare_manifests lines up the      *)
(* manifest of the FULL_CPU run with that of the POTAL collection, read in *)
(* this order.  What is described of a tensor (names, types, shapes,       *)
(* parameters) is one payload per node.                                    *)
(***************************************************************************)
EXTENDS Integers, Sequences, FiniteSets

CONSTANTS
    Shapes,                 \* graphs a GRAPH record may describe: sequences of nodes
    InputTokens,            \* inputs a phase may declare
    MaxSemanticPhases, MaxGraphs

Roles == {"FULL_CPU", "POTAL_COLLECTION"}
NodeClasses == {"ORDINARY_CPU", "TARGET_NPU", "EXCLUDED"}

VARIABLES
    run,         \* role -> the RUN record was read
    inputs,      \* role -> input of each phase
    graphs,      \* role -> phase, occurrence and nodes of each graph
    executions,  \* role -> class of each executed node <<graph, ordinal>>
    closed,       \* role -> RUN_END was accepted
    joined       \* outcome of compare_manifests

semanticVars == <<run, inputs, graphs, executions, closed, joined>>

SemanticInit ==
    /\ run = [r \in Roles |-> FALSE] /\ closed = [r \in Roles |-> FALSE] /\ joined = "NONE"
    /\ inputs = [r \in Roles |-> << >>] /\ graphs = [r \in Roles |-> << >>]
    /\ executions = [r \in Roles |-> << >>]

NodesOf(r) == UNION {{<<g, n>> : n \in DOMAIN graphs[r][g].nodes} : g \in DOMAIN graphs[r]}
Open(r) == run[r] /\ ~closed[r]
Executed(r) == DOMAIN executions[r] = NodesOf(r)

\* The manifest of the FULL_CPU run is read to its end first.
SemanticRun(r) ==
    /\ ~run[r]
    /\ r = "POTAL_COLLECTION" => closed["FULL_CPU"]
    /\ run' = [run EXCEPT ![r] = TRUE]
    /\ UNCHANGED <<inputs, graphs, executions, closed, joined>>

SemanticPhase(r, input) ==
    /\ Open(r) /\ Executed(r) /\ Len(inputs[r]) < MaxSemanticPhases
    /\ inputs' = [inputs EXCEPT ![r] = Append(@, input)]
    /\ UNCHANGED <<run, graphs, executions, closed, joined>>

\* A topological order exists (the graphlib sort at the end of read_manifest):
\* there is no cycle, so every set of nodes has one that takes nothing from it.
Sorted(nodes) ==
    \A some \in (SUBSET DOMAIN nodes) \ {{}} : \E n \in some : nodes[n].inputs \cap some = {}

Graph(r, nodes) ==
    LET phase == Len(inputs[r])
        same == {g \in DOMAIN graphs[r] : graphs[r][g].phase = phase}
    IN
    /\ Open(r) /\ phase > 0 /\ Executed(r) /\ Len(graphs[r]) < MaxGraphs
    /\ \A n \in DOMAIN nodes : nodes[n].inputs \subseteq DOMAIN nodes
    /\ graphs' = [graphs EXCEPT ![r] = Append(@, [phase |-> phase, occurrence |-> Cardinality(same), nodes |-> nodes])]
    /\ UNCHANGED <<run, inputs, executions, closed, joined>>

Executes(r, key, class) ==
    /\ key \in NodesOf(r) /\ key \notin DOMAIN executions[r]
    /\ (class = "EXCLUDED") = graphs[r][key[1]].nodes[key[2]].excluded
    /\ r = "FULL_CPU" => class /= "TARGET_NPU"

NodeExecution(r, key, class) ==
    /\ Open(r)
    /\ Executes(r, key, class)
    /\ executions' = [executions EXCEPT ![r] = [k \in DOMAIN @ \cup {key} |-> IF k = key THEN class ELSE @[k]]]
    /\ UNCHANGED <<run, inputs, graphs, closed, joined>>

SemanticEnd(r) ==
    /\ Open(r) /\ inputs[r] /= << >> /\ Executed(r)
    /\ \A g \in DOMAIN graphs[r] : Sorted(graphs[r][g].nodes)
    /\ closed' = [closed EXCEPT ![r] = TRUE]
    /\ UNCHANGED <<run, inputs, graphs, executions, joined>>

\* The prompt must agree; the tokens decoded may differ.
PhasesAgree ==
    /\ Len(inputs["FULL_CPU"]) = Len(inputs["POTAL_COLLECTION"])
    /\ inputs["FULL_CPU"][1] = inputs["POTAL_COLLECTION"][1]

\* Fault: only the number of graphs is compared.
GraphCountsAgree == Len(graphs["FULL_CPU"]) = Len(graphs["POTAL_COLLECTION"])

GraphsAgree == graphs["FULL_CPU"] = graphs["POTAL_COLLECTION"]

Compare ==
    /\ joined = "NONE" /\ \A r \in Roles : closed[r]
    /\ joined' = IF PhasesAgree /\ GraphsAgree THEN "JOINED" ELSE "REFUSED"
    /\ UNCHANGED <<run, inputs, graphs, executions, closed>>

SemanticNext ==
    \/ \E r \in Roles :
        \/ SemanticRun(r) \/ SemanticEnd(r)
        \/ \E input \in InputTokens : SemanticPhase(r, input)
        \/ \E nodes \in Shapes : Graph(r, nodes)
        \/ \E key \in NodesOf(r), class \in NodeClasses : NodeExecution(r, key, class)
    \/ Compare

SemanticSpec == SemanticInit /\ [][SemanticNext]_semanticVars

\* A joined pair describes one workload: the FULL_CPU run executed, on the
\* CPU, exactly the nodes the collection executed, so that every ordinary
\* node of the collection has one node to take its cost from.
OneWorkload ==
    joined = "JOINED" =>
        /\ DOMAIN executions["FULL_CPU"] = DOMAIN executions["POTAL_COLLECTION"]
        /\ \A key \in DOMAIN executions["POTAL_COLLECTION"] :
             /\ executions["FULL_CPU"][key] /= "TARGET_NPU"
             /\ executions["POTAL_COLLECTION"][key] = "ORDINARY_CPU" => executions["FULL_CPU"][key] = "ORDINARY_CPU"
=============================================================================
