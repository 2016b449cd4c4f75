---------------------------- MODULE ExecutionIR ----------------------------
(***************************************************************************)
(* The execution graph that every scheduler of sim/cycle consumes          *)
(* (execution_ir.py) and the schedule entry it produces (ScheduledNode of  *)
(* scheduler.py).                                                          *)
(*                                                                         *)
(* Time is exact in the program (Fraction nanoseconds).  Only sums, maxima *)
(* and alignment to the NPU clock are ever taken, so the model uses the    *)
(* integer multiples of a common grid on which one NPU clock is Cycle      *)
(* points long.                                                            *)
(***************************************************************************)
EXTENDS Integers, FiniteSets, FiniteSetsExt

CONSTANTS Node,         \* node identities; their order is the string order
          Resource,     \* resource names
          NpuResource,  \* 'npu:0'
          Cycle         \* grid points per NPU clock

ASSUME IRAssumption ==
  /\ Node \subseteq Nat /\ Node # {} /\ IsFiniteSet(Node)
  /\ IsFiniteSet(Resource)
  /\ NpuResource \in Resource
  /\ Cycle \in Nat \ {0}

(* OP_ENTER, OP_EXIT, BARRIER, PUBLISH, FUNCTIONAL_EMULATION, WAIT and     *)
(* EXCLUDED take one branch of every function of the schedulers, and CPU   *)
(* and APPLICATION_CPU another.                                            *)
Kind == {"CPU", "NPU", "STRUCTURAL"}

(* Milestone: the three instants a dependency can wait for. *)
Milestone == {"ACCEPTED", "RESULT_READY", "RESOURCE_READY"}

Dependency == [node : Node, milestone : Milestone]

Graph == [kind      : [Node -> Kind],
          order     : [Node -> Nat],
          deps      : [Node -> SUBSET Dependency],
          resources : [Node -> SUBSET Resource]]

Parents(g, n) == {e.node : e \in g.deps[n]}

(* graphlib.TopologicalSorter succeeds: the nodes can be numbered so that  *)
(* every dependency has a smaller number.                                  *)
Acyclic(g) ==
  \E rank \in [Node -> 1..Cardinality(Node)] :
     \A n \in Node : \A p \in Parents(g, n) : rank[p] < rank[n]

(* The node checks of ExecutionIR.__post_init__ that the schema types do   *)
(* not already give.                                                       *)
OwnershipOK(g) ==
  \A n \in Node :
     /\ g.kind[n] \in {"CPU", "NPU"} <=> g.resources[n] # {}
     /\ g.kind[n] = "NPU" => NpuResource \in g.resources[n]

(* What scheduler_sqlite.py requires: it runs no cycle check of its own. *)
WellFormed(g) == g \in Graph /\ OwnershipOK(g)

(* What constructing an ExecutionIR requires. *)
ValidIR(g) == WellFormed(g) /\ Acyclic(g)

(* The sort key (order, identity) of both schedulers. *)
Precedes(g, m, n) ==
  \/ g.order[m] < g.order[n]
  \/ g.order[m] = g.order[n] /\ m < n

----------------------------------------------------------------------------
(* No request_available_ns is recorded for a stateless NPU provider. *)
NoRequest == -1

(* ScheduledNode.  "start" is the instant execute was called, "until" the  *)
(* instant each of the resources the node holds is free again.             *)
Entry(held) == [request  : Nat \cup {NoRequest},
                start    : Nat,
                accepted : Nat,
                result   : Nat,
                resource : Nat,
                until    : [held -> Nat]]

(* ScheduledNode.milestone *)
At(entry, milestone) ==
  CASE milestone = "ACCEPTED"       -> entry.accepted
    [] milestone = "RESULT_READY"   -> entry.result
    [] milestone = "RESOURCE_READY" -> entry.resource

(* Fault: every dependency is taken to fire when its node is accepted. *)
ReadyWhenAccepted(g, schedule, n) ==
  Max({0} \cup {schedule[e.node].accepted : e \in g.deps[n]})

(* When the dependencies of n have fired; defined once every parent has an *)
(* entry.                                                                  *)
Ready(g, schedule, n) ==
  Max({0} \cup {At(schedule[e.node], e.milestone) : e \in g.deps[n]})

(* Fault: the clock edge before instead of the one after. *)
AlignDown(t) == (t \div Cycle) * Cycle

(* ceil(ready / cycle_ns) * cycle_ns *)
AlignUp(t) == ((t + Cycle - 1) \div Cycle) * Cycle

Edge(t) == t % Cycle = 0
============================================================================
