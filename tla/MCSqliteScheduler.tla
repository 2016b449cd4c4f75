------------------------- MODULE MCSqliteScheduler -------------------------
(* SqliteScheduler on the graphs and providers of ScheduleInstances, and   *)
(* on graphs its input check does not reject: two milestones of one parent *)
(* and causal cycles.                                                      *)
EXTENDS SqliteScheduler, ScheduleInstances

CONSTANT Cyclic   \* whether this instance has the graphs with a cycle

DoubleEdge ==
  {GraphOf(shape, order, <<{}, On(1, "ACCEPTED") \cup On(1, "RESOURCE_READY"), On(2, l)>>) :
     shape \in Shapes, order \in Orders, l \in {"NONE", "RESULT_READY"}}

CyclicGraphs ==
  {GraphOf(shape, order, <<On(3, a), On(1, "RESULT_READY"), On(2, b)>>) :
     shape \in Shapes, order \in Orders,
     a \in {"NONE", "RESULT_READY"}, b \in {"NONE", "ACCEPTED"}}
  \cup
  {GraphOf(shape, order, <<{}, On(1, "ACCEPTED") \cup On(3, "RESULT_READY"), On(2, "ACCEPTED")>>) :
     shape \in Shapes, order \in Orders}

MCSqliteGraphs == MCGraphs \cup DoubleEdge \cup (IF Cyclic THEN CyclicGraphs ELSE {})
============================================================================
