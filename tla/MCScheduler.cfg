SPECIFICATION Spec
CONSTANTS
  Node <- MCNode
  Resource <- MCResource
  NpuResource = "npu:0"
  Cycle = 2
  MaxCpuTime = 2
  MaxNpuCycles = 2
  Graphs <- MCGraphs
  Providers <- MCProviders
  Kinds = {"phase_table", "cycle", "stateful", "back_to_back", "certified"}
INVARIANTS NoSelfInflictedRefusal TraceInOrder
PROPERTIES ImplementsPolicy Termination
