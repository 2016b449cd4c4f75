SPECIFICATION Spec
CONSTANTS
  Node <- MCNode
  Resource <- MCResource
  NpuResource = "npu:0"
  Cycle = 2
  MaxCpuTime = 2
  MaxNpuCycles = 2
  Graphs <- MCSqliteGraphs
  Providers <- MCProviders
  Kinds = {"phase_table", "cycle", "stateful", "back_to_back", "certified"}
  Cyclic = TRUE
  GroupLimit = 3
  ResultBatch = 2
  CheckEvery = 2
  EventCapacity = 3
INVARIANTS Bookkeeping RequestTimeExact
PROPERTIES ImplementsPolicy Termination
