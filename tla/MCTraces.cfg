SPECIFICATION MCSpec
CONSTANTS
    None = None
    OperationIds = {0, 1}
    Parents = {0}
    Kinds = {"STRIPE", "FENCE", "RESIDUAL_COMPACT"}
    MaxRows = 2
    MaxWorks = 2
    MaxCalls = 2
    MaxHosts = 1
    MaxPhases = 2
    Absent = Absent
    Class <- MCClass
    Candidates <- MCCandidates
    GraphPhase <- MCGraphPhase
    Inputs <- MCInputs
    Forced <- MCForced
    Data <- MCData
    Tokens = {0, 1}
    Expected = 2
    Targets = {"a"}
    MaxOwners = 1
    Modes = {"FULL", "PIPELINE", "FORCED"}
    Shapes <- MCShapes
    InputTokens = {0, 1}
    MaxSemanticPhases = 2
    MaxGraphs = 2
CHECK_DEADLOCK FALSE
INVARIANTS TraceClosed  LifecycleSound AdaptersAgree GraphSafe OneWorkload
