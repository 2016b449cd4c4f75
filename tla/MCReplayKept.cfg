SPECIFICATION MCSpec
CONSTANTS
    None = None
    Processes = {p1, p2}
    p1 = p1
    p2 = p2
    Pooled = {p1}
    Cached = {p1, p2}
    Traces <- MCTraces
    Document <- MCDocument
    Estimate <- MCEstimate
    Rejected = {3}
    Capacity = 1
    MaxCrashes = 1
    NoOutput = NoOutput
    Runs = {r1, r2}
    Inputs = 2
    Contents = {1, 2}
    MaxInputEdits = 3
    MaxRunCrashes = 1
    r1 = r1
    r2 = r2
    Unset = Unset
    TraceWorks <- MCTraceWorks
    ThroughParent = 1
    PilotCount = 2
    Windows <- MCWindows
    TagPeaks = {1, 2, 3}
    TagLimit = 2
    MaxEdits = 2
    MaxCancels = 1
CHECK_DEADLOCK FALSE
INVARIANT AnswersKept
