SPECIFICATION MCSpec
CONSTANTS
    None = None
    Processes = {p, q}
    p = p
    q = q
    MaxEdits = 1
    MaxTampers = 1
    MaxKills = 1
    MaxEnsures = 2
    Stages = {"plan", "rtl", "test", "host-test", "synth", "export"}
    Roots = {"main", "other"}
    DefaultRoot = "main"
    MaxSourceEdits = 1
    MaxFaults = 1
    MaxRuns = 3
    Missing = Missing
SYMMETRY ProcessSymmetry
INVARIANTS SelectedCoherent EnsureSelects  PackageTested
CHECK_DEADLOCK FALSE
