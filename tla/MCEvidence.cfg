SPECIFICATION MCSpec
CONSTANTS
  Kinds <- CertificateKinds
  Editable = {"validators", "fresh", "input"}
  MaxEdits = 2
  MaxOps = 3
  None = None
  Modes <- AllModes
  WorkIds <- ThreeWorks
  Ports <- GappedPorts
  Durations = {1, 2}
  TagLimit = 1
  MaxFaults = 2
  Historical = 3
  Residual = {2}
  LargeK = {32}
  Framings = {"planner-blocks"}
  Packages <- PackageSet
  MaxRows = 3
INVARIANTS   StreamIsOneSession MeasuredAsReviewed
CHECK_DEADLOCK FALSE
