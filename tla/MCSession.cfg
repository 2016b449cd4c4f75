SPECIFICATION MCSpec
CONSTANTS
  Work = {1, 2}
  Frames <- MCFrames
  Stores <- MCStores
  Recorded = {1}
  ReleaseRows = 1
  Bursts = {0, 2}
  EventCapacity = 1
  MaxWorkCycles = 8
  MaxSessionCycles = 12
  MaxWorkIds = 2
  MaxGeneration = 1
  MaxAhead = 1
  MaxSteps = 1
  Producers = {"p1", "p2"}
  Fencers = {"f1", "f2"}
  Stripes = 3
  ProducerSlots = 2
  RawDepth = 1
  StallLimit = 1
  NoStripe = NoStripe
INVARIANTS NoWorkLost ReportsExact  FenceHonest
PROPERTIES AdvanceReturns CallersReturn
