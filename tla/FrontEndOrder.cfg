SPECIFICATION FrontSpec
CONSTANTS
  Producers = {"p1", "p2"}
  Fencers = {"f1", "f2"}
  Stripes = 3
  ProducerSlots = 2
  RawDepth = 1
  StallLimit = 1
  NoStripe = NoStripe
INVARIANTS AcceptedInOrder
