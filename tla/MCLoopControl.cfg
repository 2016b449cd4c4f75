SPECIFICATION MCSpec
CONSTANTS
  Commands <- MCCommands
  Entries <- MCEntries
  UnrolledQueue = 1
  Schedules <- MCSchedules
  RawQueue = 1
  LoopQueue = 1
  RowsToRelease = 1
INVARIANTS HazardsOrdered LoopSafe
PROPERTIES WorksRetire
