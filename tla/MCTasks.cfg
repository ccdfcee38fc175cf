CONSTANTS
  Cpus = {c}
  Tasks = {x, y, z}
  NoTask = none
  Cap = 1
  Sleepers = {}
  Parents = {x}
  Signals = {"kill", "stop", "cont"}
  GhostPolicy = TRUE
  cpu_count = 2
  Writers = {w1, w2}
  NoWriter = NoWriter
  MaxSwaps = 3
SPECIFICATION MCSpec
INVARIANTS ListsMatchStates RunsItsCurrent NoReaderOfFreed
PROPERTIES ResumesWhereItStopped WorkConserving ReclaimEnds
CHECK_DEADLOCK FALSE
