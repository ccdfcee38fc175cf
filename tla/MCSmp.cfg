CONSTANTS
  Cpus = {c, d}
  Tasks = {x, y}
  NoTask = none
  Cap = 1
  Sleepers = {x, y}
  Parents = {x, y}
  Signals = {}
  GhostPolicy = TRUE
  DqCpus = {o, p, q}
  Owner = o
  Pushers = {o}
  DqTasks = {i, j, k}
  DqNone = DqNone
  Size = 2
  MaxIndex = 5
SPECIFICATION MCSpec
SYMMETRY Perms
INVARIANTS TypeOK  ListsMatchStates OneOwner NoTaskLost
PROPERTY ImplementsDeque
CHECK_DEADLOCK FALSE
