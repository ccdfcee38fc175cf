SPECIFICATION Spec
CONSTANTS
    Cpus = {c, d}
    Tasks = {x, y}
    NoTask = none
    Cap = 1
    Sleepers = {}
    Parents = {}
    Signals = {}
    GhostPolicy = FALSE
PROPERTY ResumesWhereItStopped
CHECK_DEADLOCK FALSE
