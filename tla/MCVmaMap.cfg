CONSTANTS
  Pages <- MCPages
  Attrs = {rw, ro}
  NoArea = NoArea
  Lookups = {fault}
  MaxChanges = 3
SPECIFICATION VmaSpec
INVARIANT LocksAllOverlapping
