CONSTANTS
  c1 = c1
  c2 = c2
  f1 = f1
  f2 = f2
  s1 = s1
  s2 = s2
  Cpus <- MCCpus
  Frames <- MCFrames
  Spaces <- Pair
  Zero = Zero
  None = None
  Kinds = {"Anonymous", "Image", "File"}
  Slots <- OneSlot
  cache_slot <- Collide
  REVIEW_QUEUE_SIZE = 2
  MaxLive <- Live
  MaxForks <- Forks
  MaxEpoch <- Epochs
  MaxRefs = 2
  Pages <- MCPages
  Attrs = {rw, ro}
  NoArea = NoArea
  Lookups = {fault}
  MaxChanges = 3
SPECIFICATION MCSpec
SYMMETRY Symmetric
INVARIANTS FreeFramesUnused   LookupsAnswer
