SPECIFICATION Spec
CONSTANTS
  c1 = c1
  c2 = c2
  f1 = f1
  f2 = f2
  s1 = s1
  s2 = s2
  s3 = s3
  Cpus <- MCCpus
  Frames <- MCFrames
  Spaces <- Family
  Zero = Zero
  None = None
  Kinds = {"Image"}
  Slots <- OneSlot
  cache_slot <- Collide
  REVIEW_QUEUE_SIZE = 2
  MaxLive <- Live
  MaxForks <- Forks
  MaxEpoch <- Epochs
  MaxRefs = 2
SYMMETRY Symmetric
INVARIANTS FreeFramesUnused
