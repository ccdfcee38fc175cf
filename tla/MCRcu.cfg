CONSTANTS
  cpu_count = 3
  Writers = {w1, w2}
  NoWriter = NoWriter
  MaxSwaps = 3
SPECIFICATION RcuSpec
INVARIANT NoReaderOfFreed
