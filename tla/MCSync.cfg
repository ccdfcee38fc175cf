CONSTANTS
  a1 = a1
  a2 = a2
  t1 = t1
  t2 = t2
  Items = {a, b}
  N = 2
  IndexSpan = 6
  MaxBatch = 3
  NoItem = NoItem
  RingCap = 2
  MaxRequests = 4
  AwTasks <- MCTaskIds
  AwCpus = {c1, c2}
  Addresses <- MCAddresses
  Calls <- MCCalls
  Masks = {{1, 2}, {2}}
  MaxWaits = 2
  MaxTick = 1
SPECIFICATION MCSpec
INVARIANTS TypeOK NoSlotRace AnsweredInOrder CountersReconcile WokenOnce
PROPERTIES ImplementsFifo StopStops RequestsDrain AnswersTruly WakeAllReaches DeadlinesHold
CHECK_DEADLOCK FALSE
