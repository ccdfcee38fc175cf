CONSTANTS
  Cpus = {c, d}
  Tasks = {x, y}
  WHEEL_SIZE = 2
  MaxSleep = 17
  MaxTick = 26
  MaxCount = 13
  Senders = {s1, s2}
  Receivers = {r1, r2}
  First = {s1, r1}
  capacity = 1
  MaxSends = 2
  PiTasks = {k, l, m}
  Free = Free
  MaxQueue = 2
SPECIFICATION MCSpec
INVARIANTS InOneBucket WheelKeepsUp NoOversleep DeliveredInOrder  PiExclusive
PROPERTY NeverEarly
SYMMETRY Perms
CHECK_DEADLOCK FALSE
