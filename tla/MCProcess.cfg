CONSTANTS
  Starts = {a}
  MaxOrders = 3
  MaxCrashes = 2
  LastCore = 2
  MaxDumps = 1
  N = 2
  P = 1
  Qcnt = 1
  CountWidth = 256
  Bufs = {b1, b2}
  RingLen = 1
  ReadMax = 1
  MaxDoubled = 1
  Writers = {w1, w2}
  Count = 3
  MaxLines = 2
SPECIFICATION Spec
INVARIANTS
  LoadedAfterStart BuffersPlaced
PROPERTIES
  ImplementsQueue ServedUnlessLost StartLoads BuffersReturn
  EmptiedWhenQuiet
CHECK_DEADLOCK FALSE
