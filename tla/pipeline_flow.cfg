SPECIFICATION Spec
CONSTANTS
  Gauges = {"g"}
  Sums = {"s"}
  Modes = {"off", "auto", "always"}
  MaxBatch = 2
  MaxPending = 3
  ChanCap = 2
  MaxEvent = 4
  MaxFail = 3
INVARIANTS TypeOK Conserved AtMostOnce InOrder Drained
