SPECIFICATION Spec
CONSTANTS
  Gauges = {"g"}
  Sums = {}
  Modes = {"always"}
  MaxBatch = 2
  MaxPending = 2
  ChanCap = 2
  MaxEvent = 3
  MaxFail = 0
INVARIANTS TailFlushed
