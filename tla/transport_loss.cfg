SPECIFICATION Spec
CONSTANTS
  Numbers <- NumberSeries
  Histograms = {}
  MaxSeries = 1
  MaxRecord = 1
  MaxRetries = 1
  MaxConn = 1
  MaxFault = 0
  Oversize = FALSE
INVARIANTS NothingLost
