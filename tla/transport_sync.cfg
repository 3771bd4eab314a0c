SPECIFICATION FairSpec
CONSTANTS
  Numbers <- NumberSeries
  Histograms <- HistogramSeries
  MaxSeries = 1
  MaxRecord = 2
  MaxRetries = 1
  MaxConn = 3
  MaxFault = 2
  Oversize = TRUE
INVARIANTS TypeOK Faithful NoResync SingleStream
PROPERTIES ExportReturns EventuallyAcked
