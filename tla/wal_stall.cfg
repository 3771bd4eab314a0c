SPECIFICATION FairSpec
CONSTANTS
  SegmentSize = 2
  MaxSize = 4
  MaxRecord = 5
  MaxSegment = 5
  MaxCrash = 1
  DiskFull = FALSE
  SaveFault = FALSE
  FileFault = FALSE
PROPERTY EventuallyDelivered
