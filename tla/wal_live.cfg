SPECIFICATION FairSpec
CONSTANTS
  SegmentSize = 2
  MaxSize = 4
  MaxRecord = 4
  MaxSegment = 4
  MaxCrash = 0
  DiskFull = TRUE
  SaveFault = TRUE
  FileFault = FALSE
INVARIANTS DrainedAtExit
PROPERTIES CorruptionAtPartial EventuallyDelivered StopCompletes DegradationEnds
