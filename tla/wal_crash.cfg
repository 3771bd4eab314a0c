SPECIFICATION Spec
CONSTANTS
  SegmentSize = 4
  MaxSize = 4
  MaxRecord = 3
  MaxSegment = 3
  MaxCrash = 2
  DiskFull = TRUE
  SaveFault = TRUE
  FileFault = TRUE
INVARIANTS TypeOK Accounted
PROPERTIES CheckpointMonotone QueueSpec
