SPECIFICATION Spec
CONSTANTS
  SegmentSize = 4
  MaxSize = 4
  MaxRecord = 3
  MaxSegment = 3
  MaxCrash = 0
  DiskFull = FALSE
  SaveFault = FALSE
  FileFault = FALSE
INVARIANTS NothingSkipped
