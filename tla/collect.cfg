SPECIFICATION Spec
CONSTANTS
  CPU = {c1, c2}
  MaxSample = 3
  Older = 1
  Word = 16
  RingCap = 2
  Request = {r1, r2}
  StartCap = 1
  MaxIssue = 2
  Latency <- Boundaries
  Handler = {h1, h2}
  MaxDup = 1
  MaxOther = 1
  MaxSibling = 1
  MaxDrain = 2
INVARIANTS TypeOK NamedLosses GaugeHonest OwnLatency BucketBounds ServerNeverAhead DiskExact
PROPERTIES CountsOnce StoredMonotone
CONSTRAINT Focus
SYMMETRY Symmetry
CHECK_DEADLOCK FALSE
