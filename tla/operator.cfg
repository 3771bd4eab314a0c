SPECIFICATION FairSpec
CONSTANTS
  MaxExtra = 2
 
PROPERTIES ObservedApplied Converges Cleaned
CHECK_DEADLOCK FALSE
