SPECIFICATION Spec
CONSTANTS
  TargetAddress <- Target
  BoundAddress <- Bound
  MaxWrites = 2
  MaxServerWrites = 2
INVARIANTS
  BufferedSentBeforeRemoval
CHECK_DEADLOCK FALSE
