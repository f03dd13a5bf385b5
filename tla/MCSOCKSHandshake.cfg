SPECIFICATION FairSpec
CONSTANTS
  TargetAddress <- Target
  BoundAddress <- Bound
  MaxWrites = 2
  MaxServerWrites = 2
INVARIANTS
  WritesKept
  TunnelIsTransparent
  Agreement
PROPERTIES
  HandshakeEnds
CHECK_DEADLOCK FALSE
