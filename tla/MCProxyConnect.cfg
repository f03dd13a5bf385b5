SPECIFICATION FairSpec
CONSTANTS
  MaxWrites = 4
INVARIANTS
  WritesKept
  PromiseTellsTheTruth
  NoPreconditionFailure
PROPERTIES
  AlwaysAnswers
CHECK_DEADLOCK FALSE
