SPECIFICATION Spec
CONSTANTS
  MaximumFragments = 2
  MaximumBytes = 4
  HeaderBytes = 1
  Mode = "server"
  Embedded = FALSE
  MaxPayload = 2
  Width = 4
  Sizes <- NoneOrOne
  MaxTransfers = 2
INVARIANTS
  NoCrash
CHECK_DEADLOCK FALSE
