SPECIFICATION FairSpec
CONSTANTS
  MaximumFragments = 2
  MaximumBytes = 3
  HeaderBytes = 1
  Mode = "server"
  Embedded = FALSE
  MaxPayload = 2
  Width = 4
  Sizes <- NoneOrThree
  MaxTransfers = 2
INVARIANTS
  CaptureIsTheConversation
  RingIsLatest
PROPERTIES
  FileIsTheCapture
CHECK_DEADLOCK FALSE
