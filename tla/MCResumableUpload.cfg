SPECIFICATION Spec
CONSTANTS
  h1 = h1
  h2 = h2
  u1 = u1
  loopA = loopA
  loopB = loopB
  None = None
  Unknown = Unknown
  Fresh = Fresh
  Spent = Spent
  Handlers <- TwoHandlers
  Uploads <- OneUpload
  Loops <- OneLoop
  HandlerLoop <- SameLoop
  FileLength = 2
  MaxRequests <- TwoRequests
  Reopens = FALSE
  ErrorsSurvived = TRUE
  EarlyResponse = FALSE
  AppCloses = FALSE
INVARIANTS
  FileDelivered
  Reachable
  EachEndsOnce
CHECK_DEADLOCK FALSE
