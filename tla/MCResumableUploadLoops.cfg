SPECIFICATION FairSpec
CONSTANTS
  h1 = h1
  h2 = h2
  u1 = u1
  loopA = loopA
  loopB = loopB
  None = None
  Unknown = Unknown
  Fresh = Fresh
  Spent = Spent
  Handlers <- TwoHandlers
  Uploads <- OneUpload
  Loops <- TwoLoops
  HandlerLoop <- CrossLoop
  FileLength = 1
  MaxRequests <- OneRequest
  Reopens = TRUE
  ErrorsSurvived = FALSE
  EarlyResponse = FALSE
  AppCloses = TRUE
INVARIANTS
  FileDelivered
PROPERTIES
  NoOrphanChannel
CHECK_DEADLOCK FALSE
