SPECIFICATION Spec
CONSTANTS
  r1 = r1
  r2 = r2
  r3 = r3
  s1 = s1
  s2 = s2
  e1 = e1
  e2 = e2
  id1 = id1
  id2 = id2
  id3 = id3
  id4 = id4
  None = None
  ClosedBeforeReceivingResponse = ClosedBeforeReceivingResponse
  IOOnClosedChannel = IOOnClosedChannel
  Requests <- ThreeRequests
  Strays <- TwoStrays
  Errors <- TwoErrors
  IDs <- FourIDs
  IDOf <- OwnIDs
  Kinds <- OnlyOrdered
  Refusing <- OnlyOrdered
INVARIANTS
  MatchedResponse
CHECK_DEADLOCK FALSE
