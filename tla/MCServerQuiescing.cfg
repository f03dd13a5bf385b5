SPECIFICATION FairSpec
CONSTANTS
  c1 = c1
  c2 = c2
  c3 = c3
  k1 = k1
  k2 = k2
  Internal = Internal
  NoPromise = NoPromise
  Children <- ThreeChildren
  ServerLoopChildren <- OneOnServerLoop
  Callers <- TwoCallers
  NilCallers <- OneNilCaller
INVARIANTS
  TypeOK
  NoPreconditionFailure
  SucceededMeansDrained
  EveryChildToldOnce
  Registry
PROPERTIES
  ShutdownTerminates
  ImplementsDrain
CHECK_DEADLOCK FALSE
