SPECIFICATION Spec
CHECK_DEADLOCK FALSE
CONSTANTS
  N = 2 W = 4 NMAX = 7 BATCH = 1 BATCH_MIN = 1
  LenRoot = 4 DistRoot = 2 ENOUGH_LENS = 852 ENOUGH_DISTS = 592 WShift = 4
  Setups <- AllPrograms

INVARIANTS AgreesWithFormat WindowIsHistory NeverAstray SyncFindsMarker ChecksJoin HeaderTold PlaceIsTold
