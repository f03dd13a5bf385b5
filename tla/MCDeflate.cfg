SPECIFICATION Spec
CHECK_DEADLOCK FALSE
CONSTANTS
  N = 1 W = 4 NMAX = 7 BATCH = 1 BATCH_MIN = 1
  MAX_MATCH = 10 TOO_FAR = 8 MAX_STORED = 40 WShift = 4 LitShift = 2 HashShift = 3
  Setups <- AllPrograms
  Garbage = {0, 7}
  MaxCalls = 2

INVARIANTS RoundTrip FlushDelivers FullFlushForgets BuffersHold DictionaryIsHistory
PROPERTIES FinishGoesOn
