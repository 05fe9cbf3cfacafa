SPECIFICATION ClockDataSpec
CONSTANTS
  Words = 3
  Denied <- MCDenied
  None = None
  WritebackStage = TRUE
  Accesses <- MCAccesses
INVARIANTS ClkTypeOK HoldBounded ErrorsPrecise LoadCorrect StoreCorrect NoMemResponseWithoutPendingAccess BusMatchesFsm
PROPERTIES RequestStable NeverHangs LockUpOnlyByPerturbation CoreClockRuns
