SPECIFICATION FairSpec
CONSTANTS
  Words = 4
  Compressed <- MCCompressed
  Faulty <- MCFaulty
  Targets <- MCTargets
  Junk <- MCJunk
  None = None
INVARIANTS FetchConsistent InstructionsCorrect FifoNeverOverflows StreamContiguous
PROPERTIES RequestStable FetchProgress
