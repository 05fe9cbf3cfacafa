CONSTANTS
    a0 = a0
    a1 = a1
    sk = sk
    cv = cv
    b0 = b0
    Props = {a0, a1, sk, cv, b0}
    StepOf <- MCStepOf
    StepMaps <- MCForwardMaps
    Covers = {cv}
    SKIPPED_PROPS = {sk}
    MaxStep = 1
    Args <- MCArgs
    Files0 <- MCFiles
SPECIFICATION CondSpec
INVARIANT CompleteMeansProved
