SPECIFICATION PartsSpec
CONSTANTS
    \* the scripts
    RiscvdvTests <- MCRiscvdvTests
    HandwrittenTests <- MCHandwritten
    SuiteTests <- MCSuiteTests
    OldLists <- MCOldLists
    OnDisk <- MCOnDisk
    ConfigParams <- MCConfigParams
    TestArgs <- MCTestArgs
    IterationArgs <- MCIterationArgs
    SeedArgs <- SeedSet
    SuiteArgs <- MCSuiteArgs
    ToolOrder <- MCToolOrder
    ToolClass <- MCToolClass
    MinVersion <- MCMinVersion
    RawFiles <- MCRawFiles
    Installs <- MCInstalls
    NamedArgs <- MCNamedArgs
    KnownFields <- MCKnownFields
    YmlFiles <- MCYmlFiles
    ConfigName = "opentitan"
    CmdTemplates <- MCCmdTemplates
    MaxLines = 3
    PcValues = {0, 4, 12}
    ImmWidth = 4
    FileLists <- MCFileLists
    Sv = {"a.sv", "b.sv", "p_pkg.sv"}
    Svh = {"h.svh"}
    Pkg = {"p_pkg.sv"}
    ReportTests = {"t1", "t2"}
    MaxRuns = 3
    CovReports <- MCCovReports
    \* conductor.py
    a0 = a0
    a1 = a1
    sk = sk
    cv = cv
    b0 = b0
    Props = {a0, a1, sk, cv, b0}
    StepOf <- MCStepOf
    StepMaps <- MCStepMaps
    Covers = {cv}
    SKIPPED_PROPS = {sk}
    MaxStep = 1
    Args <- MCArgs
    Files0 <- MCFiles
    \* the masked core
    Inputs <- MCInputs
    Ties <- MCTies
    Cells <- MCCells
    Flops <- MCFlops
    Outputs <- MCOutputs
    kind <- MCkind
    pinA <- MCpinA
    pinB <- MCpinB
    pinD <- MCpinD
    tie <- MCtie
    RandWidth = 2
    inBit <- MCinBit
    flopPos <- MCflopPos
    \* the testbench memory
    Words = 3
    Denied = {2}
    None = None
    WritebackStage = TRUE
    Accesses <- MCAccesses
INVARIANTS
    SelectionCorrect CheckTruthful ConfigReachesTools CommandsComplete
    VerdictCorrect CsvFaithful ConversionOrderly ReportsFaithful
    CacheWellFormed CacheSound ProveSound
    NoTbResponseWithoutPendingAccess LoadsSeeStores
PROPERTIES MaskedImplementsUnmasked ExploreAccounts
CHECK_DEADLOCK FALSE
