SPECIFICATION MCSpec
CONSTANTS
    RiscvdvTests <- MCRiscvdvTests
    HandwrittenTests <- MCHandwritten
    SuiteTests <- MCSuiteTests
    OldLists <- MCOldLists
    OnDisk <- MCOnDisk
    ConfigParams <- MCConfigParams
    TestArgs <- MCTestArgs
    IterationArgs <- MCIterationArgs
    SeedArgs <- SeedSet
    SuiteArgs <- MCSuiteArgs
    ToolOrder <- MCToolOrder
    ToolClass <- MCToolClass
    MinVersion <- MCMinVersion
    RawFiles <- MCRawFiles
    Installs <- MCInstalls
    NamedArgs <- MCNamedArgs
    KnownFields <- MCKnownFields
    YmlFiles <- MCYmlFiles
    ConfigName = "opentitan"
    CmdTemplates <- MCCmdTemplates
    MaxLines = 3
    PcValues = {0, 4, 12}
    ImmWidth = 4
    FileLists <- MCFileLists
    Sv = {"a.sv", "b.sv", "p_pkg.sv"}
    Svh = {"h.svh"}
    Pkg = {"p_pkg.sv"}
    ReportTests = {"t1", "t2"}
    MaxRuns = 3
    CovReports <- MCCovReports
INVARIANT RecentVcsAccepted
CHECK_DEADLOCK FALSE
