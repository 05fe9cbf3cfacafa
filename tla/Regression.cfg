CONSTANTS
    Tests = {r1, d1}
    Directed = {d1}
    Outcomes = {"pass", "fail", "uvm_timeout", "killed", "no_trace", "no_result", "fail_no_error_line"}
    NoTest = NoTest
    MaxMakes = 2
SPECIFICATION FairSpec
INVARIANTS MetadataConsistent FirstResultTruthful
PROPERTIES ReportComplete MakeTerminates
CHECK_DEADLOCK FALSE
