CONSTANTS
    Tests = {d1}
    Directed = {d1}
    Outcomes = {"pass", "fail"}
    NoTest = NoTest
    MaxMakes = 2
SPECIFICATION Spec
INVARIANT ReportTruthful
CHECK_DEADLOCK FALSE
