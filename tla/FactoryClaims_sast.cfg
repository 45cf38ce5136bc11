SPECIFICATION Spec
CONSTANTS
    MaxLogicReplans = 1
    MaxSecurityReplans = 1
    MaxSpecSyntaxRetries = 1
    MaxWorkerPerEpoch = 2
    MaxCumulativeWorkerRuns = 2
    Candidates = 2
    Events = {"tool_error"}
    MaxLaunches = 1
    MaxHumanCommits = 0
PROPERTY ScannerErrorsFailClosed
CHECK_DEADLOCK FALSE
