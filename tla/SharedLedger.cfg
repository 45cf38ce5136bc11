SPECIFICATION Spec
CONSTANTS
    MaxLogicReplans = 1
    MaxSecurityReplans = 1
    MaxSpecSyntaxRetries = 1
    MaxWorkerPerEpoch = 2
    MaxCumulativeWorkerRuns = 3
    Proc = {p1, p2}
    NoFile = NoFile
INVARIANTS LifetimeLimit
CHECK_DEADLOCK FALSE
