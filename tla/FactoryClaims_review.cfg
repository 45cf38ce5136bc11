SPECIFICATION Spec
CONSTANTS
    MaxLogicReplans = 1
    MaxSecurityReplans = 1
    MaxSpecSyntaxRetries = 1
    MaxWorkerPerEpoch = 2
    MaxCumulativeWorkerRuns = 2
    Candidates = 2
    Events = {}
    MaxLaunches = 1
    MaxHumanCommits = 0
INVARIANT ReviewIsResumable
CHECK_DEADLOCK FALSE
