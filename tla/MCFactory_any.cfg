SPECIFICATION Spec
CONSTANTS
    MaxLogicReplans = 1
    MaxSecurityReplans = 1
    MaxSpecSyntaxRetries = 1
    MaxWorkerPerEpoch = 1
    MaxCumulativeWorkerRuns = 2
    Candidates = 2
    Events <- AnyEvent
    MaxLaunches = 2
    MaxHumanCommits = 1
INVARIANTS TypeOK WorkerCallsBounded
PROPERTIES CompletedIsMerged NoFreeCycle
CHECK_DEADLOCK FALSE
