SPECIFICATION Spec
CONSTANTS
    MaxLogicReplans = 1
    MaxSecurityReplans = 1
    MaxSpecSyntaxRetries = 1
    MaxWorkerPerEpoch = 1
    MaxCumulativeWorkerRuns = 2
    Candidates = 2
    Events <- OrderlyEvents
    MaxLaunches = 3
    MaxHumanCommits = 1
INVARIANTS ReviewIsTruthful HaltedMergeIsResumable
PROPERTIES VerifiedMerge NoModelShopping BuildsSurvive KeepsPromise
CHECK_DEADLOCK FALSE
