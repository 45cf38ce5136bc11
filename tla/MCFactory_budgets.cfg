SPECIFICATION FairSpec
CONSTANTS
    MaxLogicReplans = 1
    MaxSecurityReplans = 1
    MaxSpecSyntaxRetries = 1
    MaxWorkerPerEpoch = 2
    MaxCumulativeWorkerRuns = 3
    Candidates = 2
    Events <- RestartEvents
    MaxLaunches = 2
    MaxHumanCommits = 0
INVARIANTS BudgetAccounting
PROPERTIES SpentStaysSpent RunEnds
CHECK_DEADLOCK FALSE
