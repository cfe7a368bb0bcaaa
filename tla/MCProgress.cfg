SPECIFICATION FairSpec
CONSTANTS
    NTargets = 5
    NQueries = 2
    NWorkers = 3
INVARIANTS
    CaughtUp
    QuietAfterFinish
PROPERTY FinishReturns
