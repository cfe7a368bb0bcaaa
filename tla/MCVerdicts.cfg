SPECIFICATION Spec
CONSTANTS
    Cohorts <- MCCohorts
    Conditions <- MCConditions
    Timeout = 10
    Scale = 12
    MinimumSamples = 2
INVARIANTS
    FairSample
    ReplicateIsResample
    FairRanking
    ToldOnce
    PassNeedsEvidence
CHECK_DEADLOCK FALSE
