SPECIFICATION Spec
CONSTANTS
    Pairs <- MCPairs
    Requests <- MCRequests
    Redacted = {"system-redacted-1"}
    Queries = 4
    MinimumSamples = 2
INVARIANTS
    EveryTargetAccounted
    OneResponseIsNoise
    HonestExit
CHECK_DEADLOCK FALSE
