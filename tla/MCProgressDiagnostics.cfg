SPECIFICATION Spec
CONSTANTS
    NTargets = 5
    NQueries = 2
    NWorkers = 3
INVARIANT DiagnosticsApart
