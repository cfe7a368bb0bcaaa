SPECIFICATION Spec
CONSTANTS
    MaxDials = 3
    MaxQueries = 4
INVARIANT HadToOpen
