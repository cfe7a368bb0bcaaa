SPECIFICATION FairSpec
CONSTANTS
    MaxDials = 3
    MaxQueries = 4
INVARIANTS
    EveryConnectionOwned
    FlagTellsOfDials
PROPERTY CloseReleasesAll
