SPECIFICATION FairSpec
CONSTANTS
    N = 3
    MaxEvents = 3
INVARIANTS
    Sticky
    EveryAddressHasItsTurn
    ReconnectSampleIsHonest
    NoSocketLeak
PROPERTY Recovers
