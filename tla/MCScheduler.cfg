SPECIFICATION FairSpec
CONSTANTS
    NGroups = 2
    Group <- WideThenOne
    Concurrency = 2
    NQueries = 2
    ColdProbes = 2
    Warmups = 2
    DNSSEC = TRUE
INVARIANTS
    TypeOK
    SessionExclusive
    InStep
    CompleteMeansAll
    AllOrNothing
    SessionsOpenWhileUsed
PROPERTIES
    NoNewWorkAfterInterrupt
    ImplementsContract
    InterruptMarksGroup
