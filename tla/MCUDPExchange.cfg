SPECIFICATION UDPSpec
CONSTANTS
    Queries = 2
    Questions = {q1, q2}
    Ids = {i1, i2}
    Ports = {p1, p2}
    Addresses = {a1}
    NoAddress = NoAddress
    Timeout = 2
    MaxFlight = 2
INVARIANT AnswersItsQuery
PROPERTY EveryQueryEnds
CHECK_DEADLOCK FALSE
