SPECIFICATION Spec
CONSTANT MaxSignals = 2
INVARIANTS
    OldOrNew
    StatusMeansDelivered
    FinishedReportKept
    NoLitter
