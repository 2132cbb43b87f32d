SPECIFICATION AbortSpec
CONSTANTS
    N = 3
    CounterMax <- MCCounterMax
    MaxEvents = 2
    NoReport = NoReport
INVARIANTS
    TypeOK
    CountsInPlace
    ReportExact
PROPERTIES
    ScanClears
    ImplementsCounters
