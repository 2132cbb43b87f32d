SPECIFICATION Spec
CONSTANTS
    MapSize = 3
    PipeCapacity = 2
    CoverCounts = {0, 2, 3}
    MaxRuns = 3
    NoOutcome = NoOutcome
INVARIANTS
    TypeOK
    Framing
    EndsHaveCause
PROPERTIES
    SharedDataStable
    EveryRunEnds
    JvmFinishes
    ImplementsServer
CHECK_DEADLOCK FALSE
