SPECIFICATION Spec
CONSTANTS
    Designs <- AllDesigns
    Threshold = 2
    MaxBuilds = 3
    MaxRuns = 2
    MaxCycles = 2
INVARIANTS
    OnlyCoveredEverywhereRemoved
    ReportExact
    NothingIsLost
PROPERTIES
    PointsStayRemoved
CHECK_DEADLOCK FALSE
