SPECIFICATION AnalysisSpec
CONSTANTS
    NumPoints = 2
    Counts = {0, 1, 200}
    FeedbackCap = 255
    Times = {0, 1}
    MaxFiles = 3
INVARIANTS
    CoverageComplete
CHECK_DEADLOCK FALSE
