SPECIFICATION AnalysisSpec
CONSTANTS
    NumPoints = 2
    Counts = {0, 1, 128}
    FeedbackCap = 255
    Times = {0, 1}
    MaxFiles = 3
INVARIANTS
    CoverageOfBytes
    JsonWellFormedToTheEnd
CHECK_DEADLOCK FALSE
