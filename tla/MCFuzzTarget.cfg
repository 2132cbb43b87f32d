SPECIFICATION Spec
CONSTANTS
    Designs <- MCDesigns
    Inputs <- MCInputs
    FeedbackCap = 2
    MaxRuns = 2
INVARIANTS
    RunsAreIndependent
CHECK_DEADLOCK FALSE
