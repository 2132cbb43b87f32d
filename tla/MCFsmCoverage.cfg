SPECIFICATION Spec
CONSTANTS
    States <- MCStates
    Fsms <- MCFsms
    MaxCycles = 6
INVARIANTS
    StateCountsAddUp
    TransitionCountsExact
    TransitionsComplete
CHECK_DEADLOCK FALSE
