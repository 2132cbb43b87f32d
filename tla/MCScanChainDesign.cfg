SPECIFICATION WalkSpec
CONSTANTS
    Main = "Top"
    ExtModules = {"Ext"}
    Designs <- MCDesigns
INVARIANTS
    OrderMatches
    ChainComplete
PROPERTIES
    ChainEnds
CHECK_DEADLOCK FALSE
