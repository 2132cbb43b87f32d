SPECIFICATION Spec
CONSTANTS
    a = a
    b = b
    c = c
    d = d
    NoInput = NoInput
    Inputs <- MCInputs
    Length <- MCLength
    Cuts <- MCCuts
    Targets <- MCTargets
    Seeds <- MCSeeds
    Faulty = {c}
    Faults = {"TMOUT"}
    MapSize = 3
    Buckets = {1, 2}
    Speeds = {1}
    CalCycles = 2
    CalCyclesLong = 3
    CalChances = 3
    TrimRuns = 2
    HavocRuns = 1
    SpliceCycles = 1
    TmoutLimit = 0
    KeepUnique = 1
    FewPaths = 1
INVARIANTS
    NothingLost FavoredExact FavoredCover BestRated CountersExact
    FilesComplete
PROPERTY FavoredFuzzed
