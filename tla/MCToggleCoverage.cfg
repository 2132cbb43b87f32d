SPECIFICATION ToggleSpec
CONSTANTS
    Designs <- MCDesigns
    Options = {{"port", "reg", "wire"}, {"reg", "wire"}, {"port"}}
INVARIANTS
    ReportExact
    SampledOnce
    FailsOnlyWithoutClock
    AliasGroups
CHECK_DEADLOCK FALSE
