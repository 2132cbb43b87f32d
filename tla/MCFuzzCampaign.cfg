SPECIFICATION Spec
CONSTANTS
    Iterations = 3
    Inputs = 2
    Scenarios = {{"crash", "folder_exists", "torn_open"}, {"slow_start", "crash"}, {"slow_run"}, {"slow_start", "torn_open"}}
    NoInput = NoInput
INVARIANTS
    SessionsAreSeparate
    AnswerIsForTheInput
PROPERTIES
    CampaignEnds
    JvmsEnd
CHECK_DEADLOCK FALSE
