SPECIFICATION Spec
CONSTANTS
    Keys = {k1}
    Contents = {A}
    Null = Null
    HoldMode = "hold-all"
    AgentHost = FALSE
    MaxOpened = 1
    Debounce = 1
    FreshMinAge = 2
    DeadlineAfterChange = 3
    Ceiling = 4
    LateJdtls = FALSE
    Raises = FALSE
    SwallowsCancel = FALSE
INVARIANT ExitReleasesAll
