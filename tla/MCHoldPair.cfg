SPECIFICATION PairSpec
CONSTANTS
    Keys = {k1, k2}
    Contents = {A}
    Null = Null
    HoldMode = "hold-all"
    AgentHost = FALSE
    MaxOpened = 1
    Debounce = 1
    FreshMinAge = 2
    DeadlineAfterChange = 3
    Ceiling = 4
    LateJdtls = TRUE
    Raises = FALSE
    SwallowsCancel = FALSE
INVARIANTS
    HeldIsReachable
    WaitIsBounded
PROPERTIES
    QuietFileSettles
    KeepsContract
