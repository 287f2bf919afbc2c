SPECIFICATION Spec
CONSTANTS
    f1 = f1
    f2 = f2
    a = a
    b = b
    c = c
    d = d
    None = None
    Files = {f1}
    Modules = {a, b, c, d}
    ModuleOf <- TreeOf
    Deps <- TreeDeps
    RootOf <- TreeRoot
    Covered0 = {a}
    Groups <- TreeGroups
    Budget = 2
    Rounds = 2
    PerRound = 2
    RefreshesPerRound = 1
    RefreshCap = 2
INVARIANTS
    LimitsHold
    FoldersMatch
PROPERTIES
    PhaseEnds
    KeepsImportContract
