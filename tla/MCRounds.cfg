SPECIFICATION Spec
CONSTANTS
    f1 = f1
    f2 = f2
    a = a
    b = b
    c = c
    d = d
    None = None
    Files = {f1, f2}
    Modules = {a, b, c}
    ModuleOf <- PairOf
    Deps <- PairDeps
    RootOf <- PairRoot
    Covered0 = {a}
    Groups = {}
    Budget = 2
    Rounds = 1
    PerRound = 1
    RefreshesPerRound = 1
    RefreshCap = 2
INVARIANTS
    TypeOK
    PendingHasRunner
    ArmedIsServed
    VerdictIsCurrent
PROPERTIES
    PhaseAdvances
