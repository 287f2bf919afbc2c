SPECIFICATION Spec
CONSTANTS
    Files = {f1, f2}
    Texts = {A, B}
    Closed = Closed
    MaxQueued = 3
    Suspends = TRUE
SYMMETRY FileSymmetry
INVARIANTS
    TypeOK
    ReplayIsCurrent
    QueueIsDrained
