SPECIFICATION Spec
CONSTANTS
    Files = {f1}
    Texts = {A, B}
    Closed = Closed
    MaxQueued = 3
    Suspends = TRUE
INVARIANT MirrorIsCurrent
