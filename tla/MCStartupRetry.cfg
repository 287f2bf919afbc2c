SPECIFICATION Spec
CONSTANTS
    Files = {f1}
    Texts = {A, B}
    Closed = Closed
    MaxQueued = 1
    Suspends = FALSE
PROPERTY FailedStartIsRetried
