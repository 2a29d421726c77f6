SPECIFICATION Spec
CONSTANTS
    LocalIds = {l1, l2}
    NoId = NoId
    Callable = {"place", "get"}
    MaxUuid = 3
    MaxDepth = 3
    MaxTimers = 2
    MaxCrashes = 0
    SameMs = FALSE
SYMMETRY LocalIdSymmetry
INVARIANTS
    IInv
    SentOnce
    AnsweredOnce
    NothingForgotten
    FeedAgreesWithResult
    LocalIdKept
    PauseHasTimer
CHECK_DEADLOCK FALSE
