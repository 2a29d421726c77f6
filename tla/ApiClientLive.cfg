SPECIFICATION FairSpec
CONSTANTS
    LocalIds = {l1, l2}
    NoId = NoId
    Callable = {"place", "cancel", "get", "feed"}
    MaxUuid = 2
    MaxDepth = 3
    MaxTimers = 2
    MaxCrashes = 1
    SameMs = FALSE
PROPERTIES
    ImplementsAsyncApi
    EventuallySettled
CHECK_DEADLOCK FALSE
