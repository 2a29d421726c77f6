SPECIFICATION Spec
CONSTANTS
    Remote = {"r1", "r2"}
    NoRemote = "#"
    Local = {"a", "b", "r2", ""}
    Blank = ""
    LocalIds <- DistinctLocalIds
    Unnamed = {"r2"}
    MaxFeed = 2
    MaxAnswers = 3
    MaxQueue = 1
    MaxCrashes = 1
    MaxDbErrors = 1
INVARIANTS IInv IndexesAgree ClosedIsReallyClosed UnsavedIsMarked
PROPERTY ReopenedOnlyBySwap
