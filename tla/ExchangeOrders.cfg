SPECIFICATION Spec
CONSTANTS
    Remote = {"r1", "r2"}
    NoRemote = "#"
    Local = {"a", "b", "r1", "r2", ""}
    Blank = ""
    LocalIds <- AllLocalIds
    OwnId <- BotsIds
    MaxAsked = 2
INVARIANTS StorageHoldsTogether ClosedIsOver ListedIsAccepted AcceptedIsListed CancelledIsClosed
CHECK_DEADLOCK FALSE
