SPECIFICATION Spec
CONSTANTS
    Transfer = {t1, t2}
    Built <- SameBuilt
    Outcomes = {"done"}
    MaxAnswers = 2
    MaxDeposits = 1
    MaxFaults = 1
SYMMETRY Symmetric
INVARIANTS MemoryIsSaved OneRecordEach FinalIsShown
CHECK_DEADLOCK FALSE
