SPECIFICATION FairSpec
CONSTANTS
    Transfer = {t1}
    Built <- SameBuilt
    Outcomes = {"done", "failed"}
    MaxAnswers = 2
    MaxDeposits = 1
    MaxFaults = 2
PROPERTIES FinalIsSaved
CHECK_DEADLOCK FALSE
