SPECIFICATION FairSpec
CONSTANTS
    c1 = c1
    c2 = c2
    c3 = c3
    w1 = w1
    w2 = w2
    Candidats = {c1, c2}
    Windows = {w1, w2}
    WindowOf <- TwoWindows
    None = None
    LockSecs = 2
    SlowCalls = TRUE
    MaxDepth = 2
    MaxCrashes = 0
PROPERTIES EventuallyUnlocked BothSent CandidatsTaken
