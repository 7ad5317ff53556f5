\* Every command on two keys, two items and two scores; well-formed calls.
SPECIFICATION FairSpec
CONSTANTS
    i1 = i1
    i2 = i2
    Keys = {k1, k2}
    Items = {i1, i2}
    MaxScore = 2
    SweepLimit = 2
    Malformed = FALSE
INVARIANTS IndexesAgree NoEmptyCollection 
PROPERTIES GetKeepsLive ExpiredEventuallySwept
