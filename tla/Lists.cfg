\* One blocking client among every list command on two keys and two elements.
SPECIFICATION FairSpec
CONSTANTS
    k1 = k1
    k2 = k2
    c1 = c1
    Keys = {k1, k2}
    Clients = {c1}
    Calls <- MCCalls
    MaxElements = 2
    Batches = {1, 2}
    Ints <- MCInts
INVARIANTS
    EmptyListRemoved
    InOnePlace
    NoLostWakeup
PROPERTIES
    NothingVanishes
    ExpiredStaysDead
    TtlSurvives
    BlockedCallEnds
    BlockedCallIsServed
