\* Two clients share one stream and its group.
SPECIFICATION Spec
CONSTANTS
    k1 = k1
    k2 = k2
    c1 = c1
    c2 = c2
    Keys = {k1}
    Clients = {c1, c2}
    Calls <- SharedCalls
    MaxId = 1
    Losses = {"expire"}
SYMMETRY ClientSymmetry
INVARIANTS NoLostWakeup OneReceiver
