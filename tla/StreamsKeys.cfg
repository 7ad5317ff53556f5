\* One client reads two streams in one call.
SPECIFICATION Spec
CONSTANTS
    k1 = k1
    k2 = k2
    c1 = c1
    c2 = c2
    Keys = {k1, k2}
    Clients = {c1}
    Calls <- KeysCalls
    MaxId = 1
    Losses = {"set"}
INVARIANT HandedIsPending
