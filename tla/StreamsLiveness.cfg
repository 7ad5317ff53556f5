\* One client and one stream: readers that wait.
SPECIFICATION FairSpec
CONSTANTS
    k1 = k1
    k2 = k2
    c1 = c1
    c2 = c2
    Keys = {k1}
    Clients = {c1}
    Calls <- WaitingCalls
    MaxId = 2
    Losses = {"del"}
INVARIANT ReplyHasNoGap
PROPERTIES BlockedReadEnds BlockedReadIsServed
