\* One object, which is closed and used again, a channel and a pattern that
\* matches it, a ring of one message, and one cancellation or shutdown.
SPECIFICATION FairSpec
CONSTANTS
    a = a
    p = p
    o1 = o1
    t1 = t1
    Channels = {a}
    Patterns = {p}
    Matching <- MCMatching
    Objects = {o1}
    Tasks = {t1}
    Owner <- OneTask
    RingSize = 1
    MaxIds = 2
    MaxLog = 2
    MaxFaults = 1
CHECK_DEADLOCK FALSE
INVARIANTS QueueInOrder ClosedIsQuiet
PROPERTIES StopIsFinal CountedArrives StoppedEnds
