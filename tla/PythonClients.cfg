\* Two tasks; locks of each expire, one of the first does not.  Two tasks that
\* share a pipeline, and up to four commands.
SPECIFICATION ClientsSpec
CONSTANTS
    t1 = t1
    t2 = t2
    o1 = o1
    o2 = o2
    o3 = o3
    None = None
    Tasks = {t1, t2}
    Objects = {o1, o2, o3}
    Uses <- MCUses
    Timed = {o1, o2}
    Tokens = {k1, k2, k3, k4, k5}
    Users = {t1, t2}
    Kinds = {"plain", "stream", "list", "refused"}
    MaxCommands = 4
\* The commands of a pipeline are bounded.
CHECK_DEADLOCK FALSE
INVARIANTS MutualExclusion ReleaseTellsTruth CalledOnce ResultsInPlace
PROPERTIES AcquireEnds LockIsNotStuck
