\* Two clients of a path: of one process, or of a process and the next.
SPECIFICATION Spec
CONSTANTS
    v = v
    m = m
    s = s
    Values = {}
    ZSets <- OneMember
    StreamIds = {1, 2}
    Streams <- Delivered
    Scripts = {s}
    MaxTtl = 1
    TicksPerMs = 2
    MaxClients = 2
    MaxStarts = 2
    MaxSaves = 2
\* Nobody has to start a client.
CHECK_DEADLOCK FALSE
INVARIANTS SnapshotIsWhole OldestIsKept
PROPERTIES RestoreIsFaithful
