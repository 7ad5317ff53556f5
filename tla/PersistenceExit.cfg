\* Two clients of one path in one process.
SPECIFICATION Spec
CONSTANTS
    v = v
    m = m
    s = s
    Values = {v}
    ZSets = {}
    StreamIds = {}
    Streams = {}
    Scripts = {}
    MaxTtl = 0
    TicksPerMs = 1
    MaxClients = 2
    MaxStarts = 2
    MaxSaves = 2
\* Nobody has to start a client.
CHECK_DEADLOCK FALSE
INVARIANT ExitIsKept
