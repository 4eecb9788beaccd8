SPECIFICATION FairSpec
CONSTANTS
    Surfaces = {s1, s2}
    Buffers = {b1}
    NoSurface = NoSurface
    NoBuffer = NoBuffer
    Clients <- PacedClients
    MaxDeferred = 2
    MaxCommits = 2
    MaxTime = 2
    MaxSleep = 1
    s1 = s1
    s2 = s2
    b1 = b1
INVARIANT WakeupArmed
PROPERTY TimedCommitsApplied
PROPERTY AnsweredIfPresented
