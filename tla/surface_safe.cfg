SPECIFICATION Spec
CONSTANTS
    Surfaces = {s1, s2, s3}
    Buffers = {b1, b2}
    NoSurface = NoSurface
    NoBuffer = NoBuffer
    Clients <- SafeClients
    MaxDeferred = 2
    MaxCommits = 4
    MaxTime = 1
    s1 = s1
    s2 = s2
    s3 = s3
    b1 = b1
    b2 = b2
SYMMETRY Symmetry
INVARIANT NoDangling
INVARIANT ReleaseSafe
INVARIANT NoLostRelease
INVARIANT CallbackOnce
INVARIANT FifoPacing
PROPERTY CommitOrder
PROPERTY CachedIsApplied
