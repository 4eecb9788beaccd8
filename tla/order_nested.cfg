SPECIFICATION Spec
CONSTANTS
    Surfaces = {s1, s2, s3}
    Buffers = {b1}
    NoSurface = NoSurface
    NoBuffer = NoBuffer
    Clients <- NestedClients
    MaxDeferred = 1
    MaxCommits = 2
    MaxTime = 0
    s1 = s1
    s2 = s2
    s3 = s3
    b1 = b1
SYMMETRY Symmetry
PROPERTY CommitOrderOfAnyClient
