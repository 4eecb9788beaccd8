SPECIFICATION MCSpec
CONSTANTS
    Parts = {"stream", "minimal", "geometry", "regions", "loop"}
    Slots = {s1}
    MaxGen = 2
    Windows = {w1, w2}
    Heads = {o1}
    MaxQueued = 3
    None = None
    Tops = {v, w}
    Areas = {1, 2}
    MaxEvents = 3
    NoTop = NoTop
    Coords = {0, 2}
    Travel <- MCTravel
    Callers = {a, b}
    Drivers = {"blocking", "calloop"}
    MaxStrays = 2
    Boxes <- MCBoxes
INVARIANT SuccessorAnnounced
INVARIANT GeometrySound
INVARIANT RegionIsSet
INVARIANT EveryWindowShown
PROPERTY Faithful
PROPERTY CatchesUp
PROPERTY RequestsAnswered
CHECK_DEADLOCK FALSE
