SPECIFICATION MCSpec
CONSTANTS
    Parts = {"loop"}
    Slots = {s1}
    MaxGen = 1
    Windows = {w1}
    Heads = {o1}
    MaxQueued = 1
    None = None
    Tops = {v}
    Areas = {1, 2}
    MaxEvents = 1
    NoTop = NoTop
    Coords = {0, 2}
    Travel <- MCTravel
    Callers = {a, b}
    Drivers = {"sample", "await"}
    MaxStrays = 2
    Boxes <- MCBoxes
PROPERTY RequestsAnswered
CHECK_DEADLOCK FALSE
