SPECIFICATION Spec
CONSTANTS
    Outputs = {o1}
    Windows = {w1, w2}
    Cells = {c1, c2}
    Pictures = {p1, p2}
    Nothing = Nothing
    Background = Background
    Garbage = Garbage
    Settings <- CalmSettings
    o1 = o1
    w1 = w1
    w2 = w2
    c1 = c1
    c2 = c2
    p1 = p1
    p2 = p2
SYMMETRY Symmetry
INVARIANT CalmShownIsScene
INVARIANT QuietSoon
