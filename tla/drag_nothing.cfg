SPECIFICATION DragSpec
CONSTANTS
    Parts = {"pointer"}
    Clients = {a, b}
    Keys = {k, l}
    Nobody = Nobody
    Windows = {w1, w2, m1}
    Menus = {m1}
    Constrained = {w1, w2}
    Spots = {west, east}
    Scenes <- MCScenes
    Buttons = {b1}
    None = None
    w1 = w1
    w2 = w2
    m1 = m1
    west = west
    east = east
    Tablets = {a, b}
    Pads = {p}
    Pens = {t}
    Sheets = {s1, s2}
    Modes = {0, 1}
    Nothing = Nothing
    Fields = {a, b}
    MaxDone = 4
    MaxCommit = 2
    NoField = NoField
    Drafts = {d1, d2, d3}
    Askers = {s1, s2}
    MaxIssued = 2
    NoAsker = NoAsker
    Panels = {o1, o2}
    Connectors = {}
    Actors = {a1}
    Images = {i1}
    Stories <- MCStories
    Outlets = {r1, r2}
    Nowhere = Nowhere
    MaxPlugs = 3
    Gpus = {TRUE}
    Recycled = FALSE
    Hasty = FALSE
    o1 = o1
    o2 = o2
    a1 = a1
    i1 = i1
PROPERTY ReleaseEndsDrag
CHECK_DEADLOCK FALSE
