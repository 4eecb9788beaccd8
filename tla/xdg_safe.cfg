SPECIFICATION Spec
CONSTANTS
    Surfaces = {s1, s2, s3}
    Toplevels = {t1, t2}
    Popups = {p1, p2}
    None = None
    Settings <- AllSessions
    s1 = s1
    s2 = s2
    s3 = s3
    t1 = t1
    t2 = t2
    p1 = p1
    p2 = p2
SYMMETRY Symmetry
INVARIANT LinksAgree
INVARIANT ShownAndFocused
INVARIANT ClientIsUpToDate
PROPERTY MenusGoTogether
