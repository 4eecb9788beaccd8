SPECIFICATION MCSpec
CONSTANTS
    Parts = {"screens"}
    Lockers = {a, b}
    Screens = {s}
    MaxCalls = 3
    NoLock = NoLock
    Panels = {a, b}
    Wants <- MCWants
    Height = 4
    MaxNews = 2
    NoSize = NoSize
    Wins = {w1, w2}
    Bars = {b1}
    Lists = {l1}
    NoWin = NoWin
    Spaces = {s, t}
    Groups = {g}
    Pagers = {p}
    MaxAsked = 1
    NoGroup = NoGroup
    Inhibitors = {a, b}
    Notices = {m, n}
    MaxChanges = 2
    Monitors = {h, k}
    Widths = {2, 4}
    Places = {0, 3}
    MaxX = 4
    Configs = {c}
    MaxSerial = 3
    MaxTickets = 2
    Displays = {u}
    Apps = {x, y}
    Controls = {q, r}
    NoTable = NoTable
    Viewers = {v}
    OldXdg = {}
    OneManager = TRUE
    NoScreen = NoScreen
    Pasters = {"copier", "paster"}
    Managers = {"manager"}
    Offered <- MCOffered
    LateOffers = FALSE
    MaxUnread = 1
    Nobody = Nobody
    Supersedes = TRUE
INVARIANT XdgOfItsOutput
CHECK_DEADLOCK FALSE
