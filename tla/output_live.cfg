SPECIFICATION FairSpec
CONSTANTS
    Settings <- SafeSettings
    MaxScene = 2
    MaxEvents = 3
INVARIANT IdleShowsScene
INVARIANT RequestServed
INVARIANT NothingOwed
PROPERTY DrawnOffScreen
PROPERTY ClientsAnswered
PROPERTY GoesQuiet
CHECK_DEADLOCK FALSE
