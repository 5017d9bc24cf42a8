SPECIFICATION Spec
CONSTANTS
    n1 = n1
    n2 = n2
    g1 = g1
    Empty = Empty
    Names <- SomeNames
    Codes <- SomeCodes
    Inputs = {"w", "one", "left", "k"}
    Items = {"awp"}
    MaxCommands = 2
    MaxEvents = 1
    MaxInbox = 2
INVARIANTS
    TypeOK
    PlaysInItsGame
    ScreensAreSound
    PressesAlternate
PROPERTY
    ClientEnds
CHECK_DEADLOCK FALSE
