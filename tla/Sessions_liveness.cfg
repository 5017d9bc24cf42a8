SPECIFICATION Spec
CONSTANTS
    c1 = c1
    c2 = c2
    n1 = n1
    n2 = n2
    g1 = g1
    g2 = g2
    None = None
    Clients <- TwoClients
    Names <- TwoNames
    Games <- OneGame
    Wishes <- OwnNameIsWished
    MaxBacklog = 1
PROPERTIES
    LeaversLeave
    ShutdownCompletes
CHECK_DEADLOCK FALSE
