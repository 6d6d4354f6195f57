\* Two servers of one mode and three joins.
SPECIFICATION Spec
CONSTANTS
    A = A
    B = B
    multiplayer = multiplayer
    zombies = zombies
    NoServer = NoServer
    Server = {A, B}
    Mode = {multiplayer}
    ModeOf <- MCSameMode
    MaxQueries = 3
    MaxJoins = 3
    MaxSends = 9
PROPERTIES RequeryOnlyPending
CHECK_DEADLOCK FALSE
