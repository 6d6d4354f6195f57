\* Two joins, of one server or of two, with frames at any point of them.
SPECIFICATION FairSpec
CONSTANTS
    Server = {a, b}
    Loopback = loopback
    NoServer = none
    MaxJoins = 2
INVARIANTS ArmedByVerified OncePerGeneration
PROPERTIES CapKept CapEnds JoinRetires
CHECK_DEADLOCK FALSE
