\* Two joins, or a join and a query of the server browser; one getInfo a pass.
SPECIFICATION FairSpec
CONSTANTS
    A = A
    B = B
    multiplayer = multiplayer
    zombies = zombies
    NoServer = NoServer
    Server <- MCServer
    Mode <- MCMode
    ModeOf <- MCModeOf
    MaxQueries = 2
    MaxJoins = 2
    MaxSends = 1
INVARIANTS AnsweredOnce JoinsOnce
PROPERTIES NeverStale EventuallyAnswered
CHECK_DEADLOCK FALSE
