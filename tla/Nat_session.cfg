\* One join of a host that opens twice, while this client may host a match too.
SPECIFICATION FairSpec
CONSTANTS
    MaxTokens = 2
    MaxOwn = 1
    MaxJoins = 1
    MaxProbes = 2
INVARIANTS OneConnect
PROPERTIES FreshAnswer OutlivesClose AttemptEnds
CHECK_DEADLOCK FALSE
