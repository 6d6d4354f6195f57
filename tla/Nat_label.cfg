\* A join that never connects, started from another match.
SPECIFICATION Spec
CONSTANTS
    MaxTokens = 1
    MaxOwn = 1
    MaxJoins = 1
    MaxProbes = 1
INVARIANT NeverMislabelled
CHECK_DEADLOCK FALSE
