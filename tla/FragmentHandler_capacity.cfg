SPECIFICATION FairSpec
CONSTANTS
    a1 = a1
    a2 = a2
    Addr <- TwoPeers
    Lengths <- OversizedPackets
    MAX_FRAGMENTS = 1
    max_fragment_size = 2
    Lifetime = 0
    MaxPackets = 3
    MaxRestarts = 0
    MaxDuplicates = 0
    MaxSent = 3
INVARIANT QueuesBounded
PROPERTY Reclaimed
