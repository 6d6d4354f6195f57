SPECIFICATION Spec
CONSTANTS
    a1 = a1
    a2 = a2
    Addr <- TwoPeers
    Lengths <- LongPackets
    MAX_FRAGMENTS = 3
    max_fragment_size = 2
    Lifetime = 0
    MaxPackets = 2
    MaxRestarts = 1
    MaxDuplicates = 1
    MaxSent = 2
SYMMETRY Symmetry
INVARIANTS IntactPerIncarnation Intact NothingStuck CompletesOnce
