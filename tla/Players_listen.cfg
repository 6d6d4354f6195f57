\* A listen host with two other players, one of them from two addresses.
SPECIFICATION FairSpec
CONSTANTS
    loopback = loopback
    alice_at = alice_at
    bob_at = bob_at
    bob_too = bob_too
    host = host
    alice = alice
    bob = bob
    Address <- MCAddress
    Loopback = loopback
    Xuid <- MCXuid
    XuidOf <- MCXuidOf
    Own = host
    Dedicated = FALSE
    NoXuid = NoXuid
    Nobody = Nobody
    BotAddress = BotAddress
    BotXuid = {bot}
    MaxSlot = 2
    MaxConnects = 3
    MaxBots = 1
INVARIANTS ProfileKept Acquainted
PROPERTIES Cleaned
