\* Two launchers, one after the other, a match that opens, and one friend.
SPECIFICATION FairSpec
CONSTANTS
    Friend = {f}
    None = none
    MaxLaunches = 2
    MaxLines = 2
    Scenario <- MCScenario
    MaxChanges = 1
    MaxRequests = 1
INVARIANTS NothingCrosses RoutedOnce
PROPERTIES Mirrored Handoff JoinsRouted DestroyEnds
CHECK_DEADLOCK FALSE
