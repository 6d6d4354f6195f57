\* Two servers, two lists asked for, one server refreshed.
SPECIFICATION BrowserFairSpec
CONSTANTS
    Address = {s1, s2}
    internet = internet
    favorites = favorites
    None = none
    MaxRequests = 2
    MaxRefreshes = 1
INVARIANT MasterOnce
PROPERTY Completed
CHECK_DEADLOCK FALSE
