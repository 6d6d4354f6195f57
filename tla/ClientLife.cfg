\* Two releases of the program and of the map, two faults, two threads.
SPECIFICATION FairSpec
CONSTANTS
    ui = ui
    old = old
    DataFile = {ui, old}
    LauncherFile = ui
    Files <- MCFiles
    MapFile = {ff, info}
    MapPart = {ff}
    Absent = absent
    Partial = partial
    Cores = 2
    MaxReleases = 1
    MaxFaults = 2
    MaxAnswers = 2
INVARIANT HostKept
PROPERTIES PlayStable MarkerLast Updated 
CHECK_DEADLOCK FALSE
