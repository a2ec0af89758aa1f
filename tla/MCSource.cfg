\* Source sets, three threads.
SPECIFICATION DporFairSpec
CONSTANTS
    Tids = {0, 1, 2}
    Objects = {"x", "y", "z", "m", "n"}
    Programs <- MCSourcePrograms
    MaxNrExplorations = 100
    KeepRecords = FALSE
    MaxFailures = 0
    sufficient_set_t = "Source"
INVARIANTS
    PointsAreRaces
    FrontIsExact
    BacktrackIsEnabled
PROPERTIES
    EnumeratesTraces
