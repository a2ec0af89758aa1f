\* Locks: backtrack points against their definition.
SPECIFICATION DporFairSpec
CONSTANTS
    Tids = {0, 1}
    Objects = {"x", "y", "z", "m", "n"}
    Programs <- MCDeadlockPrograms
    MaxNrExplorations = 100
    KeepRecords = FALSE
    MaxFailures = 0
    sufficient_set_t = "Persistent"
INVARIANTS
    PointsAreMaxDep
