\* Partial-order reduction within a bound, with a run that fails.
SPECIFICATION BPSpec
CONSTANTS
    Tids = {0, 1, 2}
    Objects = {"x", "y", "z", "m", "n"}
    Programs <- MCBoundedPrograms
    MaxNrExplorations = 20
    KeepRecords = FALSE
    MaxFailures = 1
    sufficient_set_t = "Persistent"
    Bounds = {0, 1, 2}
INVARIANTS
    BoundStatesAreExact
    ExploredWithinBound
    BoundedComplete
    PointsOfEachThread
PROPERTIES
    Spec
