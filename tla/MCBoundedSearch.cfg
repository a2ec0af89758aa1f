\* Two and three threads, with and without locks and with a possible deadlock;
\* every run leaves its record.  The limit cuts off the longest search.
SPECIFICATION BoundedFairSpec
CONSTANTS
    Tids = {0, 1, 2}
    Objects = {"x", "y", "m", "n"}
    Programs <- MCBoundedPrograms
    MaxNrExplorations = 11
    KeepRecords = TRUE
    MaxFailures = 0
    IntWidth = 4
    BoundOptions = {0, 1, 2, 7}
INVARIANTS
    BoundAssertionsHold
    BoundValueIsExact
    WithinBound
PROPERTIES
    EnumeratesBounded
    Spec
