\* Runs may leave no record: the search then reads the previous one again, or,
\* if there is none, aborts.
SPECIFICATION BoundedFairSpec
CONSTANTS
    Tids = {0, 1}
    Objects = {"x", "y", "m", "n"}
    Programs <- MCProgramsTwo
    MaxNrExplorations = 25
    KeepRecords = FALSE
    MaxFailures = 2
    IntWidth = 4
    BoundOptions = {1, 7}
INVARIANTS
    BoundedInv
    StaleRecordLosesNothing
PROPERTIES
    Terminates
