\* Options that do not fit into an int.
SPECIFICATION BoundedFairSpec
CONSTANTS
    Tids = {0, 1}
    Objects = {"x", "y", "m", "n"}
    Programs <- MCProgramsTwo
    MaxNrExplorations = 100
    KeepRecords = FALSE
    MaxFailures = 0
    IntWidth = 4
    BoundOptions = {1, 7, 8, 15}
INVARIANTS
    BoundOptionIsUsed
