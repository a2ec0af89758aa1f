\* Locks: the races of unlocking hide those of locking.
SPECIFICATION BPSpec
CONSTANTS
    Tids = {0, 1}
    Objects = {"x", "y", "z", "m", "n"}
    Programs <- MCLockPrograms
    MaxNrExplorations = 100
    KeepRecords = FALSE
    MaxFailures = 0
    sufficient_set_t = "Persistent"
    Bounds = {7}
INVARIANTS
    BoundedComplete
