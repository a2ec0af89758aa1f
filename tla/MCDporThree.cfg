\* Three threads, with and without locks.
SPECIFICATION DporFairSpec
CONSTANTS
    Tids = {0, 1, 2}
    Objects = {"x", "y", "z", "m", "n"}
    Programs <- MCThreeThreads
    MaxNrExplorations = 100
    KeepRecords = FALSE
    MaxFailures = 0
    sufficient_set_t = "Persistent"
INVARIANTS
    ClockSizesAgree
    ClocksAreExact
    FrontierIsExact
    DporTypeOK
    DporAssertionsHold
    SleepingThreadNotExecuted
    BlockedOnlyWhenAsleep
    NoTraceTwice
PROPERTIES
    EnumeratesTraces
