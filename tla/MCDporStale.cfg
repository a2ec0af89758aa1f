\* Up to two runs leave no record: the previous one is then read again.  No search
\* with one failure needs more than 15 explorations, none with two more than 21: the
\* limit lets all of them get to their end but the longest with two failures.
SPECIFICATION DporFairSpec
CONSTANTS
    Tids = {0, 1}
    Objects = {"x", "y", "z", "m", "n"}
    Programs <- MCTwoThreads
    MaxNrExplorations = 20
    KeepRecords = FALSE
    MaxFailures = 2
    sufficient_set_t = "Persistent"
INVARIANTS
    DporInv
    SleepInv
    AllTracesCovered
