\* All small programs of two threads on memory, some longer ones, and programs
\* with locks that cannot deadlock.
SPECIFICATION DporFairSpec
CONSTANTS
    Tids = {0, 1}
    Objects = {"x", "y", "z", "m", "n"}
    Programs <- MCTwoThreads
    MaxNrExplorations = 100
    KeepRecords = TRUE
    MaxFailures = 0
    sufficient_set_t = "Persistent"
INVARIANTS
    CoenabledIsSound
    ObservationsCovered
    NoRaceIsMissed
PROPERTIES
    DporFinishes
    EnumeratesTraces
