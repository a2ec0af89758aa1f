\* Any reduction; at most one run leaves no record; the search may be cut off.
SPECIFICATION Spec
CONSTANTS
    Tids = {0, 1}
    Objects = {"x", "y", "m"}
    Programs <- MCPrograms2
    MaxNrExplorations = 3
    KeepRecords = FALSE
    MaxFailures = 1
INVARIANTS
    AssertionsHold
    ScheduleExtendsExecution
    KeptPrefixIsReplayed
    DoneWasRun
    Inv
PROPERTIES
    NoScheduleTwice
