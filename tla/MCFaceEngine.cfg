\* Two threads, a queue of two, two jobs that nest, and two shutdowns at any moment.
SPECIFICATION FairSpec
CONSTANTS
    j1 = j1
    j2 = j2
    j3 = j3
    j4 = j4
    Jobs = {j1, j2, j3, j4}
    Nesting = {j1, j2}
    Capacity = 2
    Depth = 2
    MaxShutdowns = 2
INVARIANTS
    EnoughWorkers
PROPERTIES
    AcceptedJobIsRun
    ShutdownRunsWhatWaits
CHECK_DEADLOCK FALSE
