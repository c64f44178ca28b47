\* Two inserters, either or both of which may fail for good, and matches enough to fill
\* the channel behind them.  When that happens the program stops for ever.
SPECIFICATION FairSpec
CONSTANTS
    Matches = {1, 2, 3, 4, 5, 6, 7}
    Inserters = {a, b}
    Parallelism = 1
    BatchSize = 2
    MaxFailures = 2
CHECK_DEADLOCK FALSE
INVARIANTS
    TypeOK
    ReportIsTrue
    CountedOnce
PROPERTIES
    TerminatesUnlessStuck
