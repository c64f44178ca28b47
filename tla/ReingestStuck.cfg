\* Both inserters fail for good while the producers go on: the channel fills and nobody
\* is left to take from it.
SPECIFICATION FairSpec
CONSTANTS
    Matches = {1, 2, 3, 4, 5, 6, 7}
    Inserters = {a, b}
    Parallelism = 1
    BatchSize = 2
    MaxFailures = 2
CHECK_DEADLOCK FALSE
PROPERTIES
    Terminates
