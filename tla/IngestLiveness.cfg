\* One inserter, the deployed default, two matches that can share a batch, one restart.
SPECIFICATION FairSpec
CONSTANTS
    Keys = {k1, k2}
    Unparseable = {}
    Corrupt = {}
    Inserters = {a}
    BatchSize = 2
    Parallelism = 2
    MaxRetries = 1
    MaxCrashes = 1
PROPERTIES
    EventuallyFiled
    BatchIsFlushed
