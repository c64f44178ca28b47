\* Two inserters, three objects of which one does not parse, a channel of two places, one
\* restart.
SPECIFICATION Spec
CONSTANTS
    Keys = {k1, k2, bad}
    Unparseable = {bad}
    Corrupt = {}
    Inserters = {a, b}
    BatchSize = 1
    Parallelism = 2
    MaxRetries = 1
    MaxCrashes = 1
SYMMETRY Symmetry
INVARIANTS
    TypeOK
    FiledOnlyWhenStored
    OneHolder
    InflightIsHeld
    FetchedIsUnfiled
PROPERTIES
    LeavesOnlyWhenFiled
    LedgerSpec
