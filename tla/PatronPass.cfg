\* Two accounts, of which the member pays for two, one or none; every process, two calls at a
\* time; handlers that are dropped, and a change of the pledge or a failure.
SPECIFICATION Spec
CONSTANTS
    Steams = {s1, s2}
    Watched = {s1}
    MaxRows = 2
    Memberships <- UpOrDown
    NULL = NULL
    SlotOverride = NULL
    Requests = {r}
    Tasks = {t}
    Readers = {q}
    MaxCalls = 2
    MaxChanges = 1
    MaxFaults = 1
INVARIANTS
    TypeOK
    CacheIsExact
PROPERTIES
    LimitHoldsAlone
    UserDeletionStands
    SyncRespectsPledge
CONSTRAINT OneDisturbance
